SPECIFICATION Spec
CONSTANTS
    Seeds = {1}
    Execs = {e1}
    Requests = {q1, q2}
    Process <- Threads
    None = None
    MaxDeaths = 0
    MaxStalls = 0
    MaxRequeues = 0
CHECK_DEADLOCK FALSE
INVARIANT ReaderSeesWhole
