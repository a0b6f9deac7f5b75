SPECIFICATION Spec
SYMMETRY Symmetry
CONSTANTS
    Seeds = {1, 2}
    Execs = {e1, e2}
    Requests = {q1, q2}
    Process <- Threads
    None = None
    MaxDeaths = 1
    MaxStalls = 1
    MaxRequeues = 1
CHECK_DEADLOCK FALSE
INVARIANTS TypeOK    TornOnlyBetweenThreads 
 
