SPECIFICATION FairSpec
CONSTANTS
    Jobs = {j1, j2}
    Execs = {e1, e2}
    None = None
    MaxRequeues = 1
    MaxFaults = 2
CHECK_DEADLOCK FALSE
INVARIANTS TypeOK DoneIsInstalled FailureFreesTheName
PROPERTIES RegistryKept CleanUpKeepsOthers NameSettles
