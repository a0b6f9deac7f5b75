SPECIFICATION Spec
SYMMETRY SlotSymmetry
CONSTANTS
    Rows = {r1}
    Workers = {w1, w2}
    Passes = {p1, p2}
    Replicates = 2
    None = None
    MaxKills = 2
    MaxRequeues = 1
    MaxOutages = 0
CHECK_DEADLOCK FALSE
INVARIANTS TypeOK ExclusiveExecution DoneIsComplete FinishedJobsReported
PROPERTIES LiveRowLeftAlone RowContractKept
