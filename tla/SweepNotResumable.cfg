SPECIFICATION Spec
SYMMETRY IdSymmetry
CONSTANTS
    Cells = {1, 2}
    RunIds = {r1, r2}
    Execs = {e1}
    None = None
    MaxDeaths = 0
    MaxRequeues = 1
    MaxStalls = 0
    MaxLosses = 0
CHECK_DEADLOCK FALSE
INVARIANT FailedSweepCanBeRequeued
