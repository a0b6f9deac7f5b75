SPECIFICATION Spec
SYMMETRY JobSymmetry
CONSTANTS
    Jobs = {j1, j2}
    Execs = {e1, e2}
    None = None
    MaxRequeues = 1
    MaxFaults = 1
CHECK_DEADLOCK FALSE
PROPERTY RemovesOnlyItsOwn
