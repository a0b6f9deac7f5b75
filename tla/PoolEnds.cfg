SPECIFICATION FairSpec
CONSTANTS
    Seeds = {1, 2, 3}
    Procs = {p1, p2}
    Timeout = 2
    MaxDeaths = 1
    MaxStuck = 2
    MaxSlow = 1
CHECK_DEADLOCK FALSE
INVARIANTS TypeOK ReturnedIsComplete BudgetSuffices
PROPERTIES NothingOutlivesTheCall AlwaysEnds
