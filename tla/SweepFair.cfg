SPECIFICATION FairSpec
CONSTANTS
    Cells = {1, 2}
    RunIds = {r1, r2, r3}
    Execs = {e1, e2}
    None = None
    MaxDeaths = 1
    MaxRequeues = 1
    MaxStalls = 1
    MaxLosses = 1
CHECK_DEADLOCK FALSE
INVARIANTS TypeOK OneRunPerCell  DoneMeansDispatched
PROPERTIES CellsKeepTheirRuns RowContractKept SweepSettles RunsSettle
