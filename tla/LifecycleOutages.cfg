SPECIFICATION FairSpec
CONSTANTS
    Rows = {r1}
    Workers = {w1, w2}
    Passes = {p1}
    Replicates = 1
    None = None
    MaxKills = 1
    MaxRequeues = 1
    MaxOutages = 1
CHECK_DEADLOCK FALSE
PROPERTIES OutcomeIsTheJobs EveryRowSettles
