SPECIFICATION Spec
CONSTANTS
    Stages = 2
    None = None
    Most <- Few
CHECK_DEADLOCK FALSE
INVARIANTS TypeOK SelfDeletedNeverStopped ClaimIsTrue 
PROPERTIES BucketOnlyGains AlwaysDeleted
