SPECIFICATION Spec
CONSTANTS
    Stages = 2
    None = None
    Most <- Copies
CHECK_DEADLOCK FALSE
PROPERTY StagesNeverLost
