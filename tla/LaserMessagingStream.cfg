SPECIFICATION Spec
CONSTANTS
    NumSteps = 0
    MaxTrigger = 2
    FifoSize = 1
    Connect = TRUE
INVARIANTS
    TypeOK
    StreamFollowsFile
CHECK_DEADLOCK FALSE
