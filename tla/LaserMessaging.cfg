SPECIFICATION Spec
CONSTANTS
    NumSteps = 1
    MaxTrigger = 2
    FifoSize = 1
    Connect = FALSE
INVARIANTS
    IInv
    AckedIsRecorded
PROPERTIES
    LogIsEventLog
CHECK_DEADLOCK FALSE
