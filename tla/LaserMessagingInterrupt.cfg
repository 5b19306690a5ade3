SPECIFICATION RunSpec
CONSTANTS
    NumSteps = 0
    MaxTrigger = 0
    FifoSize = 1
    Connect = FALSE
PROPERTIES
    InterruptEndsRun
CHECK_DEADLOCK FALSE
