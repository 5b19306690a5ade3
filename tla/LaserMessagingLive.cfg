SPECIFICATION Spec
CONSTANTS
    NumSteps = 0
    MaxTrigger = 1
    FifoSize = 1
    Connect = FALSE
PROPERTIES
    RequestsAnswered
    EncoderStopsWhileUp
CHECK_DEADLOCK FALSE
