SPECIFICATION Spec
CONSTANTS
    Plans <- MCPlans
    IdlePosition = 0
    MaxCtrlC = 1
    Faults = FALSE
INVARIANTS
    StopStaysDark
CHECK_DEADLOCK FALSE
