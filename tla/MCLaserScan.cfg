SPECIFICATION Spec
CONSTANTS
    Plans <- MCPlans
    IdlePosition = 0
    MaxCtrlC = 1
    Faults = TRUE
INVARIANTS
    TypeOK
    ShotsAnnounced
    ShotsAsPlanned
    DarkWhenDone
PROPERTIES
    RunEnds
CHECK_DEADLOCK FALSE
