SPECIFICATION FairSpec
CONSTANTS
    Threads = {1, 2}
    MaxCalls = 2
    AppCalls <- MCAppCalls
INVARIANTS TypeOK MasterKnown LateAnswersSkipped
PROPERTIES RefusalReleases CallsReturn
CHECK_DEADLOCK FALSE
