SPECIFICATION FairSpec
CONSTANTS
    NEvents = 4
    NBuffers = 2
    UseLaser = TRUE
INVARIANTS TypeOK SlotExclusion FileInOrder HeaderAhead HeaderCount
PROPERTIES RunCompletes StopReleasesThreads
\* The program ends, and waits for ever when the file cannot be opened.
CHECK_DEADLOCK FALSE
