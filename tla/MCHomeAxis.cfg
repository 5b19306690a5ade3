SPECIFICATION FairSpec
CONSTANTS
    Configs <- MCConfigs
    Speed = 2
    Range = 4
    End = 6
    MaxRuns = 2
INVARIANTS TypeOK MovesArmed OvershootBounded WorkingSwitchHomes
PROPERTY HomingEnds
\* The last run ends in the scan or with an error.
CHECK_DEADLOCK FALSE
