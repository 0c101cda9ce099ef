SPECIFICATION FairSpec
CONSTANTS
    NoRun = NoRun
    Run = {r1, r2}
    Instance = {i1, i2}
    LockTTL = 2
    StallTimeout = 1
    MaxReports = 1
    RedisFails = TRUE
INVARIANTS InContactHolds
PROPERTIES OnlyHolderWrites LockIsFreed ShownRunningEnds
CHECK_DEADLOCK FALSE
