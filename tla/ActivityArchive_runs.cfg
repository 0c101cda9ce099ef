SPECIFICATION FairSpec
CONSTANTS
    NoInstance = NoInstance
    User = {a}
    Instance = {i1, i2}
    MonthLength = 2
    DbRetention = 1
    ArchiveLife = 2
    RunTimeout = 1
    CleanupTime = 1
    Grace = 2
    MaxClock = 5
    LastActivity = 1
    MaxObjects = 3
    MaxFaults = 1
INVARIANTS RecordsHaveObjects
PROPERTIES KeepsHistory OldRowsLeave OrphansGo
CHECK_DEADLOCK FALSE
