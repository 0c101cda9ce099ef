SPECIFICATION SyncSpec
CONSTANTS
    u1 = u1
    w1 = w1
    w2 = w2
    mon = mon
    tue = tue
    wed = wed
    thu = thu
    r1 = r1
    r2 = r2
    r3 = r3
    n1 = n1
    n2 = n2
    t1 = t1
    t2 = t2
    ikuta = ikuta
    Idle = Idle
    NoRef = NoRef
    NoName = NoName
    NoSuffix = NoSuffix
    Users = {u1}
    Workers = {w1, w2}
    Syllabi <- ThreeSyllabi
    ManualRows <- OneManual
    Legacy <- OneLegacy
    Terms <- BothTerms
    Year = 2026
    MaxRatioPercent = 50
    MaxSyncs = 2
    MaxEntries = 2
    MaxManualID = 2
INVARIANTS KeysDescribeRows NextSyncFits SyncSettles
PROPERTIES NoNewOverlap UnregistersForAnother
CHECK_DEADLOCK FALSE
SYMMETRY Symmetric
