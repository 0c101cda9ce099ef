SPECIFICATION FairSpec
CONSTANTS
    a = a
    b = b
    i1 = i1
    i2 = i2
    s1 = s1
    s2 = s2
    User = {a}
    Instance = {i1}
    Stream = {s1}
    Owner <- OwnedByA
    Host <- OnOne
    Buffer = 1
    Interval = 1
    MaxPublished = 2
    MaxClock = 2
    MaxChanges = 2
INVARIANTS SignalComesFirst RecheckBounds
PROPERTIES CancelledEnds WarnedEnds HandedArrives
CHECK_DEADLOCK FALSE
