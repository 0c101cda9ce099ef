SPECIFICATION DeliverySpec
CONSTANTS
    u1 = u1
    u2 = u2
    t3 = t3
    NoUser = NoUser
    Owner <- OwnerOf
    User = {u1}
    Tab = {t1}
    Instance = {i1, i2}
    Publisher = {p1, p2}
    HistorySize = 1
    BufferSize = 1
    MaxConnections = 1
    MaxPublished = 2
    MaxFaults = 1
INVARIANTS NothingFallsBetween LiveAtMostOnce
PROPERTIES DeliveryNeverStalls OwedArrives
CHECK_DEADLOCK FALSE
