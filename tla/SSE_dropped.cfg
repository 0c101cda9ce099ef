SPECIFICATION Spec
CONSTANTS
    u1 = u1
    u2 = u2
    t3 = t3
    NoUser = NoUser
    Owner <- OwnerOf
    User = {u1}
    Tab = {t1}
    Instance = {i1}
    Publisher = {p1}
    HistorySize = 3
    BufferSize = 1
    MaxConnections = 1
    MaxPublished = 4
    MaxFaults = 0
INVARIANTS ReconnectCatchesUp
CHECK_DEADLOCK FALSE
