SPECIFICATION Spec
CONSTANTS
    a = a
    b = b
    c = c
    q1 = q1
    q2 = q2
    Admin = Admin
    User = {a, b}
    Room = {1, 2}
    Request = {q1, q2}
    Grace = 1
    MaxClock = 1
SYMMETRY Symmetry
PROPERTIES OwnerUntilGone GoneOnlyAlone HandedOver PurgeNeedsGrace
CHECK_DEADLOCK FALSE
