SPECIFICATION Spec
CONSTANTS
    a = a
    b = b
    c = c
    q1 = q1
    q2 = q2
    Admin = Admin
    User = {a, b, c}
    Room = {1}
    Request = {q1}
    Grace = 1
    MaxClock = 0
PROPERTIES NoInvisibleOwnersOnly
CHECK_DEADLOCK FALSE
