SPECIFICATION Spec
CONSTANTS
    a = a
    b = b
    r1 = r1
    r2 = r2
    d1 = d1
    g1 = g1
    User = {a}
    Author = {a, b}
    Room = {r1, r2}
    CourseRoom = {r2}
    Device = {d1}
    Owner <- AllOfA
    Pager = {g1}
    PagedRoom <- AllInR1
    Limit = 2
    MaxMessages = 5
    MaxClock = 2
INVARIANTS LaterIsUnread CountsAgree PagingMissesOnlyLate
PROPERTIES PositionNeverBack
CONSTRAINT OneAtATime
CHECK_DEADLOCK FALSE
