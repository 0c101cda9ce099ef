SPECIFICATION Spec
CONSTANTS
    a = a
    b = b
    q1 = q1
    q2 = q2
    User = {a, b}
    Admin = {b}
    Owner = a
    Request = {q1, q2}
    Kind = {"community", "course", "dm"}
    Title = {t}
    t = t
    Main = Main
    Thread = Thread
    None = None
    Gone = Gone
    Idle = Idle
    Hidden = Hidden
    MaxConcurrent = 1
    MaxMessages = 2
    MaxRequests = 3
    MaxFaults = 1
SYMMETRY Symmetry
CHECK_DEADLOCK FALSE
INVARIANTS ShownSettles LookedUpSettles NeverToldTwice MentionedAreTold CardMatchesThread
