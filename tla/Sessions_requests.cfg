SPECIFICATION Spec
CONSTANTS
    q1 = q1
    q2 = q2
    c1 = c1
    None = None
    Request = {q1, q2}
    Connection = {c1}
    MaxUnavailable = 2
    MaxGrants = 2
    MaxHashes = 2
    MaxVersion = 2
    MaxCodes = 1
    MaxCalls = 4
    MaxExpired = 1
INVARIANTS DeadStaysDead UsedOnce
PROPERTIES WatchEnds
CHECK_DEADLOCK FALSE
