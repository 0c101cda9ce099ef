-------------------------- MODULE ActivityHistory --------------------------
(***************************************************************************)
(* What the archive of user activity promises, without locks, files,       *)
(* uploads, objects or failures: an hour of activity is in the database,   *)
(* a whole month at a time moves to an archive, and an archive goes when   *)
(* its life is over.  A move is one step, so nothing is ever missing, kept *)
(* twice or kept after its account.  ActivityArchive implements this.      *)
(***************************************************************************)
EXTENDS Integers

CONSTANTS
    User,
    MonthLength,    \* hours of a month
    DbRetention,    \* how long the database keeps an hour at least
    ArchiveLife,    \* how long an archive is kept
    RunTimeout,     \* how long a run may take
    MaxClock,       \* bound: hours
    LastActivity    \* bound: hour of the last recorded activity

VARIABLES
    now,
    database,   \* the hours of activity the analytics read
    erased,     \* users whose account was purged
    archives    \* the months that were moved

vars == <<now, database, erased, archives>>

Month(r) == r[2] \div MonthLength

Init == now = 0 /\ database = {} /\ erased = {} /\ archives = {}

Pass ==
    /\ now < MaxClock
    /\ now' = now + 1
    /\ UNCHANGED <<database, erased, archives>>

Log(u) ==
    /\ now <= LastActivity
    /\ u \notin erased
    /\ database' = database \cup {<<u, now>>}
    /\ UNCHANGED <<now, erased, archives>>

\* An account goes with what the database has of it; archives are not searched.
Erase(u) ==
    /\ u \notin erased
    /\ erased' = erased \cup {u}
    /\ database' = {r \in database : r[1] # u}
    /\ UNCHANGED <<now, archives>>

\* All that the database has of a month that is past the retention moves, once;
\* the life of the archive is counted from the start of the run that moves it.
Archive(m, begun) ==
    LET moved == {r \in database : Month(r) = m} IN
    /\ (m + 1) * MonthLength + DbRetention <= now
    /\ moved # {}
    /\ \A a \in archives : a.month # m
    /\ begun \in Nat /\ begun <= now /\ now - begun <= RunTimeout
    /\ database' = database \ moved
    /\ archives' = archives \cup {[month |-> m, rows |-> moved, expires |-> begun + ArchiveLife]}
    /\ UNCHANGED <<now, erased>>

Expire(a) ==
    /\ a.expires <= now
    /\ archives' = archives \ {a}
    /\ UNCHANGED <<now, database, erased>>

Next ==
    \/ Pass
    \/ \E u \in User : Log(u) \/ Erase(u)
    \/ \E m, begun \in 0..now : Archive(m, begun)
    \/ \E a \in archives : Expire(a)

Spec == Init /\ [][Next]_vars
=============================================================================
