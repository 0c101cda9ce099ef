-------------------------- MODULE ActivityArchive --------------------------
(***************************************************************************)
(* The monthly archive of user activity.                                   *)
(*                                                                         *)
(* Archiver.RunOnce (internal/activityarchive/archiver.go) moves each      *)
(* month of user_activity_hours that is older than the retention of the    *)
(* database to an object in private storage, records it in                 *)
(* user_activity_archives, deletes archives past their own retention and   *)
(* removes objects no record refers to.  The row, the object and the       *)
(* record live in two stores, so every order of failures is visible.       *)
(*                                                                         *)
(* An activity row is a user and an hour; the clock counts hours.          *)
(*                                                                         *)
(* Definitions whose comment starts with "Wrong:" are faulty variants of   *)
(* the definition they precede; they show that the properties can fail.    *)
(***************************************************************************)
EXTENDS Integers, FiniteSets

CONSTANTS
    User,
    Instance,       \* server processes, each with one Archiver
    NoInstance,     \* nobody holds the lock
    MonthLength,    \* hours of a month
    DbRetention,    \* databaseRetentionDays
    ArchiveLife,    \* archiveRetentionYears
    RunTimeout,     \* Archiver.runTimeout (30 minutes)
    CleanupTime,    \* what RunOnce adds for the cleanup after a timeout (1 minute)
    Grace,          \* orphanGracePeriod (2 hours)
    MaxClock,       \* bound: hours
    LastActivity,   \* bound: hour of the last recorded activity
    MaxObjects,     \* bound: uploads
    MaxFaults       \* bound: failures

ASSUME ArchiveAssumption ==
    /\ NoInstance \notin Instance
    /\ MonthLength \in Nat \ {0}
    /\ DbRetention \in Nat
    /\ ArchiveLife \in Nat
    /\ RunTimeout \in Nat
    /\ CleanupTime \in Nat
    /\ Grace \in Nat
    /\ Grace > RunTimeout
    /\ MaxClock \in Nat
    /\ LastActivity \in 0..MaxClock
    /\ MaxObjects \in Nat
    /\ MaxFaults \in Nat
    /\ IsFiniteSet(User)

VARIABLES
    clock,
    rows,       \* user_activity_hours
    erased,     \* users whose account was purged
    records,    \* user_activity_archives
    stored,     \* keys of the objects in private storage
    body,       \* what each object holds
    storedAt,   \* LastModified of each object
    issued,     \* keys issued so far
    lock,       \* GET_LOCK(activityArchiveLockName)
    pc,         \* the next step of each RunOnce
    started,    \* its now
    month,      \* the month it archives
    file,       \* the rows in its local archive file
    key,        \* the object it uploaded
    expired,    \* records it still has to delete
    orphans,    \* objects cleanupOrphans still has to look at
    faults,
    recorded,   \* history variable: every row ever recorded
    purged,     \* history variable: rows deleted with their account
    retired     \* history variable: rows of archives past their life

vars == <<clock, rows, erased, records, stored, body, storedAt, issued, lock, pc, started, month,
          file, key, expired, orphans, faults, recorded, purged, retired>>
runVars == <<started, month, file, key, expired, orphans>>
objVars == <<stored, body, storedAt, issued>>
dbVars  == <<rows, erased, records, recorded, purged, retired>>

Hour == 0..MaxClock
Row  == User \X Hour
Key  == 1..MaxObjects

\* Wrong: the month before.
MonthBefore(r) == (r[2] \div MonthLength) - 1

\* The month of a row, and the first hour after a month.
MonthOf(r)  == r[2] \div MonthLength
MonthEnd(m) == (m + 1) * MonthLength

Record == [month : Nat, key : Key, expires : Nat]

Working  == {"scan", "write", "put", "verify", "finalize", "list", "expire", "forget"}
Cleaning == {"cleanup", "orphans", "delete"}
Step     == {"idle", "release"} \cup Working \cup Cleaning

TypeOK ==
    /\ clock \in 0..MaxClock
    /\ rows \subseteq Row
    /\ erased \subseteq User
    /\ records \subseteq Record
    /\ stored \subseteq Key
    /\ body \in [Key -> SUBSET Row]
    /\ storedAt \in [Key -> Nat]
    /\ issued \in 0..MaxObjects
    /\ lock \in Instance \cup {NoInstance}
    /\ pc \in [Instance -> Step]
    /\ started \in [Instance -> Nat]
    /\ month \in [Instance -> Nat]
    /\ file \in [Instance -> SUBSET Row]
    /\ key \in [Instance -> 0..MaxObjects]
    /\ expired \in [Instance -> SUBSET Record]
    /\ orphans \in [Instance -> SUBSET Key]
    /\ faults \in 0..MaxFaults
    /\ recorded \subseteq Row
    /\ purged \subseteq Row
    /\ retired \subseteq Row

Init ==
    /\ clock = 0
    /\ rows = {}
    /\ erased = {}
    /\ records = {}
    /\ stored = {}
    /\ body = [k \in Key |-> {}]
    /\ storedAt = [k \in Key |-> 0]
    /\ issued = 0
    /\ lock = NoInstance
    /\ pc = [i \in Instance |-> "idle"]
    /\ started = [i \in Instance |-> 0]
    /\ month = [i \in Instance |-> 0]
    /\ file = [i \in Instance |-> {}]
    /\ key = [i \in Instance |-> 0]
    /\ expired = [i \in Instance |-> {}]
    /\ orphans = [i \in Instance |-> {}]
    /\ faults = 0
    /\ recorded = {}
    /\ purged = {}
    /\ retired = {}

Fault == faults < MaxFaults /\ faults' = faults + 1
GoTo(i, step) == pc' = [pc EXCEPT ![i] = step]

\* Wrong: the lock is not released.
ReturnKeepsLock(i) ==
    /\ pc' = [pc EXCEPT ![i] = "idle"]
    /\ started' = [started EXCEPT ![i] = 0]
    /\ month' = [month EXCEPT ![i] = 0]
    /\ file' = [file EXCEPT ![i] = {}]
    /\ key' = [key EXCEPT ![i] = 0]
    /\ expired' = [expired EXCEPT ![i] = {}]
    /\ orphans' = [orphans EXCEPT ![i] = {}]
    /\ UNCHANGED lock

\* RunOnce returns: its local variables are gone.
Return(i) ==
    /\ pc' = [pc EXCEPT ![i] = "idle"]
    /\ lock' = IF lock = i THEN NoInstance ELSE lock
    /\ started' = [started EXCEPT ![i] = 0]
    /\ month' = [month EXCEPT ![i] = 0]
    /\ file' = [file EXCEPT ![i] = {}]
    /\ key' = [key EXCEPT ![i] = 0]
    /\ expired' = [expired EXCEPT ![i] = {}]
    /\ orphans' = [orphans EXCEPT ![i] = {}]

\* A call of run i reaches its store only before the run's deadline.
InTime(i) == clock - started[i] <= RunTimeout

\* cleanupOrphans is given CleanupTime more.
CleanupInTime(i) == clock - started[i] <= RunTimeout + CleanupTime
-----------------------------------------------------------------------------
(* The rest of the system. *)

\* LogActivityHour: INSERT IGNORE, only for a user who has an account.
LogActivityHour(u) ==
    /\ clock <= LastActivity
    /\ u \notin erased
    /\ rows' = rows \cup {<<u, clock>>}
    /\ recorded' = recorded \cup {<<u, clock>>}
    /\ UNCHANGED <<clock, erased, records, objVars, lock, pc, runVars, faults, purged, retired>>

\* The purge of an account: DeleteActivityHistory in the purging transaction.
DeleteActivityHistory(u) ==
    LET gone == {r \in rows : r[1] = u} IN
    /\ u \notin erased
    /\ erased' = erased \cup {u}
    /\ rows' = rows \ gone
    /\ purged' = purged \cup gone
    /\ UNCHANGED <<clock, records, objVars, lock, pc, runVars, faults, recorded, retired>>

Tick ==
    /\ clock < MaxClock
    /\ clock' = clock + 1
    /\ UNCHANGED <<dbVars, objVars, lock, pc, runVars, faults>>
-----------------------------------------------------------------------------
(* Archiver.RunOnce. *)

\* AcquireLock with a timeout of 0; a run that does not get it ends at once.
AcquireLock(i) ==
    /\ pc[i] = "idle"
    /\ lock = NoInstance
    /\ lock' = i
    /\ started' = [started EXCEPT ![i] = clock]
    /\ GoTo(i, "scan")
    /\ UNCHANGED <<clock, dbVars, objVars, month, file, key, expired, orphans, faults>>

\* Wrong: archives a month that is not over for the database.
WholeMonthAnyway(m, cutoff) == m * MonthLength < cutoff

\* The month is older than the cutoff as a whole.
WholeMonth(m, cutoff) == MonthEnd(m) <= cutoff

\* OldestActivityHourBefore(cutoff): the month of the oldest row is next, if all
\* of it is older than the cutoff.
Scan(i) ==
    LET cutoff == started[i] - DbRetention
        old == {r \in rows : r[2] < cutoff}
    IN
    /\ pc[i] = "scan"
    /\ InTime(i)
    /\ \/ \E r \in old : /\ \A o \in old : r[2] <= o[2]
                         /\ WholeMonth(MonthOf(r), cutoff)
                         /\ month' = [month EXCEPT ![i] = MonthOf(r)]
                         /\ GoTo(i, "write")
       \/ /\ \A r \in old : (\A o \in old : r[2] <= o[2]) => ~WholeMonth(MonthOf(r), cutoff)
          /\ GoTo(i, "list")
          /\ UNCHANGED month
    /\ UNCHANGED <<clock, dbVars, objVars, lock, started, file, key, expired, orphans, faults>>

\* writeArchiveFile: the rows of the month as one query sees them.  A month that
\* has become empty is an error.
WriteArchiveFile(i) ==
    LET of == {r \in rows : MonthOf(r) = month[i]} IN
    /\ pc[i] = "write"
    /\ InTime(i)
    /\ file' = [file EXCEPT ![i] = of]
    /\ GoTo(i, IF of = {} THEN "cleanup" ELSE "put")
    /\ UNCHANGED <<clock, dbVars, objVars, lock, started, month, key, expired, orphans, faults>>

\* PutPrivateObject under a new key.  What arrives may be damaged, and a call
\* that fails may have stored the object all the same.
PutPrivateObject(i, intact, ok) ==
    /\ pc[i] = "put"
    /\ InTime(i)
    /\ issued < MaxObjects
    /\ IF intact /\ ok THEN UNCHANGED faults ELSE Fault
    /\ issued' = issued + 1
    /\ stored' = stored \cup {issued'}
    /\ body' = [body EXCEPT ![issued'] = IF intact THEN file[i] ELSE {}]
    /\ storedAt' = [storedAt EXCEPT ![issued'] = clock]
    /\ key' = [key EXCEPT ![i] = issued']
    /\ GoTo(i, IF ok THEN "verify" ELSE "cleanup")
    /\ UNCHANGED <<clock, dbVars, lock, started, month, file, expired, orphans>>

\* Wrong: trusts the upload.
VerifiedBlindly(i) == key[i] \in stored

\* What the object holds is what the local file holds.
Verified(i) == key[i] \in stored /\ body[key[i]] = file[i]

\* verifyPrivateObject reads the object back.
VerifyPrivateObject(i) ==
    /\ pc[i] = "verify"
    /\ InTime(i)
    /\ GoTo(i, IF Verified(i) THEN "finalize" ELSE "cleanup")
    /\ UNCHANGED <<clock, dbVars, objVars, lock, runVars, faults>>

\* Wrong: does not compare the count.
CountMatchesAlways(i, gone) == TRUE

\* deleted = archive.RowCount.
CountMatches(i, gone) == Cardinality(gone) = Cardinality(file[i])

\* FinalizeActivityArchive, one transaction: the rows go and the record comes, or
\* neither.  archive_month is the primary key.
FinalizeActivityArchive(i) ==
    LET gone == {r \in rows : MonthOf(r) = month[i]}
        ok == /\ CountMatches(i, gone)
              /\ \A rec \in records : rec.month # month[i]
    IN
    /\ pc[i] = "finalize"
    /\ InTime(i)
    /\ \/ /\ ok
          /\ rows' = rows \ gone
          /\ records' = records \cup {[month |-> month[i], key |-> key[i],
                                       expires |-> started[i] + ArchiveLife]}
          /\ GoTo(i, "scan")
       \/ ~ok /\ GoTo(i, "cleanup") /\ UNCHANGED <<rows, records>>
    /\ UNCHANGED <<clock, erased, recorded, purged, retired, objVars, lock, runVars, faults>>

\* ListExpiredActivityArchives.
ListExpired(i) ==
    /\ pc[i] = "list"
    /\ InTime(i)
    /\ expired' = [expired EXCEPT ![i] = {rec \in records : rec.expires <= started[i]}]
    /\ GoTo(i, "expire")
    /\ UNCHANGED <<clock, dbVars, objVars, lock, started, month, file, key, orphans, faults>>

\* The object first, then its record.
DeleteExpiredObject(i) ==
    /\ pc[i] = "expire"
    /\ \/ /\ expired[i] = {}
          /\ GoTo(i, "cleanup")
          /\ UNCHANGED stored
       \/ /\ InTime(i)
          /\ \E rec \in expired[i] : /\ \A o \in expired[i] : rec.month <= o.month
                                     /\ stored' = stored \ {rec.key}
          /\ GoTo(i, "forget")
    /\ UNCHANGED <<clock, dbVars, body, storedAt, issued, lock, runVars, faults>>

\* DeleteActivityArchiveRecord, by month.
DeleteArchiveRecord(i) ==
    /\ pc[i] = "forget"
    /\ InTime(i)
    /\ \E rec \in expired[i] :
          /\ \A o \in expired[i] : rec.month <= o.month
          /\ records' = {o \in records : o.month # rec.month}
          /\ retired' = retired \cup {r \in Row : \E o \in records :
                 o.month = rec.month /\ o.expires <= clock /\ r \in body[o.key]}
          /\ expired' = [expired EXCEPT ![i] = @ \ {rec}]
    /\ GoTo(i, "expire")
    /\ UNCHANGED <<clock, rows, erased, recorded, purged, objVars, lock, started, month, file, key,
                   orphans, faults>>
-----------------------------------------------------------------------------
(* cleanupOrphans, deferred: it runs however RunOnce ends. *)

\* Wrong: no grace period.
OldEnoughAnyway(i, k) == TRUE

\* Wrong: the grace period counts twice.
OldEnoughTwice(i, k) == started[i] - storedAt[k] >= Grace + Grace

\* now.Sub(object.LastModified) >= orphanGracePeriod, with the run's now.
OldEnough(i, k) == started[i] - storedAt[k] >= Grace

\* ListPrivateObjects.
ListOrphans(i) ==
    /\ pc[i] = "cleanup"
    /\ CleanupInTime(i)
    /\ orphans' = [orphans EXCEPT ![i] = {k \in stored : OldEnough(i, k)}]
    /\ GoTo(i, "orphans")
    /\ UNCHANGED <<clock, dbVars, objVars, lock, started, month, file, key, expired, faults>>

Referenced(k) == \E rec \in records : rec.key = k

\* IsActivityArchiveObjectReferenced for the next object of the list.
CheckOrphan(i) ==
    /\ pc[i] = "orphans"
    /\ \/ /\ orphans[i] = {}
          /\ GoTo(i, "release")
          /\ UNCHANGED <<key, orphans>>
       \/ /\ CleanupInTime(i)
          /\ \E k \in orphans[i] :
                /\ \A o \in orphans[i] : k <= o
                /\ orphans' = [orphans EXCEPT ![i] = @ \ {k}]
                /\ key' = [key EXCEPT ![i] = k]
                /\ GoTo(i, IF Referenced(k) THEN "orphans" ELSE "delete")
    /\ UNCHANGED <<clock, dbVars, objVars, lock, started, month, file, expired, faults>>

\* DeletePrivateObject of the object just found unreferenced.
DeleteOrphan(i) ==
    /\ pc[i] = "delete"
    /\ CleanupInTime(i)
    /\ stored' = stored \ {key[i]}
    /\ GoTo(i, "orphans")
    /\ UNCHANGED <<clock, dbVars, body, storedAt, issued, lock, runVars, faults>>

\* The deferred release: RELEASE_LOCK works only for the connection that holds it.
Release(i) ==
    /\ pc[i] = "release"
    /\ Return(i)
    /\ UNCHANGED <<clock, dbVars, objVars, faults>>
-----------------------------------------------------------------------------
(* Failures. *)

\* A call fails; RunOnce returns, through cleanupOrphans.
StepFails(i) ==
    /\ Fault
    /\ \/ pc[i] \in Working /\ GoTo(i, "cleanup")
       \/ pc[i] \in Cleaning /\ GoTo(i, "release")
    /\ UNCHANGED <<clock, dbVars, objVars, lock, runVars>>

\* The deadline passes; the next call of the run fails.
DeadlineExceeded(i) ==
    /\ \/ pc[i] \in Working /\ ~InTime(i) /\ GoTo(i, "cleanup")
       \/ pc[i] \in Cleaning /\ ~CleanupInTime(i) /\ GoTo(i, "release")
    /\ UNCHANGED <<clock, dbVars, objVars, lock, runVars, faults>>

\* The connection that holds the lock breaks: MySQL frees the lock, the run goes on.
LoseLock ==
    /\ lock # NoInstance
    /\ Fault
    /\ lock' = NoInstance
    /\ UNCHANGED <<clock, dbVars, objVars, pc, runVars>>

\* The process ends, or its context is cancelled (then cleanupOrphans is skipped).
Stop(i) ==
    /\ pc[i] # "idle"
    /\ Fault
    /\ Return(i)
    /\ UNCHANGED <<clock, dbVars, objVars>>
-----------------------------------------------------------------------------
RunStep(i) ==
    \/ Scan(i)
    \/ WriteArchiveFile(i)
    \/ \E intact, ok \in BOOLEAN : PutPrivateObject(i, intact, ok)
    \/ VerifyPrivateObject(i)
    \/ FinalizeActivityArchive(i)
    \/ ListExpired(i)
    \/ DeleteExpiredObject(i)
    \/ DeleteArchiveRecord(i)
    \/ ListOrphans(i)
    \/ CheckOrphan(i)
    \/ DeleteOrphan(i)
    \/ Release(i)
    \/ DeadlineExceeded(i)

Next ==
    \/ \E u \in User : LogActivityHour(u) \/ DeleteActivityHistory(u)
    \/ Tick
    \/ \E i \in Instance : AcquireLock(i) \/ RunStep(i) \/ StepFails(i) \/ Stop(i)
    \/ LoseLock

Spec == Init /\ [][Next]_vars

\* Time passes, some instance starts a run whenever it can (Archiver.Run), and a
\* run that was started goes on.
Fairness ==
    /\ WF_vars(Tick)
    /\ WF_vars(\E i \in Instance : AcquireLock(i))
    /\ \A i \in Instance : WF_vars(RunStep(i))

FairSpec == Spec /\ Fairness
-----------------------------------------------------------------------------
(* Properties. *)

\* A recorded archive that has not reached its expiry has its object: no cleanup,
\* not even one of another run that has lost its lock or started much later,
\* deletes an object that is, or is about to be, referenced.  This needs
\* orphanGracePeriod to be longer than Archiver.runTimeout.
RecordsHaveObjects == \A rec \in records : rec.key \in stored \/ rec.expires <= clock

\* The rows in archives that records refer to.
Archived == {r \in Row : \E rec \in records : r \in body[rec.key]}

\* No activity is lost on the way from the database to storage, whatever fails:
\* every row ever recorded is still in the database or in a recorded archive,
\* unless its account was purged or its archive reached its expiry.
NoRowLost == recorded \subseteq rows \cup Archived \cup purged \cup retired

\* A row is in one place only: an archived row is neither in the database (it
\* would be archived again) nor one of a purged account's rows, and no row is in
\* two archives.  The count FinalizeActivityArchive compares is what ensures it.
OnePlace ==
    /\ Archived \cap (rows \cup purged) = {}
    /\ \A a, b \in records : a # b => body[a.key] \cap body[b.key] = {}

\* What the analytics queries read stays in the database: a row leaves it only
\* with its account or when it is older than the database's retention, although
\* whole months are archived.
RecentStaysInDb ==
    {r \in recorded : r[2] + DbRetention >= clock} \subseteq rows \cup purged

\* Each record with the rows of its object.
Archives == {[month |-> rec.month, rows |-> body[rec.key], expires |-> rec.expires] : rec \in records}

History == INSTANCE ActivityHistory WITH now <- clock, database <- rows, archives <- Archives

\* The files, uploads, records and failures of overlapping runs look like one step
\* per month from outside: a whole month past the retention moves at once and
\* complete, an archive goes only at the end of its life, and nothing else happens
\* to a row but the purge of its account (ActivityHistory).
KeepsHistory == History!Spec

\* Rows past the retention of the database leave it, although any run may fail.
OldRowsLeave ==
    \A u \in User, h \in 0..LastActivity :
        (<<u, h>> \in rows /\ MonthEnd(h \div MonthLength) + DbRetention <= clock)
            ~> <<u, h>> \notin rows

\* An object no record refers to is removed in the end.
OrphansGo ==
    \A k \in Key :
        (k \in stored /\ ~Referenced(k) /\ storedAt[k] + Grace <= clock)
            ~> (k \notin stored \/ Referenced(k))
=============================================================================
