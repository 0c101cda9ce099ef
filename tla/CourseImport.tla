---------------------------- MODULE CourseImport ----------------------------
(***************************************************************************)
(* The course import job: one run at a time over all instances.            *)
(*                                                                         *)
(* Tracker.StartRun (internal/courseimport/tracker.go) takes a lock in     *)
(* Redis with SET NX, a token per run and a time to live                   *)
(* (infra/redis/course_import_store.go), runs the job in the background,   *)
(* extends the lock with a heartbeat, gives up on a run that reports no    *)
(* progress, and writes the result only while it still holds the lock.     *)
(*                                                                         *)
(* Time is counted in heartbeat intervals.  A step of the code that does   *)
(* not wait for anything but one Redis call takes less than an interval:   *)
(* Tick waits for it.                                                      *)
(*                                                                         *)
(* Definitions whose comment starts with "Wrong:" are faulty variants of   *)
(* the definition they precede; they show that the properties can fail.    *)
(***************************************************************************)
EXTENDS Naturals, FiniteSets

CONSTANTS
    Run,          \* the runs, each with its own token (uuid)
    NoRun,        \* no token
    Instance,     \* server processes, each with one Tracker
    LockTTL,      \* courseImportLockTTL in heartbeat intervals (15 in the code)
    StallTimeout, \* progressStallTimeout in heartbeat intervals (10 in the code)
    MaxReports,   \* bound: progress reports of one run
    RedisFails    \* whether calls to Redis may fail

ASSUME ImportAssumption ==
    /\ NoRun \notin Run
    /\ LockTTL \in Nat \ {0, 1}   \* TestCourseImportLockOutlivesSeveralHeartbeats
    /\ StallTimeout \in Nat \ {0}
    /\ MaxReports \in Nat
    /\ RedisFails \in BOOLEAN

VARIABLES
    lock,      \* Redis courseimport:running: the token of the holder
    lockAge,   \* intervals since the lock was taken or extended
    shared,    \* Redis courseimport:status
    phase,     \* where StartRun and the goroutine of each run are
    host,      \* the instance a run belongs to
    cancelled, \* the run's context was cancelled by watchdog or heartbeat
    beating,   \* the run's heartbeat goroutine is alive
    beatDue,   \* its ticker has fired in this interval
    quiet,     \* intervals since the run's last progress report
    reports,   \* progress reports so far
    result,    \* what run() returned: TRUE for no error
    local,     \* Tracker.status
    runToken,  \* Tracker.runToken
    mode,      \* of each Tracker
    contact    \* history variable: intervals since the run took or extended its lock

vars == <<lock, lockAge, shared, phase, host, cancelled, beating, beatDue, quiet, reports,
          result, local, runToken, mode, contact>>
runVars == <<cancelled, beating, beatDue, quiet, reports, result, contact>>

Unused    == "unused"     \* StartRun not called
Admitted  == "admitted"   \* past the check of stopping
Locked    == "locked"     \* TryStart: SET NX succeeded, status not saved yet
Saved     == "saved"      \* TryStart returned the token
Active    == "active"     \* run() executes in the background
Returned  == "returned"   \* run() returned, heartbeat and watchdog stopped
Finishing == "finishing"  \* Tracker.status is final, store.Finish is next
Refused   == "refused"    \* StartRun returned an error
Gone      == "gone"       \* over, or its process died
Phase == {Unused, Admitted, Locked, Saved, Active, Returned, Finishing, Refused, Gone}

Status == [run : Run \cup {NoRun}, state : {"IDLE", "RUNNING", "SUCCEEDED", "FAILED"}]
IdleStatus == [run |-> NoRun, state |-> "IDLE"]
Running(r) == [run |-> r, state |-> "RUNNING"]

TypeOK ==
    /\ lock \in Run \cup {NoRun}
    /\ lockAge \in 0..LockTTL
    /\ shared \in Status
    /\ phase \in [Run -> Phase]
    /\ host \in [Run -> Instance]
    /\ cancelled \in [Run -> BOOLEAN]
    /\ beating \in [Run -> BOOLEAN]
    /\ beatDue \in [Run -> BOOLEAN]
    /\ quiet \in [Run -> 0..StallTimeout]
    /\ reports \in [Run -> 0..MaxReports]
    /\ result \in [Run -> BOOLEAN]
    /\ local \in [Instance -> Status]
    /\ runToken \in [Instance -> Run \cup {NoRun}]
    /\ mode \in [Instance -> {"up", "stopping", "stopped"}]
    /\ contact \in [Run -> 0..LockTTL]

Init ==
    /\ lock = NoRun
    /\ lockAge = 0
    /\ shared = IdleStatus
    /\ phase = [r \in Run |-> Unused]
    /\ host \in [Run -> Instance]
    /\ cancelled = [r \in Run |-> FALSE]
    /\ beating = [r \in Run |-> FALSE]
    /\ beatDue = [r \in Run |-> FALSE]
    /\ quiet = [r \in Run |-> 0]
    /\ reports = [r \in Run |-> 0]
    /\ result = [r \in Run |-> FALSE]
    /\ local = [i \in Instance |-> IdleStatus]
    /\ runToken = [i \in Instance |-> NoRun]
    /\ mode = [i \in Instance |-> "up"]
    /\ contact = [r \in Run |-> 0]

\* The Tracker's context t.ctx: Shutdown cancels it, and a Redis call that uses
\* it then fails without reaching Redis.
CtxAlive(i) == mode[i] = "up"
-----------------------------------------------------------------------------
(* Tracker.StartRun. *)

\* The check of t.stopping, under t.mu, which is then released.
Admit(r) ==
    /\ phase[r] = Unused
    /\ mode[host[r]] = "up"
    /\ phase' = [phase EXCEPT ![r] = Admitted]
    /\ UNCHANGED <<lock, lockAge, shared, host, runVars, local, runToken, mode>>

\* TryStart: SET NX with the time to live.
TakeLock(r) ==
    /\ phase[r] = Admitted
    /\ CtxAlive(host[r])
    /\ lock = NoRun
    /\ lock' = r
    /\ lockAge' = 0
    /\ contact' = [contact EXCEPT ![r] = 0]
    /\ phase' = [phase EXCEPT ![r] = Locked]
    /\ UNCHANGED <<shared, host, cancelled, beating, beatDue, quiet, reports, result, local,
                   runToken, mode>>

\* TryStart: the lock is taken, or the call failed.  StartRun answers Conflict.
LockRefused(r) ==
    /\ phase[r] = Admitted
    /\ lock # NoRun \/ ~CtxAlive(host[r]) \/ RedisFails
    /\ phase' = [phase EXCEPT ![r] = Refused]
    /\ UNCHANGED <<lock, lockAge, shared, host, runVars, local, runToken, mode>>

\* TryStart: save, a SET without a condition.
SaveRunning(r) ==
    /\ phase[r] = Locked
    /\ CtxAlive(host[r])
    /\ shared' = Running(r)
    /\ phase' = [phase EXCEPT ![r] = Saved]
    /\ UNCHANGED <<lock, lockAge, host, runVars, local, runToken, mode>>

\* TryStart: save failed; releaseScript runs on the same context, and its error
\* is dropped.
SaveFails(r, released) ==
    /\ phase[r] = Locked
    /\ ~CtxAlive(host[r]) \/ RedisFails
    /\ released => CtxAlive(host[r])
    /\ lock' = IF released /\ lock = r THEN NoRun ELSE lock
    /\ phase' = [phase EXCEPT ![r] = Refused]
    /\ UNCHANGED <<lockAge, shared, host, runVars, local, runToken, mode>>

\* The rest of StartRun: the Tracker now follows run r, the goroutine starts.
Register(r) ==
    /\ phase[r] = Saved
    /\ local' = [local EXCEPT ![host[r]] = Running(r)]
    /\ runToken' = [runToken EXCEPT ![host[r]] = r]
    /\ phase' = [phase EXCEPT ![r] = Active]
    /\ beating' = [beating EXCEPT ![r] = TRUE]
    /\ UNCHANGED <<lock, lockAge, shared, host, cancelled, beatDue, quiet, reports, result,
                   mode, contact>>
-----------------------------------------------------------------------------
(* The background goroutines of a run. *)

\* Wrong: extends the lock whoever holds it.
ExtendAny(r) ==
    /\ lockAge' = 0
    /\ contact' = [contact EXCEPT ![r] = 0]

\* PEXPIRE by the holder.
Extend(r) ==
    /\ lockAge' = IF lock = r THEN 0 ELSE lockAge
    /\ contact' = IF lock = r THEN [contact EXCEPT ![r] = 0] ELSE contact

\* The ticker fires and courseImportHeartbeatScript answers.  A run that has lost
\* the lock is cancelled and its heartbeat ends.
Heartbeat(r) ==
    /\ phase[r] = Active
    /\ beating[r] /\ beatDue[r]
    /\ CtxAlive(host[r])
    /\ Extend(r)
    /\ beatDue' = [beatDue EXCEPT ![r] = FALSE]
    /\ cancelled' = [cancelled EXCEPT ![r] = @ \/ lock # r]
    /\ beating' = [beating EXCEPT ![r] = lock = r]
    /\ UNCHANGED <<lock, shared, phase, host, quiet, reports, result, local, runToken, mode>>

\* The heartbeat call fails: try again at the next tick.
HeartbeatFails(r) ==
    /\ phase[r] = Active
    /\ beating[r] /\ beatDue[r]
    /\ ~CtxAlive(host[r]) \/ RedisFails
    /\ beatDue' = [beatDue EXCEPT ![r] = FALSE]
    /\ UNCHANGED <<lock, lockAge, shared, phase, host, cancelled, beating, quiet, reports,
                   result, local, runToken, mode, contact>>

\* Wrong: courseImportUpdateScript writes whoever holds the lock.
UpdateUnguarded(r) ==
    /\ shared' = Running(r)
    /\ Extend(r)

\* courseImportUpdateScript.
Update(r) ==
    /\ shared' = IF lock = r THEN Running(r) ELSE shared
    /\ Extend(r)

\* reportProgress: the watchdog is reset; setProgress writes only for the run
\* the Tracker follows, and only if the call reaches Redis.
ReportProgress(r, reached) ==
    /\ phase[r] = Active
    /\ reports[r] < MaxReports
    /\ reports' = [reports EXCEPT ![r] = @ + 1]
    /\ quiet' = [quiet EXCEPT ![r] = 0]
    /\ reached => CtxAlive(host[r])
    /\ ~reached => ~CtxAlive(host[r]) \/ RedisFails
    /\ IF reached /\ runToken[host[r]] = r /\ local[host[r]].state = "RUNNING"
       THEN Update(r)
       ELSE UNCHANGED <<lockAge, shared, contact>>
    /\ UNCHANGED <<lock, phase, host, cancelled, beating, beatDue, result, local, runToken, mode>>

\* Wrong: the heartbeat does not notice the stall.
StallKeepsBeating(r) ==
    /\ phase[r] = Active
    /\ quiet[r] = StallTimeout
    /\ ~cancelled[r]
    /\ cancelled' = [cancelled EXCEPT ![r] = TRUE]
    /\ UNCHANGED <<lock, lockAge, shared, phase, host, beating, beatDue, quiet, reports, result,
                   local, runToken, mode, contact>>

\* The watchdog: no progress for progressStallTimeout.  The run is cancelled and
\* the heartbeat ends; run() itself may go on until it notices, or hang.
Stall(r) ==
    /\ phase[r] = Active
    /\ quiet[r] = StallTimeout
    /\ ~cancelled[r]
    /\ cancelled' = [cancelled EXCEPT ![r] = TRUE]
    /\ beating' = [beating EXCEPT ![r] = FALSE]
    /\ beatDue' = [beatDue EXCEPT ![r] = FALSE]
    /\ UNCHANGED <<lock, lockAge, shared, phase, host, quiet, reports, result, local, runToken,
                   mode, contact>>

\* run() returns.  An error that only the context carries counts as one.
Return(r, ok) ==
    /\ phase[r] = Active
    /\ phase' = [phase EXCEPT ![r] = Returned]
    /\ result' = [result EXCEPT ![r] = ok /\ ~cancelled[r] /\ CtxAlive(host[r])]
    /\ beating' = [beating EXCEPT ![r] = FALSE]
    /\ beatDue' = [beatDue EXCEPT ![r] = FALSE]
    /\ UNCHANGED <<lock, lockAge, shared, host, cancelled, quiet, reports, local, runToken, mode,
                   contact>>

Final(r) == [run |-> r, state |-> IF result[r] THEN "SUCCEEDED" ELSE "FAILED"]

\* Wrong: an older run of the same instance overwrites the newer one's status.
ConcludeAlways(r) ==
    /\ phase[r] = Returned
    /\ phase' = [phase EXCEPT ![r] = Finishing]
    /\ local' = [local EXCEPT ![host[r]] = Final(r)]
    /\ UNCHANGED <<lock, lockAge, shared, host, runVars, runToken, mode>>

\* The end of the goroutine, under t.mu: a run the Tracker no longer follows
\* drops its result.
Conclude(r) ==
    /\ phase[r] = Returned
    /\ \/ /\ runToken[host[r]] # r
          /\ phase' = [phase EXCEPT ![r] = Gone]
          /\ UNCHANGED <<local, runToken>>
       \/ /\ runToken[host[r]] = r
          /\ phase' = [phase EXCEPT ![r] = Finishing]
          /\ local' = [local EXCEPT ![host[r]] = Final(r)]
          /\ runToken' = [runToken EXCEPT ![host[r]] = NoRun]
    /\ UNCHANGED <<lock, lockAge, shared, host, runVars, mode>>

\* Wrong: saves and releases whoever holds the lock.
FinishUnguarded(r) ==
    /\ phase[r] = Finishing
    /\ phase' = [phase EXCEPT ![r] = Gone]
    /\ shared' = Final(r)
    /\ lock' = IF lock = r THEN NoRun ELSE lock
    /\ UNCHANGED <<lockAge, host, runVars, local, runToken, mode>>

\* courseImportFinishScript, on a context that Shutdown does not cancel.
Finish(r) ==
    /\ phase[r] = Finishing
    /\ phase' = [phase EXCEPT ![r] = Gone]
    /\ shared' = IF lock = r THEN Final(r) ELSE shared
    /\ lock' = IF lock = r THEN NoRun ELSE lock
    /\ UNCHANGED <<lockAge, host, runVars, local, runToken, mode>>

\* store.Finish fails: only the time to live frees the lock.
FinishFails(r) ==
    /\ phase[r] = Finishing
    /\ RedisFails
    /\ phase' = [phase EXCEPT ![r] = Gone]
    /\ UNCHANGED <<lock, lockAge, shared, host, runVars, local, runToken, mode>>
-----------------------------------------------------------------------------
(* Instances and time. *)

\* The runs jobs.Wait waits for: jobs.Add(1) is part of Register.
Jobs(i) == {r \in Run : host[r] = i /\ phase[r] \in {Active, Returned, Finishing}}

\* Tracker.Shutdown: stopping is set and t.ctx cancelled.
Shutdown(i) ==
    /\ mode[i] = "up"
    /\ mode' = [mode EXCEPT ![i] = "stopping"]
    /\ UNCHANGED <<lock, lockAge, shared, phase, host, runVars, local, runToken>>

\* jobs.Wait returns and Shutdown answers nil.
ShutdownReturns(i) ==
    /\ mode[i] = "stopping"
    /\ Jobs(i) = {}
    /\ mode' = [mode EXCEPT ![i] = "stopped"]
    /\ UNCHANGED <<lock, lockAge, shared, phase, host, runVars, local, runToken>>

\* The process ends, by a crash or after Shutdown, and another takes its place
\* with a new Tracker.
Restart(i) ==
    /\ phase' = [r \in Run |-> IF host[r] = i /\ phase[r] \notin {Unused, Refused}
                               THEN Gone ELSE phase[r]]
    /\ beating' = [r \in Run |-> IF host[r] = i THEN FALSE ELSE beating[r]]
    /\ beatDue' = [r \in Run |-> IF host[r] = i THEN FALSE ELSE beatDue[r]]
    /\ local' = [local EXCEPT ![i] = IdleStatus]
    /\ runToken' = [runToken EXCEPT ![i] = NoRun]
    /\ mode' = [mode EXCEPT ![i] = "up"]
    /\ UNCHANGED <<lock, lockAge, shared, host, cancelled, quiet, reports, result, contact>>

\* No run is between two steps that follow each other at once, every ticker
\* that fired was served and no watchdog is due.
Settled ==
    \A r \in Run : /\ phase[r] \in {Unused, Active, Refused, Gone}
                   /\ ~beatDue[r]
                   /\ phase[r] = Active /\ quiet[r] = StallTimeout => cancelled[r]

\* Wrong: the lock is taken without a time to live.
TickNoExpiry ==
    /\ Settled
    /\ lockAge' = IF lock # NoRun THEN lockAge + 1 ELSE 0
    /\ contact' = [r \in Run |-> IF phase[r] = Active /\ contact[r] < LockTTL
                                 THEN contact[r] + 1 ELSE contact[r]]
    /\ beatDue' = [r \in Run |-> phase[r] = Active /\ beating[r]]
    /\ quiet' = [r \in Run |-> IF phase[r] = Active /\ quiet[r] < StallTimeout
                               THEN quiet[r] + 1 ELSE quiet[r]]
    /\ UNCHANGED <<lock, shared, phase, host, cancelled, beating, reports, result, local,
                   runToken, mode>>

\* One heartbeat interval passes; Redis drops a lock at the end of its life.
Tick ==
    /\ Settled
    /\ IF lock # NoRun /\ lockAge + 1 < LockTTL
       THEN lockAge' = lockAge + 1 /\ UNCHANGED lock
       ELSE lockAge' = 0 /\ lock' = NoRun
    /\ contact' = [r \in Run |-> IF phase[r] = Active /\ contact[r] < LockTTL
                                 THEN contact[r] + 1 ELSE contact[r]]
    /\ beatDue' = [r \in Run |-> phase[r] = Active /\ beating[r]]
    /\ quiet' = [r \in Run |-> IF phase[r] = Active /\ quiet[r] < StallTimeout
                               THEN quiet[r] + 1 ELSE quiet[r]]
    /\ UNCHANGED <<shared, phase, host, cancelled, beating, reports, result, local, runToken, mode>>

\* Wrong: believes the record.
LoadAsRecorded == shared

\* CourseImportStore.Load: a record that says RUNNING while nobody holds the lock
\* is shown as a failure.
Load == IF shared.state = "RUNNING" /\ lock = NoRun
        THEN [run |-> shared.run, state |-> "FAILED"] ELSE shared
-----------------------------------------------------------------------------
Next ==
    \/ \E r \in Run : \/ Admit(r)
                      \/ TakeLock(r)
                      \/ LockRefused(r)
                      \/ SaveRunning(r)
                      \/ \E released \in BOOLEAN : SaveFails(r, released)
                      \/ Register(r)
                      \/ Heartbeat(r)
                      \/ HeartbeatFails(r)
                      \/ \E reached \in BOOLEAN : ReportProgress(r, reached)
                      \/ Stall(r)
                      \/ \E ok \in BOOLEAN : Return(r, ok)
                      \/ Conclude(r)
                      \/ Finish(r)
                      \/ FinishFails(r)
    \/ \E i \in Instance : Shutdown(i) \/ ShutdownReturns(i) \/ Restart(i)
    \/ Tick

Spec == Init /\ [][Next]_vars

\* Goroutines that are ready run, and time passes.  Nothing is assumed of run()
\* itself (it may hang), nor of the operator (no import need be started).
Fairness ==
    /\ WF_vars(Tick)
    /\ \A r \in Run :
          /\ WF_vars(TakeLock(r) \/ LockRefused(r))
          /\ WF_vars(SaveRunning(r) \/ \E released \in BOOLEAN : SaveFails(r, released))
          /\ WF_vars(Register(r))
          /\ WF_vars(Heartbeat(r) \/ HeartbeatFails(r))
          /\ WF_vars(Stall(r))
          /\ WF_vars(Conclude(r))
          /\ WF_vars(Finish(r) \/ FinishFails(r))

FairSpec == Spec /\ Fairness
-----------------------------------------------------------------------------
(* Properties. *)

\* A run that took or extended its lock less than a time to live ago still has
\* it.  So of two runs that execute at the same time at least one has been out
\* of contact with Redis, or was given up by its watchdog, for a whole
\* courseImportLockTTL: no lost heartbeat or two, no crash, no restart and no
\* late answer lets a second import start beside a healthy one.
InContactHolds ==
    \A r \in Run : (phase[r] \in {Locked, Saved, Active} /\ contact[r] < LockTTL) =>
        lock = r /\ lockAge = contact[r]

\* The shared status is the holder's from the moment TryStart saved it until the
\* holder itself writes its result, whatever late reports, results and releases
\* of earlier runs arrive.
StatusIsHolders ==
    \A r \in Run : (lock = r /\ phase[r] \in {Saved, Active, Returned, Finishing}) =>
        shared = Running(r)

\* A Tracker that follows a run shows that run, although an older run of the
\* same instance may still be executing and finish later.
TrackerShowsItsRun ==
    \A i \in Instance : runToken[i] # NoRun =>
        /\ local[i] = Running(runToken[i])
        /\ host[runToken[i]] = i
        /\ phase[runToken[i]] \in {Active, Returned}

\* Only the holder of the lock changes the shared status.
OnlyHolderWrites == [][shared' # shared => lock = shared'.run]_vars

\* No run keeps the lock for good: not one whose process died, not one that
\* hangs without returning, not one that failed to release it.
LockIsFreed == \A r \in Run : lock = r ~> lock # r

\* The admin page does not show a run as RUNNING for good, although the record is
\* never cleared: the run's end, its watchdog or the death of its process ends it.
ShownRunningEnds == \A r \in Run : Load = Running(r) ~> Load # Running(r)

=============================================================================
