---------------------------- MODULE CourseProofs ----------------------------
(***************************************************************************)
(* What is proved of the course import job (CourseImport) and of the syncs *)
(* and timetables (CourseSync).                                            *)
(*                                                                         *)
(* The import lock: for any number of runs and instances, any time to live *)
(* of at least two heartbeats and any failures of Redis calls.             *)
(*                                                                         *)
(* The sync: for any syllabi, any number of syncs at once, students and    *)
(* decisions of the administrator.                                         *)
(***************************************************************************)
EXTENDS CourseImport, CourseSync, FiniteSetTheorems, WellFoundedInduction, TLAPS

\* TryStart runs within one interval: its lock is fresh.
StartingIsFresh == \A r \in Run : phase[r] \in {Locked, Saved} => contact[r] = 0

\* The inductive invariant.
IInv ==
    /\ TypeOK
    /\ StartingIsFresh
    /\ InContactHolds
    /\ StatusIsHolders
    /\ TrackerShowsItsRun

LEMMA InitIInv == Init => IInv
<1> SUFFICES ASSUME Init PROVE IInv
  OBVIOUS
<1> USE ImportAssumption DEF Unused, Admitted, Locked, Saved, Active, Returned, Finishing
<1>1. TypeOK
  BY DEF Init, TypeOK, Phase, Status, IdleStatus
<1>2. StartingIsFresh /\ InContactHolds /\ StatusIsHolders /\ TrackerShowsItsRun
  BY DEF Init, StartingIsFresh, InContactHolds, StatusIsHolders, TrackerShowsItsRun
<1>3. QED
  BY <1>1, <1>2 DEF IInv

\* The values a status can have.
LEMMA StatusType ==
    /\ IdleStatus \in Status
    /\ \A r \in Run : Running(r) \in Status /\ Final(r) \in Status
BY DEF IdleStatus, Running, Final, Status

LEMMA NextTypeOK ==
    ASSUME TypeOK, [Next]_vars
    PROVE  TypeOK'
<1> USE ImportAssumption, StatusType
    DEF TypeOK, Phase, Unused, Admitted, Locked, Saved, Active, Returned, Finishing,
        Refused, Gone
<1>1. ASSUME NEW r \in Run, Admit(r) PROVE TypeOK'
  BY <1>1 DEF Admit, runVars
<1>2. ASSUME NEW r \in Run, TakeLock(r) PROVE TypeOK'
  BY <1>2 DEF TakeLock, runVars
<1>3. ASSUME NEW r \in Run, LockRefused(r) PROVE TypeOK'
  BY <1>3 DEF LockRefused, runVars
<1>4. ASSUME NEW r \in Run, SaveRunning(r) PROVE TypeOK'
  BY <1>4 DEF SaveRunning, runVars
<1>5. ASSUME NEW r \in Run, NEW released \in BOOLEAN, SaveFails(r, released) PROVE TypeOK'
  BY <1>5 DEF SaveFails, runVars
<1>6. ASSUME NEW r \in Run, Register(r) PROVE TypeOK'
  BY <1>6 DEF Register, runVars
<1>7. ASSUME NEW r \in Run, Heartbeat(r) PROVE TypeOK'
  BY <1>7 DEF Heartbeat, Extend, runVars
<1>8. ASSUME NEW r \in Run, HeartbeatFails(r) PROVE TypeOK'
  BY <1>8 DEF HeartbeatFails, runVars
<1>9. ASSUME NEW r \in Run, NEW reached \in BOOLEAN, ReportProgress(r, reached) PROVE TypeOK'
  BY <1>9 DEF ReportProgress, Update, Extend, runVars
<1>10. ASSUME NEW r \in Run, Stall(r) PROVE TypeOK'
  BY <1>10 DEF Stall, runVars
<1>11. ASSUME NEW r \in Run, NEW ok \in BOOLEAN, Return(r, ok) PROVE TypeOK'
  BY <1>11 DEF Return, runVars
<1>12. ASSUME NEW r \in Run, Conclude(r) PROVE TypeOK'
  BY <1>12 DEF Conclude, runVars
<1>13. ASSUME NEW r \in Run, Finish(r) PROVE TypeOK'
  BY <1>13 DEF Finish, runVars
<1>14. ASSUME NEW r \in Run, FinishFails(r) PROVE TypeOK'
  BY <1>14 DEF FinishFails, runVars
<1>15. ASSUME NEW i \in Instance, Shutdown(i) PROVE TypeOK'
  BY <1>15 DEF Shutdown, runVars
<1>16. ASSUME NEW i \in Instance, ShutdownReturns(i) PROVE TypeOK'
  BY <1>16 DEF ShutdownReturns, runVars
<1>17. ASSUME NEW i \in Instance, Restart(i) PROVE TypeOK'
  BY <1>17 DEF Restart, runVars
<1>18. CASE Tick
  BY <1>18 DEF Tick, Settled, runVars
<1>19. CASE UNCHANGED vars
  BY <1>19 DEF vars
<1>20. QED
  BY <1>1, <1>2, <1>3, <1>4, <1>5, <1>6, <1>7, <1>8, <1>9,
     <1>10, <1>11, <1>12, <1>13, <1>14, <1>15, <1>16, <1>17, <1>18, <1>19 DEF Next

LEMMA NextFresh ==
    ASSUME TypeOK, StartingIsFresh, InContactHolds, [Next]_vars
    PROVE  StartingIsFresh' /\ InContactHolds'
<1> USE ImportAssumption DEF StartingIsFresh, InContactHolds, TypeOK, Phase, Unused,
        Admitted, Locked, Saved, Active, Returned, Finishing, Refused, Gone
<1>1. ASSUME NEW r \in Run, Admit(r) PROVE StartingIsFresh' /\ InContactHolds'
  BY <1>1 DEF Admit, runVars
<1>2. ASSUME NEW r \in Run, TakeLock(r) PROVE StartingIsFresh' /\ InContactHolds'
  BY <1>2 DEF TakeLock, runVars
<1>3. ASSUME NEW r \in Run, LockRefused(r) PROVE StartingIsFresh' /\ InContactHolds'
  BY <1>3 DEF LockRefused, runVars
<1>4. ASSUME NEW r \in Run, SaveRunning(r) PROVE StartingIsFresh' /\ InContactHolds'
  BY <1>4 DEF SaveRunning, runVars
<1>5. ASSUME NEW r \in Run, NEW released \in BOOLEAN, SaveFails(r, released) PROVE StartingIsFresh' /\ InContactHolds'
  BY <1>5 DEF SaveFails, runVars
<1>6. ASSUME NEW r \in Run, Register(r) PROVE StartingIsFresh' /\ InContactHolds'
  BY <1>6 DEF Register, runVars
<1>7. ASSUME NEW r \in Run, Heartbeat(r) PROVE StartingIsFresh' /\ InContactHolds'
  BY <1>7 DEF Heartbeat, Extend, runVars
<1>8. ASSUME NEW r \in Run, HeartbeatFails(r) PROVE StartingIsFresh' /\ InContactHolds'
  BY <1>8 DEF HeartbeatFails, runVars
<1>9. ASSUME NEW r \in Run, NEW reached \in BOOLEAN, ReportProgress(r, reached) PROVE StartingIsFresh' /\ InContactHolds'
  BY <1>9 DEF ReportProgress, Update, Extend, runVars
<1>10. ASSUME NEW r \in Run, Stall(r) PROVE StartingIsFresh' /\ InContactHolds'
  BY <1>10 DEF Stall, runVars
<1>11. ASSUME NEW r \in Run, NEW ok \in BOOLEAN, Return(r, ok) PROVE StartingIsFresh' /\ InContactHolds'
  BY <1>11 DEF Return, runVars
<1>12. ASSUME NEW r \in Run, Conclude(r) PROVE StartingIsFresh' /\ InContactHolds'
  BY <1>12 DEF Conclude, runVars
<1>13. ASSUME NEW r \in Run, Finish(r) PROVE StartingIsFresh' /\ InContactHolds'
  BY <1>13 DEF Finish, runVars
<1>14. ASSUME NEW r \in Run, FinishFails(r) PROVE StartingIsFresh' /\ InContactHolds'
  BY <1>14 DEF FinishFails, runVars
<1>15. ASSUME NEW i \in Instance, Shutdown(i) PROVE StartingIsFresh' /\ InContactHolds'
  BY <1>15 DEF Shutdown, runVars
<1>16. ASSUME NEW i \in Instance, ShutdownReturns(i) PROVE StartingIsFresh' /\ InContactHolds'
  BY <1>16 DEF ShutdownReturns, runVars
<1>17. ASSUME NEW i \in Instance, Restart(i) PROVE StartingIsFresh' /\ InContactHolds'
  BY <1>17 DEF Restart, runVars
<1>18. CASE Tick
  BY <1>18 DEF Tick, Settled, runVars
<1>19. CASE UNCHANGED vars
  BY <1>19 DEF vars
<1>20. QED
  BY <1>1, <1>2, <1>3, <1>4, <1>5, <1>6, <1>7, <1>8, <1>9,
     <1>10, <1>11, <1>12, <1>13, <1>14, <1>15, <1>16, <1>17, <1>18, <1>19 DEF Next

LEMMA NextStatus ==
    ASSUME TypeOK, StartingIsFresh, InContactHolds, StatusIsHolders, [Next]_vars
    PROVE  StatusIsHolders'
<1> USE ImportAssumption DEF StartingIsFresh, InContactHolds, StatusIsHolders, TypeOK, Phase,
        Unused, Admitted, Locked, Saved, Active, Returned, Finishing, Refused, Gone
<1>1. ASSUME NEW r \in Run, Admit(r) PROVE StatusIsHolders'
  BY <1>1 DEF Admit, runVars
<1>2. ASSUME NEW r \in Run, TakeLock(r) PROVE StatusIsHolders'
  BY <1>2 DEF TakeLock, runVars
<1>3. ASSUME NEW r \in Run, LockRefused(r) PROVE StatusIsHolders'
  BY <1>3 DEF LockRefused, runVars
<1>4. ASSUME NEW r \in Run, SaveRunning(r) PROVE StatusIsHolders'
  BY <1>4 DEF SaveRunning, runVars
<1>5. ASSUME NEW r \in Run, NEW released \in BOOLEAN, SaveFails(r, released) PROVE StatusIsHolders'
  BY <1>5 DEF SaveFails, runVars
<1>6. ASSUME NEW r \in Run, Register(r) PROVE StatusIsHolders'
  BY <1>6 DEF Register, runVars
<1>7. ASSUME NEW r \in Run, Heartbeat(r) PROVE StatusIsHolders'
  BY <1>7 DEF Heartbeat, Extend, runVars
<1>8. ASSUME NEW r \in Run, HeartbeatFails(r) PROVE StatusIsHolders'
  BY <1>8 DEF HeartbeatFails, runVars
<1>9. ASSUME NEW r \in Run, NEW reached \in BOOLEAN, ReportProgress(r, reached) PROVE StatusIsHolders'
  BY <1>9 DEF ReportProgress, Update, Extend, runVars
<1>10. ASSUME NEW r \in Run, Stall(r) PROVE StatusIsHolders'
  BY <1>10 DEF Stall, runVars
<1>11. ASSUME NEW r \in Run, NEW ok \in BOOLEAN, Return(r, ok) PROVE StatusIsHolders'
  BY <1>11 DEF Return, runVars
<1>12. ASSUME NEW r \in Run, Conclude(r) PROVE StatusIsHolders'
  BY <1>12 DEF Conclude, runVars
<1>13. ASSUME NEW r \in Run, Finish(r) PROVE StatusIsHolders'
  BY <1>13 DEF Finish, runVars
<1>14. ASSUME NEW r \in Run, FinishFails(r) PROVE StatusIsHolders'
  BY <1>14 DEF FinishFails, runVars
<1>15. ASSUME NEW i \in Instance, Shutdown(i) PROVE StatusIsHolders'
  BY <1>15 DEF Shutdown, runVars
<1>16. ASSUME NEW i \in Instance, ShutdownReturns(i) PROVE StatusIsHolders'
  BY <1>16 DEF ShutdownReturns, runVars
<1>17. ASSUME NEW i \in Instance, Restart(i) PROVE StatusIsHolders'
  BY <1>17 DEF Restart, runVars
<1>18. CASE Tick
  BY <1>18 DEF Tick, Settled, runVars
<1>19. CASE UNCHANGED vars
  BY <1>19 DEF vars
<1>20. QED
  BY <1>1, <1>2, <1>3, <1>4, <1>5, <1>6, <1>7, <1>8, <1>9,
     <1>10, <1>11, <1>12, <1>13, <1>14, <1>15, <1>16, <1>17, <1>18, <1>19 DEF Next

LEMMA NextTracker ==
    ASSUME TypeOK, TrackerShowsItsRun, [Next]_vars
    PROVE  TrackerShowsItsRun'
<1> USE ImportAssumption DEF TrackerShowsItsRun, TypeOK, Phase,
        Unused, Admitted, Locked, Saved, Active, Returned, Finishing, Refused, Gone
<1>1. ASSUME NEW r \in Run, Admit(r) PROVE TrackerShowsItsRun'
  BY <1>1 DEF Admit, runVars
<1>2. ASSUME NEW r \in Run, TakeLock(r) PROVE TrackerShowsItsRun'
  BY <1>2 DEF TakeLock, runVars
<1>3. ASSUME NEW r \in Run, LockRefused(r) PROVE TrackerShowsItsRun'
  BY <1>3 DEF LockRefused, runVars
<1>4. ASSUME NEW r \in Run, SaveRunning(r) PROVE TrackerShowsItsRun'
  BY <1>4 DEF SaveRunning, runVars
<1>5. ASSUME NEW r \in Run, NEW released \in BOOLEAN, SaveFails(r, released) PROVE TrackerShowsItsRun'
  BY <1>5 DEF SaveFails, runVars
<1>6. ASSUME NEW r \in Run, Register(r) PROVE TrackerShowsItsRun'
  BY <1>6 DEF Register, runVars
<1>7. ASSUME NEW r \in Run, Heartbeat(r) PROVE TrackerShowsItsRun'
  BY <1>7 DEF Heartbeat, Extend, runVars
<1>8. ASSUME NEW r \in Run, HeartbeatFails(r) PROVE TrackerShowsItsRun'
  BY <1>8 DEF HeartbeatFails, runVars
<1>9. ASSUME NEW r \in Run, NEW reached \in BOOLEAN, ReportProgress(r, reached) PROVE TrackerShowsItsRun'
  BY <1>9 DEF ReportProgress, Update, Extend, runVars
<1>10. ASSUME NEW r \in Run, Stall(r) PROVE TrackerShowsItsRun'
  BY <1>10 DEF Stall, runVars
<1>11. ASSUME NEW r \in Run, NEW ok \in BOOLEAN, Return(r, ok) PROVE TrackerShowsItsRun'
  BY <1>11 DEF Return, runVars
<1>12. ASSUME NEW r \in Run, Conclude(r) PROVE TrackerShowsItsRun'
  BY <1>12 DEF Conclude, runVars
<1>13. ASSUME NEW r \in Run, Finish(r) PROVE TrackerShowsItsRun'
  BY <1>13 DEF Finish, runVars
<1>14. ASSUME NEW r \in Run, FinishFails(r) PROVE TrackerShowsItsRun'
  BY <1>14 DEF FinishFails, runVars
<1>15. ASSUME NEW i \in Instance, Shutdown(i) PROVE TrackerShowsItsRun'
  BY <1>15 DEF Shutdown, runVars
<1>16. ASSUME NEW i \in Instance, ShutdownReturns(i) PROVE TrackerShowsItsRun'
  BY <1>16 DEF ShutdownReturns, runVars
<1>17. ASSUME NEW i \in Instance, Restart(i) PROVE TrackerShowsItsRun'
  BY <1>17 DEF Restart, runVars
<1>18. CASE Tick
  BY <1>18 DEF Tick, Settled, runVars
<1>19. CASE UNCHANGED vars
  BY <1>19 DEF vars
<1>20. QED
  BY <1>1, <1>2, <1>3, <1>4, <1>5, <1>6, <1>7, <1>8, <1>9,
     <1>10, <1>11, <1>12, <1>13, <1>14, <1>15, <1>16, <1>17, <1>18, <1>19 DEF Next

-----------------------------------------------------------------------------
\* The inductive invariant holds in every reachable state.
THEOREM Invariance == Spec => []IInv
<1>1. IInv /\ [Next]_vars => IInv'
  BY NextTypeOK, NextFresh, NextStatus, NextTracker DEF IInv
<1>2. QED
  BY InitIInv, <1>1, PTL DEF Spec

\* Type correctness of the import job.
THEOREM TypeCorrect == Spec => []TypeOK
<1>1. IInv => TypeOK
  BY DEF IInv
<1>2. QED
  BY Invariance, <1>1, PTL

\* Mutual exclusion: a run in contact with Redis holds the lock.
THEOREM Exclusion == Spec => []InContactHolds
<1>1. IInv => InContactHolds
  BY DEF IInv
<1>2. QED
  BY Invariance, <1>1, PTL

\* The shared status is the lock holder's.
THEOREM HoldersStatus == Spec => []StatusIsHolders
<1>1. IInv => StatusIsHolders
  BY DEF IInv
<1>2. QED
  BY Invariance, <1>1, PTL

\* A Tracker shows the run it follows.
THEOREM TrackerIsRight == Spec => []TrackerShowsItsRun
<1>1. IInv => TrackerShowsItsRun
  BY DEF IInv
<1>2. QED
  BY Invariance, <1>1, PTL

\* A run that lost the lock never changes the shared status again.
LEMMA HolderWrites ==
    ASSUME IInv, [Next]_vars
    PROVE  shared' # shared => lock = shared'.run
<1> USE ImportAssumption DEF IInv, StartingIsFresh, InContactHolds, TypeOK, Running, Final,
        Locked, Saved, Active
<1>1. ASSUME NEW r \in Run, Admit(r) PROVE shared' # shared => lock = shared'.run
  BY <1>1 DEF Admit, runVars
<1>2. ASSUME NEW r \in Run, TakeLock(r) PROVE shared' # shared => lock = shared'.run
  BY <1>2 DEF TakeLock, runVars
<1>3. ASSUME NEW r \in Run, LockRefused(r) PROVE shared' # shared => lock = shared'.run
  BY <1>3 DEF LockRefused, runVars
<1>4. ASSUME NEW r \in Run, SaveRunning(r) PROVE shared' # shared => lock = shared'.run
  BY <1>4 DEF SaveRunning, runVars
<1>5. ASSUME NEW r \in Run, NEW released \in BOOLEAN, SaveFails(r, released) PROVE shared' # shared => lock = shared'.run
  BY <1>5 DEF SaveFails, runVars
<1>6. ASSUME NEW r \in Run, Register(r) PROVE shared' # shared => lock = shared'.run
  BY <1>6 DEF Register, runVars
<1>7. ASSUME NEW r \in Run, Heartbeat(r) PROVE shared' # shared => lock = shared'.run
  BY <1>7 DEF Heartbeat, Extend, runVars
<1>8. ASSUME NEW r \in Run, HeartbeatFails(r) PROVE shared' # shared => lock = shared'.run
  BY <1>8 DEF HeartbeatFails, runVars
<1>9. ASSUME NEW r \in Run, NEW reached \in BOOLEAN, ReportProgress(r, reached) PROVE shared' # shared => lock = shared'.run
  BY <1>9 DEF ReportProgress, Update, Extend, runVars
<1>10. ASSUME NEW r \in Run, Stall(r) PROVE shared' # shared => lock = shared'.run
  BY <1>10 DEF Stall, runVars
<1>11. ASSUME NEW r \in Run, NEW ok \in BOOLEAN, Return(r, ok) PROVE shared' # shared => lock = shared'.run
  BY <1>11 DEF Return, runVars
<1>12. ASSUME NEW r \in Run, Conclude(r) PROVE shared' # shared => lock = shared'.run
  BY <1>12 DEF Conclude, runVars
<1>13. ASSUME NEW r \in Run, Finish(r) PROVE shared' # shared => lock = shared'.run
  BY <1>13 DEF Finish, runVars
<1>14. ASSUME NEW r \in Run, FinishFails(r) PROVE shared' # shared => lock = shared'.run
  BY <1>14 DEF FinishFails, runVars
<1>15. ASSUME NEW i \in Instance, Shutdown(i) PROVE shared' # shared => lock = shared'.run
  BY <1>15 DEF Shutdown, runVars
<1>16. ASSUME NEW i \in Instance, ShutdownReturns(i) PROVE shared' # shared => lock = shared'.run
  BY <1>16 DEF ShutdownReturns, runVars
<1>17. ASSUME NEW i \in Instance, Restart(i) PROVE shared' # shared => lock = shared'.run
  BY <1>17 DEF Restart, runVars
<1>18. CASE Tick
  BY <1>18 DEF Tick, Settled, runVars
<1>19. CASE UNCHANGED vars
  BY <1>19 DEF vars
<1>20. QED
  BY <1>1, <1>2, <1>3, <1>4, <1>5, <1>6, <1>7, <1>8, <1>9,
     <1>10, <1>11, <1>12, <1>13, <1>14, <1>15, <1>16, <1>17, <1>18, <1>19 DEF Next

\* Every change of the shared status is the lock holder's.
THEOREM WritesAreHolders == Spec => OnlyHolderWrites
<1>1. IInv /\ [Next]_vars => [shared' # shared => lock = shared'.run]_vars
  BY HolderWrites
<1>2. QED
  BY Invariance, <1>1, PTL DEF Spec, OnlyHolderWrites

-----------------------------------------------------------------------------
(* Numbers. *)

LEMMA HasLeast ==
    ASSUME NEW T, T \subseteq Nat, T # {}
    PROVE  \E x \in T : \A y \in T : x <= y
<1> DEFINE R == {ss \in Nat \X Nat : ss[1] < ss[2]}
<1>1. IsWellFoundedOn(R, Nat) BY NatLessThanWellFounded DEF OpToRel
<1> HIDE DEF R
<1>2. \E x \in T : \A y \in T : ~(<<y, x>> \in R) BY <1>1, WFMin
<1>3. ASSUME NEW x \in Nat, NEW y \in Nat, ~(<<y, x>> \in R) PROVE x <= y
  BY <1>3 DEF R
<1> QED BY <1>2, <1>3

\* Induction over the numbers of a set.
LEMMA AllNumbers ==
    ASSUME NEW T, T \subseteq Nat, 0 \in T, \A n \in T : n + 1 \in T
    PROVE  T = Nat
<1> SUFFICES ASSUME Nat \ T # {} PROVE FALSE OBVIOUS
<1>1. PICK x \in Nat \ T : \A y \in Nat \ T : x <= y BY HasLeast
<1>2. x # 0 /\ x - 1 \in Nat /\ x - 1 < x OBVIOUS
<1>3. x - 1 \in T BY <1>1, <1>2
<1>4. (x - 1) + 1 = x OBVIOUS
<1> QED BY <1>3, <1>4

\* A set of numbers below a bound has a largest one, which Max finds, and a least one.
LEMMA MaxIs ==
    ASSUME NEW N \in Nat, NEW X, X \subseteq 0..N, X # {}
    PROVE  Max(X) \in X /\ \A y \in X : Max(X) >= y
<1> DEFINE T == {N - x : x \in X}
<1>0. \A x \in X : N - x \in Nat OBVIOUS
<1>1. T \subseteq Nat /\ T # {} BY <1>0
<1>2. PICK m \in T : \A y \in T : m <= y BY <1>1, HasLeast
<1>3. PICK x \in X : m = N - x BY <1>2
<1>4. \A y \in X : N - x <= N - y BY <1>2, <1>3
<1>5. \A y \in X : x >= y BY <1>4
<1> QED BY <1>5 DEF Max

LEMMA MinIs ==
    ASSUME NEW X, X \subseteq Nat, X # {}
    PROVE  Min(X) \in X
<1>1. PICK x \in X : \A y \in X : x <= y BY HasLeast
<1> QED BY <1>1 DEF Min

-----------------------------------------------------------------------------
(* FindSlotConflicts. *)

\* Each entry is in R just if it is in M and meets, by G, one outside M or an older one
\* that is not in R.
Solves(R, D, M, G) ==
    \A e \in D :
        e \in R <=> e \in M /\ \E o \in D : <<e, o>> \in G /\ (o \notin M \/ (o < e /\ o \notin R))

\* The recursion over older entries has a solution.
LEMMA ConflictsExist ==
    ASSUME NEW N \in Nat, NEW D, D \subseteq 1..N, NEW M, NEW G
    PROVE  \E R \in SUBSET D : Solves(R, D, M, G)
<1> DEFINE Meets(e, R) == e \in M /\ \E o \in D : <<e, o>> \in G /\ (o \notin M \/ (o < e /\ o \notin R))
           T == {n \in Nat : \E R \in SUBSET D : \A e \in D : e <= n => (e \in R <=> Meets(e, R))}
<1>1. 0 \in T
  <2>1. \A e \in D : ~(e <= 0) OBVIOUS
  <2>2. {} \in SUBSET D OBVIOUS
  <2> QED BY <2>1, <2>2
<1>2. ASSUME NEW n \in T PROVE n + 1 \in T
  <2>1. n \in Nat OBVIOUS
  <2>2. PICK R \in SUBSET D : \A e \in D : e <= n => (e \in R <=> Meets(e, R)) BY <1>2
  <2> DEFINE Q == {e \in D : (e # n + 1 /\ e \in R) \/ (e = n + 1 /\ Meets(e, R))}
  <2>3. Q \in SUBSET D OBVIOUS
  <2>4. ASSUME NEW e \in D, e <= n + 1 PROVE Meets(e, Q) <=> Meets(e, R)
    <3>1. \A o \in D : o < e => (o \in Q <=> o \in R) BY <2>1, <2>4
    <3> HIDE DEF Q
    <3> QED BY <3>1
  <2>5. ASSUME NEW e \in D, e <= n + 1 PROVE e \in Q <=> Meets(e, Q)
    <3>1. CASE e = n + 1 BY <2>4, <2>5, <3>1
    <3>2. CASE e # n + 1
      <4>1. e <= n BY <2>1, <2>5, <3>2
      <4>2. e \in R <=> Meets(e, R) BY <2>2, <4>1
      <4>3. e \in Q <=> e \in R BY <3>2
      <4> HIDE DEF Meets, Q
      <4> QED BY <4>2, <4>3, <2>4, <2>5
    <3> QED BY <3>1, <3>2
  <2> HIDE DEF Q, Meets
  <2> QED BY <2>1, <2>3, <2>5
<1> HIDE DEF T
<1>3. N \in T
  <2>1. T \subseteq Nat BY DEF T
  <2> QED BY <1>1, <1>2, <2>1, AllNumbers
<1>4. PICK R \in SUBSET D : \A e \in D : e <= N => (e \in R <=> Meets(e, R)) BY <1>3 DEF T
<1>5. \A e \in D : e <= N OBVIOUS
<1> QED BY <1>4, <1>5 DEF Solves

MovedEntries(ents, moved) == {e \in DOMAIN ents : ents[e].course \in moved}

LEMMA ConflictsAre ==
    ASSUME NEW table, NEW ents, NEW moved, NEW N \in Nat, DOMAIN ents \subseteq 1..N
    PROVE  \A e \in DOMAIN ents :
              e \in FindSlotConflicts(table, ents, moved) <=>
                 /\ e \in MovedEntries(ents, moved)
                 /\ \E o \in DOMAIN ents :
                       /\ Overlap(table, ents, e, o)
                       /\ \/ o \notin MovedEntries(ents, moved)
                          \/ o < e /\ o \notin FindSlotConflicts(table, ents, moved)
<1> DEFINE D == DOMAIN ents
           M == MovedEntries(ents, moved)
           G == {p \in D \X D : Overlap(table, ents, p[1], p[2])}
           removed == CHOOSE f : f = [e \in D |->
                         /\ e \in M
                         /\ \E o \in D : Overlap(table, ents, e, o) /\ (o \notin M \/ (o < e /\ ~f[o]))]
<1>1. FindSlotConflicts(table, ents, moved) = {e \in D : removed[e]}
  BY DEF FindSlotConflicts, MovedEntries
<1>2. PICK R \in SUBSET D : Solves(R, D, M, G)
  <2>1. D \subseteq 1..N OBVIOUS
  <2> HIDE DEF M, G, D
  <2> QED BY <2>1, ConflictsExist
<1> DEFINE Body(f) == [e \in D |->
              /\ e \in M
              /\ \E o \in D : Overlap(table, ents, e, o) /\ (o \notin M \/ (o < e /\ ~f[o]))]
           r == [e \in D |-> e \in R]
<1>3. r = Body(r)
  <2>1. ASSUME NEW e \in D PROVE r[e] = Body(r)[e]
    <3>1. \A o \in D : <<e, o>> \in G <=> Overlap(table, ents, e, o) BY DEF G
    <3>2. \A o \in D : r[o] = (o \in R) OBVIOUS
    <3> HIDE DEF r, G, M
    <3>3. Body(r)[e] = (e \in M /\ \E o \in D : Overlap(table, ents, e, o) /\ (o \notin M \/ (o < e /\ ~r[o])))
      OBVIOUS
    <3>4. Body(r)[e] <=> e \in R BY <1>2, <3>1, <3>2, <3>3 DEF Solves
    <3>5. Body(r)[e] = TRUE \/ Body(r)[e] = FALSE BY <3>3
    <3>6. r[e] = TRUE \/ r[e] = FALSE BY <3>2
    <3>7. r[e] <=> e \in R BY <3>2
    <3> HIDE DEF Body
    <3>8. CASE e \in R
      <4>1. r[e] = TRUE BY <3>6, <3>7, <3>8
      <4>2. Body(r)[e] = TRUE BY <3>4, <3>5, <3>8
      <4> QED BY <4>1, <4>2
    <3>9. CASE e \notin R
      <4>1. r[e] = FALSE BY <3>6, <3>7, <3>9
      <4>2. Body(r)[e] = FALSE BY <3>4, <3>5, <3>9
      <4> QED BY <4>1, <4>2
    <3> QED BY <3>8, <3>9
  <2>2. r = [e \in D |-> r[e]] OBVIOUS
  <2>3. Body(r) = [e \in D |-> Body(r)[e]] OBVIOUS
  <2> HIDE DEF r, Body
  <2> QED BY <2>1, <2>2, <2>3
<1>4. removed = Body(removed)
  <2>1. \E f : f = Body(f) BY <1>3
  <2>2. removed = CHOOSE f : f = Body(f) OBVIOUS
  <2> HIDE DEF Body, removed
  <2> QED BY <2>1, <2>2
<1>5. \A e \in D : removed[e] = (/\ e \in M
                                 /\ \E o \in D : Overlap(table, ents, e, o) /\ (o \notin M \/ (o < e /\ ~removed[o])))
  <2> HIDE DEF removed, M
  <2> QED BY <1>4
<1>6. \A o \in D : o \notin FindSlotConflicts(table, ents, moved) <=> ~removed[o]
  <2> HIDE DEF removed
  <2> QED BY <1>1
<1> HIDE DEF removed, M
<1>7. ASSUME NEW e \in D
      PROVE  e \in FindSlotConflicts(table, ents, moved) <=>
                /\ e \in M
                /\ \E o \in D : /\ Overlap(table, ents, e, o)
                                /\ \/ o \notin M
                                   \/ o < e /\ o \notin FindSlotConflicts(table, ents, moved)
  <2>1. e \in FindSlotConflicts(table, ents, moved) <=> removed[e] BY <1>6
  <2>2. removed[e] <=> (/\ e \in M
                        /\ \E o \in D : Overlap(table, ents, e, o) /\ (o \notin M \/ (o < e /\ ~removed[o])))
    BY <1>5
  <2> QED BY <1>6, <2>1, <2>2
<1> QED BY <1>7 DEF M

-----------------------------------------------------------------------------
(* The plan. *)

\* A question adds to the plan what the answer says, or what writes nothing.
LEMMA DecidedIs ==
    ASSUME NEW decisions, NEW fp, NEW A, NEW B, NEW f \in Decided(decisions, fp, A, B)
    PROVE  \/ f \in A /\ DecisionOn(decisions, fp) = "SAME"
           \/ f \in B /\ DecisionOn(decisions, fp) = "DIFFERENT"
           \/ f[1] \in {"applied", "review"}
<1> DEFINE d == DecisionOn(decisions, fp)
<1> HIDE DEF d
<1>1. CASE d = "SAME" BY <1>1 DEF Decided, d
<1>2. CASE d = "DIFFERENT" BY <1>2 DEF Decided, d
<1>3. CASE d = "IGNORED" BY <1>3 DEF Decided, d
<1>4. CASE d \notin {"SAME", "DIFFERENT", "IGNORED"} BY <1>4 DEF Decided, d
<1> QED BY <1>1, <1>2, <1>3, <1>4

\* An update or a creation of the plan of a group: the course that takes row i has its
\* slot or none has, and a row is created when no course has its slot.
SlotsFit(existing, S, olds, news, P) ==
    /\ \A f \in P : f[1] = "update" =>
          \E c \in olds, i \in news :
             /\ f = <<"update", c, i>>
             /\ existing[c].slot = S[i].slot \/ \A d \in olds : existing[d].slot # S[i].slot
    /\ \A f \in P : f[1] = "create" =>
          \E i \in news : f = <<"create", i>> /\ \A d \in olds : existing[d].slot # S[i].slot

\* Every row is written once, and every course once.
WrittenOnce(S, P) ==
    /\ \A c, i : <<"update", c, i>> \in P => <<"create", i>> \notin P
    /\ \A c, d, i : <<"update", c, i>> \in P /\ <<"update", d, i>> \in P => c = d
    /\ \A c, i, j : <<"update", c, i>> \in P /\ <<"update", c, j>> \in P => i = j

LEMMA UpdatesAre ==
    ASSUME NEW existing, NEW S, NEW term, NEW X, NEW f \in Updates(existing, S, term, X)
    PROVE  \E p \in X : f = <<"update", p[1], p[2]>>
BY DEF Updates

\* Courses of a group, by their ids, and rows of a group, each in a slot of its own.
Comparable(S, olds, news) ==
    /\ \E N \in Nat : olds \subseteq 1..N
    /\ IsFiniteSet(news)
    /\ \A i, j \in news : S[i].slot = S[j].slot => i = j

LEMMA PlanSlotsFits ==
    ASSUME NEW existing, NEW decisions, NEW S, NEW term, NEW k, NEW olds, NEW news,
           Comparable(S, olds, news),
           NEW P, P = PlanSlots(existing, decisions, S, term, k, olds, news)
    PROVE  /\ SlotsFit(existing, S, olds, news, P)
           /\ WrittenOnce(S, P)
           /\ \A f \in P : f[1] # "retire"
<1>a. PICK N \in Nat : olds \subseteq 1..N BY DEF Comparable
<1>b. IsFiniteSet(news) /\ \A i, j \in news : S[i].slot = S[j].slot => i = j BY DEF Comparable
<1> USE <1>a, <1>b
<1> DEFINE has(i)  == {c \in olds : existing[c].slot = S[i].slot}
           pairs   == {p \in olds \X news : p[1] = Max(has(p[2]) \cup {0})}
           leftOld == {c \in olds : \A p \in pairs : p[1] # c}
           leftNew == {i \in news : \A p \in pairs : p[2] # i}
           fp      == <<"SLOT_AMBIGUOUS", k, SlotsOf(existing, leftOld), SlotsOf(S, leftNew)>>
           active  == {c \in leftOld : ~existing[c].disc}
           answer  == Decided(decisions, fp, {}, {<<"forced", c>> : c \in active} \cup CreateAll(leftNew))
           one     == Cardinality(leftOld) = 1 /\ Cardinality(leftNew) = 1
           rest    == IF leftOld = {} THEN CreateAll(leftNew)
                      ELSE IF leftNew = {} THEN DiscontinueCandidates(existing, leftOld)
                      ELSE IF one THEN Updates(existing, S, term, leftOld \X leftNew)
                      ELSE IF \A c \in leftOld : EndedBefore(term, existing[c].sem) THEN {}
                      ELSE answer
<1>1. P = Updates(existing, S, term, pairs) \cup rest BY DEF PlanSlots
<1>2. ASSUME NEW i \in news
      PROVE  Max(has(i) \cup {0}) \in has(i) \cup {0} /\ (has(i) # {} => Max(has(i) \cup {0}) \in has(i))
  <2>0. has(i) \subseteq 1..N
    <3>1. has(i) \subseteq olds OBVIOUS
    <3> HIDE DEF has
    <3> QED BY <3>1
  <2> HIDE DEF has
  <2>1. has(i) \cup {0} \subseteq 0..N /\ has(i) \cup {0} # {} BY <2>0
  <2> DEFINE m == Max(has(i) \cup {0})
  <2>2. m \in has(i) \cup {0} /\ \A y \in has(i) \cup {0} : m >= y BY <2>1, MaxIs
  <2> HIDE DEF m
  <2>3. ASSUME has(i) # {} PROVE m \in has(i)
    <3>1. PICK c \in has(i) : TRUE BY <2>3
    <3>2. m >= c /\ c \in 1..N BY <2>0, <2>2
    <3>3. m # 0 BY <3>2
    <3> QED BY <2>2, <3>3
  <2> QED BY <2>2, <2>3 DEF m
<1>3. ASSUME NEW p \in pairs PROVE existing[p[1]].slot = S[p[2]].slot
  <2>1. p[1] \in 1..N /\ p[2] \in news /\ p[1] = Max(has(p[2]) \cup {0}) OBVIOUS
  <2>2. p[1] \in has(p[2]) \cup {0} BY <1>2, <2>1
  <2> QED BY <2>1, <2>2
<1>4. ASSUME NEW i \in news, NEW d \in olds, existing[d].slot = S[i].slot
      PROVE  \E p \in pairs : p[2] = i
  <2>1. d \in has(i) BY <1>4
  <2> DEFINE m == Max(has(i) \cup {0})
  <2>2. m \in has(i) BY <1>2, <2>1
  <2>3. m \in olds BY <2>2
  <2>4. <<m, i>> \in olds \X news /\ <<m, i>>[1] = Max(has(<<m, i>>[2]) \cup {0}) BY <2>3
  <2>5. <<m, i>> \in pairs BY <2>4
  <2> QED BY <2>5
<1>5. \A p, q \in pairs : p[2] = q[2] => p[1] = q[1]
  <2>1. \A p \in pairs : p[1] = Max(has(p[2]) \cup {0}) OBVIOUS
  <2> HIDE DEF pairs, has
  <2> QED BY <2>1
<1>6. \A p, q \in pairs : p[1] = q[1] => p[2] = q[2] BY <1>3
<1>7. \A i \in leftNew : \A d \in olds : existing[d].slot # S[i].slot BY <1>4
<1>8. pairs \subseteq olds \X news /\ leftOld \subseteq olds /\ leftNew \subseteq news
      /\ \A p \in pairs : p[1] \notin leftOld /\ p[2] \notin leftNew OBVIOUS
<1> HIDE DEF pairs, leftOld, leftNew, answer, one
<1>9. \/ /\ rest = Updates(existing, S, term, leftOld \X leftNew)
         /\ \E x, y : leftOld = {x} /\ leftNew = {y}
      \/ \A f \in rest : /\ f[1] \in {"create", "gone", "forced", "applied", "review"}
                         /\ f[1] = "create" => \E i \in leftNew : f = <<"create", i>>
  <2>1. CASE leftOld = {} BY <2>1 DEF CreateAll
  <2>2. CASE leftOld # {} /\ leftNew = {}
    <3>1. rest = DiscontinueCandidates(existing, leftOld) BY <2>2
    <3> HIDE DEF rest
    <3>2. \A f \in rest : f[1] = "gone" BY <3>1 DEF DiscontinueCandidates
    <3> QED BY <3>2
  <2>3. CASE leftOld # {} /\ leftNew # {} /\ one
    <3>1. rest = Updates(existing, S, term, leftOld \X leftNew) BY <2>3
    <3>2. IsFiniteSet(leftOld)
      <4>1. IsFiniteSet(1..N) BY FS_Interval
      <4>2. leftOld \subseteq 1..N BY <1>8
      <4> QED BY <4>1, <4>2, FS_Subset
    <3>3. IsFiniteSet(leftNew) BY <1>8, FS_Subset
    <3>4. \E x : leftOld = {x} BY <2>3, <3>2, FS_Singleton DEF one
    <3>5. \E y : leftNew = {y} BY <2>3, <3>3, FS_Singleton DEF one
    <3> QED BY <3>1, <3>4, <3>5
  <2>4. CASE leftOld # {} /\ leftNew # {} /\ ~one
    <3>1. rest = {} \/ rest = answer BY <2>4
    <3> HIDE DEF rest
    <3>2. ASSUME NEW f \in answer
          PROVE  \/ f \in {<<"forced", c>> : c \in active} \cup CreateAll(leftNew)
                 \/ f[1] \in {"applied", "review"}
      <4> HIDE DEF active, fp
      <4> QED BY <3>2, DecidedIs DEF answer
    <3> HIDE DEF active
    <3> QED BY <3>1, <3>2 DEF CreateAll
  <2> QED BY <2>1, <2>2, <2>3, <2>4
<1> HIDE DEF rest
<1> DEFINE Paired(f) == \E p \in pairs : f = <<"update", p[1], p[2]>>
           Quiets(f) == /\ f[1] \in {"create", "gone", "forced", "applied", "review"}
                        /\ f[1] = "create" => \E i \in leftNew : f = <<"create", i>>
           Single == \E x, y : leftOld = {x} /\ leftNew = {y} /\ \A f \in P : Paired(f) \/ f = <<"update", x, y>>
           Several == \A f \in P : Paired(f) \/ Quiets(f)
<1>10. Single \/ Several
  <2>1. ASSUME NEW f \in Updates(existing, S, term, pairs) PROVE Paired(f) BY <2>1, UpdatesAre
  <2>2. CASE \A f \in rest : Quiets(f)
    <3> HIDE DEF Paired, Quiets
    <3> QED BY <1>1, <2>1, <2>2
  <2>3. CASE rest = Updates(existing, S, term, leftOld \X leftNew) /\ \E x, y : leftOld = {x} /\ leftNew = {y}
    <3>1. PICK x, y : leftOld = {x} /\ leftNew = {y} BY <2>3
    <3>2. ASSUME NEW f \in rest PROVE f = <<"update", x, y>>
      <4>1. PICK p \in leftOld \X leftNew : f = <<"update", p[1], p[2]>> BY <2>3, <3>2, UpdatesAre
      <4>2. p[1] = x /\ p[2] = y BY <3>1
      <4> QED BY <4>1, <4>2
    <3> HIDE DEF Paired
    <3> QED BY <1>1, <2>1, <3>1, <3>2
  <2> QED BY <1>9, <2>2, <2>3
<1>11. SlotsFit(existing, S, olds, news, P)
  <2>1. ASSUME NEW f \in P, f[1] = "update"
        PROVE  \E c \in olds, i \in news :
                  /\ f = <<"update", c, i>>
                  /\ existing[c].slot = S[i].slot \/ \A d \in olds : existing[d].slot # S[i].slot
    <3>1. CASE \E p \in pairs : f = <<"update", p[1], p[2]>>
      <4>1. PICK p \in pairs : f = <<"update", p[1], p[2]>> BY <3>1
      <4>2. p[1] \in olds /\ p[2] \in news BY <1>8
      <4> QED BY <1>3, <4>1, <4>2
    <3>2. CASE \E x, y : leftOld = {x} /\ leftNew = {y} /\ f = <<"update", x, y>>
      <4>1. PICK x, y : leftOld = {x} /\ leftNew = {y} /\ f = <<"update", x, y>> BY <3>2
      <4>2. x \in olds /\ y \in news /\ y \in leftNew BY <1>8, <4>1
      <4> QED BY <1>7, <4>1, <4>2
    <3> QED BY <1>10, <2>1, <3>1, <3>2
  <2>2. ASSUME NEW f \in P, f[1] = "create"
        PROVE  \E i \in news : f = <<"create", i>> /\ \A d \in olds : existing[d].slot # S[i].slot
    <3>1. \E i \in leftNew : f = <<"create", i>>
      <4>2. ~Paired(f) /\ \A x, y : f # <<"update", x, y>> BY <2>2
      <4> QED BY <1>10, <2>2, <4>2
    <3>2. PICK i \in leftNew : f = <<"create", i>> BY <3>1
    <3> QED BY <1>7, <1>8, <3>2
  <2> QED BY <2>1, <2>2 DEF SlotsFit
<1>12. WrittenOnce(S, P)
  <2>1. ASSUME NEW c, NEW i, <<"update", c, i>> \in P
        PROVE  \/ \E p \in pairs : c = p[1] /\ i = p[2]
               \/ leftOld = {c} /\ leftNew = {i}
    <3> DEFINE f == <<"update", c, i>>
    <3>1. f[1] = "update" /\ f[2] = c /\ f[3] = i OBVIOUS
    <3> HIDE DEF f
    <3>2. f \in P BY <2>1 DEF f
    <3>3. ASSUME NEW x, NEW y, f = <<"update", x, y>> PROVE c = x /\ i = y BY <3>1, <3>3
    <3> QED BY <1>10, <3>1, <3>2, <3>3
  <2>2. ASSUME NEW c, NEW i, <<"update", c, i>> \in P, <<"create", i>> \in P PROVE FALSE
    <3> DEFINE f == <<"create", i>>
    <3>1. f[1] = "create" /\ f[2] = i /\ \A x, y : f # <<"update", x, y>> OBVIOUS
    <3> HIDE DEF f
    <3>2. f \in P BY <2>2 DEF f
    <3>3. ~Paired(f) BY <3>1
    <3>4. Several BY <1>10, <3>1, <3>2, <3>3
    <3>5. i \in leftNew BY <3>1, <3>2, <3>3, <3>4
    <3> DEFINE g == <<"update", c, i>>
    <3>6. g[1] = "update" /\ g[3] = i OBVIOUS
    <3> HIDE DEF g
    <3>7. g \in P BY <2>2 DEF g
    <3>8. Paired(g) BY <3>4, <3>6, <3>7
    <3>9. \E p \in pairs : p[2] = i BY <3>6, <3>8
    <3> QED BY <1>8, <3>5, <3>9
  <2>3. ASSUME NEW c, NEW d, NEW i, <<"update", c, i>> \in P, <<"update", d, i>> \in P PROVE c = d
    <3>1. (\E p \in pairs : c = p[1] /\ i = p[2]) \/ (leftOld = {c} /\ leftNew = {i}) BY <2>1, <2>3
    <3>2. (\E p \in pairs : d = p[1] /\ i = p[2]) \/ (leftOld = {d} /\ leftNew = {i}) BY <2>1, <2>3
    <3> QED BY <1>5, <1>8, <3>1, <3>2
  <2>4. ASSUME NEW c, NEW i, NEW j, <<"update", c, i>> \in P, <<"update", c, j>> \in P PROVE i = j
    <3>1. (\E p \in pairs : c = p[1] /\ i = p[2]) \/ (leftOld = {c} /\ leftNew = {i}) BY <2>1, <2>4
    <3>2. (\E p \in pairs : c = p[1] /\ j = p[2]) \/ (leftOld = {c} /\ leftNew = {j}) BY <2>1, <2>4
    <3> QED BY <1>6, <1>8, <3>1, <3>2
  <2> QED BY <2>2, <2>3, <2>4 DEF WrittenOnce
<1>13. \A f \in P : f[1] # "retire" BY <1>10
<1> QED BY <1>11, <1>12, <1>13

\* What a syllabus is made of.
LEMMA SyllabusRows ==
    ASSUME NEW S \in Syllabi \cup {Legacy}
    PROVE  /\ Len(S) \in Nat /\ DOMAIN S = 1..Len(S)
           /\ \A i \in DOMAIN S :
                 /\ S[i] \in Rows
                 /\ S[i].sem \in Semesters /\ S[i].slot \in Slots /\ S[i].ref \in Refs
                 /\ S[i].source \in Names /\ S[i].teacher \in Teachers /\ S[i].suffix \in Suffixes
                 /\ S[i].sure \in BOOLEAN /\ S[i].ref # NoRef
<1>1. S \in Seq(Rows) BY SyllabusAssumption
<1>2. \A i \in DOMAIN S : S[i] \in Rows BY <1>1
<1>3. \A r \in Rows : r \in [sem : Semesters, ref : Refs, slot : Slots, source : Names,
                             teacher : Teachers, suffix : Suffixes, sure : BOOLEAN]
  BY SyllabusAssumption
<1>4. NoRef \notin Refs BY SyllabusAssumption
<1>5. Len(S) \in Nat /\ DOMAIN S = 1..Len(S) BY <1>1
<1> QED BY <1>2, <1>3, <1>4, <1>5

\* A group of the syllabus lists a key once.
LEMMA NewsOnce ==
    ASSUME NEW S \in Syllabi, NEW k
    PROVE  /\ IsFiniteSet(News(S, k)) /\ News(S, k) \subseteq DOMAIN S
           /\ \A i \in News(S, k) : GroupKey(S[i]) = k
           /\ \A i, j \in News(S, k) : S[i].slot = S[j].slot => i = j
           /\ \A i, j \in News(S, k) : DedupKey(S[i]) = DedupKey(S[j]) => i = j
<1>1. Len(S) \in Nat /\ DOMAIN S = 1..Len(S) BY SyllabusRows
<1>2. News(S, k) \subseteq DOMAIN S /\ \A i \in News(S, k) : GroupKey(S[i]) = k BY DEF News
<1>3. IsFiniteSet(News(S, k))
  <2>1. IsFiniteSet(1..Len(S)) BY <1>1, FS_Interval
  <2> QED BY <1>1, <1>2, <2>1, FS_Subset
<1>4. ASSUME NEW i \in News(S, k), NEW j \in News(S, k), DedupKey(S[i]) = DedupKey(S[j]) PROVE i = j
  <2>1. i \in 1..Len(S) /\ j \in 1..Len(S) BY <1>1, <1>2
  <2>2. /\ \A x \in 1..(i - 1) : DedupKey(S[x]) # DedupKey(S[i])
        /\ \A x \in 1..(j - 1) : DedupKey(S[x]) # DedupKey(S[j]) BY DEF News
  <2>3. ~(i < j)
    <3> SUFFICES ASSUME i < j PROVE FALSE OBVIOUS
    <3>1. i \in 1..(j - 1) BY <1>1, <2>1
    <3> QED BY <1>4, <2>2, <3>1
  <2>4. ~(j < i)
    <3> SUFFICES ASSUME j < i PROVE FALSE OBVIOUS
    <3>1. j \in 1..(i - 1) BY <1>1, <2>1
    <3> QED BY <1>4, <2>2, <3>1
  <2> QED BY <1>1, <2>1, <2>3, <2>4
<1>5. ASSUME NEW i \in News(S, k), NEW j \in News(S, k), S[i].slot = S[j].slot PROVE i = j
  <2>1. GroupKey(S[i]) = GroupKey(S[j]) BY <1>2
  <2>2. S[i].sem = S[j].sem /\ S[i].ref = S[j].ref BY <2>1 DEF GroupKey
  <2>3. DedupKey(S[i]) = DedupKey(S[j]) BY <1>5, <2>2 DEF DedupKey
  <2> QED BY <1>4, <2>3
<1> QED BY <1>2, <1>3, <1>4, <1>5

\* A part of the plan: what was planned for the courses olds and the rows news.
PartFits(existing, S, olds, news, T) ==
    /\ \A f \in T : f[1] = "update" =>
          \E c \in olds, i \in news :
             /\ f = <<"update", c, i>>
             /\ existing[c].slot = S[i].slot \/ \A d \in olds : existing[d].slot # S[i].slot
    /\ \A f \in T : f[1] = "create" =>
          \E i \in news : /\ f = <<"create", i>>
                          /\ \A d \in olds : existing[d].slot = S[i].slot => <<"retire", d>> \in T
    /\ \A f \in T : f[1] = "retire" => \E c \in olds : f = <<"retire", c>>
    /\ \A c, i, d : ~(<<"update", c, i>> \in T /\ <<"retire", d>> \in T)
    /\ WrittenOnce(S, T)

\* What writes: the other facts of a plan change no slot, name or key.
Writes(f) == f[1] \in {"update", "create", "retire"}

LEMMA SamePart ==
    ASSUME NEW existing, NEW S, NEW olds, NEW news, NEW T, NEW Q, PartFits(existing, S, olds, news, Q),
           \A f : Writes(f) => (f \in T <=> f \in Q)
    PROVE  PartFits(existing, S, olds, news, T)
<1>1. \A c, i : Writes(<<"update", c, i>>) /\ Writes(<<"create", i>>) /\ Writes(<<"retire", c>>)
  BY DEF Writes
<1>2. \A f \in T : f[1] \in {"update", "create", "retire"} => f \in Q BY DEF Writes
<1>3. \A c, i : /\ <<"update", c, i>> \in T <=> <<"update", c, i>> \in Q
                /\ <<"create", i>> \in T <=> <<"create", i>> \in Q
                /\ <<"retire", c>> \in T <=> <<"retire", c>> \in Q
  BY <1>1
<1>4. WrittenOnce(S, T)
  <2>1. WrittenOnce(S, Q) BY DEF PartFits
  <2>2. \A c, i : <<"update", c, i>> \in T => <<"create", i>> \notin T
    <3> SUFFICES ASSUME NEW c, NEW i, <<"update", c, i>> \in T, <<"create", i>> \in T PROVE FALSE OBVIOUS
    <3>1. <<"update", c, i>> \in Q /\ <<"create", i>> \in Q BY <1>3
    <3> QED BY <2>1, <3>1 DEF WrittenOnce
  <2>3. ASSUME NEW c, NEW d, NEW i, <<"update", c, i>> \in T, <<"update", d, i>> \in T PROVE c = d
    <3>1. <<"update", c, i>> \in Q /\ <<"update", d, i>> \in Q BY <1>3, <2>3
    <3> QED BY <2>1, <3>1 DEF WrittenOnce
  <2>4. ASSUME NEW c, NEW i, NEW j, <<"update", c, i>> \in T, <<"update", c, j>> \in T PROVE i = j
    <3>1. <<"update", c, i>> \in Q /\ <<"update", c, j>> \in Q BY <1>3, <2>4
    <3> QED BY <2>1, <3>1 DEF WrittenOnce
  <2> QED BY <2>2, <2>3, <2>4 DEF WrittenOnce
<1>5. \A c, i, d : ~(<<"update", c, i>> \in T /\ <<"retire", d>> \in T) BY <1>3 DEF PartFits
<1>6. \A f \in T : f[1] = "update" =>
          \E c \in olds, i \in news :
             /\ f = <<"update", c, i>>
             /\ existing[c].slot = S[i].slot \/ \A d \in olds : existing[d].slot # S[i].slot
  BY <1>2 DEF PartFits
<1>7. \A f \in T : f[1] = "create" =>
          \E i \in news : /\ f = <<"create", i>>
                          /\ \A d \in olds : existing[d].slot = S[i].slot => <<"retire", d>> \in T
  <2> SUFFICES ASSUME NEW f \in T, f[1] = "create"
               PROVE  \E i \in news : /\ f = <<"create", i>>
                                      /\ \A d \in olds : existing[d].slot = S[i].slot => <<"retire", d>> \in T
    OBVIOUS
  <2>1. f \in Q BY <1>2
  <2>2. PICK i \in news : /\ f = <<"create", i>>
                          /\ \A d \in olds : existing[d].slot = S[i].slot => <<"retire", d>> \in Q
    BY <2>1 DEF PartFits
  <2>3. \A d \in olds : existing[d].slot = S[i].slot => <<"retire", d>> \in T
    <3> SUFFICES ASSUME NEW d \in olds, existing[d].slot = S[i].slot PROVE <<"retire", d>> \in T OBVIOUS
    <3>1. <<"retire", d>> \in Q BY <2>2
    <3> QED BY <1>3, <3>1
  <2> QED BY <2>2, <2>3
<1>8. \A f \in T : f[1] = "retire" => \E c \in olds : f = <<"retire", c>> BY <1>2 DEF PartFits
<1> QED BY <1>4, <1>5, <1>6, <1>7, <1>8 DEF PartFits

\* New courses for all rows, the courses that were there retired.
LEMMA AnewFits ==
    ASSUME NEW existing, NEW S, NEW olds, NEW news
    PROVE  /\ PartFits(existing, S, olds, news, {<<"retire", c>> : c \in olds} \cup CreateAll(news))
           /\ PartFits(existing, S, {}, news, CreateAll(news))
           /\ PartFits(existing, S, olds, news, {})
<1>1. PartFits(existing, S, olds, news, {}) BY DEF PartFits, WrittenOnce
<1>2. ASSUME NEW os, NEW T, T = {<<"retire", c>> : c \in os} \cup CreateAll(news)
      PROVE  PartFits(existing, S, os, news, T)
  <2>1. \A f \in T : (\E c \in os : f = <<"retire", c>>) \/ \E i \in news : f = <<"create", i>>
    BY <1>2 DEF CreateAll
  <2>2. \A f \in T : f[1] # "update" BY <2>1
  <2>3. \A c, i : <<"update", c, i>> \notin T
    <3> SUFFICES ASSUME NEW c, NEW i, <<"update", c, i>> \in T PROVE FALSE OBVIOUS
    <3>1. <<"update", c, i>>[1] = "update" OBVIOUS
    <3> QED BY <2>2, <3>1
  <2>4. \A d \in os : <<"retire", d>> \in T BY <1>2
  <2>5. \A f \in T : f[1] = "create" => \E i \in news : f = <<"create", i>> BY <2>1
  <2>6. \A f \in T : f[1] = "retire" => \E c \in os : f = <<"retire", c>> BY <2>1
  <2> QED BY <2>2, <2>3, <2>4, <2>5, <2>6 DEF PartFits, WrittenOnce
<1>3. {<<"retire", c>> : c \in {}} \cup CreateAll(news) = CreateAll(news) OBVIOUS
<1> QED BY <1>1, <1>2, <1>3

LEMMA GroupFits ==
    ASSUME NEW existing, NEW decisions, NEW S, NEW term, NEW k, NEW olds, NEW news, NEW skip,
           Comparable(S, olds, news),
           NEW T, T = PlanGroup(existing, decisions, S, term, k, olds, news, skip)
    PROVE  PartFits(existing, S, olds, news, T)
<1> DEFINE slots == PlanSlots(existing, decisions, S, term, k, olds, news)
           anew  == {<<"retire", c>> : c \in olds} \cup CreateAll(news)
           old   == existing[Min(olds)]
           new   == S[Min(news)]
           reused == ~skip /\ ~NameMatches(old, new.source) /\ old.teacher # new.teacher
           fp    == <<"CODE_REUSED", k, new.source, new.teacher>>
           d     == DecisionOn(decisions, fp)
<1>1. T = IF reused THEN Decided(decisions, fp, slots, anew) ELSE slots BY DEF PlanGroup
<1>2. PartFits(existing, S, olds, news, slots)
  <2>0. slots = PlanSlots(existing, decisions, S, term, k, olds, news) OBVIOUS
  <2> HIDE DEF slots
  <2>1. /\ SlotsFit(existing, S, olds, news, slots) /\ WrittenOnce(S, slots)
        /\ \A f \in slots : f[1] # "retire" BY <2>0, PlanSlotsFits
  <2>2. \A c : <<"retire", c>> \notin slots
    <3> SUFFICES ASSUME NEW c, <<"retire", c>> \in slots PROVE FALSE OBVIOUS
    <3>1. <<"retire", c>>[1] = "retire" OBVIOUS
    <3> QED BY <2>1, <3>1
  <2>3. \A f \in slots : f[1] = "create" =>
          \E i \in news : /\ f = <<"create", i>>
                          /\ \A x \in olds : existing[x].slot = S[i].slot => <<"retire", x>> \in slots
    BY <2>1 DEF SlotsFit
  <2> QED BY <2>1, <2>2, <2>3 DEF PartFits, SlotsFit
<1>3. PartFits(existing, S, olds, news, anew) BY AnewFits
<1>4. PartFits(existing, S, olds, news, {}) BY AnewFits
<1>5. \/ T = slots
      \/ \E f : T = slots \cup {<<"applied", f>>}
      \/ \E f : T = anew \cup {<<"applied", f>>}
      \/ T = {}
      \/ \E f : T = {<<"review", f>>}
  <2> HIDE DEF slots, anew, reused, fp
  <2>1. CASE d = "SAME" BY <1>1, <2>1 DEF Decided
  <2>2. CASE d = "DIFFERENT" BY <1>1, <2>2 DEF Decided
  <2>3. CASE d = "IGNORED" BY <1>1, <2>3 DEF Decided
  <2>4. CASE d \notin {"SAME", "DIFFERENT", "IGNORED"}
    <3>1. T = slots \/ T = {<<"review", fp>>} BY <1>1, <2>4 DEF Decided
    <3> QED BY <3>1
  <2> QED BY <2>1, <2>2, <2>3, <2>4
<1> HIDE DEF slots, anew
<1>6. \A f : ~Writes(<<"applied", f>>) /\ ~Writes(<<"review", f>>) BY DEF Writes
<1>7. CASE T = slots BY <1>2, <1>7
<1>8. CASE \E f : T = slots \cup {<<"applied", f>>}
  <2>1. \A f : Writes(f) => (f \in T <=> f \in slots) BY <1>6, <1>8
  <2> QED BY <1>2, <2>1, SamePart
<1>9. CASE \E f : T = anew \cup {<<"applied", f>>}
  <2>1. \A f : Writes(f) => (f \in T <=> f \in anew) BY <1>6, <1>9
  <2> QED BY <1>3, <2>1, SamePart
<1>10. CASE T = {} BY <1>4, <1>10
<1>11. CASE \E f : T = {<<"review", f>>}
  <2>1. \A f : Writes(f) => (f \in T <=> f \in {}) BY <1>6, <1>11
  <2> QED BY <1>4, <2>1, SamePart
<1> QED BY <1>5, <1>7, <1>8, <1>9, <1>10, <1>11

\* The plan for the new key nk: it pairs rows of nk with the courses olds.
IsPart(existing, decisions, S, term, nk, olds, T) ==
    \/ /\ nk \in NewKeys(S) \cap OldKeys(existing)
       /\ olds = Olds(existing, nk)
       /\ T = PlanGroup(existing, decisions, S, term, nk, olds, News(S, nk), FALSE)
    \/ /\ nk \in NewKeys(S) \ OldKeys(existing)
       /\ \A p \in MatchReissues(existing, S, term) : p[1] # nk
       /\ olds = {}
       /\ T = CreateAll(News(S, nk))
    \/ \E p \in MatchReissues(existing, S, term) :
          /\ p[1] = nk
          /\ T = PlanReissue(existing, decisions, S, term, p)
          /\ olds = IF DecisionOn(decisions, ReissueFingerprint(p)) = "DIFFERENT" THEN {}
                    ELSE Olds(existing, p[2])

\* A table as it is read: rows of courses by their ids.
IsTable(table) == \E next \in Nat \ {0} : CourseTable(table, next)

LEMMA TableRows ==
    ASSUME NEW table, IsTable(table)
    PROVE  /\ \E N \in Nat : DOMAIN table \subseteq 1..N
           /\ \A c \in DOMAIN table :
                 /\ table[c].sem \in Semesters /\ table[c].slot \in Slots
                 /\ table[c].ref \in Refs \cup {NoRef} /\ table[c].disc \in BOOLEAN
                 /\ table[c].name \in Names /\ table[c].suffix \in Suffixes
                 /\ table[c].source \in Names \cup {NoName} /\ table[c].teacher \in Teachers
<1>1. PICK next \in Nat \ {0} : CourseTable(table, next) BY DEF IsTable
<1>2. DOMAIN table \subseteq 1..(next - 1) /\ next - 1 \in Nat BY <1>1 DEF CourseTable
<1>3. \A c \in DOMAIN table : table[c] \in Course(next) BY <1>1 DEF CourseTable
<1> QED BY <1>2, <1>3 DEF Course

LEMMA OldsComparable ==
    ASSUME NEW existing, IsTable(existing), NEW S \in Syllabi, NEW nk, NEW ok
    PROVE  /\ Comparable(S, Olds(existing, ok), News(S, nk))
           /\ Olds(existing, ok) \subseteq Syncable(existing)
           /\ \A c \in Olds(existing, ok) : GroupKey(existing[c]) = ok
<1>1. PICK N \in Nat : DOMAIN existing \subseteq 1..N BY TableRows
<1>2. Olds(existing, ok) \subseteq DOMAIN existing BY DEF Olds, Syncable
<1>3. Olds(existing, ok) \subseteq 1..N BY <1>1, <1>2
<1>4. IsFiniteSet(News(S, nk)) /\ \A i, j \in News(S, nk) : S[i].slot = S[j].slot => i = j BY NewsOnce
<1>5. Comparable(S, Olds(existing, ok), News(S, nk)) BY <1>3, <1>4 DEF Comparable
<1> QED BY <1>5 DEF Olds

\* What matchReissues pairs: a code that is new and one that is gone and has not ended.
LEMMA ReissuesAre ==
    ASSUME NEW existing, NEW S, NEW term, NEW p \in MatchReissues(existing, S, term)
    PROVE  /\ p = <<p[1], p[2]>>
           /\ p[1] \in NewKeys(S) \ OldKeys(existing)
           /\ p[2] \in OldKeys(existing) \ NewKeys(S)
           /\ \E c \in Olds(existing, p[2]) : ~EndedBefore(term, existing[c].sem)
           /\ \A q \in MatchReissues(existing, S, term) : q # p => q[1] # p[1] /\ q[2] # p[2]
<1> DEFINE gone == OldKeys(existing) \ NewKeys(S)
           newOnly == NewKeys(S) \ OldKeys(existing)
           fits(nk, ok) ==
               LET olds == Olds(existing, ok)
                   old  == existing[Min(olds)]
                   new  == S[Min(News(S, nk))]
               IN  /\ \E c \in olds : ~existing[c].disc
                   /\ \E c \in olds : ~EndedBefore(term, existing[c].sem)
                   /\ old.teacher = new.teacher
                   /\ NameMatches(old, new.source)
           pairs == {q \in newOnly \X gone : fits(q[1], q[2])}
<1>1. MatchReissues(existing, S, term) = {x \in pairs : \A q \in pairs : q # x => q[1] # x[1] /\ q[2] # x[2]}
  BY DEF MatchReissues
<1>2. p \in pairs /\ \A q \in pairs : q # p => q[1] # p[1] /\ q[2] # p[2]
  <2> HIDE DEF pairs
  <2> QED BY <1>1
<1>3. MatchReissues(existing, S, term) \subseteq pairs
  <2> HIDE DEF pairs
  <2> QED BY <1>1
<1>4. p \in newOnly \X gone /\ fits(p[1], p[2])
  <2> HIDE DEF newOnly, gone, fits
  <2> QED BY <1>2
<1>5. \E c \in Olds(existing, p[2]) : ~EndedBefore(term, existing[c].sem) BY <1>4
<1>6. p = <<p[1], p[2]>> /\ p[1] \in newOnly /\ p[2] \in gone
  <2> HIDE DEF newOnly, gone, fits
  <2> QED BY <1>4
<1> HIDE DEF pairs, fits
<1> QED BY <1>2, <1>3, <1>5, <1>6

LEMMA ReissueFits ==
    ASSUME NEW existing, IsTable(existing), NEW decisions, NEW S \in Syllabi, NEW term,
           NEW p \in MatchReissues(existing, S, term),
           NEW T, T = PlanReissue(existing, decisions, S, term, p),
           NEW olds, olds = IF DecisionOn(decisions, ReissueFingerprint(p)) = "DIFFERENT" THEN {}
                            ELSE Olds(existing, p[2])
    PROVE  PartFits(existing, S, olds, News(S, p[1]), T)
<1> DEFINE news == News(S, p[1])
           old == Olds(existing, p[2])
           fp == ReissueFingerprint(p)
           d == DecisionOn(decisions, fp)
           group == PlanGroup(existing, decisions, S, term, p[1], old, news, TRUE)
<1>1. T = Decided(decisions, fp, group, CreateAll(news)) BY DEF PlanReissue
<1>2. PartFits(existing, S, old, news, group)
  <2>1. Comparable(S, old, news) BY OldsComparable
  <2>2. group = PlanGroup(existing, decisions, S, term, p[1], old, news, TRUE) OBVIOUS
  <2> HIDE DEF group, old, news
  <2> QED BY <2>1, <2>2, GroupFits
<1>3. \A f : ~Writes(<<"applied", f>>) /\ ~Writes(<<"review", f>>) BY DEF Writes
<1>4. PartFits(existing, S, old, news, {}) BY AnewFits
<1>5. PartFits(existing, S, {}, news, CreateAll(news)) BY AnewFits
<1>6. olds = IF d = "DIFFERENT" THEN {} ELSE old OBVIOUS
<1> HIDE DEF group, old, news, fp
<1>7. CASE d = "SAME"
  <2>1. T = group \cup {<<"applied", fp>>} BY <1>1, <1>7 DEF Decided
  <2>2. \A f : Writes(f) => (f \in T <=> f \in group) BY <1>3, <2>1
  <2>3. PartFits(existing, S, old, news, T) BY <1>2, <2>2, SamePart
  <2> QED BY <1>6, <1>7, <2>3 DEF news
<1>8. CASE d = "DIFFERENT"
  <2>1. T = CreateAll(news) \cup {<<"applied", fp>>} BY <1>1, <1>8 DEF Decided
  <2>2. \A f : Writes(f) => (f \in T <=> f \in CreateAll(news)) BY <1>3, <2>1
  <2>3. PartFits(existing, S, {}, news, T) BY <1>5, <2>2, SamePart
  <2> QED BY <1>6, <1>8, <2>3 DEF news
<1>9. CASE d \notin {"SAME", "DIFFERENT"}
  <2>1. T = {} \/ T = {<<"review", fp>>} BY <1>1, <1>9 DEF Decided
  <2>2. \A f : Writes(f) => (f \in T <=> f \in {}) BY <1>3, <2>1
  <2>3. PartFits(existing, S, old, news, T) BY <1>4, <2>2, SamePart
  <2> QED BY <1>6, <1>9, <2>3 DEF news
<1> QED BY <1>7, <1>8, <1>9

\* A part fits its courses and rows; its courses have the group of its rows, or one that
\* is gone and has not ended, and then no course has the group of its rows.
LEMMA PartIs ==
    ASSUME NEW existing, IsTable(existing), NEW decisions, NEW S \in Syllabi, NEW term,
           NEW nk, NEW olds, NEW T, IsPart(existing, decisions, S, term, nk, olds, T)
    PROVE  /\ PartFits(existing, S, olds, News(S, nk), T)
           /\ olds \subseteq Syncable(existing)
           /\ \/ olds = Olds(existing, nk)
              \/ /\ Olds(existing, nk) = {}
                 /\ \A c \in olds : ~EndedBefore(term, existing[c].sem)
<1>0. ASSUME nk \notin OldKeys(existing) PROVE Olds(existing, nk) = {} BY <1>0 DEF OldKeys, Olds
<1>1. CASE /\ nk \in NewKeys(S) \cap OldKeys(existing)
           /\ olds = Olds(existing, nk)
           /\ T = PlanGroup(existing, decisions, S, term, nk, olds, News(S, nk), FALSE)
  <2>1. Comparable(S, olds, News(S, nk)) /\ olds \subseteq Syncable(existing) BY <1>1, OldsComparable
  <2>2. PartFits(existing, S, olds, News(S, nk), T) BY <1>1, <2>1, GroupFits
  <2> QED BY <1>1, <2>1, <2>2
<1>2. CASE /\ nk \in NewKeys(S) \ OldKeys(existing) /\ olds = {}
           /\ T = CreateAll(News(S, nk))
  BY <1>0, <1>2, AnewFits
<1>3. ASSUME NEW p \in MatchReissues(existing, S, term), p[1] = nk,
             T = PlanReissue(existing, decisions, S, term, p),
             olds = IF DecisionOn(decisions, ReissueFingerprint(p)) = "DIFFERENT" THEN {}
                    ELSE Olds(existing, p[2])
      PROVE  /\ PartFits(existing, S, olds, News(S, nk), T)
             /\ olds \subseteq Syncable(existing)
             /\ Olds(existing, nk) = {}
             /\ \A c \in olds : ~EndedBefore(term, existing[c].sem)
  <2>1. PartFits(existing, S, olds, News(S, nk), T) BY <1>3, ReissueFits
  <2>2. nk \notin OldKeys(existing) BY <1>3, ReissuesAre
  <2>3. PICK d \in Olds(existing, p[2]) : ~EndedBefore(term, existing[d].sem) BY ReissuesAre
  <2>4. olds \subseteq Olds(existing, p[2]) BY <1>3
  <2>5. /\ Olds(existing, p[2]) \subseteq Syncable(existing)
        /\ \A c \in Olds(existing, p[2]) : GroupKey(existing[c]) = p[2] BY OldsComparable
  <2>6. \A c \in Olds(existing, p[2]) : existing[c].sem = existing[d].sem
    <3> SUFFICES ASSUME NEW c \in Olds(existing, p[2]) PROVE existing[c].sem = existing[d].sem OBVIOUS
    <3>1. GroupKey(existing[c]) = GroupKey(existing[d]) BY <2>5
    <3> QED BY <3>1 DEF GroupKey
  <2>7. \A c \in olds : ~EndedBefore(term, existing[c].sem) BY <2>3, <2>4, <2>6
  <2> QED BY <1>0, <2>1, <2>2, <2>4, <2>5, <2>7
<1> QED BY <1>1, <1>2, <1>3 DEF IsPart

\* Two parts share neither their rows nor their courses.
LEMMA PartsApart ==
    ASSUME NEW existing, IsTable(existing), NEW decisions, NEW S \in Syllabi, NEW term,
           NEW nk, NEW olds, NEW T, IsPart(existing, decisions, S, term, nk, olds, T),
           NEW mk, NEW olds2, NEW T2, IsPart(existing, decisions, S, term, mk, olds2, T2),
           nk = mk \/ \E c : c \in olds /\ c \in olds2
    PROVE  nk = mk /\ olds = olds2 /\ T = T2
<1> DEFINE MR == MatchReissues(existing, S, term)
           both == NewKeys(S) \cap OldKeys(existing)
           A(k, o, X) == k \in both /\ o = Olds(existing, k)
                         /\ X = PlanGroup(existing, decisions, S, term, k, o, News(S, k), FALSE)
           B(k, o, X) == /\ k \in NewKeys(S) \ OldKeys(existing) /\ \A p \in MR : p[1] # k
                         /\ o = {} /\ X = CreateAll(News(S, k))
           R(k, o, X, p) == /\ p[1] = k /\ X = PlanReissue(existing, decisions, S, term, p)
                            /\ o = IF DecisionOn(decisions, ReissueFingerprint(p)) = "DIFFERENT" THEN {}
                                   ELSE Olds(existing, p[2])
<1>1. A(nk, olds, T) \/ B(nk, olds, T) \/ \E p \in MR : R(nk, olds, T, p) BY DEF IsPart
<1>2. A(mk, olds2, T2) \/ B(mk, olds2, T2) \/ \E p \in MR : R(mk, olds2, T2, p) BY DEF IsPart
<1>3. \A p \in MR : p[1] \notin OldKeys(existing) /\ p[2] \notin NewKeys(S) BY ReissuesAre
<1>4. \A p, q \in MR : p[1] = q[1] \/ p[2] = q[2] => p = q
  <2> SUFFICES ASSUME NEW p \in MR, NEW q \in MR, p # q PROVE p[1] # q[1] /\ p[2] # q[2] OBVIOUS
  <2> QED BY ReissuesAre
<1>5. \A k : \A c \in Olds(existing, k) : GroupKey(existing[c]) = k BY OldsComparable
<1>6. CASE A(nk, olds, T)
  <2>1. CASE A(mk, olds2, T2) BY <1>5, <1>6, <2>1
  <2>2. CASE B(mk, olds2, T2) BY <1>6, <2>2
  <2>3. CASE \E p \in MR : R(mk, olds2, T2, p)
    <3>1. PICK p \in MR : R(mk, olds2, T2, p) BY <2>3
    <3>2. olds2 \subseteq Olds(existing, p[2]) BY <3>1
    <3> QED BY <1>3, <1>5, <1>6, <3>1, <3>2
  <2> QED BY <1>2, <2>1, <2>2, <2>3
<1>7. CASE B(nk, olds, T) BY <1>2, <1>7
<1>8. CASE \E p \in MR : R(nk, olds, T, p)
  <2>1. PICK p \in MR : R(nk, olds, T, p) BY <1>8
  <2>2. olds \subseteq Olds(existing, p[2]) BY <2>1
  <2>3. CASE A(mk, olds2, T2) BY <1>3, <1>5, <2>1, <2>2, <2>3
  <2>4. CASE B(mk, olds2, T2) BY <2>1, <2>4
  <2>5. CASE \E q \in MR : R(mk, olds2, T2, q)
    <3>1. PICK q \in MR : R(mk, olds2, T2, q) BY <2>5
    <3>2. olds2 \subseteq Olds(existing, q[2]) BY <3>1
    <3>3. p = q BY <1>4, <1>5, <2>1, <2>2, <3>1, <3>2
    <3> QED BY <2>1, <3>1, <3>3
  <2> QED BY <1>2, <2>3, <2>4, <2>5
<1> QED BY <1>1, <1>6, <1>7, <1>8

\* The plan says what its parts say, candidates to discontinue aside.
LEMMA PlanParts ==
    ASSUME NEW existing, NEW decisions, NEW S, NEW term, NEW complete,
           NEW P, P = PlanCourseSync(existing, decisions, S, term, complete), NEW f, f[1] # "gone"
    PROVE  f \in P <=> \E nk, olds, T : IsPart(existing, decisions, S, term, nk, olds, T) /\ f \in T
<1> DEFINE both     == NewKeys(S) \cap OldKeys(existing)
           reissues == MatchReissues(existing, S, term)
           fresh    == {k \in NewKeys(S) \ OldKeys(existing) : \A p \in reissues : p[1] # k}
           settled  == {p \in reissues : DecisionOn(decisions, ReissueFingerprint(p)) # "DIFFERENT"}
           gone     == {k \in OldKeys(existing) \ NewKeys(S) : \A p \in settled : p[2] # k}
           GS == {PlanGroup(existing, decisions, S, term, k,
                            Olds(existing, k), News(S, k), FALSE) : k \in both}
           FS == {CreateAll(News(S, k)) : k \in fresh}
           RS == {PlanReissue(existing, decisions, S, term, p) : p \in reissues}
           DS == {DiscontinueCandidates(existing, Olds(existing, k)) : k \in gone}
           facts == UNION (GS \cup FS \cup RS \cup DS)
           active == Cardinality({c \in Syncable(existing) : ~existing[c].disc})
<1>1. P = DecideDiscontinues(facts, active, complete) BY DEF PlanCourseSync
<1>2. f \in P <=> f \in facts
  <2> HIDE DEF facts, active
  <2> QED BY <1>1 DEF DecideDiscontinues
<1>3. \A X \in DS : f \notin X
  <2> SUFFICES ASSUME NEW k, f \in DiscontinueCandidates(existing, Olds(existing, k)) PROVE FALSE OBVIOUS
  <2> QED BY DEF DiscontinueCandidates
<1>4. f \in facts <=> \E X \in GS \cup FS \cup RS : f \in X
  <2> HIDE DEF GS, FS, RS, DS
  <2> QED BY <1>3
<1> HIDE DEF facts
<1>5. ASSUME NEW X \in GS \cup FS \cup RS
      PROVE  \E nk, olds : IsPart(existing, decisions, S, term, nk, olds, X)
  <2>1. CASE X \in GS
    <3>1. PICK k \in both : X = PlanGroup(existing, decisions, S, term, k, Olds(existing, k), News(S, k), FALSE)
      BY <2>1
    <3>2. IsPart(existing, decisions, S, term, k, Olds(existing, k), X) BY <3>1 DEF IsPart
    <3> QED BY <3>2
  <2>2. CASE X \in FS
    <3>1. PICK k \in fresh : X = CreateAll(News(S, k)) BY <2>2
    <3>2. IsPart(existing, decisions, S, term, k, {}, X) BY <3>1 DEF IsPart
    <3> QED BY <3>2
  <2>3. CASE X \in RS
    <3>1. PICK p \in reissues : X = PlanReissue(existing, decisions, S, term, p) BY <2>3
    <3> DEFINE o == IF DecisionOn(decisions, ReissueFingerprint(p)) = "DIFFERENT" THEN {}
                    ELSE Olds(existing, p[2])
    <3>2. IsPart(existing, decisions, S, term, p[1], o, X) BY <3>1 DEF IsPart
    <3> HIDE DEF o
    <3> QED BY <3>2
  <2> QED BY <2>1, <2>2, <2>3
<1>6. ASSUME NEW nk, NEW olds, NEW T, IsPart(existing, decisions, S, term, nk, olds, T)
      PROVE  T \in GS \cup FS \cup RS
  <2>1. CASE /\ nk \in NewKeys(S) \cap OldKeys(existing)
             /\ olds = Olds(existing, nk)
             /\ T = PlanGroup(existing, decisions, S, term, nk, olds, News(S, nk), FALSE)
    BY <2>1
  <2>2. CASE /\ nk \in NewKeys(S) \ OldKeys(existing)
             /\ \A p \in MatchReissues(existing, S, term) : p[1] # nk
             /\ T = CreateAll(News(S, nk))
    BY <2>2
  <2>3. CASE \E p \in MatchReissues(existing, S, term) : T = PlanReissue(existing, decisions, S, term, p)
    BY <2>3
  <2> HIDE DEF GS, FS, RS
  <2> QED BY <1>6, <2>1, <2>2, <2>3 DEF IsPart
<1> HIDE DEF GS, FS, RS
<1> QED BY <1>2, <1>4, <1>5, <1>6

\* What a whole plan promises about the rows it was made from.
PlanFits(existing, S, term, P) ==
    /\ \A f \in P : f[1] = "update" =>
          \E c \in Syncable(existing), i \in DOMAIN S :
             /\ f = <<"update", c, i>>
             /\ \A d \in Syncable(existing) :
                   DedupKey(existing[d]) = DedupKey(S[i]) => DedupKey(existing[c]) = DedupKey(S[i])
             /\ EndedBefore(term, existing[c].sem) => existing[c].ref = S[i].ref
    /\ \A f \in P : f[1] = "create" =>
          \E i \in DOMAIN S :
             /\ f = <<"create", i>>
             /\ \A d \in Syncable(existing) :
                   DedupKey(existing[d]) = DedupKey(S[i]) => <<"retire", d>> \in P
    /\ \A f \in P : f[1] = "retire" => \E c \in Syncable(existing) : f = <<"retire", c>>
    /\ \A c, i : ~(<<"update", c, i>> \in P /\ <<"retire", c>> \in P)
    /\ WrittenOnce(S, P)
    /\ \A f, g \in P : f[1] = "create" /\ g[1] = "create" /\ DedupKey(S[f[2]]) = DedupKey(S[g[2]])
                          => f[2] = g[2]
    /\ \A f, g \in P : f[1] = "update" /\ g[1] = "create" => DedupKey(S[f[3]]) # DedupKey(S[g[2]])
    /\ \A f, g \in P : f[1] = "update" /\ g[1] = "update" /\ DedupKey(S[f[3]]) = DedupKey(S[g[3]])
                          => f[2] = g[2]

LEMMA PlanIsFit ==
    ASSUME NEW existing, IsTable(existing), NEW decisions, NEW S \in Syllabi, NEW term, NEW complete,
           NEW P, P = PlanCourseSync(existing, decisions, S, term, complete)
    PROVE  PlanFits(existing, S, term, P)
<1> DEFINE Part(nk, olds, T) == IsPart(existing, decisions, S, term, nk, olds, T)
<1>1. ASSUME NEW f, Writes(f)
      PROVE  f \in P <=> \E nk, olds, T : Part(nk, olds, T) /\ f \in T
  <2>1. f[1] # "gone" BY <1>1 DEF Writes
  <2> QED BY <2>1, PlanParts
<1>2. ASSUME NEW nk, NEW olds, NEW T, Part(nk, olds, T)
      PROVE  /\ PartFits(existing, S, olds, News(S, nk), T)
             /\ olds \subseteq Syncable(existing)
             /\ \/ olds = Olds(existing, nk)
                \/ Olds(existing, nk) = {} /\ \A c \in olds : ~EndedBefore(term, existing[c].sem)
  BY <1>2, PartIs
<1>3. ASSUME NEW nk, NEW olds, NEW T, Part(nk, olds, T), NEW mk, NEW os, NEW U, Part(mk, os, U),
             nk = mk \/ \E c : c \in olds /\ c \in os
      PROVE  nk = mk /\ olds = os /\ T = U
  BY <1>3, PartsApart
<1>4. ASSUME NEW nk
      PROVE  /\ News(S, nk) \subseteq DOMAIN S
             /\ \A i \in News(S, nk) : GroupKey(S[i]) = nk
             /\ \A i, j \in News(S, nk) : DedupKey(S[i]) = DedupKey(S[j]) => i = j
  BY NewsOnce
<1>5. ASSUME NEW nk
      PROVE  /\ Olds(existing, nk) = {c \in Syncable(existing) : GroupKey(existing[c]) = nk}
  BY DEF Olds
<1>6. \A r, q : DedupKey(r) = DedupKey(q) <=> GroupKey(r) = GroupKey(q) /\ r.slot = q.slot
  BY DEF DedupKey, GroupKey
<1> HIDE DEF Part
\* An update, a creation and a retirement, each with its part.
<1>7. ASSUME NEW f \in P, f[1] = "update"
      PROVE  \E nk, olds, T : \E c \in olds, i \in News(S, nk) :
                /\ Part(nk, olds, T) /\ f \in T /\ f = <<"update", c, i>>
                /\ existing[c].slot = S[i].slot \/ \A d \in olds : existing[d].slot # S[i].slot
  <2>1. PICK nk, olds, T : Part(nk, olds, T) /\ f \in T BY <1>1, <1>7 DEF Writes
  <2>2. PartFits(existing, S, olds, News(S, nk), T) BY <1>2, <2>1
  <2> QED BY <1>7, <2>1, <2>2 DEF PartFits
<1>8. ASSUME NEW f \in P, f[1] = "create"
      PROVE  \E nk, olds, T : \E i \in News(S, nk) :
                /\ Part(nk, olds, T) /\ f \in T /\ f = <<"create", i>>
                /\ \A d \in olds : existing[d].slot = S[i].slot => <<"retire", d>> \in T
  <2>1. PICK nk, olds, T : Part(nk, olds, T) /\ f \in T BY <1>1, <1>8 DEF Writes
  <2>2. PartFits(existing, S, olds, News(S, nk), T) BY <1>2, <2>1
  <2> QED BY <1>8, <2>1, <2>2 DEF PartFits
<1>9. ASSUME NEW f \in P, f[1] = "retire"
      PROVE  \E nk, olds, T : \E c \in olds : Part(nk, olds, T) /\ f \in T /\ f = <<"retire", c>>
  <2>1. PICK nk, olds, T : Part(nk, olds, T) /\ f \in T BY <1>1, <1>9 DEF Writes
  <2>2. PartFits(existing, S, olds, News(S, nk), T) BY <1>2, <2>1
  <2> QED BY <1>9, <2>1, <2>2 DEF PartFits
<1>10. ASSUME NEW f \in P, f[1] = "update"
       PROVE  \E c \in Syncable(existing), i \in DOMAIN S :
                /\ f = <<"update", c, i>>
                /\ \A d \in Syncable(existing) :
                      DedupKey(existing[d]) = DedupKey(S[i]) => DedupKey(existing[c]) = DedupKey(S[i])
                /\ EndedBefore(term, existing[c].sem) => existing[c].ref = S[i].ref
  <2>1. PICK nk, olds, T : \E c \in olds, i \in News(S, nk) :
                /\ Part(nk, olds, T) /\ f \in T /\ f = <<"update", c, i>>
                /\ existing[c].slot = S[i].slot \/ \A d \in olds : existing[d].slot # S[i].slot
    BY <1>7, <1>10
  <2>2. PICK c \in olds, i \in News(S, nk) :
                /\ Part(nk, olds, T) /\ f \in T /\ f = <<"update", c, i>>
                /\ existing[c].slot = S[i].slot \/ \A d \in olds : existing[d].slot # S[i].slot
    BY <2>1
  <2>3. c \in Syncable(existing) /\ i \in DOMAIN S /\ GroupKey(S[i]) = nk BY <1>2, <1>4, <2>2
  <2>4. ASSUME NEW d \in Syncable(existing), DedupKey(existing[d]) = DedupKey(S[i])
        PROVE  DedupKey(existing[c]) = DedupKey(S[i])
    <3>1. GroupKey(existing[d]) = nk /\ existing[d].slot = S[i].slot BY <1>6, <2>3, <2>4
    <3>2. d \in Olds(existing, nk) BY <1>5, <3>1
    <3>3. olds = Olds(existing, nk) BY <1>2, <2>2, <3>2
    <3>4. existing[c].slot = S[i].slot BY <2>2, <3>1, <3>2, <3>3
    <3>5. GroupKey(existing[c]) = nk BY <1>5, <3>3
    <3> QED BY <1>6, <2>3, <3>4, <3>5
  <2>5. ASSUME EndedBefore(term, existing[c].sem) PROVE existing[c].ref = S[i].ref
    <3>1. olds = Olds(existing, nk) BY <1>2, <2>2, <2>5
    <3>2. GroupKey(existing[c]) = GroupKey(S[i]) BY <1>5, <2>3, <3>1
    <3> QED BY <3>2 DEF GroupKey
  <2> QED BY <2>2, <2>3, <2>4, <2>5
<1>11. ASSUME NEW f \in P, f[1] = "create"
       PROVE  \E i \in DOMAIN S :
                /\ f = <<"create", i>>
                /\ \A d \in Syncable(existing) :
                      DedupKey(existing[d]) = DedupKey(S[i]) => <<"retire", d>> \in P
  <2>1. PICK nk, olds, T : \E i \in News(S, nk) :
                /\ Part(nk, olds, T) /\ f \in T /\ f = <<"create", i>>
                /\ \A d \in olds : existing[d].slot = S[i].slot => <<"retire", d>> \in T
    BY <1>8, <1>11
  <2>2. PICK i \in News(S, nk) :
                /\ Part(nk, olds, T) /\ f \in T /\ f = <<"create", i>>
                /\ \A d \in olds : existing[d].slot = S[i].slot => <<"retire", d>> \in T
    BY <2>1
  <2>3. i \in DOMAIN S /\ GroupKey(S[i]) = nk BY <1>4
  <2>4. ASSUME NEW d \in Syncable(existing), DedupKey(existing[d]) = DedupKey(S[i])
        PROVE  <<"retire", d>> \in P
    <3>1. GroupKey(existing[d]) = nk /\ existing[d].slot = S[i].slot BY <1>6, <2>3, <2>4
    <3>2. d \in Olds(existing, nk) BY <1>5, <3>1
    <3>3. olds = Olds(existing, nk) BY <1>2, <2>2, <3>2
    <3>4. <<"retire", d>> \in T BY <2>2, <3>1, <3>2, <3>3
    <3>5. Writes(<<"retire", d>>) BY DEF Writes
    <3> QED BY <1>1, <2>2, <3>4, <3>5
  <2> QED BY <2>2, <2>3, <2>4
<1>12. ASSUME NEW f \in P, f[1] = "retire" PROVE \E c \in Syncable(existing) : f = <<"retire", c>>
  <2>1. PICK nk, olds, T : \E c \in olds : Part(nk, olds, T) /\ f \in T /\ f = <<"retire", c>> BY <1>9, <1>12
  <2>2. olds \subseteq Syncable(existing) BY <1>2, <2>1
  <2> QED BY <2>1, <2>2
\* Facts about the same row, or the same course, stand in one part.
<1>14. ASSUME NEW c, NEW i, <<"update", c, i>> \in P
       PROVE  \E nk, olds, T : /\ Part(nk, olds, T) /\ <<"update", c, i>> \in T
                               /\ c \in olds /\ i \in News(S, nk)
  <2> DEFINE f == <<"update", c, i>>
  <2>1. f[1] = "update" /\ f[2] = c /\ f[3] = i OBVIOUS
  <2>2. f \in P BY <1>14
  <2> HIDE DEF f
  <2>3. PICK nk, olds, T : \E x \in olds, y \in News(S, nk) :
                /\ Part(nk, olds, T) /\ f \in T /\ f = <<"update", x, y>>
    BY <1>7, <2>1, <2>2
  <2>4. c \in olds /\ i \in News(S, nk) /\ Part(nk, olds, T) /\ f \in T BY <2>1, <2>3
  <2> QED BY <2>4 DEF f
<1>15. ASSUME NEW i, <<"create", i>> \in P
       PROVE  \E nk, olds, T : Part(nk, olds, T) /\ <<"create", i>> \in T /\ i \in News(S, nk)
  <2> DEFINE f == <<"create", i>>
  <2>1. f[1] = "create" /\ f[2] = i OBVIOUS
  <2>2. f \in P BY <1>15
  <2> HIDE DEF f
  <2>3. PICK nk, olds, T : \E y \in News(S, nk) : Part(nk, olds, T) /\ f \in T /\ f = <<"create", y>>
    BY <1>8, <2>1, <2>2
  <2>4. i \in News(S, nk) /\ Part(nk, olds, T) /\ f \in T BY <2>1, <2>3
  <2> QED BY <2>4 DEF f
<1>16. ASSUME NEW c, <<"retire", c>> \in P
       PROVE  \E nk, olds, T : Part(nk, olds, T) /\ <<"retire", c>> \in T /\ c \in olds
  <2> DEFINE f == <<"retire", c>>
  <2>1. f[1] = "retire" /\ f[2] = c OBVIOUS
  <2>2. f \in P BY <1>16
  <2> HIDE DEF f
  <2>3. PICK nk, olds, T : \E y \in olds : Part(nk, olds, T) /\ f \in T /\ f = <<"retire", y>>
    BY <1>9, <2>1, <2>2
  <2>4. c \in olds /\ Part(nk, olds, T) /\ f \in T BY <2>1, <2>3
  <2> QED BY <2>4 DEF f
<1>17. \A i, j, nk, mk : i \in News(S, nk) /\ j \in News(S, mk) /\ DedupKey(S[i]) = DedupKey(S[j])
                            => nk = mk /\ i = j
  <2> SUFFICES ASSUME NEW i, NEW j, NEW nk, NEW mk, i \in News(S, nk), j \in News(S, mk),
                      DedupKey(S[i]) = DedupKey(S[j])
               PROVE  nk = mk /\ i = j
    OBVIOUS
  <2>1. nk = mk BY <1>4, <1>6
  <2> QED BY <1>4, <2>1
<1>18. ASSUME NEW c, NEW i, <<"update", c, i>> \in P, NEW j, <<"create", j>> \in P, DedupKey(S[i]) = DedupKey(S[j])
       PROVE  FALSE
  <2>1. PICK nk, olds, T : Part(nk, olds, T) /\ <<"update", c, i>> \in T /\ i \in News(S, nk) BY <1>14, <1>18
  <2>2. PICK mk, os, U : Part(mk, os, U) /\ <<"create", j>> \in U /\ j \in News(S, mk) BY <1>15, <1>18
  <2>3. nk = mk /\ i = j BY <1>17, <1>18, <2>1, <2>2
  <2>4. T = U BY <1>3, <2>1, <2>2, <2>3
  <2>5. WrittenOnce(S, T) BY <1>2, <2>1 DEF PartFits
  <2>6. <<"update", c, i>> \in T /\ <<"create", i>> \in T BY <2>1, <2>2, <2>3, <2>4
  <2> QED BY <2>5, <2>6 DEF WrittenOnce
<1>19. ASSUME NEW c, NEW i, <<"update", c, i>> \in P, NEW d, NEW j, <<"update", d, j>> \in P,
              DedupKey(S[i]) = DedupKey(S[j])
       PROVE  c = d
  <2>1. PICK nk, olds, T : Part(nk, olds, T) /\ <<"update", c, i>> \in T /\ i \in News(S, nk) BY <1>14, <1>19
  <2>2. PICK mk, os, U : Part(mk, os, U) /\ <<"update", d, j>> \in U /\ j \in News(S, mk) BY <1>14, <1>19
  <2>3. nk = mk /\ i = j BY <1>17, <1>19, <2>1, <2>2
  <2>4. T = U BY <1>3, <2>1, <2>2, <2>3
  <2>5. WrittenOnce(S, T) BY <1>2, <2>1 DEF PartFits
  <2>6. <<"update", c, i>> \in T /\ <<"update", d, i>> \in T BY <2>1, <2>2, <2>3, <2>4
  <2> QED BY <2>5, <2>6 DEF WrittenOnce
<1>20. ASSUME NEW c, NEW i, <<"update", c, i>> \in P, NEW j, <<"update", c, j>> \in P
       PROVE  i = j
  <2>1. PICK nk, olds, T : Part(nk, olds, T) /\ <<"update", c, i>> \in T /\ c \in olds BY <1>14, <1>20
  <2>2. PICK mk, os, U : Part(mk, os, U) /\ <<"update", c, j>> \in U /\ c \in os BY <1>14, <1>20
  <2>3. T = U BY <1>3, <2>1, <2>2
  <2>4. WrittenOnce(S, T) BY <1>2, <2>1 DEF PartFits
  <2>5. <<"update", c, i>> \in T /\ <<"update", c, j>> \in T BY <2>1, <2>2, <2>3
  <2> QED BY <2>4, <2>5 DEF WrittenOnce
<1>21. ASSUME NEW c, NEW i, <<"update", c, i>> \in P, <<"retire", c>> \in P
       PROVE  FALSE
  <2>1. PICK nk, olds, T : Part(nk, olds, T) /\ <<"update", c, i>> \in T /\ c \in olds BY <1>14, <1>21
  <2>2. PICK mk, os, U : Part(mk, os, U) /\ <<"retire", c>> \in U /\ c \in os BY <1>16, <1>21
  <2>3. T = U BY <1>3, <2>1, <2>2
  <2>4. \A x, y, z : ~(<<"update", x, y>> \in T /\ <<"retire", z>> \in T) BY <1>2, <2>1 DEF PartFits
  <2> QED BY <2>1, <2>2, <2>3, <2>4
<1>22. WrittenOnce(S, P) BY <1>18, <1>19, <1>20 DEF WrittenOnce
<1>23. \A f, g \in P : f[1] = "create" /\ g[1] = "create" /\ DedupKey(S[f[2]]) = DedupKey(S[g[2]])
                          => f[2] = g[2]
  <2> SUFFICES ASSUME NEW f \in P, NEW g \in P, f[1] = "create", g[1] = "create",
                      DedupKey(S[f[2]]) = DedupKey(S[g[2]])
               PROVE  f[2] = g[2]
    OBVIOUS
  <2>1. PICK nk, olds, T : \E i \in News(S, nk) : f = <<"create", i>> BY <1>8
  <2>2. PICK mk, os, U : \E i \in News(S, mk) : g = <<"create", i>> BY <1>8
  <2>3. f[2] \in News(S, nk) /\ g[2] \in News(S, mk) BY <2>1, <2>2
  <2> QED BY <1>17, <2>3
<1>24. \A f \in P : f[1] = "update" => f = <<"update", f[2], f[3]>> BY <1>7
<1>25. \A f \in P : f[1] = "create" => f = <<"create", f[2]>> BY <1>8
<1>26. \A f, g \in P : f[1] = "update" /\ g[1] = "create" => DedupKey(S[f[3]]) # DedupKey(S[g[2]])
  <2> SUFFICES ASSUME NEW f \in P, NEW g \in P, f[1] = "update", g[1] = "create",
                      DedupKey(S[f[3]]) = DedupKey(S[g[2]])
               PROVE  FALSE
    OBVIOUS
  <2>1. <<"update", f[2], f[3]>> \in P /\ <<"create", g[2]>> \in P BY <1>24, <1>25
  <2> QED BY <1>18, <2>1
<1>27. \A f, g \in P : f[1] = "update" /\ g[1] = "update" /\ DedupKey(S[f[3]]) = DedupKey(S[g[3]])
                          => f[2] = g[2]
  <2> SUFFICES ASSUME NEW f \in P, NEW g \in P, f[1] = "update", g[1] = "update",
                      DedupKey(S[f[3]]) = DedupKey(S[g[3]])
               PROVE  f[2] = g[2]
    OBVIOUS
  <2> DEFINE c == f[2] i == f[3] d == g[2] j == g[3]
  <2>1. <<"update", c, i>> \in P /\ <<"update", d, j>> \in P BY <1>24
  <2>2. DedupKey(S[i]) = DedupKey(S[j]) OBVIOUS
  <2> HIDE DEF c, i, d, j
  <2>3. c = d BY <1>19, <2>1, <2>2
  <2> QED BY <2>3 DEF c, d
<1> QED BY <1>10, <1>11, <1>12, <1>21, <1>22, <1>23, <1>26, <1>27 DEF PlanFits

-----------------------------------------------------------------------------
(* The tables, row by row. *)

\* The row that course c takes its content from.
UpdateRow(P, c) == (CHOOSE g \in P : g[1] = "update" /\ g[2] = c)[3]

UpdateFits(existing, S, term, P, c, i) ==
    /\ i \in DOMAIN S /\ c \in Syncable(existing)
    /\ <<"update", c, i>> \in P
    /\ \A d \in Syncable(existing) :
          DedupKey(existing[d]) = DedupKey(S[i]) => DedupKey(existing[c]) = DedupKey(S[i])
    /\ EndedBefore(term, existing[c].sem) => existing[c].ref = S[i].ref
    /\ \A f \in P : f[1] = "update" /\ f[2] = c => f[3] = i

LEMMA UpdateRowIs ==
    ASSUME NEW existing, NEW S, NEW term, NEW P, PlanFits(existing, S, term, P), NEW c \in Named(P, "update")
    PROVE  UpdateFits(existing, S, term, P, c, UpdateRow(P, c))
<1> DEFINE g == CHOOSE x \in P : x[1] = "update" /\ x[2] = c
<1>1. g \in P /\ g[1] = "update" /\ g[2] = c
  <2>1. \E x \in P : x[1] = "update" /\ x[2] = c BY DEF Named
  <2> QED BY <2>1
<1>2. UpdateRow(P, c) = g[3] BY DEF UpdateRow
<1> HIDE DEF g
<1>3. PICK d \in Syncable(existing), i \in DOMAIN S :
             /\ g = <<"update", d, i>>
             /\ \A x \in Syncable(existing) :
                   DedupKey(existing[x]) = DedupKey(S[i]) => DedupKey(existing[d]) = DedupKey(S[i])
             /\ EndedBefore(term, existing[d].sem) => existing[d].ref = S[i].ref
  BY <1>1 DEF PlanFits
<1>4. d = c /\ i = g[3] BY <1>1, <1>3
<1>5. ASSUME NEW f \in P, f[1] = "update", f[2] = c PROVE f[3] = g[3]
  <2>1. PICK y \in Syncable(existing), j \in DOMAIN S : f = <<"update", y, j>> BY <1>5 DEF PlanFits
  <2>2. y = c /\ f[3] = j BY <1>5, <2>1
  <2>3. <<"update", c, j>> \in P /\ <<"update", c, i>> \in P BY <1>1, <1>3, <1>4, <2>1, <2>2
  <2>4. i = j BY <2>3 DEF PlanFits, WrittenOnce
  <2> QED BY <1>4, <2>2, <2>4
<1> QED BY <1>1, <1>2, <1>3, <1>4, <1>5 DEF UpdateFits

\* A written row carries the key of its semester, code and slot; the others a key of
\* their own id.
Describes(c, row) ==
    IF row.ref = NoRef THEN row.key \in {<<"retired", c>>, <<"manual", c>>} ELSE row.key = DedupKey(row)

Described(table) == \A c \in DOMAIN table : Describes(c, table[c])

LEMMA KeysGrow ==
    ASSUME NEW n \in Nat, NEW m \in Nat, n <= m
    PROVE  /\ Keys(n) \subseteq Keys(m) /\ Course(n) \subseteq Course(m)
           /\ \A table : CourseTable(table, n) => CourseTable(table, m)
<1>1. 1..(n - 1) \subseteq 1..(m - 1) OBVIOUS
<1>2. Keys(n) \subseteq Keys(m) BY <1>1 DEF Keys
<1>3. Course(n) \subseteq Course(m) BY <1>2 DEF Course
<1> QED BY <1>1, <1>2, <1>3 DEF CourseTable

Listed(r) ==
    /\ r.sem \in Semesters /\ r.slot \in Slots /\ r.ref \in Refs /\ r.ref # NoRef
    /\ r.source \in Names /\ r.teacher \in Teachers /\ r.suffix \in Suffixes

Synced(e, n) == e \in Course(n) /\ e.ref # NoRef /\ e.key = DedupKey(e)

LEMMA CourseIs ==
    ASSUME NEW n, NEW sem \in Semesters, NEW slot \in Slots, NEW ref \in Refs, NEW key \in Keys(n),
           NEW name \in Names, NEW suffix \in Suffixes, NEW source \in Names \cup {NoName},
           NEW teacher \in Teachers, NEW disc \in BOOLEAN
    PROVE  [sem |-> sem, slot |-> slot, ref |-> ref, key |-> key, name |-> name, suffix |-> suffix,
            source |-> source, teacher |-> teacher, disc |-> disc] \in Course(n)
BY DEF Course

Written(e, r, term, b) == [After(e, r, term) EXCEPT !.disc = b]

AfterFits(e, r, term, a, n) ==
    /\ Synced(a, n) /\ a.ref = r.ref
    /\ a.sem = After(e, r, term).sem /\ a.slot = After(e, r, term).slot
    /\ a.key = e.key \/ a.key = DedupKey(r)

LEMMA AfterIs ==
    ASSUME NEW n \in Nat, NEW e, Synced(e, n), NEW r, Listed(r), NEW term,
           EndedBefore(term, e.sem) => e.ref = r.ref, NEW b \in BOOLEAN
    PROVE  AfterFits(e, r, term, Written(e, r, term, b), n)
<1> DEFINE stay == EndedBefore(term, e.sem) /\ (e.sem # r.sem \/ e.slot # r.slot)
           sm == IF stay THEN e.sem ELSE r.sem
           sl == IF stay THEN e.slot ELSE r.slot
           ky == IF stay THEN e.key ELSE DedupKey(r)
           nm == NextCourseName(e, r)[1]
           sx == NextCourseName(e, r)[2]
<1>1. e.sem \in Semesters /\ e.slot \in Slots /\ e.key \in Keys(n) /\ e.name \in Names /\ e.suffix \in Suffixes
  BY DEF Course, Synced
<1>2. DedupKey(r) \in Keys(n) BY DEF DedupKey, Keys, Listed
<1>3. nm \in Names /\ sx \in Suffixes
  <2>1. NoSuffix \in Suffixes BY DEF Suffixes
  <2> QED BY <1>1, <2>1 DEF NextCourseName, Listed
<1>4. sm \in Semesters /\ sl \in Slots /\ ky \in Keys(n) BY <1>1, <1>2 DEF Listed
<1>5. After(e, r, term) = [sem |-> sm, slot |-> sl, key |-> ky, name |-> nm, suffix |-> sx,
                           teacher |-> r.teacher, ref |-> r.ref, source |-> r.source, disc |-> FALSE]
  BY DEF After
<1> DEFINE a == Written(e, r, term, b)
<1>6. (stay => sm = e.sem /\ sl = e.slot /\ ky = e.key) /\ (~stay => sm = r.sem /\ sl = r.slot /\ ky = DedupKey(r))
  OBVIOUS
<1>7. stay => e.ref = r.ref OBVIOUS
<1> HIDE DEF stay, sm, sl, ky, nm, sx
<1>8. a = [sem |-> sm, slot |-> sl, ref |-> r.ref, key |-> ky, name |-> nm, suffix |-> sx,
           source |-> r.source, teacher |-> r.teacher, disc |-> b]
  BY <1>5 DEF Written
<1> HIDE DEF a
<1>9. a.sem = After(e, r, term).sem /\ a.slot = After(e, r, term).slot BY <1>5, <1>8
<1>10. a \in Course(n)
  <2>1. r.ref \in Refs /\ r.source \in Names \cup {NoName} /\ r.teacher \in Teachers BY DEF Listed
  <2>2. [sem |-> sm, slot |-> sl, ref |-> r.ref, key |-> ky, name |-> nm, suffix |-> sx,
         source |-> r.source, teacher |-> r.teacher, disc |-> b] \in Course(n)
    BY <1>3, <1>4, <2>1, CourseIs
  <2> QED BY <1>8, <2>2
<1>11. /\ a.ref = r.ref /\ a.ref # NoRef /\ (a.key = e.key \/ a.key = DedupKey(r))
       /\ a.sem = sm /\ a.slot = sl /\ a.key = ky
  BY <1>6, <1>8 DEF Listed
<1>12. a.key = DedupKey(a)
  <2>1. CASE stay
    <3>1. a.key = e.key /\ a.sem = e.sem /\ a.slot = e.slot /\ a.ref = e.ref BY <1>6, <1>7, <1>11, <2>1
    <3> QED BY <3>1 DEF DedupKey, Synced
  <2>2. CASE ~stay
    <3>1. a.key = DedupKey(r) /\ a.sem = r.sem /\ a.slot = r.slot /\ a.ref = r.ref BY <1>6, <1>11, <2>2
    <3> QED BY <3>1 DEF DedupKey
  <2> QED BY <2>1, <2>2
<1> QED BY <1>9, <1>10, <1>11, <1>12 DEF Synced, AfterFits, a

LEMMA NewCourseIs ==
    ASSUME NEW n \in Nat, NEW S \in Syllabi \cup {Legacy}, NEW i \in DOMAIN S, NEW source \in Names \cup {NoName},
           NEW a, a = NewCourse(S[i], DedupKey(S[i]), source)
    PROVE  a \in Course(n) /\ a.ref # NoRef /\ a.key = DedupKey(S[i]) /\ a.key = DedupKey(a)
<1> DEFINE r == S[i]
<1>1. /\ r.sem \in Semesters /\ r.slot \in Slots /\ r.ref \in Refs
      /\ r.source \in Names /\ r.teacher \in Teachers /\ r.suffix \in Suffixes
      /\ r.sure \in BOOLEAN /\ r.ref # NoRef
  BY SyllabusRows
<1>2. a = NewCourse(r, DedupKey(r), source) OBVIOUS
<1> HIDE DEF r
<1>3. DedupKey(r) \in Keys(n) BY <1>1 DEF DedupKey, Keys
<1>4. a = [sem |-> r.sem, slot |-> r.slot, ref |-> r.ref, key |-> DedupKey(r), name |-> r.source,
           suffix |-> r.suffix, source |-> source, teacher |-> r.teacher, disc |-> FALSE]
  BY <1>2 DEF NewCourse
<1>5. a \in Course(n) BY <1>1, <1>3, <1>4 DEF Course
<1>6. a.key = DedupKey(r) /\ a.sem = r.sem /\ a.ref = r.ref /\ a.slot = r.slot BY <1>4
<1>7. a.key = DedupKey(a) BY <1>6 DEF DedupKey
<1> QED BY <1>1, <1>5, <1>6, <1>7 DEF r

\* Table D is table after Discontinue: the retired courses have other keys, no slot changed.
Discontinued(table, P, D, n) ==
    /\ DOMAIN D = DOMAIN table /\ CourseTable(D, n) /\ Described(D)
    /\ \A c \in DOMAIN table :
          /\ D[c].sem = table[c].sem /\ D[c].slot = table[c].slot
          /\ c \in Named(P, "retire") => D[c].key = <<"retired", c>>
          /\ c \notin Named(P, "retire") => D[c].key = table[c].key /\ D[c].ref = table[c].ref

LEMMA DiscontinueIs ==
    ASSUME NEW table, NEW P, NEW n \in Nat, CourseTable(table, n), Described(table)
    PROVE  Discontinued(table, P, Discontinue(table, P), n)
<1> DEFINE D == Discontinue(table, P)
<1>0. D = Discontinue(table, P) OBVIOUS
<1> HIDE DEF D
<1>1. DOMAIN D = DOMAIN table BY <1>0 DEF Discontinue
<1>2. ASSUME NEW c \in DOMAIN table
      PROVE  /\ D[c] \in Course(n) /\ Describes(c, D[c])
             /\ D[c].sem = table[c].sem /\ D[c].slot = table[c].slot
             /\ c \in Named(P, "retire") => D[c].key = <<"retired", c>>
             /\ c \notin Named(P, "retire") => D[c].key = table[c].key /\ D[c].ref = table[c].ref
  <2>1. table[c] \in Course(n) /\ c \in 1..(n - 1) BY DEF CourseTable
  <2>2. Describes(c, table[c]) BY DEF Described
  <2> DEFINE t == table[c]
             away == c \in Named(P, "forced") \cup Named(P, "gone")
  <2>3. /\ t.sem \in Semesters /\ t.slot \in Slots /\ t.ref \in Refs \cup {NoRef} /\ t.key \in Keys(n)
        /\ t.name \in Names /\ t.suffix \in Suffixes /\ t.source \in Names \cup {NoName}
        /\ t.teacher \in Teachers /\ t.disc \in BOOLEAN
        /\ t = [sem |-> t.sem, slot |-> t.slot, ref |-> t.ref, key |-> t.key, name |-> t.name,
                suffix |-> t.suffix, source |-> t.source, teacher |-> t.teacher, disc |-> t.disc]
    BY <2>1 DEF Course
  <2>4. CASE c \in Named(P, "retire")
    <3>1. D[c] = [t EXCEPT !.disc = TRUE, !.ref = NoRef, !.key = <<"retired", c>>] BY <1>0, <2>4 DEF Discontinue
    <3>2. <<"retired", c>> \in Keys(n) BY <2>1 DEF Keys
    <3> HIDE DEF t
    <3>3. D[c] = [sem |-> t.sem, slot |-> t.slot, ref |-> NoRef, key |-> <<"retired", c>>, name |-> t.name,
                  suffix |-> t.suffix, source |-> t.source, teacher |-> t.teacher, disc |-> TRUE]
      BY <2>3, <3>1
    <3>4. D[c] \in Course(n) BY <2>3, <3>2, <3>3 DEF Course
    <3>5. Describes(c, D[c]) BY <3>3 DEF Describes
    <3> QED BY <2>4, <3>3, <3>4, <3>5 DEF t
  <2>5. CASE c \notin Named(P, "retire")
    <3>1. D[c] = [t EXCEPT !.disc = @ \/ away] BY <1>0, <2>5 DEF Discontinue
    <3> DEFINE b == t.disc \/ away
    <3>2. b \in BOOLEAN OBVIOUS
    <3> HIDE DEF t, away
    <3>3. D[c] = [t EXCEPT !.disc = b] BY <3>1
    <3> HIDE DEF b
    <3>4. D[c] = [sem |-> t.sem, slot |-> t.slot, ref |-> t.ref, key |-> t.key, name |-> t.name,
                  suffix |-> t.suffix, source |-> t.source, teacher |-> t.teacher, disc |-> b]
      BY <2>3, <3>3
    <3>5. D[c] \in Course(n) BY <2>3, <3>2, <3>4 DEF Course
    <3>6. D[c].sem = t.sem /\ D[c].slot = t.slot /\ D[c].ref = t.ref /\ D[c].key = t.key BY <3>4
    <3>7. DedupKey(D[c]) = DedupKey(t) BY <3>6 DEF DedupKey
    <3>8. Describes(c, D[c]) BY <2>2, <3>6, <3>7 DEF Describes, t
    <3> QED BY <2>5, <3>5, <3>6, <3>8 DEF t
  <2> QED BY <2>4, <2>5
<1>3. CourseTable(D, n) BY <1>1, <1>2 DEF CourseTable
<1>4. Described(D) BY <1>1, <1>2 DEF Described
<1> QED BY <1>1, <1>2, <1>3, <1>4 DEF Discontinued, D

\* UpdateCourses changes the rows that the plan updates.
LEMMA UpdateCoursesIs ==
    ASSUME NEW table, NEW P, NEW existing, NEW S, NEW term,
           NEW U, U = UpdateCourses(table, P, existing, S, term)
    PROVE  /\ DOMAIN U = DOMAIN table
           /\ \A c \in DOMAIN table :
                 /\ c \notin Named(P, "update") => U[c] = table[c]
                 /\ c \in Named(P, "update") =>
                       U[c] = [After(existing[c], S[UpdateRow(P, c)], term)
                                  EXCEPT !.disc = table[c].disc /\ ~existing[c].disc]
<1>1. DOMAIN U = DOMAIN table BY DEF UpdateCourses
<1>2. ASSUME NEW c \in DOMAIN table
      PROVE  U[c] = IF c \in Named(P, "update")
                    THEN [After(existing[c], S[UpdateRow(P, c)], term)
                             EXCEPT !.disc = table[c].disc /\ ~existing[c].disc]
                    ELSE table[c]
  BY DEF UpdateCourses, UpdateRow
<1> QED BY <1>1, <1>2

\* The rows of the table that the transaction leaves, save the new ones.
LEMMA WrittenRows ==
    ASSUME NEW table, NEW n \in Nat, CourseTable(table, n), Described(table),
           NEW existing, CourseTable(existing, n), Described(existing),
           NEW S \in Syllabi, NEW term, NEW P, PlanFits(existing, S, term, P),
           NEW U, U = UpdateCourses(Discontinue(table, P), P, existing, S, term)
    PROVE  /\ DOMAIN U = DOMAIN table /\ CourseTable(U, n) /\ Described(U)
           /\ \A c \in DOMAIN table :
                 /\ c \notin Named(P, "update") => U[c].sem = table[c].sem /\ U[c].slot = table[c].slot
                 /\ c \in Named(P, "update") =>
                       /\ U[c].sem = After(existing[c], S[UpdateRow(P, c)], term).sem
                       /\ U[c].slot = After(existing[c], S[UpdateRow(P, c)], term).slot
                       /\ U[c].key = existing[c].key \/ U[c].key = DedupKey(S[UpdateRow(P, c)])
<1> DEFINE D == Discontinue(table, P)
<1>1. /\ DOMAIN D = DOMAIN table /\ CourseTable(D, n) /\ Described(D)
      /\ \A c \in DOMAIN table : D[c].sem = table[c].sem /\ D[c].slot = table[c].slot
  <2>1. Discontinued(table, P, D, n) BY DiscontinueIs
  <2> HIDE DEF D
  <2> QED BY <2>1 DEF Discontinued
<1>2. U = UpdateCourses(D, P, existing, S, term) OBVIOUS
<1> HIDE DEF D
<1>3. /\ DOMAIN U = DOMAIN table
      /\ \A c \in DOMAIN table :
            /\ c \notin Named(P, "update") => U[c] = D[c]
            /\ c \in Named(P, "update") =>
                  U[c] = [After(existing[c], S[UpdateRow(P, c)], term)
                             EXCEPT !.disc = D[c].disc /\ ~existing[c].disc]
  <2>1. /\ DOMAIN U = DOMAIN D
        /\ \A c \in DOMAIN D :
              /\ c \notin Named(P, "update") => U[c] = D[c]
              /\ c \in Named(P, "update") =>
                    U[c] = [After(existing[c], S[UpdateRow(P, c)], term)
                               EXCEPT !.disc = D[c].disc /\ ~existing[c].disc]
    BY <1>2, UpdateCoursesIs
  <2> QED BY <1>1, <2>1
<1>4. ASSUME NEW c \in DOMAIN table, c \in Named(P, "update")
      PROVE  /\ U[c] \in Course(n) /\ Describes(c, U[c])
             /\ U[c].sem = After(existing[c], S[UpdateRow(P, c)], term).sem
             /\ U[c].slot = After(existing[c], S[UpdateRow(P, c)], term).slot
             /\ U[c].key = existing[c].key \/ U[c].key = DedupKey(S[UpdateRow(P, c)])
  <2> DEFINE e == existing[c]
             i == UpdateRow(P, c)
             b == D[c].disc /\ ~e.disc
  <2>1. UpdateFits(existing, S, term, P, c, i) BY <1>4, UpdateRowIs
  <2>2. i \in DOMAIN S /\ c \in Syncable(existing) /\ (EndedBefore(term, e.sem) => e.ref = S[i].ref)
    BY <2>1 DEF UpdateFits
  <2>3. e \in Course(n) /\ e.ref # NoRef BY <2>2 DEF Syncable, CourseTable
  <2>4. e.key = DedupKey(e) BY <2>2, <2>3 DEF Described, Describes, Syncable
  <2>5. b \in BOOLEAN OBVIOUS
  <2>6. U[c] = [After(e, S[i], term) EXCEPT !.disc = b] BY <1>3, <1>4
  <2>7. Synced(e, n) BY <2>3, <2>4 DEF Synced
  <2>8. Listed(S[i]) BY <2>2, SyllabusRows DEF Listed
  <2> HIDE DEF e, i, b
  <2> DEFINE r == S[i]
             a == U[c]
  <2>9. a = Written(e, r, term, b) BY <2>6 DEF Written
  <2>10. (EndedBefore(term, e.sem) => e.ref = r.ref) /\ Listed(r) BY <2>2, <2>8
  <2> HIDE DEF r, a
  <2>11. /\ Synced(a, n)
         /\ a.sem = After(e, r, term).sem /\ a.slot = After(e, r, term).slot
         /\ a.key = e.key \/ a.key = DedupKey(r)
    <3>1. AfterFits(e, r, term, a, n) BY <2>5, <2>7, <2>9, <2>10, AfterIs
    <3> QED BY <3>1 DEF AfterFits
  <2>12. a \in Course(n) /\ Describes(c, a) BY <2>11 DEF Describes, Synced
  <2> QED BY <2>11, <2>12 DEF a, r, e, i
<1>5. ASSUME NEW c \in DOMAIN table, c \notin Named(P, "update")
      PROVE  /\ U[c] \in Course(n) /\ Describes(c, U[c])
             /\ U[c].sem = table[c].sem /\ U[c].slot = table[c].slot
  <2>1. U[c] = D[c] BY <1>3, <1>5
  <2>2. D[c] \in Course(n) /\ Describes(c, D[c]) BY <1>1 DEF CourseTable, Described
  <2> QED BY <1>1, <2>1, <2>2
<1>6. CourseTable(U, n)
  <2>1. DOMAIN U \subseteq 1..(n - 1) BY <1>3 DEF CourseTable
  <2> QED BY <1>3, <1>4, <1>5, <2>1 DEF CourseTable
<1>7. Described(U) BY <1>3, <1>4, <1>5 DEF Described
<1> QED BY <1>3, <1>4, <1>5, <1>6, <1>7

\* Ids are given without gaps, in the order of the rows.
LEMMA IdsInOrder ==
    ASSUME NEW X, X \subseteq Nat, IsFiniteSet(X), NEW n \in Nat
    PROVE  /\ Cardinality(X) \in Nat
           /\ \A i \in X : /\ Cardinality({j \in X : j < i}) \in Nat
                           /\ n + Cardinality({j \in X : j < i}) \in n..(n + Cardinality(X) - 1)
<1>1. Cardinality(X) \in Nat BY FS_CardinalityType
<1>2. ASSUME NEW i \in X
      PROVE  /\ Cardinality({j \in X : j < i}) \in Nat
             /\ n + Cardinality({j \in X : j < i}) \in n..(n + Cardinality(X) - 1)
  <2> DEFINE Y == {j \in X : j < i}
  <2>1. Y \subseteq X /\ Y # X OBVIOUS
  <2> HIDE DEF Y
  <2>2. IsFiniteSet(Y) /\ Cardinality(Y) <= Cardinality(X) /\ Cardinality(Y) # Cardinality(X)
    BY <2>1, FS_Subset
  <2>3. Cardinality(Y) \in Nat BY <2>2, FS_CardinalityType
  <2>4. n + Cardinality(Y) \in n..(n + Cardinality(X) - 1) BY <1>1, <2>2, <2>3
  <2> QED BY <2>3, <2>4 DEF Y
<1> QED BY <1>1, <1>2

\* Table C is table and a new course for each row of X.
Created(table, S, next, X, C) ==
    /\ DOMAIN C = DOMAIN table \cup {next + Cardinality({j \in X : j < i}) : i \in X}
    /\ \A c \in DOMAIN table : C[c] = table[c]
    /\ \A c \in DOMAIN C : c \notin DOMAIN table =>
          \E i \in X : C[c] = NewCourse(S[i], DedupKey(S[i]), S[i].source)

LEMMA CreateCoursesIs ==
    ASSUME NEW table, NEW P, NEW S, NEW next
    PROVE  Created(table, S, next, Named(P, "create"), CreateCourses(table, P, S, next))
<1> DEFINE X == Named(P, "create")
           C == CreateCourses(table, P, S, next)
<1> DEFINE id(i)   == next + Cardinality({j \in X : j < i})
           made(c) == S[CHOOSE i \in X : id(i) = c]
           D == DOMAIN table \cup {id(i) : i \in X}
<1>1. C = [c \in D |-> IF c \in DOMAIN table THEN table[c]
                       ELSE NewCourse(made(c), DedupKey(made(c)), made(c).source)]
  BY DEF CreateCourses
<1> HIDE DEF X, C
<1>2. ASSUME NEW c \in D, c \notin DOMAIN table
      PROVE  \E i \in X : made(c) = S[i]
  <2>1. \E i \in X : id(i) = c BY <1>2
  <2> HIDE DEF id
  <2> QED BY <2>1
<1> HIDE DEF made
<1>3. DOMAIN C = D BY <1>1
<1>4. \A c \in DOMAIN table : C[c] = table[c] BY <1>1
<1>5. \A c \in D : c \notin DOMAIN table => C[c] = NewCourse(made(c), DedupKey(made(c)), made(c).source)
  BY <1>1
<1> HIDE DEF D
<1>6. ASSUME NEW c \in DOMAIN C, c \notin DOMAIN table
      PROVE  \E i \in X : C[c] = NewCourse(S[i], DedupKey(S[i]), S[i].source)
  <2>1. PICK i \in X : made(c) = S[i] BY <1>2, <1>3, <1>6
  <2>2. C[c] = NewCourse(made(c), DedupKey(made(c)), made(c).source) BY <1>3, <1>5, <1>6
  <2> QED BY <2>1, <2>2
<1>7. Created(table, S, next, X, C) BY <1>3, <1>4, <1>6 DEF D, Created
<1> QED BY <1>7 DEF X, C

\* The rows that a plan creates are rows of the syllabus.
LEMMA CreatedRows ==
    ASSUME NEW existing, NEW S \in Syllabi, NEW term, NEW P, PlanFits(existing, S, term, P)
    PROVE  /\ Named(P, "create") \subseteq DOMAIN S /\ Named(P, "create") \subseteq Nat
           /\ IsFiniteSet(Named(P, "create"))
           /\ \A i \in Named(P, "create") : <<"create", i>> \in P
<1>1. ASSUME NEW i \in Named(P, "create") PROVE i \in DOMAIN S /\ <<"create", i>> \in P
  <2>1. PICK f \in P : f[1] = "create" /\ f[2] = i BY DEF Named
  <2>2. PICK j \in DOMAIN S : f = <<"create", j>> BY <2>1 DEF PlanFits
  <2>3. i = j BY <2>1, <2>2
  <2> QED BY <2>2, <2>3
<1>2. Len(S) \in Nat /\ DOMAIN S = 1..Len(S) BY SyllabusRows
<1>3. IsFiniteSet(1..Len(S)) BY <1>2, FS_Interval
<1>4. Named(P, "create") \subseteq 1..Len(S) BY <1>1, <1>2
<1>5. IsFiniteSet(Named(P, "create")) BY <1>3, <1>4, FS_Subset
<1>6. 1..Len(S) \subseteq Nat BY <1>2
<1> QED BY <1>1, <1>4, <1>5, <1>6

\* What the transaction makes of the table.
Transacted(table, existing, S, term, P, T, n, m) ==
    /\ m \in Nat \ {0} /\ n <= m
    /\ CourseTable(T, m) /\ Described(T)
    /\ DOMAIN table \subseteq DOMAIN T
    /\ \A c \in DOMAIN table :
          /\ c \notin Named(P, "update") => T[c].sem = table[c].sem /\ T[c].slot = table[c].slot
          /\ c \in Named(P, "update") =>
                /\ T[c].sem = After(existing[c], S[UpdateRow(P, c)], term).sem
                /\ T[c].slot = After(existing[c], S[UpdateRow(P, c)], term).slot

LEMMA TransactionIs ==
    ASSUME NEW table, NEW n \in Nat \ {0}, CourseTable(table, n), Described(table),
           NEW existing, CourseTable(existing, n), Described(existing),
           NEW S \in Syllabi, NEW term, NEW P, PlanFits(existing, S, term, P)
    PROVE  Transacted(table, existing, S, term, P, ApplyCourses(table, P, existing, S, term, n),
                      n, n + Cardinality(Named(P, "create")))
<1> DEFINE U == UpdateCourses(Discontinue(table, P), P, existing, S, term)
           T == ApplyCourses(table, P, existing, S, term, n)
           X == Named(P, "create")
           m == n + Cardinality(X)
<1>1. /\ DOMAIN U = DOMAIN table /\ CourseTable(U, n) /\ Described(U)
      /\ \A c \in DOMAIN table :
            /\ c \notin Named(P, "update") => U[c].sem = table[c].sem /\ U[c].slot = table[c].slot
            /\ c \in Named(P, "update") =>
                  /\ U[c].sem = After(existing[c], S[UpdateRow(P, c)], term).sem
                  /\ U[c].slot = After(existing[c], S[UpdateRow(P, c)], term).slot
  <2>1. n \in Nat /\ U = UpdateCourses(Discontinue(table, P), P, existing, S, term) OBVIOUS
  <2> HIDE DEF U
  <2> QED BY <2>1, WrittenRows
<1>2. T = CreateCourses(U, P, S, n) BY DEF ApplyCourses
<1>3. X \subseteq DOMAIN S /\ X \subseteq Nat /\ IsFiniteSet(X) BY CreatedRows
<1> HIDE DEF U, T
<1>4. /\ DOMAIN T = DOMAIN U \cup {n + Cardinality({j \in X : j < i}) : i \in X}
      /\ \A c \in DOMAIN U : T[c] = U[c]
      /\ \A c \in DOMAIN T : c \notin DOMAIN U =>
            \E i \in X : T[c] = NewCourse(S[i], DedupKey(S[i]), S[i].source)
  <2>1. Created(U, S, n, X, T) BY <1>2, CreateCoursesIs
  <2> HIDE DEF X
  <2> QED BY <2>1 DEF Created
<1> HIDE DEF X
<1>5. /\ Cardinality(X) \in Nat
      /\ \A i \in X : n + Cardinality({j \in X : j < i}) \in n..(n + Cardinality(X) - 1)
  BY <1>3, IdsInOrder
<1>6. m \in Nat \ {0} /\ n <= m BY <1>5
<1>7. DOMAIN T \subseteq 1..(m - 1)
  <2>1. DOMAIN U \subseteq 1..(n - 1) BY <1>1 DEF CourseTable
  <2>2. DOMAIN U \subseteq 1..(m - 1) BY <1>6, <2>1
  <2>3. \A i \in X : n + Cardinality({j \in X : j < i}) \in 1..(m - 1) BY <1>5, <1>6
  <2> QED BY <1>4, <2>2, <2>3
<1>8. ASSUME NEW c \in DOMAIN T PROVE T[c] \in Course(m) /\ Describes(c, T[c])
  <2>1. CASE c \in DOMAIN U
    <3>1. U[c] \in Course(n) /\ Describes(c, U[c]) BY <1>1, <2>1 DEF CourseTable, Described
    <3>2. Course(n) \subseteq Course(m) BY <1>6, KeysGrow
    <3> QED BY <1>4, <2>1, <3>1, <3>2
  <2>2. CASE c \notin DOMAIN U
    <3>1. PICK i \in X : T[c] = NewCourse(S[i], DedupKey(S[i]), S[i].source) BY <1>4, <2>2
    <3>2. i \in DOMAIN S BY <1>3
    <3>3. S[i].source \in Names \cup {NoName} BY <3>2, SyllabusRows
    <3>4. T[c] \in Course(m) /\ T[c].ref # NoRef /\ T[c].key = DedupKey(T[c])
      <4> DEFINE a == T[c]
                 source == S[i].source
      <4>1. a = NewCourse(S[i], DedupKey(S[i]), source) /\ source \in Names \cup {NoName} BY <3>1, <3>3
      <4>2. m \in Nat BY <1>6
      <4> HIDE DEF a, source, m
      <4>3. a \in Course(m) /\ a.ref # NoRef /\ a.key = DedupKey(a) BY <3>2, <4>1, <4>2, NewCourseIs
      <4> QED BY <4>3 DEF a
    <3> QED BY <3>4 DEF Describes
  <2> QED BY <2>1, <2>2
<1>9. CourseTable(T, m) BY <1>7, <1>8 DEF CourseTable
<1>10. Described(T) BY <1>8 DEF Described
<1> QED BY <1>1, <1>4, <1>6, <1>9, <1>10 DEF Transacted, T, X

-----------------------------------------------------------------------------
(* The keys of the table. *)

\* A sync that reads the table as it is writes no key that another row holds.
LEMMA NoClash ==
    ASSUME NEW table, NEW n \in Nat \ {0}, CourseTable(table, n), Described(table), KeysUnique(table),
           NEW S \in Syllabi, NEW term, NEW P, PlanFits(table, S, term, P)
    PROVE  ~KeysClash(table, P, table, S, term)
<1> DEFINE before == Discontinue(table, P)
           after == UpdateCourses(before, P, table, S, term)
           up == Named(P, "update")
           row(c) == S[UpdateRow(P, c)]
<1>1. /\ DOMAIN before = DOMAIN table
      /\ \A c \in DOMAIN table :
            /\ c \in Named(P, "retire") => before[c].key = <<"retired", c>>
            /\ c \notin Named(P, "retire") => before[c].key = table[c].key
  <2>1. Discontinued(table, P, before, n) BY DiscontinueIs
  <2> HIDE DEF before
  <2> QED BY <2>1 DEF Discontinued
<1>2. /\ DOMAIN after = DOMAIN table
      /\ \A c \in DOMAIN table :
            c \in up => after[c].key = table[c].key \/ after[c].key = DedupKey(row(c))
  <2>1. after = UpdateCourses(Discontinue(table, P), P, table, S, term) OBVIOUS
  <2> HIDE DEF before, after
  <2> QED BY <2>1, WrittenRows
<1>3. \A c \in DOMAIN table : c \notin up => after[c] = before[c]
  <2>1. after = UpdateCourses(before, P, table, S, term) OBVIOUS
  <2> HIDE DEF before, after
  <2>2. /\ DOMAIN after = DOMAIN before
        /\ \A c \in DOMAIN before :
              /\ c \notin Named(P, "update") => after[c] = before[c]
              /\ c \in Named(P, "update") =>
                    after[c] = [After(table[c], S[UpdateRow(P, c)], term)
                                   EXCEPT !.disc = before[c].disc /\ ~table[c].disc]
    BY <2>1, UpdateCoursesIs
  <2> QED BY <1>1, <2>2
<1>4. \A c \in up : UpdateFits(table, S, term, P, c, UpdateRow(P, c)) BY UpdateRowIs
<1>5. \A c \in up : /\ c \in DOMAIN table /\ table[c].ref # NoRef /\ table[c].key = DedupKey(table[c])
                    /\ c \notin Named(P, "retire") /\ row(c).sem \in Semesters
  <2> SUFFICES ASSUME NEW c \in up
               PROVE  /\ c \in DOMAIN table /\ table[c].ref # NoRef /\ table[c].key = DedupKey(table[c])
                      /\ c \notin Named(P, "retire") /\ row(c).sem \in Semesters
    OBVIOUS
  <2>1. c \in Syncable(table) /\ UpdateRow(P, c) \in DOMAIN S /\ <<"update", c, UpdateRow(P, c)>> \in P
    BY <1>4 DEF UpdateFits
  <2>2. c \in DOMAIN table /\ table[c].ref # NoRef BY <2>1 DEF Syncable
  <2>3. table[c].key = DedupKey(table[c]) BY <2>2 DEF Described, Describes
  <2>4. row(c).sem \in Semesters BY <2>1, SyllabusRows
  <2>5. c \notin Named(P, "retire")
    <3> SUFFICES ASSUME c \in Named(P, "retire") PROVE FALSE OBVIOUS
    <3>1. PICK f \in P : f[1] = "retire" /\ f[2] = c BY DEF Named
    <3>2. PICK d \in Syncable(table) : f = <<"retire", d>> BY <3>1 DEF PlanFits
    <3>3. <<"retire", c>> \in P BY <3>1, <3>2
    <3> QED BY <2>1, <3>3 DEF PlanFits
  <2> QED BY <2>2, <2>3, <2>4, <2>5
\* A key of the syllabus is the key of a course that the syllabus decides.
<1>6. ASSUME NEW i \in DOMAIN S, NEW d \in DOMAIN table, table[d].key = DedupKey(S[i])
      PROVE  d \in Syncable(table) /\ DedupKey(table[d]) = DedupKey(S[i])
  <2>1. S[i].sem \in Semesters BY SyllabusRows
  <2>2. S[i].sem \notin {"retired", "manual"} BY <2>1 DEF Semesters
  <2>3. DedupKey(S[i])[1] = S[i].sem BY DEF DedupKey
  <2>4. table[d].key \notin {<<"retired", d>>, <<"manual", d>>} BY <1>6, <2>2, <2>3
  <2>5. table[d].ref # NoRef /\ table[d].key = DedupKey(table[d]) BY <2>4 DEF Described, Describes
  <2> QED BY <1>6, <2>5 DEF Syncable
<1>7. ASSUME NEW i \in DOMAIN S, NEW d PROVE DedupKey(S[i]) # <<"retired", d>>
  <2>1. S[i].sem \in Semesters BY SyllabusRows
  <2>2. S[i].sem # "retired" BY <2>1 DEF Semesters
  <2>3. DedupKey(S[i])[1] = S[i].sem BY DEF DedupKey
  <2> QED BY <2>2, <2>3
<1>8. \A c \in up : UpdateRow(P, c) \in DOMAIN S /\ <<"update", c, UpdateRow(P, c)>> \in P BY <1>4 DEF UpdateFits
<1>9. ASSUME NEW c \in up, NEW d \in DOMAIN table, after[c].key = table[d].key PROVE c = d
  <2>1. CASE after[c].key = table[c].key BY <1>5, <1>9, <2>1 DEF KeysUnique
  <2>2. CASE after[c].key = DedupKey(row(c))
    <3>1. d \in Syncable(table) /\ DedupKey(table[d]) = DedupKey(row(c)) BY <1>6, <1>8, <1>9, <2>2
    <3>2. DedupKey(table[c]) = DedupKey(row(c)) BY <1>4, <3>1 DEF UpdateFits
    <3>3. table[c].key = table[d].key BY <1>5, <1>9, <2>2, <3>2
    <3> QED BY <1>5, <3>3 DEF KeysUnique
  <2> QED BY <1>2, <1>5, <2>1, <2>2
<1>10. ASSUME NEW c \in up, NEW d PROVE after[c].key # <<"retired", d>>
  <2>1. CASE after[c].key = DedupKey(row(c)) BY <1>7, <1>8, <2>1
  <2>2. CASE after[c].key = table[c].key
    <3>1. table[c].sem \in Semesters
      <4>1. c \in DOMAIN table BY <1>5
      <4>2. table[c] \in Course(n) BY <4>1 DEF CourseTable
      <4> QED BY <4>2 DEF Course
    <3>2. table[c].sem # "retired" BY <3>1 DEF Semesters
    <3>3. DedupKey(table[c])[1] = table[c].sem BY DEF DedupKey
    <3>4. table[c].key = DedupKey(table[c]) BY <1>5
    <3> QED BY <2>2, <3>2, <3>3, <3>4
  <2> QED BY <1>2, <1>5, <2>1, <2>2
<1>11. ASSUME NEW c \in up, NEW d \in DOMAIN table, after[c].key = before[d].key PROVE c = d
  <2>1. d \notin Named(P, "retire") BY <1>1, <1>10, <1>11
  <2>2. before[d].key = table[d].key BY <1>1, <2>1
  <2> HIDE DEF before, after
  <2> QED BY <1>9, <1>11, <2>2
<1> HIDE DEF before, after
<1>12. ASSUME NEW c \in up, NEW d \in DOMAIN table, after[c].key = after[d].key PROVE c = d
  <2>1. CASE d \notin up BY <1>3, <1>11, <1>12, <2>1
  <2>2. CASE d \in up /\ after[d].key = table[d].key BY <1>9, <1>12, <2>2
  <2>3. CASE d \in up /\ after[c].key = table[c].key
    <3>1. c \in DOMAIN table BY <1>5
    <3>2. after[d].key = table[c].key BY <1>12, <2>3
    <3> QED BY <1>9, <2>3, <3>1, <3>2
  <2>4. CASE d \in up /\ after[d].key = DedupKey(row(d)) /\ after[c].key = DedupKey(row(c))
    <3> DEFINE f == <<"update", c, UpdateRow(P, c)>>
               g == <<"update", d, UpdateRow(P, d)>>
    <3>1. f \in P /\ g \in P BY <1>8, <2>4
    <3>2. /\ f[1] = "update" /\ f[2] = c /\ f[3] = UpdateRow(P, c)
          /\ g[1] = "update" /\ g[2] = d /\ g[3] = UpdateRow(P, d) OBVIOUS
    <3> HIDE DEF f, g
    <3>3. DedupKey(S[f[3]]) = DedupKey(S[g[3]]) BY <1>12, <2>4, <3>2
    <3> QED BY <3>1, <3>2, <3>3 DEF PlanFits
  <2> QED BY <1>2, <1>5, <2>1, <2>2, <2>3, <2>4
<1>13. Named(P, "create") \subseteq DOMAIN S /\ \A i \in Named(P, "create") : <<"create", i>> \in P
  BY CreatedRows
<1>14. ASSUME NEW i \in Named(P, "create"), NEW d \in DOMAIN table, table[d].key = DedupKey(S[i])
       PROVE  d \in Named(P, "retire")
  <2> DEFINE f == <<"create", i>>
             g == <<"retire", d>>
  <2>1. f \in P /\ f[1] = "create" /\ f[2] = i BY <1>13
  <2>2. d \in Syncable(table) /\ DedupKey(table[d]) = DedupKey(S[i]) BY <1>6, <1>13, <1>14
  <2> HIDE DEF f
  <2>3. PICK j \in DOMAIN S : /\ f = <<"create", j>>
                              /\ \A x \in Syncable(table) :
                                    DedupKey(table[x]) = DedupKey(S[j]) => <<"retire", x>> \in P
    BY <2>1 DEF PlanFits
  <2>4. j = i BY <2>1, <2>3
  <2>5. g \in P BY <2>2, <2>3, <2>4
  <2>6. g[1] = "retire" /\ g[2] = d OBVIOUS
  <2> HIDE DEF g
  <2> QED BY <2>5, <2>6 DEF Named
<1>15. ASSUME NEW i \in Named(P, "create"), NEW d \in DOMAIN table, after[d].key = DedupKey(S[i])
       PROVE  FALSE
  <2>1. i \in DOMAIN S BY <1>13
  <2>2. CASE d \notin up
    <3>1. before[d].key = DedupKey(S[i]) BY <1>3, <1>15, <2>2
    <3>2. d \notin Named(P, "retire") BY <1>1, <1>7, <2>1, <3>1
    <3>3. table[d].key = DedupKey(S[i]) BY <1>1, <3>1, <3>2
    <3> QED BY <1>14, <3>2, <3>3
  <2>3. CASE d \in up /\ after[d].key = table[d].key
    <3>1. d \in Named(P, "retire") BY <1>14, <1>15, <2>3
    <3> QED BY <1>5, <2>3, <3>1
  <2>4. CASE d \in up /\ after[d].key = DedupKey(row(d))
    <3> DEFINE f == <<"update", d, UpdateRow(P, d)>>
               g == <<"create", i>>
    <3>1. f \in P /\ g \in P BY <1>8, <1>13, <2>4
    <3>2. f[1] = "update" /\ f[3] = UpdateRow(P, d) /\ g[1] = "create" /\ g[2] = i OBVIOUS
    <3> HIDE DEF f, g
    <3>3. DedupKey(S[f[3]]) = DedupKey(S[g[2]]) BY <1>15, <2>4, <3>2
    <3> QED BY <3>1, <3>2, <3>3 DEF PlanFits
  <2> QED BY <1>2, <2>2, <2>3, <2>4
<1>16. ASSUME NEW i \in Named(P, "create"), NEW j \in Named(P, "create"), DedupKey(S[i]) = DedupKey(S[j])
       PROVE  i = j
  <2> DEFINE f == <<"create", i>>
             g == <<"create", j>>
  <2>1. f \in P /\ g \in P BY <1>13
  <2>2. f[1] = "create" /\ f[2] = i /\ g[1] = "create" /\ g[2] = j OBVIOUS
  <2> HIDE DEF f, g
  <2>3. DedupKey(S[f[2]]) = DedupKey(S[g[2]]) BY <1>16, <2>2
  <2> QED BY <2>1, <2>2, <2>3 DEF PlanFits
<1> QED
  <2> SUFFICES ASSUME KeysClash(table, P, table, S, term) PROVE FALSE OBVIOUS
  <2>1. \/ \E c \in DOMAIN table \cap up, d \in DOMAIN table :
               d # c /\ (after[c].key = before[d].key \/ after[c].key = after[d].key)
        \/ \E i \in Named(P, "create"), d \in DOMAIN table : after[d].key = DedupKey(S[i])
        \/ \E i, j \in Named(P, "create") : i # j /\ DedupKey(S[i]) = DedupKey(S[j])
    BY DEF KeysClash, before, after
  <2> HIDE DEF up
  <2> QED BY <1>11, <1>12, <1>15, <1>16, <2>1

-----------------------------------------------------------------------------
(* A sync that is repeated. *)

\* What an update made of a course is what the same row makes of it again.
LEMMA AfterAgain ==
    ASSUME NEW e, NEW r, r.source # NoName, NEW term, NEW a, a = After(e, r, term)
    PROVE  After(a, r, term) = a
<1> DEFINE stay(c) == EndedBefore(term, c.sem) /\ (c.sem # r.sem \/ c.slot # r.slot)
           name(c) == NextCourseName(c, r)
           row(c) == [sem |-> IF stay(c) THEN c.sem ELSE r.sem, slot |-> IF stay(c) THEN c.slot ELSE r.slot,
                      key |-> IF stay(c) THEN c.key ELSE DedupKey(r), name |-> name(c)[1],
                      suffix |-> name(c)[2], teacher |-> r.teacher, ref |-> r.ref,
                      source |-> r.source, disc |-> FALSE]
<1>1. a = row(e) /\ After(a, r, term) = row(a) BY DEF After
<1>2. /\ a.source = r.source /\ a.name = name(e)[1] /\ a.suffix = name(e)[2]
      /\ a.sem = (IF stay(e) THEN e.sem ELSE r.sem) /\ a.slot = (IF stay(e) THEN e.slot ELSE r.slot)
      /\ a.key = (IF stay(e) THEN e.key ELSE DedupKey(r))
  <2> HIDE DEF stay, name
  <2> QED BY <1>1
<1>3. name(a)[1] = a.name /\ name(a)[2] = a.suffix
  <2>1. NameMatches(a, r.source) BY <1>2 DEF NameMatches
  <2>2. CASE r.sure BY <1>2, <2>2 DEF NextCourseName
  <2>3. CASE ~r.sure BY <2>1, <2>3 DEF NextCourseName
  <2> QED BY <2>2, <2>3
<1>4. stay(e) <=> stay(a)
  <2>1. CASE stay(e)
    <3>1. a.sem = e.sem /\ a.slot = e.slot BY <1>2, <2>1
    <3> QED BY <2>1, <3>1
  <2>2. CASE ~stay(e)
    <3>1. a.sem = r.sem /\ a.slot = r.slot BY <1>2, <2>2
    <3> QED BY <2>2, <3>1
  <2> QED BY <2>1, <2>2
<1> HIDE DEF stay, name
<1>5. row(a) = row(e) BY <1>2, <1>3, <1>4
<1> QED BY <1>1, <1>5

LEMMA NewAgain ==
    ASSUME NEW r, r.source # NoName, NEW term, NEW a, a = NewCourse(r, DedupKey(r), r.source)
    PROVE  After(a, r, term) = a
<1>1. a = [sem |-> r.sem, slot |-> r.slot, ref |-> r.ref, key |-> DedupKey(r), name |-> r.source,
           suffix |-> r.suffix, source |-> r.source, teacher |-> r.teacher, disc |-> FALSE]
  BY DEF NewCourse
<1>2. NextCourseName(a, r)[1] = r.source /\ NextCourseName(a, r)[2] = r.suffix
  BY <1>1 DEF NextCourseName, NameMatches
<1>3. a.sem = r.sem /\ a.slot = r.slot BY <1>1
<1>4. After(a, r, term) = [sem |-> r.sem, slot |-> r.slot, key |-> DedupKey(r), name |-> NextCourseName(a, r)[1],
                           suffix |-> NextCourseName(a, r)[2], teacher |-> r.teacher, ref |-> r.ref,
                           source |-> r.source, disc |-> FALSE]
  BY <1>3 DEF After
<1> QED BY <1>1, <1>2, <1>4

\* No two rows get one id, and every row gets one.
LEMMA IdsApart ==
    ASSUME NEW X, X \subseteq Nat, IsFiniteSet(X), NEW n \in Nat, NEW i \in X, NEW k \in X,
           n + Cardinality({j \in X : j < i}) = n + Cardinality({j \in X : j < k})
    PROVE  i = k
<1>1. ASSUME NEW x \in X, NEW y \in X, x < y
      PROVE  Cardinality({j \in X : j < x}) # Cardinality({j \in X : j < y})
  <2> DEFINE A == {j \in X : j < x}
             B == {j \in X : j < y}
  <2>1. A \subseteq B /\ A # B
    <3>1. x \in Nat /\ y \in Nat /\ x \in B /\ x \notin A BY <1>1
    <3>2. \A j \in X : j < x => j < y BY <1>1
    <3> QED BY <3>1, <3>2
  <2>2. IsFiniteSet(B) BY FS_Subset
  <2> HIDE DEF A, B
  <2>3. Cardinality(A) # Cardinality(B) BY <2>1, <2>2, FS_Subset
  <2> QED BY <2>3 DEF A, B
<1>2. Cardinality({j \in X : j < i}) \in Nat /\ Cardinality({j \in X : j < k}) \in Nat BY IdsInOrder
<1>3. Cardinality({j \in X : j < i}) = Cardinality({j \in X : j < k}) BY <1>2
<1>4. i \in Nat /\ k \in Nat OBVIOUS
<1>5. ~(i < k) /\ ~(k < i) BY <1>1, <1>3
<1> QED BY <1>4, <1>5

RowMade(S, i) == NewCourse(S[i], DedupKey(S[i]), S[i].source)

LEMMA EachIsCreated ==
    ASSUME NEW table, NEW n \in Nat, DOMAIN table \subseteq 1..(n - 1), NEW S, NEW P,
           NEW X, X = Named(P, "create"), X \subseteq Nat, IsFiniteSet(X),
           NEW C, C = CreateCourses(table, P, S, n)
    PROVE  /\ \A i \in X : \E c \in DOMAIN C \ DOMAIN table : C[c] = RowMade(S, i)
           /\ \A c, d \in DOMAIN C \ DOMAIN table :
                 \E i, k \in X : C[c] = RowMade(S, i) /\ C[d] = RowMade(S, k) /\ (i = k => c = d)
<1> DEFINE id(i)   == n + Cardinality({j \in X : j < i})
           made(c) == S[CHOOSE i \in X : id(i) = c]
           D == DOMAIN table \cup {id(i) : i \in X}
<1>1. C = [c \in D |-> IF c \in DOMAIN table THEN table[c]
                       ELSE NewCourse(made(c), DedupKey(made(c)), made(c).source)]
  BY DEF CreateCourses
<1>2. ASSUME NEW i \in X PROVE id(i) \notin DOMAIN table
  <2>1. id(i) \in n..(n + Cardinality(X) - 1) BY IdsInOrder
  <2> HIDE DEF id
  <2> QED BY <2>1
<1>3. ASSUME NEW i \in X, NEW k \in X, id(i) = id(k) PROVE i = k BY <1>3, IdsApart
<1> HIDE DEF id
<1>4. ASSUME NEW i \in X PROVE made(id(i)) = S[i]
  <2>1. (CHOOSE k \in X : id(k) = id(i)) = i BY <1>3
  <2> QED BY <2>1
<1> HIDE DEF made
<1>5. ASSUME NEW i \in X
      PROVE  id(i) \in DOMAIN C \ DOMAIN table /\ C[id(i)] = RowMade(S, i)
  <2>1. id(i) \in D BY <1>5
  <2>2. C[id(i)] = NewCourse(made(id(i)), DedupKey(made(id(i))), made(id(i)).source) BY <1>1, <1>2, <2>1
  <2> QED BY <1>1, <1>2, <1>4, <2>1, <2>2 DEF RowMade
<1>6. \A c \in DOMAIN C \ DOMAIN table : \E i \in X : c = id(i) BY <1>1
<1> HIDE DEF D
<1>7. ASSUME NEW c \in DOMAIN C \ DOMAIN table, NEW d \in DOMAIN C \ DOMAIN table
      PROVE  \E i, k \in X : C[c] = RowMade(S, i) /\ C[d] = RowMade(S, k) /\ (i = k => c = d)
  <2>1. PICK i \in X : c = id(i) BY <1>6
  <2>2. PICK k \in X : d = id(k) BY <1>6
  <2> QED BY <1>5, <2>1, <2>2
<1>8. \A i \in X : \E c \in DOMAIN C \ DOMAIN table : C[c] = RowMade(S, i) BY <1>5
<1> QED BY <1>7, <1>8

\* The table T that a sync leaves of the table C that it read, row by row.
Leaves(P, c) == c \in Named(P, "forced") \cup Named(P, "gone")

RowsAfter(C, S, term, P, T) ==
    /\ DOMAIN C \subseteq DOMAIN T
    /\ \A c \in DOMAIN C :
          /\ \A i : <<"update", c, i>> \in P => T[c] = After(C[c], S[i], term)
          /\ c \notin Named(P, "update") /\ c \in Named(P, "retire") => T[c].ref = NoRef
          /\ c \notin Named(P, "update") /\ c \notin Named(P, "retire") =>
                T[c] = [C[c] EXCEPT !.disc = C[c].disc \/ Leaves(P, c)]
    /\ \A c \in DOMAIN T \ DOMAIN C : \E i : <<"create", i>> \in P /\ T[c] = RowMade(S, i)
    /\ \A i : <<"create", i>> \in P => \E c \in DOMAIN T \ DOMAIN C : T[c] = RowMade(S, i)
    /\ KeysUnique(T)

LEMMA RowsAfterIs ==
    ASSUME NEW C, NEW n \in Nat \ {0}, CourseTable(C, n), Described(C), KeysUnique(C),
           NEW S \in Syllabi, NEW term, NEW P, PlanFits(C, S, term, P),
           \A c \in Named(P, "update") : ~Leaves(P, c),
           NEW T, T = ApplyCourses(C, P, C, S, term, n)
    PROVE  RowsAfter(C, S, term, P, T)
<1> DEFINE D == Discontinue(C, P)
           U == UpdateCourses(D, P, C, S, term)
           X == Named(P, "create")
<1>0. D = Discontinue(C, P) /\ U = UpdateCourses(D, P, C, S, term) /\ T = CreateCourses(U, P, S, n) /\ X = Named(P, "create")
  BY DEF ApplyCourses
<1> HIDE DEF D, U, X
<1>1. /\ DOMAIN D = DOMAIN C
      /\ \A c \in DOMAIN C :
            D[c] = IF c \in Named(P, "retire")
                   THEN [C[c] EXCEPT !.disc = TRUE, !.ref = NoRef, !.key = <<"retired", c>>]
                   ELSE [C[c] EXCEPT !.disc = C[c].disc \/ Leaves(P, c)]
  BY <1>0 DEF Discontinue, Leaves
<1>2. /\ DOMAIN U = DOMAIN C
      /\ \A c \in DOMAIN C :
            /\ c \notin Named(P, "update") => U[c] = D[c]
            /\ c \in Named(P, "update") =>
                  U[c] = [After(C[c], S[UpdateRow(P, c)], term) EXCEPT !.disc = D[c].disc /\ ~C[c].disc]
  <2>1. /\ DOMAIN U = DOMAIN D
        /\ \A c \in DOMAIN D :
              /\ c \notin Named(P, "update") => U[c] = D[c]
              /\ c \in Named(P, "update") =>
                    U[c] = [After(C[c], S[UpdateRow(P, c)], term)
                               EXCEPT !.disc = D[c].disc /\ ~C[c].disc]
    BY <1>0, UpdateCoursesIs
  <2> QED BY <1>1, <2>1
<1>3. X \subseteq Nat /\ IsFiniteSet(X) BY <1>0, CreatedRows
<1>4. DOMAIN C \subseteq 1..(n - 1) BY DEF CourseTable
<1>5. /\ \A i \in X : \E c \in DOMAIN T \ DOMAIN C : T[c] = RowMade(S, i)
      /\ \A c, d \in DOMAIN T \ DOMAIN C :
            \E i, k \in X : T[c] = RowMade(S, i) /\ T[d] = RowMade(S, k) /\ (i = k => c = d)
  BY <1>0, <1>2, <1>3, <1>4, EachIsCreated
<1>6. DOMAIN C \subseteq DOMAIN T /\ \A c \in DOMAIN C : T[c] = U[c]
  <2>1. Created(U, S, n, X, T) BY <1>0, CreateCoursesIs
  <2> QED BY <1>2, <2>1 DEF Created
<1>7. \A i : <<"create", i>> \in P <=> i \in X
  <2>1. \A i \in X : <<"create", i>> \in P BY <1>0, CreatedRows
  <2>2. ASSUME NEW i, <<"create", i>> \in P PROVE i \in X
    <3> DEFINE f == <<"create", i>>
    <3>1. f \in P /\ f[1] = "create" /\ f[2] = i BY <2>2
    <3> HIDE DEF f
    <3> QED BY <1>0, <3>1 DEF Named
  <2> QED BY <2>1, <2>2
<1>8. ASSUME NEW c \in DOMAIN C, NEW i, <<"update", c, i>> \in P
      PROVE  c \in Named(P, "update") /\ UpdateRow(P, c) = i
  <2> DEFINE f == <<"update", c, i>>
  <2>1. f \in P /\ f[1] = "update" /\ f[2] = c /\ f[3] = i BY <1>8
  <2> HIDE DEF f
  <2>2. c \in Named(P, "update") BY <2>1 DEF Named
  <2>3. UpdateFits(C, S, term, P, c, UpdateRow(P, c)) BY <2>2, UpdateRowIs
  <2> QED BY <2>1, <2>2, <2>3 DEF UpdateFits
<1>9. ASSUME NEW c \in DOMAIN C, NEW i, <<"update", c, i>> \in P PROVE T[c] = After(C[c], S[i], term)
  <2>1. c \in Named(P, "update") /\ UpdateRow(P, c) = i BY <1>8, <1>9
  <2>2. c \notin Named(P, "retire")
    <3> SUFFICES ASSUME c \in Named(P, "retire") PROVE FALSE OBVIOUS
    <3>1. PICK f \in P : f[1] = "retire" /\ f[2] = c BY DEF Named
    <3>2. PICK d \in Syncable(C) : f = <<"retire", d>> BY <3>1 DEF PlanFits
    <3>3. <<"retire", c>> \in P BY <3>1, <3>2
    <3> QED BY <1>9, <3>3 DEF PlanFits
  <2>3. ~Leaves(P, c) BY <2>1
  <2>4. C[c].disc \in BOOLEAN
    <3>1. C[c] \in Course(n) BY DEF CourseTable
    <3> QED BY <3>1 DEF Course
  <2>5. D[c] = [C[c] EXCEPT !.disc = C[c].disc \/ Leaves(P, c)] BY <1>1, <2>2
  <2>6. D[c].disc = C[c].disc
    <3>1. C[c] \in Course(n) BY DEF CourseTable
    <3> QED BY <2>3, <2>4, <2>5, <3>1 DEF Course
  <2>7. T[c] = [After(C[c], S[i], term) EXCEPT !.disc = D[c].disc /\ ~C[c].disc] BY <1>2, <1>6, <2>1
  <2>8. T[c] = [After(C[c], S[i], term) EXCEPT !.disc = FALSE] BY <2>4, <2>6, <2>7
  <2> QED BY <2>8 DEF After
<1>10. ASSUME NEW c \in DOMAIN C, c \notin Named(P, "update")
       PROVE  /\ c \in Named(P, "retire") => T[c].ref = NoRef
              /\ c \notin Named(P, "retire") => T[c] = [C[c] EXCEPT !.disc = C[c].disc \/ Leaves(P, c)]
  <2>1. T[c] = D[c] BY <1>2, <1>6, <1>10
  <2>2. C[c] \in Course(n) BY DEF CourseTable
  <2>3. ASSUME c \in Named(P, "retire") PROVE T[c].ref = NoRef
    <3>1. T[c] = [C[c] EXCEPT !.disc = TRUE, !.ref = NoRef, !.key = <<"retired", c>>] BY <1>1, <2>1, <2>3
    <3> QED BY <2>2, <3>1 DEF Course
  <2> QED BY <1>1, <2>1, <2>3
<1>11. \A c \in DOMAIN T \ DOMAIN C : \E i : <<"create", i>> \in P /\ T[c] = RowMade(S, i) BY <1>5, <1>7
<1>12. \A i : <<"create", i>> \in P => \E c \in DOMAIN T \ DOMAIN C : T[c] = RowMade(S, i) BY <1>5, <1>7
<1>13. KeysUnique(T)
  <2>1. ~KeysClash(C, P, C, S, term) BY NoClash
  <2>2. /\ \A c \in DOMAIN C \cap Named(P, "update"), d \in DOMAIN C :
              d # c => U[c].key # D[d].key /\ U[c].key # U[d].key
        /\ \A i \in X, d \in DOMAIN C : U[d].key # DedupKey(S[i])
        /\ \A i, j \in X : i # j => DedupKey(S[i]) # DedupKey(S[j])
    BY <1>0, <2>1 DEF KeysClash
  <2>3. \A i : RowMade(S, i).key = DedupKey(S[i]) BY DEF RowMade, NewCourse
  <2>4. ASSUME NEW c \in DOMAIN C, c \notin Named(P, "update"), NEW d \in DOMAIN C, d \notin Named(P, "update"),
               T[c].key = T[d].key
        PROVE  c = d
    <3>1. T[c] = D[c] /\ T[d] = D[d] BY <1>2, <1>6, <2>4
    <3>2. Discontinued(C, P, D, n) BY <1>0, DiscontinueIs
    <3>3. \A x \in DOMAIN C : /\ x \in Named(P, "retire") => D[x].key = <<"retired", x>>
                              /\ x \notin Named(P, "retire") => D[x].key = C[x].key
      BY <3>2 DEF Discontinued
    <3>4. \A x \in DOMAIN C : \A y : C[x].key = <<"retired", y>> => x = y
      <4> SUFFICES ASSUME NEW x \in DOMAIN C, NEW y, C[x].key = <<"retired", y>> PROVE x = y OBVIOUS
      <4>1. C[x] \in Course(n) /\ Describes(x, C[x]) BY DEF CourseTable, Described
      <4>2. CASE C[x].ref = NoRef BY <4>1, <4>2 DEF Describes
      <4>3. CASE C[x].ref # NoRef
        <5>1. C[x].key = DedupKey(C[x]) BY <4>1, <4>3 DEF Describes
        <5>2. DedupKey(C[x])[1] = C[x].sem BY DEF DedupKey
        <5>3. C[x].sem \in Semesters BY <4>1 DEF Course
        <5>4. C[x].sem # "retired" BY <5>3 DEF Semesters
        <5> QED BY <5>1, <5>2, <5>4
      <4> QED BY <4>2, <4>3
    <3>5. CASE c \in Named(P, "retire") /\ d \in Named(P, "retire") BY <2>4, <3>1, <3>3, <3>5
    <3>6. CASE c \in Named(P, "retire") /\ d \notin Named(P, "retire") BY <2>4, <3>1, <3>3, <3>4, <3>6
    <3>7. CASE c \notin Named(P, "retire") /\ d \in Named(P, "retire") BY <2>4, <3>1, <3>3, <3>4, <3>7
    <3>8. CASE c \notin Named(P, "retire") /\ d \notin Named(P, "retire") BY <2>4, <3>1, <3>3, <3>8 DEF KeysUnique
    <3> QED BY <3>5, <3>6, <3>7, <3>8
  <2>5. ASSUME NEW c \in DOMAIN T, NEW d \in DOMAIN T, T[c].key = T[d].key PROVE c = d
    <3>1. CASE c \in DOMAIN C /\ d \in DOMAIN C
      <4>1. CASE c \in Named(P, "update") \/ d \in Named(P, "update") BY <1>6, <2>2, <2>5, <3>1, <4>1
      <4>2. CASE c \notin Named(P, "update") /\ d \notin Named(P, "update") BY <2>4, <2>5, <3>1, <4>2
      <4> QED BY <4>1, <4>2
    <3>2. CASE c \in DOMAIN C /\ d \notin DOMAIN C
      <4>1. PICK i \in X : T[d] = RowMade(S, i) BY <1>7, <1>11, <3>2
      <4> QED BY <1>6, <2>2, <2>3, <2>5, <3>2, <4>1
    <3>3. CASE c \notin DOMAIN C /\ d \in DOMAIN C
      <4>1. PICK i \in X : T[c] = RowMade(S, i) BY <1>7, <1>11, <3>3
      <4> QED BY <1>6, <2>2, <2>3, <2>5, <3>3, <4>1
    <3>4. CASE c \notin DOMAIN C /\ d \notin DOMAIN C
      <4>1. PICK i \in X, k \in X : T[c] = RowMade(S, i) /\ T[d] = RowMade(S, k) /\ (i = k => c = d)
        BY <1>5, <3>4
      <4> QED BY <2>2, <2>3, <2>5, <4>1
    <3> QED BY <3>1, <3>2, <3>3, <3>4
  <2> QED BY <2>5 DEF KeysUnique
<1> QED BY <1>6, <1>9, <1>10, <1>11, <1>12, <1>13 DEF RowsAfter

\* What planGroup makes of the courses L and the rows N that no slot pairs.
SlotsRest(existing, decisions, S, term, k, L, N) ==
    IF L = {} THEN CreateAll(N)
    ELSE IF N = {} THEN DiscontinueCandidates(existing, L)
    ELSE IF Cardinality(L) = 1 /\ Cardinality(N) = 1 THEN Updates(existing, S, term, L \X N)
    ELSE IF \A c \in L : EndedBefore(term, existing[c].sem) THEN {}
    ELSE Decided(decisions, <<"SLOT_AMBIGUOUS", k, SlotsOf(existing, L), SlotsOf(S, N)>>, {},
                 {<<"forced", c>> : c \in {d \in L : ~existing[d].disc}} \cup CreateAll(N))

InOnePlace(existing, S, olds, news) == {p \in olds \X news : existing[p[1]].slot = S[p[2]].slot}

LeftOld(existing, S, olds, news) == {c \in olds : \A i \in news : existing[c].slot # S[i].slot}

LeftNew(existing, S, olds, news) == {i \in news : \A c \in olds : existing[c].slot # S[i].slot}

SlotsApart(existing, olds) == \A c, d \in olds : existing[c].slot = existing[d].slot => c = d

\* When no two courses of the group share a slot, the pairs are those in one place.
LEMMA PlanSlotsIs ==
    ASSUME NEW existing, NEW decisions, NEW S, NEW term, NEW k, NEW olds, NEW news,
           Comparable(S, olds, news), SlotsApart(existing, olds),
           NEW pairs, pairs = InOnePlace(existing, S, olds, news),
           NEW L, L = LeftOld(existing, S, olds, news),
           NEW N, N = LeftNew(existing, S, olds, news)
    PROVE  PlanSlots(existing, decisions, S, term, k, olds, news) =
              Updates(existing, S, term, pairs) \cup SlotsRest(existing, decisions, S, term, k, L, N)
<1> DEFINE has(i)  == {c \in olds : existing[c].slot = S[i].slot}
           ps      == {p \in olds \X news : p[1] = Max(has(p[2]) \cup {0})}
           leftOld == {c \in olds : \A p \in ps : p[1] # c}
           leftNew == {i \in news : \A p \in ps : p[2] # i}
<1>1. PICK B \in Nat : olds \subseteq 1..B BY DEF Comparable
<1>2. ASSUME NEW c \in olds, NEW i \in news
      PROVE  c = Max(has(i) \cup {0}) <=> existing[c].slot = S[i].slot
  <2>1. has(i) \subseteq olds OBVIOUS
  <2>2. c \in has(i) <=> existing[c].slot = S[i].slot OBVIOUS
  <2>3. \A d \in has(i) : c \in has(i) => d = c BY DEF SlotsApart
  <2> HIDE DEF has
  <2> DEFINE H == has(i) \cup {0}
             m == Max(H)
  <2>4. H \subseteq 0..B /\ H # {}
    <3>1. \A x \in has(i) : x \in 0..B
      <4>1. \A x \in 1..B : x \in 0..B BY <1>1
      <4> HIDE DEF H
      <4> QED BY <1>1, <2>1, <4>1
    <3>2. 0 \in 0..B BY <1>1
    <3> QED BY <3>1, <3>2
  <2> HIDE DEF H
  <2>5. m \in H /\ \A y \in H : m >= y BY <2>4, MaxIs
  <2> HIDE DEF m
  <2>6. c \in 1..B BY <1>1
  <2>7. ASSUME c = m PROVE c \in has(i) BY <2>5, <2>6, <2>7 DEF H
  <2>8. ASSUME c \in has(i) PROVE c = m
    <3>1. m >= c BY <2>5, <2>8 DEF H
    <3>2. m # 0 BY <2>6, <3>1
    <3>3. m \in has(i) BY <2>5, <3>2 DEF H
    <3> QED BY <2>3, <2>8, <3>3
  <2> QED BY <2>2, <2>7, <2>8 DEF m, H
<1> HIDE DEF has
<1>3. ps = pairs
  <2>1. \A p \in olds \X news : p[1] = Max(has(p[2]) \cup {0}) <=> existing[p[1]].slot = S[p[2]].slot
    <3> SUFFICES ASSUME NEW p \in olds \X news
                 PROVE  p[1] = Max(has(p[2]) \cup {0}) <=> existing[p[1]].slot = S[p[2]].slot
      OBVIOUS
    <3>1. p[1] \in olds /\ p[2] \in news OBVIOUS
    <3> QED BY <1>2, <3>1
  <2> QED BY <2>1 DEF InOnePlace
<1>4. leftOld = L
  <2>1. ASSUME NEW c \in olds PROVE (\A p \in pairs : p[1] # c) <=> \A i \in news : existing[c].slot # S[i].slot
    <3>1. ASSUME NEW i \in news, existing[c].slot = S[i].slot PROVE \E p \in pairs : p[1] = c
      <4>1. <<c, i>> \in pairs BY <3>1 DEF InOnePlace
      <4> QED BY <4>1
    <3>2. ASSUME NEW p \in pairs, p[1] = c PROVE \E i \in news : existing[c].slot = S[i].slot
      BY <3>2 DEF InOnePlace
    <3> QED BY <3>1, <3>2
  <2> HIDE DEF ps
  <2> QED BY <1>3, <2>1 DEF LeftOld
<1>5. leftNew = N
  <2>1. ASSUME NEW i \in news PROVE (\A p \in pairs : p[2] # i) <=> \A c \in olds : existing[c].slot # S[i].slot
    <3>1. ASSUME NEW c \in olds, existing[c].slot = S[i].slot PROVE \E p \in pairs : p[2] = i
      <4>1. <<c, i>> \in pairs BY <3>1 DEF InOnePlace
      <4> QED BY <4>1
    <3>2. ASSUME NEW p \in pairs, p[2] = i PROVE \E c \in olds : existing[c].slot = S[i].slot
      BY <3>2 DEF InOnePlace
    <3> QED BY <3>1, <3>2
  <2> HIDE DEF ps
  <2> QED BY <1>3, <2>1 DEF LeftNew
<1>6. PlanSlots(existing, decisions, S, term, k, olds, news) =
         Updates(existing, S, term, ps) \cup SlotsRest(existing, decisions, S, term, k, leftOld, leftNew)
  BY DEF PlanSlots, SlotsRest, has
<1> HIDE DEF ps, leftOld, leftNew
<1> QED BY <1>3, <1>4, <1>5, <1>6

\* A question is answered, ignored or asked.
LEMMA DecidedCases ==
    ASSUME NEW decisions, NEW fp, NEW A, NEW B, NEW T, T = Decided(decisions, fp, A, B)
    PROVE  \/ T = A \cup {<<"applied", fp>>}
           \/ T = B \cup {<<"applied", fp>>}
           \/ T = {}
           \/ T = {<<"review", fp>>}
<1> DEFINE d == DecisionOn(decisions, fp)
<1> HIDE DEF d
<1>1. CASE d = "SAME" BY <1>1 DEF Decided, d
<1>2. CASE d = "DIFFERENT" BY <1>2 DEF Decided, d
<1>3. CASE d = "IGNORED" BY <1>3 DEF Decided, d
<1>4. CASE d \notin {"SAME", "DIFFERENT", "IGNORED"} BY <1>4 DEF Decided, d
<1> QED BY <1>1, <1>2, <1>3, <1>4

\* What is said of the courses and rows without a slot of their own.
SaysOfRest(L, N, f) ==
    \/ \E i \in N : f = <<"create", i>>
    \/ \E c \in L : f = <<"gone", c>> \/ f = <<"forced", c>>
    \/ f[1] \in {"applied", "review"}

LEMMA RestIs ==
    ASSUME NEW existing, NEW decisions, NEW S, NEW term, NEW k, NEW L, NEW N,
           IsFiniteSet(L), IsFiniteSet(N),
           NEW R, R = SlotsRest(existing, decisions, S, term, k, L, N)
    PROVE  \/ \E c, i : L = {c} /\ N = {i} /\ R = Updates(existing, S, term, {<<c, i>>})
           \/ \A f \in R : SaysOfRest(L, N, f)
<1>1. CASE L = {} BY <1>1 DEF SlotsRest, CreateAll, SaysOfRest
<1>2. CASE L # {} /\ N = {}
  <2>1. R = DiscontinueCandidates(existing, L) BY <1>2 DEF SlotsRest
  <2> QED BY <2>1 DEF DiscontinueCandidates, SaysOfRest
<1>3. CASE L # {} /\ N # {} /\ Cardinality(L) = 1 /\ Cardinality(N) = 1
  <2>1. PICK c : L = {c} BY <1>3, FS_Singleton
  <2>2. PICK i : N = {i} BY <1>3, FS_Singleton
  <2>3. L \X N = {<<c, i>>} BY <2>1, <2>2
  <2>4. R = Updates(existing, S, term, {<<c, i>>}) BY <1>3, <2>3 DEF SlotsRest
  <2> QED BY <2>1, <2>2, <2>4
<1>4. CASE L # {} /\ N # {} /\ ~(Cardinality(L) = 1 /\ Cardinality(N) = 1)
  <2> DEFINE fp == <<"SLOT_AMBIGUOUS", k, SlotsOf(existing, L), SlotsOf(S, N)>>
             new == {<<"forced", c>> : c \in {d \in L : ~existing[d].disc}} \cup CreateAll(N)
  <2>1. R = {} \/ R = Decided(decisions, fp, {}, new) BY <1>4 DEF SlotsRest
  <2>2. \A f \in new : SaysOfRest(L, N, f) BY DEF SaysOfRest, CreateAll
  <2> HIDE DEF new, fp
  <2>3. \/ R = {} \/ R = new \cup {<<"applied", fp>>} \/ R = {<<"applied", fp>>} \/ R = {<<"review", fp>>}
    BY <2>1, DecidedCases
  <2> QED BY <2>2, <2>3 DEF SaysOfRest
<1> QED BY <1>1, <1>2, <1>3, <1>4

\* The first rows of a group raise the suspicion that its code was given to another course.
Suspected(existing, S, olds, news) ==
    LET old == existing[Min(olds)]
        new == S[Min(news)]
    IN  ~NameMatches(old, new.source) /\ old.teacher # new.teacher

\* A question is answered, by A or by B, is ignored or is asked.
Answered(A, B, T) ==
    \E f : \/ T = A \cup {<<"applied", f>>}
           \/ T = B \cup {<<"applied", f>>}
           \/ T = {}
           \/ T = {<<"review", f>>}

LEMMA DecidedAnswers ==
    ASSUME NEW decisions, NEW fp, NEW A, NEW B
    PROVE  Answered(A, B, Decided(decisions, fp, A, B))
BY DecidedCases DEF Answered

\* New courses for the rows, the old ones retired.
Anew(olds, news) == {<<"retire", c>> : c \in olds} \cup CreateAll(news)

LEMMA GroupIs ==
    ASSUME NEW existing, NEW decisions, NEW S, NEW term, NEW k, NEW olds, NEW news, NEW skip \in BOOLEAN
    PROVE  \/ /\ skip \/ ~Suspected(existing, S, olds, news)
              /\ PlanGroup(existing, decisions, S, term, k, olds, news, skip) =
                   PlanSlots(existing, decisions, S, term, k, olds, news)
           \/ /\ ~skip /\ Suspected(existing, S, olds, news)
              /\ Answered(PlanSlots(existing, decisions, S, term, k, olds, news), Anew(olds, news),
                          PlanGroup(existing, decisions, S, term, k, olds, news, skip))
<1> DEFINE new == S[Min(news)]
           fp  == <<"CODE_REUSED", k, new.source, new.teacher>>
           suspected == Suspected(existing, S, olds, news)
           slots == PlanSlots(existing, decisions, S, term, k, olds, news)
           T == PlanGroup(existing, decisions, S, term, k, olds, news, skip)
<1>1. T = IF ~skip /\ suspected THEN Decided(decisions, fp, slots, Anew(olds, news)) ELSE slots
  BY DEF PlanGroup, Suspected, Anew
<1>2. Answered(slots, Anew(olds, news), Decided(decisions, fp, slots, Anew(olds, news))) BY DecidedAnswers
<1> HIDE DEF fp, suspected, slots, T
<1> QED BY <1>1, <1>2 DEF suspected, slots, T

\* The fact f of a part: what it says of the courses olds and the rows news.
Says(existing, S, olds, news, f) ==
    LET L == LeftOld(existing, S, olds, news)
        N == LeftNew(existing, S, olds, news)
    IN  \/ \E c \in olds, i \in news :
              /\ f = <<"update", c, i>>
              /\ existing[c].slot = S[i].slot \/ (L = {c} /\ N = {i})
        \/ \E i \in news : f = <<"create", i>>
        \/ /\ \E c \in L : f = <<"gone", c>> \/ f = <<"forced", c>>
           /\ ~\E c, i : L = {c} /\ N = {i}
        \/ \E c \in olds : f = <<"retire", c>>
        \/ f[1] \in {"applied", "review"}

LEMMA LeftFinite ==
    ASSUME NEW existing, NEW S, NEW olds, NEW news, Comparable(S, olds, news)
    PROVE  /\ IsFiniteSet(LeftOld(existing, S, olds, news)) /\ IsFiniteSet(LeftNew(existing, S, olds, news))
           /\ LeftOld(existing, S, olds, news) \subseteq olds /\ LeftNew(existing, S, olds, news) \subseteq news
<1>1. LeftOld(existing, S, olds, news) \subseteq olds /\ LeftNew(existing, S, olds, news) \subseteq news
  BY DEF LeftOld, LeftNew
<1>2. PICK B \in Nat : olds \subseteq 1..B BY DEF Comparable
<1>3. IsFiniteSet(1..B) BY FS_Interval
<1>4. IsFiniteSet(olds) /\ IsFiniteSet(news) BY <1>2, <1>3, FS_Subset DEF Comparable
<1> QED BY <1>1, <1>4, FS_Subset

LEMMA SlotsSay ==
    ASSUME NEW existing, NEW decisions, NEW S, NEW term, NEW k, NEW olds, NEW news,
           Comparable(S, olds, news), SlotsApart(existing, olds),
           NEW f \in PlanSlots(existing, decisions, S, term, k, olds, news)
    PROVE  Says(existing, S, olds, news, f)
<1> DEFINE pairs == InOnePlace(existing, S, olds, news)
           L == LeftOld(existing, S, olds, news)
           N == LeftNew(existing, S, olds, news)
           R == SlotsRest(existing, decisions, S, term, k, L, N)
<1>1. f \in Updates(existing, S, term, pairs) \cup R BY PlanSlotsIs
<1>2. IsFiniteSet(L) /\ IsFiniteSet(N) /\ L \subseteq olds /\ N \subseteq news BY LeftFinite
<1>3. \A p \in pairs : p[1] \in olds /\ p[2] \in news /\ existing[p[1]].slot = S[p[2]].slot
  BY DEF InOnePlace
<1>4. Says(existing, S, olds, news, f) <=>
        \/ \E c \in olds, i \in news :
              /\ f = <<"update", c, i>>
              /\ existing[c].slot = S[i].slot \/ (L = {c} /\ N = {i})
        \/ \E i \in news : f = <<"create", i>>
        \/ /\ \E c \in L : f = <<"gone", c>> \/ f = <<"forced", c>>
           /\ ~\E c, i : L = {c} /\ N = {i}
        \/ \E c \in olds : f = <<"retire", c>>
        \/ f[1] \in {"applied", "review"}
  BY DEF Says
<1> HIDE DEF pairs, L, N
<1>5. CASE f \in Updates(existing, S, term, pairs)
  <2>1. PICK p \in pairs : f = <<"update", p[1], p[2]>> BY <1>5, UpdatesAre
  <2> QED BY <1>3, <1>4, <2>1
<1>6. CASE f \in R
  <2>1. CASE \E c, i : L = {c} /\ N = {i} /\ R = Updates(existing, S, term, {<<c, i>>})
    <3>1. PICK c, i : L = {c} /\ N = {i} /\ R = Updates(existing, S, term, {<<c, i>>}) BY <2>1
    <3>2. PICK p \in {<<c, i>>} : f = <<"update", p[1], p[2]>> BY <1>6, <3>1, UpdatesAre
    <3>3. f = <<"update", c, i>> /\ c \in olds /\ i \in news BY <1>2, <3>1, <3>2
    <3> QED BY <1>4, <3>1, <3>3
  <2>2. CASE (\E c, i : L = {c} /\ N = {i}) /\ ~\E c, i : L = {c} /\ N = {i} /\ R = Updates(existing, S, term, {<<c, i>>})
    <3>1. PICK c, i : L = {c} /\ N = {i} BY <2>2
    <3>2. L # {} /\ N # {} /\ Cardinality(L) = 1 /\ Cardinality(N) = 1 BY <3>1, FS_Singleton
    <3>3. L \X N = {<<c, i>>} BY <3>1
    <3>4. R = Updates(existing, S, term, {<<c, i>>}) BY <3>2, <3>3 DEF SlotsRest
    <3> QED BY <2>2, <3>1, <3>4
  <2>3. CASE ~\E c, i : L = {c} /\ N = {i}
    <3>1. SaysOfRest(L, N, f)
      <4>1. R = SlotsRest(existing, decisions, S, term, k, L, N) OBVIOUS
      <4> HIDE DEF R
      <4> QED BY <1>2, <1>6, <2>3, <4>1, RestIs
    <3> QED BY <1>2, <1>4, <2>3, <3>1 DEF SaysOfRest
  <2> QED BY <2>1, <2>2, <2>3
<1> QED BY <1>1, <1>5, <1>6

LEMMA AnewSays ==
    ASSUME NEW existing, NEW S, NEW olds, NEW news, NEW f \in Anew(olds, news)
    PROVE  Says(existing, S, olds, news, f)
<1>1. (\E c \in olds : f = <<"retire", c>>) \/ \E i \in news : f = <<"create", i>> BY DEF CreateAll, Anew
<1> QED BY <1>1 DEF Says

LEMMA GroupSays ==
    ASSUME NEW existing, NEW decisions, NEW S, NEW term, NEW k, NEW olds, NEW news, NEW skip \in BOOLEAN,
           Comparable(S, olds, news), SlotsApart(existing, olds),
           NEW f \in PlanGroup(existing, decisions, S, term, k, olds, news, skip)
    PROVE  Says(existing, S, olds, news, f)
<1> DEFINE slots == PlanSlots(existing, decisions, S, term, k, olds, news)
           anew == Anew(olds, news)
           T == PlanGroup(existing, decisions, S, term, k, olds, news, skip)
<1>1. \A x \in slots : Says(existing, S, olds, news, x) BY SlotsSay
<1>2. \A x \in anew : Says(existing, S, olds, news, x) BY AnewSays
<1>3. \A x : x[1] \in {"applied", "review"} => Says(existing, S, olds, news, x) BY DEF Says
<1>4. T = slots \/ Answered(slots, anew, T) BY GroupIs
<1>5. f \in T OBVIOUS
<1> HIDE DEF slots, anew, T
<1>6. f \in slots \/ f \in anew \/ f[1] \in {"applied", "review"} BY <1>4, <1>5 DEF Answered
<1> QED BY <1>1, <1>2, <1>3, <1>6

\* A table as the transactions leave it.
Sound(table) == IsTable(table) /\ Described(table) /\ KeysUnique(table)

\* Courses of one group have slots of their own, since they carry their keys.
LEMMA OldsApart ==
    ASSUME NEW existing, Sound(existing), NEW k
    PROVE  SlotsApart(existing, Olds(existing, k))
<1> SUFFICES ASSUME NEW c \in Olds(existing, k), NEW d \in Olds(existing, k),
                    existing[c].slot = existing[d].slot
             PROVE  c = d
  BY DEF SlotsApart
<1>1. /\ c \in DOMAIN existing /\ existing[c].ref # NoRef /\ GroupKey(existing[c]) = k
      /\ d \in DOMAIN existing /\ existing[d].ref # NoRef /\ GroupKey(existing[d]) = k
  BY DEF Olds, Syncable
<1>2. existing[c].key = DedupKey(existing[c]) /\ existing[d].key = DedupKey(existing[d])
  BY <1>1 DEF Sound, Described, Describes
<1>3. existing[c].sem = existing[d].sem /\ existing[c].ref = existing[d].ref
  <2>1. GroupKey(existing[c]) = GroupKey(existing[d]) BY <1>1
  <2> QED BY <2>1 DEF GroupKey
<1>4. DedupKey(existing[c]) = DedupKey(existing[d]) BY <1>3 DEF DedupKey
<1> QED BY <1>1, <1>2, <1>4 DEF Sound, KeysUnique

LEMMA PartSays ==
    ASSUME NEW existing, Sound(existing), NEW decisions, NEW S \in Syllabi, NEW term,
           NEW nk, NEW olds, NEW T, IsPart(existing, decisions, S, term, nk, olds, T), NEW f \in T
    PROVE  Says(existing, S, olds, News(S, nk), f)
<1>0. IsTable(existing) BY DEF Sound
<1>1. CASE /\ nk \in NewKeys(S) \cap OldKeys(existing)
           /\ olds = Olds(existing, nk)
           /\ T = PlanGroup(existing, decisions, S, term, nk, olds, News(S, nk), FALSE)
  <2>1. Comparable(S, olds, News(S, nk)) /\ SlotsApart(existing, olds) BY <1>0, <1>1, OldsComparable, OldsApart
  <2> QED BY <1>1, <2>1, GroupSays
<1>2. CASE olds = {} /\ T = CreateAll(News(S, nk))
  BY <1>2 DEF CreateAll, Says
<1>3. ASSUME NEW p \in MatchReissues(existing, S, term), p[1] = nk,
             T = PlanReissue(existing, decisions, S, term, p),
             olds = IF DecisionOn(decisions, ReissueFingerprint(p)) = "DIFFERENT" THEN {}
                    ELSE Olds(existing, p[2])
      PROVE  Says(existing, S, olds, News(S, nk), f)
  <2> DEFINE news == News(S, nk)
             old == Olds(existing, p[2])
             fp == ReissueFingerprint(p)
             group == PlanGroup(existing, decisions, S, term, nk, old, news, TRUE)
  <2>1. T = Decided(decisions, fp, group, CreateAll(news)) BY <1>3 DEF PlanReissue
  <2>2. \/ f \in group /\ DecisionOn(decisions, fp) = "SAME"
        \/ f \in CreateAll(news)
        \/ f[1] \in {"applied", "review"}
    <3> HIDE DEF group, fp, news
    <3> QED BY <2>1, DecidedIs
  <2>3. CASE f \in group /\ DecisionOn(decisions, fp) = "SAME"
    <3>1. olds = old BY <1>3, <2>3
    <3>2. Comparable(S, old, news) /\ SlotsApart(existing, old) BY <1>0, OldsComparable, OldsApart
    <3> HIDE DEF old
    <3>3. Says(existing, S, old, news, f) BY <2>3, <3>2, GroupSays
    <3> QED BY <3>1, <3>3
  <2>4. CASE f \in CreateAll(news) BY <2>4 DEF CreateAll, Says
  <2>5. CASE f[1] \in {"applied", "review"} BY <2>5 DEF Says
  <2> QED BY <2>2, <2>3, <2>4, <2>5
<1> QED BY <1>1, <1>2, <1>3 DEF IsPart

\* The candidates to discontinue that no part names are the courses of codes that are gone.
LEMMA GoneAre ==
    ASSUME NEW existing, NEW decisions, NEW S, NEW term, NEW complete,
           NEW P, P = PlanCourseSync(existing, decisions, S, term, complete), NEW f \in P
    PROVE  \/ \E nk, olds, T : IsPart(existing, decisions, S, term, nk, olds, T) /\ f \in T
           \/ \E k \in OldKeys(existing) \ NewKeys(S) :
                 /\ \A p \in MatchReissues(existing, S, term) :
                       p[2] = k => DecisionOn(decisions, ReissueFingerprint(p)) = "DIFFERENT"
                 /\ \E c \in Olds(existing, k) : f = <<"gone", c>>
<1> DEFINE both     == NewKeys(S) \cap OldKeys(existing)
           reissues == MatchReissues(existing, S, term)
           fresh    == {k \in NewKeys(S) \ OldKeys(existing) : \A p \in reissues : p[1] # k}
           settled  == {p \in reissues : DecisionOn(decisions, ReissueFingerprint(p)) # "DIFFERENT"}
           gone     == {k \in OldKeys(existing) \ NewKeys(S) : \A p \in settled : p[2] # k}
           GS == {PlanGroup(existing, decisions, S, term, k,
                            Olds(existing, k), News(S, k), FALSE) : k \in both}
           FS == {CreateAll(News(S, k)) : k \in fresh}
           RS == {PlanReissue(existing, decisions, S, term, p) : p \in reissues}
           DS == {DiscontinueCandidates(existing, Olds(existing, k)) : k \in gone}
           facts == UNION (GS \cup FS \cup RS \cup DS)
           active == Cardinality({c \in Syncable(existing) : ~existing[c].disc})
<1>1. P = DecideDiscontinues(facts, active, complete) BY DEF PlanCourseSync
<1>2. f \in facts
  <2> HIDE DEF facts, active
  <2> QED BY <1>1 DEF DecideDiscontinues
<1>3. \E X \in GS \cup FS \cup RS \cup DS : f \in X
  <2> HIDE DEF GS, FS, RS, DS
  <2> QED BY <1>2
<1> HIDE DEF facts
<1>4. CASE \E X \in GS : f \in X
  <2>1. PICK k \in both : f \in PlanGroup(existing, decisions, S, term, k, Olds(existing, k), News(S, k), FALSE)
    BY <1>4
  <2>2. IsPart(existing, decisions, S, term, k, Olds(existing, k),
               PlanGroup(existing, decisions, S, term, k, Olds(existing, k), News(S, k), FALSE))
    BY <2>1 DEF IsPart
  <2> QED BY <2>1, <2>2
<1>5. CASE \E X \in FS : f \in X
  <2>1. PICK k \in fresh : f \in CreateAll(News(S, k)) BY <1>5
  <2>2. IsPart(existing, decisions, S, term, k, {}, CreateAll(News(S, k))) BY <2>1 DEF IsPart
  <2> QED BY <2>1, <2>2
<1>6. CASE \E X \in RS : f \in X
  <2>1. PICK p \in reissues : f \in PlanReissue(existing, decisions, S, term, p) BY <1>6
  <2> DEFINE o == IF DecisionOn(decisions, ReissueFingerprint(p)) = "DIFFERENT" THEN {}
                  ELSE Olds(existing, p[2])
  <2>2. IsPart(existing, decisions, S, term, p[1], o, PlanReissue(existing, decisions, S, term, p))
    BY <2>1 DEF IsPart
  <2> HIDE DEF o
  <2> QED BY <2>1, <2>2
<1>7. CASE \E X \in DS : f \in X
  <2>1. PICK k \in gone : f \in DiscontinueCandidates(existing, Olds(existing, k)) BY <1>7
  <2>2. \E c \in Olds(existing, k) : f = <<"gone", c>> BY <2>1 DEF DiscontinueCandidates
  <2> QED BY <2>1, <2>2
<1> HIDE DEF GS, FS, RS, DS
<1> QED BY <1>3, <1>4, <1>5, <1>6, <1>7

\* What a plan says of a course is said by the part that has the course.
LEMMA OwnFacts ==
    ASSUME NEW existing, Sound(existing), NEW decisions, NEW S \in Syllabi, NEW term, NEW complete,
           NEW P, P = PlanCourseSync(existing, decisions, S, term, complete),
           NEW nk, NEW olds, NEW T, IsPart(existing, decisions, S, term, nk, olds, T), NEW c \in olds,
           NEW f \in P, f[1] \in {"update", "retire", "gone", "forced"}, f[2] = c
    PROVE  f \in T
<1>0. IsTable(existing) BY DEF Sound
<1>1. CASE \E mk, os, X : IsPart(existing, decisions, S, term, mk, os, X) /\ f \in X
  <2>1. PICK mk, os, X : IsPart(existing, decisions, S, term, mk, os, X) /\ f \in X BY <1>1
  <2>2. Says(existing, S, os, News(S, mk), f) BY <2>1, PartSays
  <2>3. c \in os
    <3>1. LeftOld(existing, S, os, News(S, mk)) \subseteq os BY DEF LeftOld
    <3> QED BY <2>2, <3>1 DEF Says
  <2>4. X = T BY <1>0, <2>1, <2>3, PartsApart
  <2> QED BY <2>1, <2>4
<1>2. ASSUME NEW k \in OldKeys(existing) \ NewKeys(S),
             \A p \in MatchReissues(existing, S, term) :
                p[2] = k => DecisionOn(decisions, ReissueFingerprint(p)) = "DIFFERENT",
             \E d \in Olds(existing, k) : f = <<"gone", d>>
      PROVE  FALSE
  <2>1. c \in Olds(existing, k) BY <1>2
  <2>2. \A m : \A d \in Olds(existing, m) : GroupKey(existing[d]) = m BY <1>0, OldsComparable
  <2>3. CASE nk \in NewKeys(S) \cap OldKeys(existing) /\ olds = Olds(existing, nk)
    BY <1>2, <2>1, <2>2, <2>3
  <2>4. CASE \E p \in MatchReissues(existing, S, term) :
                olds = IF DecisionOn(decisions, ReissueFingerprint(p)) = "DIFFERENT" THEN {}
                       ELSE Olds(existing, p[2])
    BY <1>2, <2>1, <2>2, <2>4
  <2> QED BY <2>3, <2>4 DEF IsPart
<1> QED BY <1>1, <1>2, GoneAre

\* The part that creates row i.
LEMMA CreatedOf ==
    ASSUME NEW existing, Sound(existing), NEW decisions, NEW S \in Syllabi, NEW term, NEW complete,
           NEW P, P = PlanCourseSync(existing, decisions, S, term, complete),
           NEW i, <<"create", i>> \in P
    PROVE  /\ i \in News(S, GroupKey(S[i]))
           /\ \E olds, T : IsPart(existing, decisions, S, term, GroupKey(S[i]), olds, T) /\ <<"create", i>> \in T
<1> DEFINE f == <<"create", i>>
<1>1. f[1] = "create" /\ f[2] = i /\ f \in P OBVIOUS
<1> HIDE DEF f
<1>2. PICK nk, olds, T : IsPart(existing, decisions, S, term, nk, olds, T) /\ f \in T
  BY <1>1, PlanParts
<1>3. i \in News(S, nk)
  <2>1. Says(existing, S, olds, News(S, nk), f) BY <1>2, PartSays
  <2> QED BY <1>1, <2>1 DEF Says
<1>4. GroupKey(S[i]) = nk BY <1>3, NewsOnce
<1> QED BY <1>2, <1>3, <1>4 DEF f

\* The part that gives row i to course c, which takes the group of the row.
LEMMA UpdatedOf ==
    ASSUME NEW existing, Sound(existing), NEW decisions, NEW S \in Syllabi, NEW term, NEW complete,
           NEW P, P = PlanCourseSync(existing, decisions, S, term, complete),
           NEW c, NEW i, <<"update", c, i>> \in P
    PROVE  /\ i \in News(S, GroupKey(S[i])) /\ c \in Syncable(existing)
           /\ GroupKey(After(existing[c], S[i], term)) = GroupKey(S[i])
           /\ EndedBefore(term, existing[c].sem) => GroupKey(existing[c]) = GroupKey(S[i])
           /\ \E olds, T : /\ IsPart(existing, decisions, S, term, GroupKey(S[i]), olds, T)
                           /\ <<"update", c, i>> \in T /\ c \in olds
<1> DEFINE f == <<"update", c, i>>
<1>0. IsTable(existing) BY DEF Sound
<1>1. f[1] = "update" /\ f[2] = c /\ f[3] = i /\ f \in P OBVIOUS
<1> HIDE DEF f
<1>2. PICK nk, olds, T : IsPart(existing, decisions, S, term, nk, olds, T) /\ f \in T
  BY <1>1, PlanParts
<1>3. i \in News(S, nk) /\ c \in olds
  <2>1. Says(existing, S, olds, News(S, nk), f) BY <1>2, PartSays
  <2> QED BY <1>1, <2>1 DEF Says
<1>4. GroupKey(S[i]) = nk BY <1>3, NewsOnce
<1>5. /\ olds \subseteq Syncable(existing)
      /\ \/ olds = Olds(existing, nk)
         \/ \A d \in olds : ~EndedBefore(term, existing[d].sem)
  BY <1>0, <1>2, PartIs
<1>6. EndedBefore(term, existing[c].sem) => GroupKey(existing[c]) = nk
  BY <1>3, <1>5 DEF Olds
<1>7. GroupKey(After(existing[c], S[i], term)) = nk
  <2> DEFINE a == After(existing[c], S[i], term)
             stay == EndedBefore(term, existing[c].sem)
                       /\ (existing[c].sem # S[i].sem \/ existing[c].slot # S[i].slot)
  <2>1. a.ref = S[i].ref /\ a.sem = IF stay THEN existing[c].sem ELSE S[i].sem BY DEF After
  <2>2. stay => existing[c].sem = S[i].sem
    <3> SUFFICES ASSUME stay PROVE existing[c].sem = S[i].sem OBVIOUS
    <3>1. GroupKey(existing[c]) = GroupKey(S[i]) BY <1>4, <1>6
    <3> QED BY <3>1 DEF GroupKey
  <2> HIDE DEF a, stay
  <2>3. a.sem = S[i].sem BY <2>1, <2>2
  <2>4. GroupKey(a) = GroupKey(S[i]) BY <2>1, <2>3 DEF GroupKey
  <2> QED BY <1>4, <2>4 DEF a
<1> QED BY <1>2, <1>3, <1>4, <1>5, <1>6, <1>7 DEF f

\* A course that a row updates is not discontinued.
LEMMA UpdatedStays ==
    ASSUME NEW existing, Sound(existing), NEW decisions, NEW S \in Syllabi, NEW term, NEW complete,
           NEW P, P = PlanCourseSync(existing, decisions, S, term, complete), NEW c \in Named(P, "update")
    PROVE  ~Leaves(P, c)
<1> SUFFICES ASSUME Leaves(P, c) PROVE FALSE OBVIOUS
<1>1. PICK f \in P : f[1] = "update" /\ f[2] = c BY DEF Named
<1>2. PICK g \in P : g[1] \in {"forced", "gone"} /\ g[2] = c BY DEF Leaves, Named
<1>3. PICK nk, olds, T : IsPart(existing, decisions, S, term, nk, olds, T) /\ f \in T
  BY <1>1, PlanParts
<1> DEFINE L == LeftOld(existing, S, olds, News(S, nk))
           N == LeftNew(existing, S, olds, News(S, nk))
<1>4. Says(existing, S, olds, News(S, nk), f) BY <1>3, PartSays
<1>5. /\ c \in olds
      /\ \/ \E i \in News(S, nk) : existing[c].slot = S[i].slot
         \/ \E i : L = {c} /\ N = {i}
  BY <1>1, <1>4 DEF Says
<1>6. g \in T BY <1>2, <1>3, <1>5, OwnFacts
<1>7. Says(existing, S, olds, News(S, nk), g) BY <1>3, <1>6, PartSays
<1>8. c \in L /\ ~\E d, i : L = {d} /\ N = {i} BY <1>2, <1>7 DEF Says
<1> QED BY <1>5, <1>8 DEF LeftOld

\* A sync that read table C, and the table T that it left.
FirstSync(C, decisions, S, term, complete, P, T) ==
    /\ Sound(C) /\ Sound(T) /\ S \in Syllabi
    /\ P = PlanCourseSync(C, decisions, S, term, complete)
    /\ RowsAfter(C, S, term, P, T)

LEMMA FirstSyncIs ==
    ASSUME NEW C, NEW n \in Nat \ {0}, CourseTable(C, n), Described(C), KeysUnique(C),
           NEW decisions, NEW S \in Syllabi, NEW term, NEW complete,
           NEW P, P = PlanCourseSync(C, decisions, S, term, complete),
           NEW T, T = ApplyCourses(C, P, C, S, term, n)
    PROVE  FirstSync(C, decisions, S, term, complete, P, T)
<1>1. IsTable(C) /\ Sound(C) BY DEF IsTable, Sound
<1>2. PlanFits(C, S, term, P) BY <1>1, PlanIsFit
<1>3. \A c \in Named(P, "update") : ~Leaves(P, c) BY <1>1, UpdatedStays
<1>4. RowsAfter(C, S, term, P, T) BY <1>2, <1>3, RowsAfterIs
<1>5. Transacted(C, C, S, term, P, T, n, n + Cardinality(Named(P, "create"))) BY <1>2, TransactionIs
<1>6. IsTable(T) /\ Described(T) BY <1>5 DEF Transacted, IsTable
<1>7. Sound(T) BY <1>4, <1>6 DEF Sound, RowsAfter
<1> QED BY <1>1, <1>4, <1>7 DEF FirstSync

\* Where the courses of group k come from.
LEMMA OldsAfter ==
    ASSUME NEW C, NEW decisions, NEW S, NEW term, NEW complete, NEW P, NEW T,
           FirstSync(C, decisions, S, term, complete, P, T), NEW k, NEW c \in Olds(T, k)
    PROVE  \/ \E i \in News(S, k) : <<"create", i>> \in P /\ T[c] = RowMade(S, i)
           \/ \E i \in News(S, k) : <<"update", c, i>> \in P /\ T[c] = After(C[c], S[i], term)
           \/ /\ c \in Olds(C, k) /\ c \notin Named(P, "update") /\ c \notin Named(P, "retire")
              /\ T[c].slot = C[c].slot
<1>0. Sound(C) /\ S \in Syllabi /\ P = PlanCourseSync(C, decisions, S, term, complete)
      /\ RowsAfter(C, S, term, P, T) BY DEF FirstSync
<1>1. c \in DOMAIN T /\ T[c].ref # NoRef /\ GroupKey(T[c]) = k BY DEF Olds, Syncable
<1>2. CASE c \notin DOMAIN C
  <2>1. PICK i : <<"create", i>> \in P /\ T[c] = RowMade(S, i) BY <1>0, <1>1, <1>2 DEF RowsAfter
  <2>2. i \in News(S, GroupKey(S[i])) BY <1>0, <2>1, CreatedOf
  <2>3. GroupKey(T[c]) = GroupKey(S[i]) BY <2>1 DEF RowMade, NewCourse, GroupKey
  <2> QED BY <1>1, <2>1, <2>2, <2>3
<1>3. CASE c \in DOMAIN C /\ c \in Named(P, "update")
  <2>1. PICK f \in P : f[1] = "update" /\ f[2] = c BY <1>3 DEF Named
  <2>2. PICK nk, olds, X : IsPart(C, decisions, S, term, nk, olds, X) /\ f \in X BY <1>0, <2>1, PlanParts
  <2>3. Says(C, S, olds, News(S, nk), f) BY <1>0, <2>2, PartSays
  <2>4. PICK i : f = <<"update", c, i>> BY <2>1, <2>3 DEF Says
  <2>5. <<"update", c, i>> \in P BY <2>1, <2>4
  <2>6. T[c] = After(C[c], S[i], term) BY <1>0, <1>3, <2>5 DEF RowsAfter
  <2>7. i \in News(S, GroupKey(S[i])) /\ GroupKey(After(C[c], S[i], term)) = GroupKey(S[i])
    BY <1>0, <2>5, UpdatedOf
  <2> QED BY <1>1, <2>5, <2>6, <2>7
<1>4. CASE c \in DOMAIN C /\ c \notin Named(P, "update")
  <2>1. c \notin Named(P, "retire") BY <1>0, <1>1, <1>4 DEF RowsAfter
  <2>2. T[c] = [C[c] EXCEPT !.disc = C[c].disc \/ Leaves(P, c)] BY <1>0, <1>4, <2>1 DEF RowsAfter
  <2>3. PICK n \in Nat \ {0} : CourseTable(C, n) BY <1>0 DEF Sound, IsTable
  <2>4. C[c] \in Course(n) BY <1>4, <2>3 DEF CourseTable
  <2>5. T[c].sem = C[c].sem /\ T[c].ref = C[c].ref /\ T[c].slot = C[c].slot BY <2>2, <2>4 DEF Course
  <2>6. c \in Olds(C, k) BY <1>1, <1>4, <2>5 DEF Olds, Syncable, GroupKey
  <2> QED BY <1>4, <2>1, <2>5, <2>6
<1> QED BY <1>2, <1>3, <1>4

\* What was written is found in its group.
LEMMA FoundAfter ==
    ASSUME NEW C, NEW decisions, NEW S, NEW term, NEW complete, NEW P, NEW T,
           FirstSync(C, decisions, S, term, complete, P, T)
    PROVE  /\ \A i : <<"create", i>> \in P =>
                 \E c \in Olds(T, GroupKey(S[i])) : T[c] = RowMade(S, i)
           /\ \A c, i : <<"update", c, i>> \in P =>
                 c \in Olds(T, GroupKey(S[i])) /\ T[c] = After(C[c], S[i], term)
           /\ \A k : \A c \in Olds(C, k) :
                 c \notin Named(P, "update") /\ c \notin Named(P, "retire") =>
                    /\ c \in Olds(T, k) /\ T[c].slot = C[c].slot
                    /\ ~Leaves(P, c) => T[c] = C[c]
<1>0. Sound(C) /\ S \in Syllabi /\ P = PlanCourseSync(C, decisions, S, term, complete)
      /\ RowsAfter(C, S, term, P, T) BY DEF FirstSync
<1>1. ASSUME NEW i, <<"create", i>> \in P PROVE \E c \in Olds(T, GroupKey(S[i])) : T[c] = RowMade(S, i)
  <2>1. i \in News(S, GroupKey(S[i])) BY <1>0, <1>1, CreatedOf
  <2>2. i \in DOMAIN S BY <1>0, <2>1, NewsOnce
  <2>3. S[i].ref # NoRef BY <1>0, <2>2, SyllabusRows
  <2>4. PICK c \in DOMAIN T \ DOMAIN C : T[c] = RowMade(S, i) BY <1>0, <1>1 DEF RowsAfter
  <2>5. GroupKey(T[c]) = GroupKey(S[i]) /\ T[c].ref = S[i].ref BY <2>4 DEF RowMade, NewCourse, GroupKey
  <2> QED BY <2>3, <2>4, <2>5 DEF Olds, Syncable
<1>2. ASSUME NEW c, NEW i, <<"update", c, i>> \in P
      PROVE  c \in Olds(T, GroupKey(S[i])) /\ T[c] = After(C[c], S[i], term)
  <2>1. /\ i \in News(S, GroupKey(S[i])) /\ c \in Syncable(C)
        /\ GroupKey(After(C[c], S[i], term)) = GroupKey(S[i]) BY <1>0, <1>2, UpdatedOf
  <2>2. i \in DOMAIN S BY <1>0, <2>1, NewsOnce
  <2>3. S[i].ref # NoRef BY <1>0, <2>2, SyllabusRows
  <2>4. c \in DOMAIN C BY <2>1 DEF Syncable
  <2>5. T[c] = After(C[c], S[i], term) /\ c \in DOMAIN T BY <1>0, <1>2, <2>4 DEF RowsAfter
  <2>6. After(C[c], S[i], term).ref = S[i].ref BY DEF After
  <2> QED BY <2>1, <2>3, <2>5, <2>6 DEF Olds, Syncable
<1>3. ASSUME NEW k, NEW c \in Olds(C, k), c \notin Named(P, "update"), c \notin Named(P, "retire")
      PROVE  c \in Olds(T, k) /\ T[c].slot = C[c].slot /\ (~Leaves(P, c) => T[c] = C[c])
  <2>1. c \in DOMAIN C /\ C[c].ref # NoRef /\ GroupKey(C[c]) = k BY DEF Olds, Syncable
  <2>2. T[c] = [C[c] EXCEPT !.disc = C[c].disc \/ Leaves(P, c)] /\ c \in DOMAIN T
    BY <1>0, <1>3, <2>1 DEF RowsAfter
  <2>3. PICK n \in Nat \ {0} : CourseTable(C, n) BY <1>0 DEF Sound, IsTable
  <2>4. C[c] \in Course(n) BY <2>1, <2>3 DEF CourseTable
  <2>5. T[c].sem = C[c].sem /\ T[c].ref = C[c].ref /\ T[c].slot = C[c].slot BY <2>2, <2>4 DEF Course
  <2>6. c \in Olds(T, k) BY <2>1, <2>2, <2>5 DEF Olds, Syncable, GroupKey
  <2>7. ASSUME ~Leaves(P, c) PROVE T[c] = C[c]
    <3>1. (C[c].disc \/ Leaves(P, c)) = C[c].disc BY <2>4, <2>7 DEF Course
    <3>2. T[c] = [C[c] EXCEPT !.disc = C[c].disc] BY <2>2, <3>1
    <3> QED BY <2>4, <3>2 DEF Course
  <2> QED BY <2>5, <2>6, <2>7
<1> QED BY <1>1, <1>2, <1>3

\* Course c shows row i as it is listed.
Shows(T, S, term, c, i) == T[c].slot = S[i].slot => After(T[c], S[i], term) = T[c]

\* What a repeated sync finds of group k: the courses in the places of rows show them, and
\* the rows without a place are none, or those of a new code that the first sync left out,
\* or face courses without a place, of which a single pair is found as it was left.
GroupSettles(C, S, term, P, T, k) ==
    LET olds == Olds(T, k)
        news == News(S, k)
        L == LeftOld(T, S, olds, news)
        N == LeftNew(T, S, olds, news)
    IN  /\ \A c \in olds, i \in news : Shows(T, S, term, c, i)
        /\ \/ N = {}
           \/ L = {} /\ k \notin OldKeys(C) /\ \A i \in N : i \notin RowsWritten(P)
           \/ L # {} /\ N # {} /\ \A c, i : L = {c} /\ N = {i} => After(T[c], S[i], term) = T[c]

\* A created course shows its row, and so does an updated one where its slot follows.
LEMMA MadeShows ==
    ASSUME NEW S \in Syllabi, NEW term, NEW i \in DOMAIN S, NEW a, a = RowMade(S, i)
    PROVE  a.slot = S[i].slot /\ After(a, S[i], term) = a
<1>1. S[i].source # NoName
  <2>1. S[i].source \in Names BY SyllabusRows
  <2> QED BY <2>1, SyllabusAssumption
<1>2. a = NewCourse(S[i], DedupKey(S[i]), S[i].source) BY DEF RowMade
<1> DEFINE r == S[i]
<1>3. r.source # NoName /\ a = NewCourse(r, DedupKey(r), r.source) BY <1>1, <1>2
<1> HIDE DEF r
<1>4. After(a, r, term) = a BY <1>3, NewAgain
<1>5. a.slot = r.slot BY <1>3 DEF NewCourse
<1> QED BY <1>4, <1>5 DEF r

LEMMA UpdateShows ==
    ASSUME NEW S \in Syllabi, NEW term, NEW i \in DOMAIN S, NEW e, NEW a, a = After(e, S[i], term)
    PROVE  /\ After(a, S[i], term) = a
           /\ a.slot = S[i].slot \/ (a.slot = e.slot /\ EndedBefore(term, e.sem))
           /\ EndedBefore(term, e.sem) /\ e.sem = S[i].sem /\ e.slot = S[i].slot => a.slot = S[i].slot
<1>1. S[i].source # NoName
  <2>1. S[i].source \in Names BY SyllabusRows
  <2> QED BY <2>1, SyllabusAssumption
<1>2. After(a, S[i], term) = a BY <1>1, AfterAgain
<1>3. a.slot = IF EndedBefore(term, e.sem) /\ (e.sem # S[i].sem \/ e.slot # S[i].slot) THEN e.slot ELSE S[i].slot
  BY DEF After
<1> QED BY <1>2, <1>3

\* A code that is new: its courses are those that were written.
LEMMA FreshSettles ==
    ASSUME NEW C, NEW decisions, NEW S, NEW term, NEW complete, NEW P, NEW T,
           FirstSync(C, decisions, S, term, complete, P, T), NEW k, k \notin OldKeys(C)
    PROVE  GroupSettles(C, S, term, P, T, k)
<1>0. Sound(C) /\ S \in Syllabi /\ P = PlanCourseSync(C, decisions, S, term, complete) BY DEF FirstSync
<1> DEFINE olds == Olds(T, k)
           news == News(S, k)
           L == LeftOld(T, S, olds, news)
           N == LeftNew(T, S, olds, news)
<1>1. \A i \in news : i \in DOMAIN S /\ GroupKey(S[i]) = k BY <1>0, NewsOnce
<1>2. \A i, j \in news : S[i].slot = S[j].slot => i = j BY <1>0, NewsOnce
<1>3. ASSUME NEW c, NEW i \in news, <<"update", c, i>> \in P
      PROVE  c \in olds /\ T[c].slot = S[i].slot /\ After(T[c], S[i], term) = T[c]
  <2>1. c \in olds /\ T[c] = After(C[c], S[i], term) BY <1>1, <1>3, FoundAfter
  <2>2. c \in Syncable(C) /\ (EndedBefore(term, C[c].sem) => GroupKey(C[c]) = k)
    BY <1>0, <1>1, <1>3, UpdatedOf
  <2>3. GroupKey(C[c]) # k BY <2>2 DEF OldKeys
  <2> QED BY <1>0, <1>1, <2>1, <2>2, <2>3, UpdateShows
<1>4. ASSUME NEW c \in olds
      PROVE  \E i \in news : T[c].slot = S[i].slot /\ After(T[c], S[i], term) = T[c]
  <2>1. c \notin Olds(C, k) BY DEF Olds, OldKeys
  <2>2. CASE \E i \in news : <<"create", i>> \in P /\ T[c] = RowMade(S, i) BY <1>0, <1>1, <2>2, MadeShows
  <2>3. CASE \E i \in news : <<"update", c, i>> \in P /\ T[c] = After(C[c], S[i], term) BY <1>3, <2>3
  <2> QED BY <2>1, <2>2, <2>3, OldsAfter
<1>5. \A c \in olds, i \in news : Shows(T, S, term, c, i)
  <2> SUFFICES ASSUME NEW c \in olds, NEW i \in news, T[c].slot = S[i].slot PROVE After(T[c], S[i], term) = T[c]
    BY DEF Shows
  <2>1. PICK j \in news : T[c].slot = S[j].slot /\ After(T[c], S[j], term) = T[c] BY <1>4
  <2>2. i = j BY <1>2, <2>1
  <2> QED BY <2>1, <2>2
<1>6. L = {} BY <1>4 DEF LeftOld
<1>7. ASSUME NEW i \in N PROVE i \notin RowsWritten(P)
  <2>0. i \in news /\ \A c \in olds : T[c].slot # S[i].slot BY DEF LeftNew
  <2> SUFFICES ASSUME i \in RowsWritten(P) PROVE FALSE OBVIOUS
  <2>1. CASE i \in Named(P, "create")
    <3>1. PICK f \in P : f[1] = "create" /\ f[2] = i BY <2>1 DEF Named
    <3>2. PICK mk, os, X : IsPart(C, decisions, S, term, mk, os, X) /\ f \in X BY <1>0, <3>1, PlanParts
    <3>3. Says(C, S, os, News(S, mk), f) BY <1>0, <3>2, PartSays
    <3>4. f = <<"create", i>> BY <3>1, <3>3 DEF Says
    <3>5. PICK c \in olds : T[c] = RowMade(S, i) BY <1>1, <2>0, <3>1, <3>4, FoundAfter
    <3>6. T[c].slot = S[i].slot BY <1>0, <1>1, <2>0, <3>5, MadeShows
    <3> QED BY <2>0, <3>6
  <2>2. CASE \E f \in P : f[1] = "update" /\ f[3] = i
    <3>1. PICK f \in P : f[1] = "update" /\ f[3] = i BY <2>2
    <3>2. PICK mk, os, X : IsPart(C, decisions, S, term, mk, os, X) /\ f \in X BY <1>0, <3>1, PlanParts
    <3>3. Says(C, S, os, News(S, mk), f) BY <1>0, <3>2, PartSays
    <3>4. PICK c : f = <<"update", c, i>> BY <3>1, <3>3 DEF Says
    <3>5. c \in olds /\ T[c].slot = S[i].slot BY <1>3, <2>0, <3>1, <3>4
    <3> QED BY <2>0, <3>5
  <2> QED BY <2>1, <2>2 DEF RowsWritten
<1> QED BY <1>5, <1>6, <1>7 DEF GroupSettles

\* Every row was made a new course.
LEMMA AnewSettles ==
    ASSUME NEW C, NEW decisions, NEW S, NEW term, NEW complete, NEW P, NEW T,
           FirstSync(C, decisions, S, term, complete, P, T), NEW k,
           NEW X, IsPart(C, decisions, S, term, k, Olds(C, k), X),
           NEW g, X = Anew(Olds(C, k), News(S, k)) \cup {<<"applied", g>>}
    PROVE  GroupSettles(C, S, term, P, T, k)
<1>0. Sound(C) /\ S \in Syllabi /\ P = PlanCourseSync(C, decisions, S, term, complete) BY DEF FirstSync
<1> DEFINE olds == Olds(T, k)
           news == News(S, k)
           N == LeftNew(T, S, olds, news)
<1>1. \A i \in news : i \in DOMAIN S /\ GroupKey(S[i]) = k BY <1>0, NewsOnce
<1>2. \A i, j \in news : S[i].slot = S[j].slot => i = j BY <1>0, NewsOnce
<1>3. ASSUME NEW i \in news PROVE \E c \in olds : T[c].slot = S[i].slot
  <2> DEFINE f == <<"create", i>>
  <2>1. f \in X /\ f[1] = "create" BY DEF Anew, CreateAll
  <2> HIDE DEF f
  <2>2. f \in P BY <1>0, <2>1, PlanParts
  <2>3. PICK c \in olds : T[c] = RowMade(S, i) BY <1>1, <2>2, FoundAfter DEF f
  <2>4. T[c].slot = S[i].slot BY <1>0, <1>1, <2>3, MadeShows
  <2> QED BY <2>4
<1>4. N = {} BY <1>3 DEF LeftNew
<1>5. ASSUME NEW c, NEW i \in news, <<"update", c, i>> \in P PROVE FALSE
  <2>1. PICK os, Y : IsPart(C, decisions, S, term, k, os, Y) /\ <<"update", c, i>> \in Y /\ c \in os
    BY <1>0, <1>1, <1>5, UpdatedOf
  <2>2. Y = X BY <1>0, <2>1, PartsApart DEF Sound
  <2> QED BY <2>1, <2>2 DEF Anew, CreateAll
<1>6. ASSUME NEW c \in Olds(C, k) PROVE c \in Named(P, "retire")
  <2> DEFINE f == <<"retire", c>>
  <2>1. f \in X /\ f[1] = "retire" /\ f[2] = c BY DEF Anew
  <2> HIDE DEF f
  <2>2. f \in P BY <1>0, <2>1, PlanParts
  <2> QED BY <2>1, <2>2 DEF Named
<1>7. \A c \in olds, i \in news : Shows(T, S, term, c, i)
  <2> SUFFICES ASSUME NEW c \in olds, NEW i \in news, T[c].slot = S[i].slot PROVE After(T[c], S[i], term) = T[c]
    BY DEF Shows
  <2>0. \/ \E m \in News(S, k) : <<"create", m>> \in P /\ T[c] = RowMade(S, m)
        \/ \E m \in News(S, k) : <<"update", c, m>> \in P
        \/ c \in Olds(C, k) /\ c \notin Named(P, "retire")
    BY OldsAfter
  <2>1. PICK j \in news : <<"create", j>> \in P /\ T[c] = RowMade(S, j) BY <1>5, <1>6, <2>0
  <2>2. T[c].slot = S[j].slot /\ After(T[c], S[j], term) = T[c] BY <1>0, <1>1, <2>1, MadeShows
  <2>3. i = j BY <1>2, <2>2
  <2> QED BY <2>2, <2>3
<1> QED BY <1>4, <1>7 DEF GroupSettles

\* Nothing was done: the suspicion is as it was.
LEMMA AskedAgain ==
    ASSUME NEW C, NEW decisions, NEW S, NEW term, NEW complete, NEW P, NEW T,
           FirstSync(C, decisions, S, term, complete, P, T), NEW k \in OldKeys(C),
           NEW X, IsPart(C, decisions, S, term, k, Olds(C, k), X),
           \A f \in X : f[1] = "review",
           Suspected(C, S, Olds(C, k), News(S, k))
    PROVE  Olds(T, k) # {} /\ Suspected(T, S, Olds(T, k), News(S, k))
<1>0. Sound(C) /\ S \in Syllabi /\ P = PlanCourseSync(C, decisions, S, term, complete) BY DEF FirstSync
<1>1. ASSUME NEW c \in Olds(C, k)
      PROVE  c \in Olds(T, k) /\ T[c] = C[c] /\ c \notin Named(P, "update") /\ c \notin Named(P, "retire")
  <2>1. ASSUME NEW f \in P, f[1] \in {"update", "retire", "gone", "forced"}, f[2] = c PROVE FALSE
    <3>1. f \in X BY <1>0, <2>1, OwnFacts
    <3> QED BY <2>1, <3>1
  <2>2. c \notin Named(P, "update") /\ c \notin Named(P, "retire") /\ ~Leaves(P, c) BY <2>1 DEF Named, Leaves
  <2> QED BY <2>2, FoundAfter
<1>2. ASSUME NEW c \in Olds(T, k) PROVE c \in Olds(C, k)
  <2>0. \A i \in News(S, k) : GroupKey(S[i]) = k BY <1>0, NewsOnce
  <2>1. ASSUME NEW i \in News(S, k), <<"create", i>> \in P PROVE FALSE
    <3>1. PICK os, Y : IsPart(C, decisions, S, term, k, os, Y) /\ <<"create", i>> \in Y
      BY <1>0, <2>0, <2>1, CreatedOf
    <3>2. Y = X BY <1>0, <3>1, PartsApart DEF Sound
    <3> QED BY <3>1, <3>2
  <2>2. ASSUME NEW i \in News(S, k), <<"update", c, i>> \in P PROVE FALSE
    <3>1. PICK os, Y : IsPart(C, decisions, S, term, k, os, Y) /\ <<"update", c, i>> \in Y
      BY <1>0, <2>0, <2>2, UpdatedOf
    <3>2. Y = X BY <1>0, <3>1, PartsApart DEF Sound
    <3> QED BY <3>1, <3>2
  <2>3. \/ \E m \in News(S, k) : <<"create", m>> \in P /\ T[c] = RowMade(S, m)
        \/ \E m \in News(S, k) : <<"update", c, m>> \in P
        \/ c \in Olds(C, k) /\ c \notin Named(P, "retire")
    BY OldsAfter
  <2> QED BY <2>1, <2>2, <2>3
<1>3. Olds(T, k) = Olds(C, k) BY <1>1, <1>2
<1>4. Olds(C, k) # {} BY DEF OldKeys, Olds
<1>5. Min(Olds(C, k)) \in Olds(C, k)
  <2>1. PICK B \in Nat : DOMAIN C \subseteq 1..B BY <1>0, TableRows DEF Sound
  <2>2. Olds(C, k) \subseteq Nat BY <2>1 DEF Olds, Syncable
  <2> QED BY <1>4, <2>2, MinIs
<1>6. T[Min(Olds(C, k))] = C[Min(Olds(C, k))] BY <1>1, <1>5
<1> QED BY <1>3, <1>4, <1>6 DEF Suspected

\* Rows without a place are created, or one of them meets the one course without a row,
\* or they wait for an answer.
Outcome(existing, S, term, L, N, R) ==
    \/ \A i \in N : <<"create", i>> \in R
    \/ \E c, i : L = {c} /\ N = {i} /\ R = Updates(existing, S, term, {<<c, i>>})
    \/ /\ L # {} /\ (\A f \in R : f[1] \in {"applied", "review"})
       /\ ~\E c, i : L = {c} /\ N = {i}

LEMMA RestCases ==
    ASSUME NEW existing, NEW decisions, NEW S, NEW term, NEW k, NEW L, NEW N, N # {},
           IsFiniteSet(L), IsFiniteSet(N)
    PROVE  Outcome(existing, S, term, L, N, SlotsRest(existing, decisions, S, term, k, L, N))
<1> DEFINE R == SlotsRest(existing, decisions, S, term, k, L, N)
<1>0. R = SlotsRest(existing, decisions, S, term, k, L, N) OBVIOUS
<1> SUFFICES Outcome(existing, S, term, L, N, R) OBVIOUS
<1> HIDE DEF R
<1>1. CASE L = {} BY <1>0, <1>1 DEF SlotsRest, CreateAll, Outcome
<1>2. CASE L # {} /\ Cardinality(L) = 1 /\ Cardinality(N) = 1
  <2>1. PICK c : L = {c} BY <1>2, FS_Singleton
  <2>2. PICK i : N = {i} BY <1>2, FS_Singleton
  <2>3. L \X N = {<<c, i>>} BY <2>1, <2>2
  <2>4. R = Updates(existing, S, term, {<<c, i>>}) BY <1>0, <1>2, <2>3 DEF SlotsRest
  <2> QED BY <2>1, <2>2, <2>4 DEF Outcome
<1>3. CASE L # {} /\ ~(Cardinality(L) = 1 /\ Cardinality(N) = 1)
  <2> DEFINE fp == <<"SLOT_AMBIGUOUS", k, SlotsOf(existing, L), SlotsOf(S, N)>>
             new == {<<"forced", c>> : c \in {d \in L : ~existing[d].disc}} \cup CreateAll(N)
  <2>1. R = {} \/ R = Decided(decisions, fp, {}, new) BY <1>0, <1>3 DEF SlotsRest
  <2>2. \A i \in N : <<"create", i>> \in new BY DEF CreateAll
  <2>3. Answered({}, new, Decided(decisions, fp, {}, new)) BY DecidedAnswers
  <2>4. ~\E c, i : L = {c} /\ N = {i}
    <3> SUFFICES ASSUME NEW c, NEW i, L = {c}, N = {i} PROVE FALSE OBVIOUS
    <3> QED BY <1>3, FS_Singleton
  <2> HIDE DEF new, fp
  <2>5. (\A i \in N : <<"create", i>> \in R) \/ \A f \in R : f[1] \in {"applied", "review"}
    BY <2>1, <2>2, <2>3 DEF Answered
  <2> QED BY <1>3, <2>4, <2>5 DEF Outcome
<1> QED BY <1>1, <1>2, <1>3

\* Course c and row i of a group that PlanSlots pairs.
Mates(C, S, k, c, i) ==
    /\ c \in Olds(C, k) /\ i \in News(S, k)
    /\ \/ C[c].slot = S[i].slot
       \/ LeftOld(C, S, Olds(C, k), News(S, k)) = {c} /\ LeftNew(C, S, Olds(C, k), News(S, k)) = {i}

\* The first sync planned group k by its slots.
BySlots(C, decisions, S, term, complete, P, T, k, X) ==
    /\ FirstSync(C, decisions, S, term, complete, P, T)
    /\ IsPart(C, decisions, S, term, k, Olds(C, k), X)
    /\ LET slots == PlanSlots(C, decisions, S, term, k, Olds(C, k), News(S, k))
       IN  X = slots \/ \E g : X = slots \cup {<<"applied", g>>}

\* What the part says: the pairs are updated, and nothing else is; no course is retired.
SaysBySlots(C, S, term, k, X, L, N) ==
    /\ \A c, i : Mates(C, S, k, c, i) /\ After(C[c], S[i], term) # C[c] => <<"update", c, i>> \in X
    /\ \A f \in X : f[1] = "update" => \E c, i : f = <<"update", c, i>> /\ Mates(C, S, k, c, i)
    /\ \A f \in X : f[1] # "retire"
    /\ \A f \in X : f[1] \in {"gone", "forced"} => f[2] \in L /\ ~\E c, i : L = {c} /\ N = {i}
    /\ N # {} => \/ \A i \in N : <<"create", i>> \in X
                 \/ \E c, i : L = {c} /\ N = {i}
                 \/ /\ L # {} /\ (\A f \in X : f[1] # "create")
                    /\ ~\E c, i : L = {c} /\ N = {i}

LEMMA BySlotsSays ==
    ASSUME NEW C, NEW decisions, NEW S, NEW term, NEW complete, NEW P, NEW T, NEW k, NEW X,
           BySlots(C, decisions, S, term, complete, P, T, k, X)
    PROVE  SaysBySlots(C, S, term, k, X, LeftOld(C, S, Olds(C, k), News(S, k)),
                       LeftNew(C, S, Olds(C, k), News(S, k)))
<1> DEFINE olds == Olds(C, k)
           news == News(S, k)
           L == LeftOld(C, S, olds, news)
           N == LeftNew(C, S, olds, news)
           pairs == InOnePlace(C, S, olds, news)
           R == SlotsRest(C, decisions, S, term, k, L, N)
           slots == PlanSlots(C, decisions, S, term, k, olds, news)
<1>0. Sound(C) /\ S \in Syllabi BY DEF BySlots, FirstSync
<1>1. IsPart(C, decisions, S, term, k, olds, X)
      /\ (X = slots \/ \E g : X = slots \cup {<<"applied", g>>}) BY DEF BySlots
<1>2. Comparable(S, olds, news) /\ SlotsApart(C, olds)
  BY <1>0, OldsComparable, OldsApart DEF Sound
<1>3. slots = Updates(C, S, term, pairs) \cup R BY <1>2, PlanSlotsIs
<1>4. \A f \in slots : f[1] # "retire"
  <2>1. slots = PlanSlots(C, decisions, S, term, k, olds, news) OBVIOUS
  <2> HIDE DEF slots, olds, news
  <2> QED BY <1>2, <2>1, PlanSlotsFits
<1>5. \A f \in X : Says(C, S, olds, news, f) BY <1>0, <1>1, PartSays
<1>6. IsFiniteSet(L) /\ IsFiniteSet(N) BY <1>2, LeftFinite
<1>7. \A f \in X : f \in slots \/ f[1] = "applied"
  <2> HIDE DEF slots
  <2> QED BY <1>1
<1>8. slots \subseteq X
  <2> HIDE DEF slots
  <2> QED BY <1>1
<1>9. ASSUME N # {}
      PROVE  \/ \A i \in N : <<"create", i>> \in R
             \/ \E c, i : L = {c} /\ N = {i} /\ R = Updates(C, S, term, {<<c, i>>})
             \/ /\ L # {} /\ (\A f \in R : f[1] \in {"applied", "review"})
                /\ ~\E c, i : L = {c} /\ N = {i}
  <2> HIDE DEF L, N
  <2>1. Outcome(C, S, term, L, N, R) BY <1>6, <1>9, RestCases
  <2> HIDE DEF R
  <2> QED BY <2>1 DEF Outcome
<1> HIDE DEF slots, R
<1>10. ASSUME NEW c, NEW i, Mates(C, S, k, c, i), After(C[c], S[i], term) # C[c]
       PROVE  <<"update", c, i>> \in X
  <2>0. c \in olds /\ i \in news BY <1>10 DEF Mates
  <2>1. CASE C[c].slot = S[i].slot
    <3>1. <<c, i>> \in pairs BY <2>0, <2>1 DEF InOnePlace
    <3> HIDE DEF pairs
    <3>2. <<"update", c, i>> \in Updates(C, S, term, pairs)
      <4> DEFINE p == <<c, i>>
      <4>1. p \in pairs /\ After(C[p[1]], S[p[2]], term) # C[p[1]] /\ <<"update", c, i>> = <<"update", p[1], p[2]>>
        BY <1>10, <3>1
      <4> HIDE DEF p
      <4> QED BY <4>1 DEF Updates
    <3> QED BY <1>3, <1>8, <3>2
  <2>2. CASE L = {c} /\ N = {i}
    <3>1. L # {} /\ N # {} /\ Cardinality(L) = 1 /\ Cardinality(N) = 1 BY <2>2, FS_Singleton
    <3>2. L \X N = {<<c, i>>} BY <2>2
    <3>3. R = Updates(C, S, term, {<<c, i>>}) BY <3>1, <3>2 DEF SlotsRest, R
    <3>4. <<"update", c, i>> \in Updates(C, S, term, {<<c, i>>})
      <4> DEFINE p == <<c, i>>
      <4>1. After(C[p[1]], S[p[2]], term) # C[p[1]] /\ <<"update", c, i>> = <<"update", p[1], p[2]>> BY <1>10
      <4>2. p = <<c, i>> OBVIOUS
      <4> HIDE DEF p
      <4>3. <<"update", c, i>> \in Updates(C, S, term, {p}) BY <4>1 DEF Updates
      <4> QED BY <4>2, <4>3
    <3> QED BY <1>3, <1>8, <3>3, <3>4
  <2> QED BY <1>10, <2>1, <2>2 DEF Mates
<1>11. ASSUME NEW f \in X, f[1] = "update"
       PROVE  \E c, i : f = <<"update", c, i>> /\ Mates(C, S, k, c, i)
  BY <1>5, <1>11 DEF Says, Mates
<1>12. \A f \in X : f[1] # "retire" BY <1>4, <1>7
<1>13. ASSUME NEW f \in X, f[1] \in {"gone", "forced"}
       PROVE  f[2] \in L /\ ~\E c, i : L = {c} /\ N = {i}
  <2>1. (\E c \in L : f = <<"gone", c>> \/ f = <<"forced", c>>) /\ ~\E c, i : L = {c} /\ N = {i}
    <3>1. /\ \A c, i : f # <<"update", c, i>>
          /\ \A i : f # <<"create", i>>
          /\ \A c : f # <<"retire", c>>
          /\ f[1] \notin {"applied", "review"} BY <1>13
    <3>2. Says(C, S, olds, news, f) BY <1>5
    <3> QED BY <3>1, <3>2, Zenon DEF Says
  <2> HIDE DEF L, N
  <2> QED BY <2>1
<1>14. ASSUME N # {}
       PROVE  \/ \A i \in N : <<"create", i>> \in X
              \/ \E c, i : L = {c} /\ N = {i}
              \/ /\ L # {} /\ (\A f \in X : f[1] # "create")
                 /\ ~\E c, i : L = {c} /\ N = {i}
  <2>1. CASE \A i \in N : <<"create", i>> \in R BY <1>3, <1>8, <2>1
  <2>2. CASE /\ L # {} /\ (\A f \in R : f[1] \in {"applied", "review"})
             /\ ~\E c, i : L = {c} /\ N = {i}
    <3>1. \A f \in Updates(C, S, term, pairs) : f[1] = "update" BY DEF Updates
    <3>2. \A f \in X : f[1] # "create" BY <1>3, <1>7, <2>2, <3>1
    <3> QED BY <2>2, <3>2
  <2> QED BY <1>9, <1>14, <2>1, <2>2
<1> HIDE DEF L, N
<1>15. SaysBySlots(C, S, term, k, X, L, N) BY <1>10, <1>11, <1>12, <1>13, <1>14 DEF SaysBySlots
<1> QED BY <1>15 DEF L, N

LEMMA MateOnce ==
    ASSUME NEW C, NEW S \in Syllabi, NEW k, NEW c, NEW i, NEW j, Mates(C, S, k, c, i), Mates(C, S, k, c, j)
    PROVE  i = j
<1>1. \A x, y \in News(S, k) : S[x].slot = S[y].slot => x = y BY NewsOnce
<1> QED BY <1>1 DEF Mates, LeftOld

\* The courses that the first sync left in group k.
RowsBySlots(C, S, term, T, k, X, L, N) ==
    /\ \A c, i : Mates(C, S, k, c, i) => c \in Olds(T, k) /\ T[c] = After(C[c], S[i], term)
    /\ ~(\E c, i : L = {c} /\ N = {i}) => \A c \in L : c \in Olds(T, k) /\ T[c].slot = C[c].slot
    /\ \A c \in Olds(T, k) :
          \/ \E i \in News(S, k) : <<"create", i>> \in X /\ T[c] = RowMade(S, i)
          \/ \E i : Mates(C, S, k, c, i)
          \/ c \in L /\ T[c].slot = C[c].slot

LEMMA BySlotsRows ==
    ASSUME NEW C, NEW decisions, NEW S, NEW term, NEW complete, NEW P, NEW T, NEW k, NEW X,
           BySlots(C, decisions, S, term, complete, P, T, k, X)
    PROVE  RowsBySlots(C, S, term, T, k, X, LeftOld(C, S, Olds(C, k), News(S, k)),
                       LeftNew(C, S, Olds(C, k), News(S, k)))
<1> DEFINE L == LeftOld(C, S, Olds(C, k), News(S, k))
           N == LeftNew(C, S, Olds(C, k), News(S, k))
<1>0. /\ FirstSync(C, decisions, S, term, complete, P, T)
      /\ Sound(C) /\ S \in Syllabi /\ P = PlanCourseSync(C, decisions, S, term, complete)
      /\ IsPart(C, decisions, S, term, k, Olds(C, k), X)
  BY DEF BySlots, FirstSync
<1>1. /\ \A c, i : Mates(C, S, k, c, i) /\ After(C[c], S[i], term) # C[c] => <<"update", c, i>> \in X
      /\ \A f \in X : f[1] = "update" => \E c, i : f = <<"update", c, i>> /\ Mates(C, S, k, c, i)
      /\ \A f \in X : f[1] # "retire"
      /\ \A f \in X : f[1] \in {"gone", "forced"} =>
            f[2] \in L /\ ~\E c, i : L = {c} /\ N = {i}
  <2>1. SaysBySlots(C, S, term, k, X, L, N) BY BySlotsSays
  <2> HIDE DEF L, N
  <2> QED BY <2>1 DEF SaysBySlots
<1>2. \A f \in X : f[1] # "gone" => f \in P BY <1>0, PlanParts
<1>3. \A c \in Olds(C, k) : \A f \in P : f[1] \in {"update", "retire", "gone", "forced"} /\ f[2] = c => f \in X
  BY <1>0, OwnFacts
<1>4. \A i \in News(S, k) : i \in DOMAIN S /\ GroupKey(S[i]) = k BY <1>0, NewsOnce
<1>5. \A c \in Olds(C, k) : c \notin Named(P, "retire") BY <1>1, <1>3 DEF Named
<1>6. ASSUME NEW c, NEW i, Mates(C, S, k, c, i)
      PROVE  c \in Olds(T, k) /\ T[c] = After(C[c], S[i], term)
  <2>0. c \in Olds(C, k) /\ i \in News(S, k) /\ (c \in L => L = {c} /\ N = {i})
    BY <1>6 DEF Mates, LeftOld
  <2>1. CASE c \in Named(P, "update")
    <3>1. PICK f \in P : f[1] = "update" /\ f[2] = c BY <2>1 DEF Named
    <3>2. f \in X BY <1>3, <2>0, <3>1
    <3>3. PICK d, j : f = <<"update", d, j>> /\ Mates(C, S, k, d, j) BY <1>1, <3>1, <3>2
    <3>4. d = c BY <3>1, <3>3
    <3>5. j = i BY <1>0, <1>6, <3>3, <3>4, MateOnce
    <3>6. <<"update", c, i>> \in P BY <3>1, <3>3, <3>4, <3>5
    <3>7. c \in Olds(T, GroupKey(S[i])) /\ T[c] = After(C[c], S[i], term) BY <1>0, <3>6, FoundAfter
    <3> QED BY <1>4, <2>0, <3>7
  <2>2. CASE c \notin Named(P, "update")
    <3>1. After(C[c], S[i], term) = C[c]
      <4> SUFFICES ASSUME After(C[c], S[i], term) # C[c] PROVE FALSE OBVIOUS
      <4> DEFINE f == <<"update", c, i>>
      <4>1. f \in X /\ f[1] = "update" /\ f[2] = c BY <1>1, <1>6
      <4> HIDE DEF f
      <4>2. f \in P BY <1>2, <4>1
      <4> QED BY <2>2, <4>1, <4>2 DEF Named
    <3>2. ~Leaves(P, c)
      <4> SUFFICES ASSUME Leaves(P, c) PROVE FALSE OBVIOUS
      <4>1. PICK g \in P : g[1] \in {"gone", "forced"} /\ g[2] = c BY DEF Leaves, Named
      <4>2. g \in X BY <1>3, <2>0, <4>1
      <4> QED BY <1>1, <2>0, <4>1, <4>2
    <3>3. c \in Olds(T, k) /\ T[c] = C[c] BY <1>0, <1>5, <2>0, <2>2, <3>2, FoundAfter
    <3> QED BY <3>1, <3>3
  <2> QED BY <2>1, <2>2
<1>7. ASSUME ~\E d, i : L = {d} /\ N = {i}, NEW c \in L
      PROVE  c \in Olds(T, k) /\ T[c].slot = C[c].slot
  <2>1. c \in Olds(C, k) /\ \A i \in News(S, k) : C[c].slot # S[i].slot BY DEF LeftOld
  <2>2. c \notin Named(P, "update")
    <3> SUFFICES ASSUME c \in Named(P, "update") PROVE FALSE OBVIOUS
    <3>1. PICK f \in P : f[1] = "update" /\ f[2] = c BY DEF Named
    <3>2. f \in X BY <1>3, <2>1, <3>1
    <3>3. PICK d, j : f = <<"update", d, j>> /\ Mates(C, S, k, d, j) BY <1>1, <3>1, <3>2
    <3>4. d = c BY <3>1, <3>3
    <3> QED BY <1>7, <2>1, <3>3, <3>4 DEF Mates
  <2> QED BY <1>0, <1>5, <2>1, <2>2, FoundAfter
<1>8. ASSUME NEW c \in Olds(T, k)
      PROVE  \/ \E i \in News(S, k) : <<"create", i>> \in X /\ T[c] = RowMade(S, i)
             \/ \E i : Mates(C, S, k, c, i)
             \/ c \in L /\ T[c].slot = C[c].slot
  <2>1. \/ \E i \in News(S, k) : <<"create", i>> \in P /\ T[c] = RowMade(S, i)
        \/ \E i \in News(S, k) : <<"update", c, i>> \in P
        \/ c \in Olds(C, k) /\ T[c].slot = C[c].slot
    BY <1>0, OldsAfter
  <2>2. ASSUME NEW i \in News(S, k), <<"create", i>> \in P PROVE <<"create", i>> \in X
    <3>1. PICK os, Y : IsPart(C, decisions, S, term, k, os, Y) /\ <<"create", i>> \in Y
      BY <1>0, <1>4, <2>2, CreatedOf
    <3>2. Y = X BY <1>0, <3>1, PartsApart DEF Sound
    <3> QED BY <3>1, <3>2
  <2>3. ASSUME NEW i \in News(S, k), <<"update", c, i>> \in P PROVE Mates(C, S, k, c, i)
    <3>1. PICK os, Y : IsPart(C, decisions, S, term, k, os, Y) /\ <<"update", c, i>> \in Y
      BY <1>0, <1>4, <2>3, UpdatedOf
    <3>2. Y = X BY <1>0, <3>1, PartsApart DEF Sound
    <3> DEFINE f == <<"update", c, i>>
    <3>3. f \in X /\ f[1] = "update" /\ f[2] = c /\ f[3] = i BY <3>1, <3>2
    <3> HIDE DEF f
    <3>4. PICK d, j : f = <<"update", d, j>> /\ Mates(C, S, k, d, j) BY <1>1, <3>3
    <3>5. d = c /\ j = i BY <3>3, <3>4
    <3> QED BY <3>4, <3>5
  <2>4. ASSUME c \in Olds(C, k), c \notin L PROVE \E i : Mates(C, S, k, c, i)
    <3>1. PICK i \in News(S, k) : C[c].slot = S[i].slot BY <2>4 DEF LeftOld
    <3> QED BY <2>4, <3>1 DEF Mates
  <2> QED BY <2>1, <2>2, <2>3, <2>4
<1> HIDE DEF L, N
<1>9. RowsBySlots(C, S, term, T, k, X, L, N) BY <1>6, <1>7, <1>8 DEF RowsBySlots
<1> QED BY <1>9 DEF L, N

\* A group that was planned by its slots.
LEMMA SlotsSettle ==
    ASSUME NEW C, NEW decisions, NEW S, NEW term, NEW complete, NEW P, NEW T, NEW k, NEW X,
           BySlots(C, decisions, S, term, complete, P, T, k, X)
    PROVE  GroupSettles(C, S, term, P, T, k)
<1> DEFINE news == News(S, k)
           L  == LeftOld(C, S, Olds(C, k), news)
           N  == LeftNew(C, S, Olds(C, k), news)
           olds == Olds(T, k)
           L2 == LeftOld(T, S, olds, news)
           N2 == LeftNew(T, S, olds, news)
           Lone == \E c, i : L = {c} /\ N = {i}
<1>0. /\ FirstSync(C, decisions, S, term, complete, P, T)
      /\ Sound(C) /\ S \in Syllabi /\ P = PlanCourseSync(C, decisions, S, term, complete)
      /\ IsPart(C, decisions, S, term, k, Olds(C, k), X)
  BY DEF BySlots, FirstSync
<1>1. /\ \A f \in X : f[1] # "gone" => f \in P
      /\ \A i \in news : i \in DOMAIN S /\ GroupKey(S[i]) = k
      /\ \A i, j \in news : S[i].slot = S[j].slot => i = j
  BY <1>0, PlanParts, NewsOnce
<1>2. N # {} => \/ \A i \in N : <<"create", i>> \in X
                \/ Lone
                \/ L # {} /\ (\A f \in X : f[1] # "create") /\ ~Lone
  <2>1. SaysBySlots(C, S, term, k, X, L, N) BY BySlotsSays
  <2> HIDE DEF L, N
  <2> QED BY <2>1 DEF SaysBySlots
<1>3. /\ \A c, i : Mates(C, S, k, c, i) => c \in olds /\ T[c] = After(C[c], S[i], term)
      /\ ~Lone => \A c \in L : c \in olds /\ T[c].slot = C[c].slot
      /\ \A c \in olds :
            \/ \E i \in news : <<"create", i>> \in X /\ T[c] = RowMade(S, i)
            \/ \E i : Mates(C, S, k, c, i)
            \/ c \in L /\ T[c].slot = C[c].slot
  <2>1. RowsBySlots(C, S, term, T, k, X, L, N) BY BySlotsRows
  <2> HIDE DEF L, N
  <2> QED BY <2>1 DEF RowsBySlots
<1>4. L \subseteq Olds(C, k) /\ N \subseteq news
      /\ (\A c \in L, i \in news : C[c].slot # S[i].slot)
      /\ (\A i \in N, c \in Olds(C, k) : C[c].slot # S[i].slot)
      /\ (\A i \in news : i \notin N => \E c \in Olds(C, k) : C[c].slot = S[i].slot)
  BY DEF LeftOld, LeftNew
<1>5. L2 \subseteq olds /\ N2 \subseteq news
      /\ (\A c \in olds : c \notin L2 => \E i \in news : T[c].slot = S[i].slot)
      /\ (\A i \in news : i \notin N2 => \E c \in olds : T[c].slot = S[i].slot)
      /\ (\A i \in N2, c \in olds : T[c].slot # S[i].slot)
  BY DEF LeftOld, LeftNew
<1>6. ASSUME NEW c, NEW i, Mates(C, S, k, c, i)
      PROVE  /\ c \in olds /\ i \in news /\ After(T[c], S[i], term) = T[c]
             /\ T[c].slot = S[i].slot \/ (T[c].slot = C[c].slot /\ c \in L /\ L = {c} /\ N = {i})
  <2>1. c \in olds /\ T[c] = After(C[c], S[i], term) BY <1>3, <1>6
  <2>2. i \in news /\ c \in Olds(C, k) /\ (C[c].slot = S[i].slot \/ (L = {c} /\ N = {i})) BY <1>6 DEF Mates
  <2>3. C[c].sem = S[i].sem
    <3>1. GroupKey(C[c]) = GroupKey(S[i]) BY <1>1, <2>2 DEF Olds
    <3> QED BY <3>1 DEF GroupKey
  <2>4. /\ After(T[c], S[i], term) = T[c]
        /\ T[c].slot = S[i].slot \/ T[c].slot = C[c].slot
    BY <1>0, <1>1, <2>1, <2>2, UpdateShows
  <2> QED BY <2>1, <2>2, <2>4
<1>7. ASSUME NEW c \in olds, NEW i \in news, <<"create", i>> \in X, T[c] = RowMade(S, i)
      PROVE  T[c].slot = S[i].slot /\ After(T[c], S[i], term) = T[c]
  BY <1>0, <1>1, <1>7, MadeShows
<1>8. ASSUME NEW i \in news, <<"create", i>> \in X PROVE i \notin N2
  <2> DEFINE f == <<"create", i>>
  <2>1. f \in X /\ f[1] = "create" BY <1>8
  <2> HIDE DEF f
  <2>2. f \in P BY <1>1, <2>1
  <2>3. PICK c \in olds : T[c] = RowMade(S, i) BY <1>0, <1>1, <2>2, FoundAfter DEF f
  <2>4. T[c].slot = S[i].slot BY <1>7, <1>8, <2>3
  <2> QED BY <1>5, <2>4
<1>9. N2 \subseteq N
  <2> SUFFICES ASSUME NEW i \in news, i \notin N PROVE i \notin N2 BY <1>5
  <2>1. PICK c \in Olds(C, k) : C[c].slot = S[i].slot BY <1>4
  <2>2. Mates(C, S, k, c, i) BY <2>1 DEF Mates
  <2>3. c \in olds /\ (T[c].slot = S[i].slot \/ T[c].slot = C[c].slot) BY <1>6, <2>2
  <2> QED BY <1>5, <2>1, <2>3
<1>10. ASSUME NEW c \in olds, NEW i \in news, T[c].slot = S[i].slot PROVE After(T[c], S[i], term) = T[c]
  <2>1. CASE \E j \in news : <<"create", j>> \in X /\ T[c] = RowMade(S, j)
    <3>1. PICK j \in news : <<"create", j>> \in X /\ T[c] = RowMade(S, j) BY <2>1
    <3>2. T[c].slot = S[j].slot /\ After(T[c], S[j], term) = T[c] BY <1>7, <3>1
    <3> QED BY <1>1, <1>10, <3>2
  <2>2. CASE \E j : Mates(C, S, k, c, j)
    <3>1. PICK j : Mates(C, S, k, c, j) BY <2>2
    <3>2. /\ j \in news /\ After(T[c], S[j], term) = T[c]
          /\ T[c].slot = S[j].slot \/ (T[c].slot = C[c].slot /\ c \in L) BY <1>6, <3>1
    <3>3. T[c].slot = S[j].slot BY <1>4, <1>10, <3>2
    <3> QED BY <1>1, <1>10, <3>2, <3>3
  <2>3. CASE c \in L /\ T[c].slot = C[c].slot BY <1>4, <1>10, <2>3
  <2> QED BY <1>3, <2>1, <2>2, <2>3
<1>11. \A c \in olds, i \in news : Shows(T, S, term, c, i) BY <1>10 DEF Shows
<1>12. N2 = {} \/ (L2 # {} /\ N2 # {} /\ \A c, i : L2 = {c} /\ N2 = {i} => After(T[c], S[i], term) = T[c])
  <2> SUFFICES ASSUME N2 # {}
               PROVE  L2 # {} /\ \A c, i : L2 = {c} /\ N2 = {i} => After(T[c], S[i], term) = T[c]
    OBVIOUS
  <2>1. PICK x \in N2 : x \in N BY <1>9
  <2>2. ~\A i \in N : <<"create", i>> \in X BY <1>4, <1>8, <2>1
  <2>3. CASE Lone
    <3>1. PICK c, i : L = {c} /\ N = {i} BY <2>3
    <3>2. x = i /\ N2 = {i} BY <1>9, <2>1, <3>1
    <3>3. Mates(C, S, k, c, i) BY <1>4, <3>1 DEF Mates
    <3>4. c \in olds /\ After(T[c], S[i], term) = T[c] /\ T[c].slot = C[c].slot BY <1>5, <1>6, <3>2, <3>3
    <3>5. c \in L2 BY <1>4, <1>5, <3>1, <3>4
    <3> QED BY <3>2, <3>4, <3>5
  <2>4. CASE ~Lone /\ L # {} /\ \A f \in X : f[1] # "create"
    <3>1. L \subseteq L2 BY <1>3, <1>4, <1>5, <2>4
    <3>2. ASSUME NEW i \in N PROVE i \in N2
      <4> SUFFICES ASSUME i \notin N2 PROVE FALSE OBVIOUS
      <4>1. PICK c \in olds : T[c].slot = S[i].slot BY <1>4, <1>5
      <4>2. \A j : <<"create", j>> \notin X
        <5> SUFFICES ASSUME NEW j, <<"create", j>> \in X PROVE FALSE OBVIOUS
        <5> DEFINE f == <<"create", j>>
        <5>1. f \in X /\ f[1] = "create" OBVIOUS
        <5> HIDE DEF f
        <5> QED BY <2>4, <5>1
      <4>3. CASE \E j : Mates(C, S, k, c, j)
        <5>1. PICK j : Mates(C, S, k, c, j) BY <4>3
        <5>2. /\ j \in news
              /\ T[c].slot = S[j].slot \/ (L = {c} /\ N = {j}) BY <1>6, <5>1
        <5>4. T[c].slot = S[j].slot BY <2>4, <5>2
        <5>3. j = i BY <1>1, <1>4, <4>1, <5>2, <5>4
        <5> QED BY <1>4, <2>4, <5>1, <5>3 DEF Mates
      <4>4. CASE c \in L /\ T[c].slot = C[c].slot BY <1>4, <4>1, <4>4
      <4> QED BY <1>3, <4>2, <4>3, <4>4
    <3>3. N2 = N BY <1>9, <3>2
    <3>4. ASSUME NEW c, NEW i, L2 = {c}, N2 = {i} PROVE FALSE
      <4>1. L = {c} BY <2>4, <3>1, <3>4
      <4> QED BY <2>4, <3>3, <3>4, <4>1
    <3> QED BY <2>4, <3>1, <3>4
  <2> QED BY <1>2, <2>1, <2>2, <2>3, <2>4
<1> HIDE DEF L, N, Lone
<1> QED BY <1>11, <1>12 DEF GroupSettles

\* Every key of the syllabus has a row.
LEMMA NewsThere ==
    ASSUME NEW S \in Syllabi, NEW k \in NewKeys(S)
    PROVE  News(S, k) # {}
<1>1. Len(S) \in Nat /\ DOMAIN S = 1..Len(S) BY SyllabusRows
<1> DEFINE G == {i \in DOMAIN S : GroupKey(S[i]) = k}
<1>2. G \subseteq Nat /\ G # {} BY <1>1 DEF NewKeys
<1>3. PICK x \in G : \A y \in G : x <= y BY <1>2, HasLeast
<1>4. x \in 1..Len(S) /\ GroupKey(S[x]) = k BY <1>1
<1>5. ASSUME NEW j \in 1..(x - 1), DedupKey(S[j]) = DedupKey(S[x]) PROVE FALSE
  <2>1. j \in 1..Len(S) /\ j < x BY <1>1, <1>4
  <2>2. GroupKey(S[j]) = GroupKey(S[x]) BY <1>5 DEF DedupKey, GroupKey
  <2>3. j \in G BY <1>1, <1>4, <2>1, <2>2
  <2>4. x <= j BY <1>3, <2>3
  <2> QED BY <1>1, <1>4, <2>1, <2>4
<1>6. x \in News(S, k) BY <1>1, <1>4, <1>5 DEF News
<1> QED BY <1>6

\* A repeated sync finds each group settled, or suspects it as the first one did.
LEMMA EachGroup ==
    ASSUME NEW C, NEW decisions, NEW S, NEW term, NEW complete, NEW P, NEW T,
           FirstSync(C, decisions, S, term, complete, P, T), NEW k \in NewKeys(S)
    PROVE  \/ Olds(T, k) # {} /\ Suspected(T, S, Olds(T, k), News(S, k))
           \/ GroupSettles(C, S, term, P, T, k)
<1>1. CASE k \notin OldKeys(C) BY <1>1, FreshSettles
<1>2. CASE k \in OldKeys(C)
  <2> DEFINE olds == Olds(C, k)
             news == News(S, k)
             X == PlanGroup(C, decisions, S, term, k, olds, news, FALSE)
             slots == PlanSlots(C, decisions, S, term, k, olds, news)
  <2>1. IsPart(C, decisions, S, term, k, olds, X) BY <1>2 DEF IsPart
  <2>2. \/ X = slots
        \/ Suspected(C, S, olds, news) /\ Answered(slots, Anew(olds, news), X)
    BY GroupIs
  <2>3. slots = PlanSlots(C, decisions, S, term, k, Olds(C, k), News(S, k)) OBVIOUS
  <2> HIDE DEF X, slots
  <2>4. CASE X = slots \/ \E g : X = slots \cup {<<"applied", g>>}
    <3>1. BySlots(C, decisions, S, term, complete, P, T, k, X) BY <2>1, <2>3, <2>4 DEF BySlots
    <3> QED BY <3>1, SlotsSettle
  <2>5. CASE \E g : X = Anew(olds, news) \cup {<<"applied", g>>}
    BY <2>1, <2>5, AnewSettles
  <2>6. CASE Suspected(C, S, olds, news) /\ (X = {} \/ \E g : X = {<<"review", g>>})
    <3>1. \A f \in X : f[1] = "review" BY <2>6
    <3> QED BY <1>2, <2>1, <2>6, <3>1, AskedAgain
  <2> QED BY <2>2, <2>4, <2>5, <2>6 DEF Answered
<1> QED BY <1>1, <1>2

\* A question that nobody answered.
LEMMA NotApplied ==
    ASSUME NEW A, NEW B, NEW X, Answered(A, B, X), \A g \in X : g[1] # "applied", NEW f \in X
    PROVE  f[1] = "review"
<1>1. PICK h : \/ X = A \cup {<<"applied", h>>}
              \/ X = B \cup {<<"applied", h>>}
              \/ X = {}
              \/ X = {<<"review", h>>} BY DEF Answered
<1> DEFINE a == <<"applied", h>>
<1>2. a[1] = "applied" OBVIOUS
<1> HIDE DEF a
<1>3. a \notin X BY <1>2
<1>4. X = {} \/ X = {<<"review", h>>} BY <1>1, <1>3 DEF a
<1> QED BY <1>4

\* What may be said again: who is no longer listed, what is asked, and the rows of a new
\* code that the first sync P left out.
SaidAgain(C, S, P, f) ==
    \/ f[1] \in {"gone", "review"}
    \/ f[1] = "create" /\ f[2] \notin RowsWritten(P) /\ GroupKey(S[f[2]]) \notin OldKeys(C)

LEMMA SlotsAgain ==
    ASSUME NEW C, NEW S \in Syllabi, NEW term, NEW P, NEW T, Sound(T), NEW k,
           GroupSettles(C, S, term, P, T, k), NEW decisions,
           NEW X, X = PlanSlots(T, decisions, S, term, k, Olds(T, k), News(S, k)),
           \A f \in X : f[1] # "applied",
           NEW f \in X
    PROVE  SaidAgain(C, S, P, f)
<1> DEFINE olds == Olds(T, k)
           news == News(S, k)
           pairs == InOnePlace(T, S, olds, news)
           L == LeftOld(T, S, olds, news)
           N == LeftNew(T, S, olds, news)
           R == SlotsRest(T, decisions, S, term, k, L, N)
<1>1. Comparable(S, olds, news) /\ SlotsApart(T, olds) BY OldsComparable, OldsApart DEF Sound
<1>2. X = Updates(T, S, term, pairs) \cup R BY <1>1, PlanSlotsIs
<1>3. /\ \A c \in olds, i \in news : Shows(T, S, term, c, i)
      /\ \/ N = {}
         \/ L = {} /\ k \notin OldKeys(C) /\ \A i \in N : i \notin RowsWritten(P)
         \/ L # {} /\ N # {} /\ \A c, i : L = {c} /\ N = {i} => After(T[c], S[i], term) = T[c]
  BY DEF GroupSettles
<1>4. IsFiniteSet(L) /\ IsFiniteSet(N) /\ L \subseteq olds /\ N \subseteq news BY <1>1, LeftFinite
<1>5. \A i \in news : GroupKey(S[i]) = k BY NewsOnce
<1>6. ASSUME f \in Updates(T, S, term, pairs) PROVE FALSE
  <2>1. PICK p \in pairs : After(T[p[1]], S[p[2]], term) # T[p[1]] BY <1>6 DEF Updates
  <2>2. p[1] \in olds /\ p[2] \in news /\ T[p[1]].slot = S[p[2]].slot BY DEF InOnePlace
  <2> QED BY <1>3, <2>1, <2>2 DEF Shows
<1>7. f \in R
  <2> HIDE DEF R, pairs
  <2> QED BY <1>2, <1>6
<1>8. R = SlotsRest(T, decisions, S, term, k, L, N) OBVIOUS
<1>9. \A g \in R : g[1] # "applied"
  <2> HIDE DEF R, pairs
  <2> QED BY <1>2
<1> HIDE DEF R, L, N, olds, news, pairs
<1>10. CASE L = {}
  <2>1. R = CreateAll(N) BY <1>8, <1>10 DEF SlotsRest
  <2>2. PICK i \in N : f = <<"create", i>> BY <1>7, <2>1 DEF CreateAll
  <2>3. k \notin OldKeys(C) /\ i \notin RowsWritten(P) BY <1>3, <1>10
  <2>4. GroupKey(S[i]) = k BY <1>4, <1>5
  <2> QED BY <2>2, <2>3, <2>4 DEF SaidAgain
<1>11. CASE L # {} /\ N = {}
  <2>1. R = DiscontinueCandidates(T, L) BY <1>8, <1>11 DEF SlotsRest
  <2>2. f[1] = "gone" BY <1>7, <2>1 DEF DiscontinueCandidates
  <2> QED BY <2>2 DEF SaidAgain
<1>12. CASE L # {} /\ N # {}
  <2>1. Outcome(T, S, term, L, N, R) BY <1>4, <1>8, <1>12, RestCases
  <2>2. ASSUME NEW c, NEW i, L = {c}, N = {i} PROVE FALSE
    <3>1. L # {} /\ N # {} /\ Cardinality(L) = 1 /\ Cardinality(N) = 1 BY <2>2, FS_Singleton
    <3>2. L \X N = {<<c, i>>} BY <2>2
    <3>3. R = Updates(T, S, term, {<<c, i>>}) BY <1>8, <3>1, <3>2 DEF SlotsRest
    <3>4. PICK p \in {<<c, i>>} : After(T[p[1]], S[p[2]], term) # T[p[1]] BY <1>7, <3>3 DEF Updates
    <3>5. After(T[c], S[i], term) # T[c] BY <3>4
    <3> QED BY <1>3, <1>12, <2>2, <3>5
  <2> DEFINE fp == <<"SLOT_AMBIGUOUS", k, SlotsOf(T, L), SlotsOf(S, N)>>
             new == {<<"forced", c>> : c \in {d \in L : ~T[d].disc}} \cup CreateAll(N)
  <2>3. ~(Cardinality(L) = 1 /\ Cardinality(N) = 1)
    <3> SUFFICES ASSUME Cardinality(L) = 1, Cardinality(N) = 1 PROVE FALSE OBVIOUS
    <3>1. \E c : L = {c} BY <1>4, FS_Singleton
    <3>2. \E i : N = {i} BY <1>4, FS_Singleton
    <3> QED BY <2>2, <3>1, <3>2
  <2>4. R = {} \/ R = Decided(decisions, fp, {}, new) BY <1>8, <1>12, <2>3 DEF SlotsRest
  <2>5. Answered({}, new, Decided(decisions, fp, {}, new)) BY DecidedAnswers
  <2> HIDE DEF new, fp
  <2>6. f[1] = "review"
    <3>1. Answered({}, new, R) BY <1>7, <2>4, <2>5
    <3> QED BY <1>7, <1>9, <3>1, NotApplied
  <2> QED BY <2>6 DEF SaidAgain
<1> QED BY <1>10, <1>11, <1>12

\* A repeated sync that carries out no answer writes nothing that the first one wrote.
LEMMA Repeated ==
    ASSUME NEW C, NEW decisions, NEW S, NEW term, NEW complete, NEW P, NEW T,
           FirstSync(C, decisions, S, term, complete, P, T),
           NEW later, NEW Q, Q = PlanCourseSync(T, later, S, term, complete),
           \A f \in Q : f[1] # "applied", NEW f \in Q
    PROVE  SaidAgain(C, S, P, f)
<1>0. Sound(C) /\ Sound(T) /\ S \in Syllabi /\ P = PlanCourseSync(C, decisions, S, term, complete)
  BY DEF FirstSync
<1>1. CASE f[1] = "gone" BY <1>1 DEF SaidAgain
<1>2. CASE f[1] # "gone"
  <2>1. PICK k, olds, X : IsPart(T, later, S, term, k, olds, X) /\ f \in X BY <1>2, PlanParts
  <2>2. ASSUME NEW g \in X PROVE g[1] # "applied"
    <3> SUFFICES ASSUME g[1] = "applied" PROVE FALSE OBVIOUS
    <3>1. g \in Q BY <2>1, PlanParts
    <3> QED BY <3>1
  <2>3. ASSUME NEW A, NEW B, Answered(A, B, X) PROVE f[1] = "review"
    BY <2>1, <2>2, <2>3, NotApplied
  <2>4. CASE /\ k \in NewKeys(S) \cap OldKeys(T) /\ olds = Olds(T, k)
             /\ X = PlanGroup(T, later, S, term, k, olds, News(S, k), FALSE)
    <3> DEFINE slots == PlanSlots(T, later, S, term, k, Olds(T, k), News(S, k))
    <3>1. \/ ~Suspected(T, S, Olds(T, k), News(S, k)) /\ X = slots
          \/ Answered(slots, Anew(Olds(T, k), News(S, k)), X)
      BY <2>4, GroupIs
    <3>2. CASE ~Suspected(T, S, Olds(T, k), News(S, k)) /\ X = slots
      <4>1. GroupSettles(C, S, term, P, T, k) BY <2>4, <3>2, EachGroup
      <4>2. X = PlanSlots(T, later, S, term, k, Olds(T, k), News(S, k)) BY <3>2
      <4> HIDE DEF slots
      <4> QED BY <1>0, <2>1, <2>2, <4>1, <4>2, SlotsAgain
    <3> HIDE DEF slots
    <3> QED BY <2>3, <3>1, <3>2 DEF SaidAgain
  <2>5. CASE /\ k \in NewKeys(S) \ OldKeys(T)
             /\ X = CreateAll(News(S, k))
    <3>1. Olds(T, k) = {} BY <2>5 DEF OldKeys, Olds
    <3>2. GroupSettles(C, S, term, P, T, k) BY <2>5, <3>1, EachGroup
    <3>3. LeftOld(T, S, {}, News(S, k)) = {} /\ LeftNew(T, S, {}, News(S, k)) = News(S, k)
      BY DEF LeftOld, LeftNew
    <3>4. News(S, k) # {} BY <1>0, <2>5, NewsThere
    <3>5. k \notin OldKeys(C) /\ \A i \in News(S, k) : i \notin RowsWritten(P)
      BY <3>1, <3>2, <3>3, <3>4 DEF GroupSettles
    <3>6. PICK i \in News(S, k) : f = <<"create", i>> BY <2>1, <2>5 DEF CreateAll
    <3>7. GroupKey(S[i]) = k BY <1>0, NewsOnce
    <3> QED BY <3>5, <3>6, <3>7 DEF SaidAgain
  <2>6. ASSUME NEW p \in MatchReissues(T, S, term), X = PlanReissue(T, later, S, term, p)
        PROVE  SaidAgain(C, S, P, f)
    <3> DEFINE news == News(S, p[1])
               group == PlanGroup(T, later, S, term, p[1], Olds(T, p[2]), news, TRUE)
    <3>1. X = Decided(later, ReissueFingerprint(p), group, CreateAll(news)) BY <2>6 DEF PlanReissue
    <3>2. Answered(group, CreateAll(news), X) BY <3>1, DecidedAnswers
    <3> HIDE DEF group, news
    <3>3. f[1] = "review" BY <2>3, <3>2
    <3> QED BY <3>3 DEF SaidAgain
  <2> QED BY <2>1, <2>4, <2>5, <2>6 DEF IsPart
<1> QED BY <1>1, <1>2

-----------------------------------------------------------------------------
(* The invariant of the synchronisation. *)

SyncIInv ==
    /\ SyncTypeOK
    /\ Described(courses) /\ KeysUnique(courses)
    /\ \A w \in Workers : job[w] # Idle => Described(job[w].existing)

LEMMA SyncInitIInv == SyncInit => SyncIInv
<1> SUFFICES ASSUME SyncInit PROVE SyncIInv OBVIOUS
<1>1. Len(Legacy) \in Nat /\ DOMAIN Legacy = 1..Len(Legacy) BY SyllabusRows
<1>2. nextID = Len(Legacy) + 1 /\ nextID \in Nat \ {0} /\ nextID - 1 = Len(Legacy) BY <1>1 DEF SyncInit
<1>3. DOMAIN courses = DOMAIN Legacy
      /\ \A c \in DOMAIN courses : courses[c] = NewCourse(Legacy[c], DedupKey(Legacy[c]), NoName)
  BY DEF SyncInit
<1>4. ASSUME NEW c \in DOMAIN courses
      PROVE  /\ courses[c] \in Course(nextID) /\ courses[c].ref # NoRef
             /\ courses[c].key = DedupKey(Legacy[c]) /\ courses[c].key = DedupKey(courses[c])
  <2> DEFINE a == courses[c]
  <2>1. a = NewCourse(Legacy[c], DedupKey(Legacy[c]), NoName) /\ c \in DOMAIN Legacy BY <1>3
  <2>2. Legacy \in Syllabi \cup {Legacy} /\ NoName \in Names \cup {NoName} /\ nextID \in Nat BY <1>2
  <2> HIDE DEF a
  <2>3. a \in Course(nextID) /\ a.ref # NoRef /\ a.key = DedupKey(Legacy[c]) /\ a.key = DedupKey(a)
    BY <2>1, <2>2, NewCourseIs
  <2> QED BY <2>3 DEF a
<1>5. CourseTable(courses, nextID) BY <1>1, <1>2, <1>3, <1>4 DEF CourseTable
<1>6. Described(courses) BY <1>4 DEF Described, Describes
<1>7. KeysUnique(courses)
  <2> SUFFICES ASSUME NEW c \in DOMAIN courses, NEW d \in DOMAIN courses, courses[c].key = courses[d].key
               PROVE  c = d
    BY DEF KeysUnique
  <2>1. DedupKey(Legacy[c]) = DedupKey(Legacy[d]) BY <1>4
  <2> QED BY <1>3, <2>1, SyllabusAssumption
<1>8. /\ nextEntry = 1 /\ syncs = 0 /\ DOMAIN entries = {} /\ DOMAIN reviews = {}
      /\ DOMAIN job = Workers /\ \A w \in Workers : job[w] = Idle
  BY DEF SyncInit
<1>9. MaxEntries \in Nat /\ MaxSyncs \in Nat BY SyllabusAssumption
<1>10. nextEntry \in 1..(MaxEntries + 1) /\ syncs \in 0..MaxSyncs BY <1>8, <1>9
<1>11. SyncTypeOK BY <1>2, <1>5, <1>8, <1>10 DEF SyncTypeOK
<1> QED BY <1>6, <1>7, <1>8, <1>11 DEF SyncIInv

\* What SyncTypeOK says of the tables, of the entries and of the jobs.
TablesOK ==
    /\ nextID \in Nat \ {0} /\ CourseTable(courses, nextID)
    /\ Described(courses) /\ KeysUnique(courses)
    /\ \A f \in DOMAIN reviews : reviews[f] \in Statuses

EntriesOK ==
    /\ nextEntry \in 1..(MaxEntries + 1)
    /\ DOMAIN entries \subseteq 1..(nextEntry - 1)
    /\ \A e \in DOMAIN entries : entries[e].user \in Users /\ entries[e].course \in DOMAIN courses

JobsOK ==
    /\ syncs \in 0..MaxSyncs /\ DOMAIN job = Workers
    /\ \A w \in Workers : job[w] # Idle => /\ CourseTable(job[w].existing, nextID)
                                           /\ Described(job[w].existing)
                                           /\ job[w].syllabus \in Syllabi
                                           /\ job[w].term \in Terms

LEMMA SyncIInvParts == SyncIInv <=> TablesOK /\ EntriesOK /\ JobsOK
BY DEF SyncIInv, SyncTypeOK, TablesOK, EntriesOK, JobsOK

LEMMA SyncIInvPartsNext == SyncIInv' <=> TablesOK' /\ EntriesOK' /\ JobsOK'
BY DEF SyncIInv, SyncTypeOK, TablesOK, EntriesOK, JobsOK

\* The plan of a sync fits the rows that it read.
LEMMA JobPlanFits ==
    ASSUME SyncIInv, NEW w \in Workers, job[w] # Idle
    PROVE  /\ PlanFits(job[w].existing, job[w].syllabus, job[w].term, PlanOf(job[w]))
           /\ CourseTable(job[w].existing, nextID) /\ Described(job[w].existing)
           /\ job[w].syllabus \in Syllabi
<1>1. /\ CourseTable(job[w].existing, nextID) /\ Described(job[w].existing)
      /\ job[w].syllabus \in Syllabi /\ nextID \in Nat \ {0}
  BY SyncIInvParts DEF JobsOK, TablesOK
<1> DEFINE existing == job[w].existing
           S == job[w].syllabus
           term == job[w].term
           P == PlanOf(job[w])
<1>2. IsTable(existing) BY <1>1 DEF IsTable
<1>3. P = PlanCourseSync(existing, job[w].decisions, S, term, job[w].complete) BY DEF PlanOf
<1>4. S \in Syllabi BY <1>1
<1> HIDE DEF existing, S, term, P
<1>5. PlanFits(existing, S, term, P) BY <1>2, <1>3, <1>4, PlanIsFit
<1> QED BY <1>1, <1>5 DEF existing, S, term, P

LEMMA ReadsKeeps ==
    ASSUME SyncIInv, NEW w \in Workers, NEW S \in Syllabi, NEW term \in Terms, NEW complete,
           SyncReads(w, S, term, complete)
    PROVE  SyncIInv'
<1>0. TablesOK /\ EntriesOK /\ JobsOK BY SyncIInvParts
<1>1. TablesOK' BY <1>0 DEF TablesOK, SyncReads
<1>2. EntriesOK' BY <1>0 DEF EntriesOK, SyncReads
<1>3. JobsOK'
  <2> DEFINE j == [existing |-> courses, decisions |-> reviews, syllabus |-> S,
                   term |-> term, complete |-> complete]
  <2>1. job' = [job EXCEPT ![w] = j] /\ nextID' = nextID BY DEF SyncReads
  <2>2. j.existing = courses /\ j.syllabus = S /\ j.term = term OBVIOUS
  <2> HIDE DEF j
  <2>3. DOMAIN job' = Workers BY <1>0, <2>1 DEF JobsOK
  <2>4. \A v \in Workers : job'[v] = IF v = w THEN j ELSE job[v] BY <1>0, <2>1 DEF JobsOK
  <2>5. CourseTable(courses, nextID) /\ Described(courses) BY <1>0 DEF TablesOK
  <2>6. syncs' \in 0..MaxSyncs
    <3>1. MaxSyncs \in Nat BY SyllabusAssumption
    <3> QED BY <1>0, <3>1 DEF JobsOK, SyncReads
  <2>7. ASSUME NEW v \in Workers, job'[v] # Idle
        PROVE  /\ CourseTable(job'[v].existing, nextID') /\ Described(job'[v].existing)
               /\ job'[v].syllabus \in Syllabi /\ job'[v].term \in Terms
    <3>1. CASE v = w BY <2>1, <2>2, <2>4, <2>5, <3>1
    <3>2. CASE v # w BY <1>0, <2>1, <2>4, <2>7, <3>2 DEF JobsOK
    <3> QED BY <3>1, <3>2
  <2> QED BY <2>3, <2>6, <2>7 DEF JobsOK
<1> QED BY <1>1, <1>2, <1>3, SyncIInvPartsNext

\* Jobs that end, while the ids only grow, leave the others as they were.
LEMMA JobsEnd ==
    ASSUME JobsOK, TablesOK, NEW w \in Workers, job' = [job EXCEPT ![w] = Idle], syncs' = syncs,
           nextID' \in Nat, nextID <= nextID'
    PROVE  JobsOK'
<1>1. DOMAIN job' = Workers /\ syncs' \in 0..MaxSyncs BY DEF JobsOK
<1>2. \A v \in Workers : job'[v] = IF v = w THEN Idle ELSE job[v] BY DEF JobsOK
<1>3. \A table : CourseTable(table, nextID) => CourseTable(table, nextID')
  <2>1. nextID \in Nat BY DEF TablesOK
  <2> QED BY <2>1, KeysGrow
<1>4. ASSUME NEW v \in Workers, job'[v] # Idle
      PROVE  /\ CourseTable(job'[v].existing, nextID') /\ Described(job'[v].existing)
             /\ job'[v].syllabus \in Syllabi /\ job'[v].term \in Terms
  BY <1>2, <1>3, <1>4 DEF JobsOK
<1> QED BY <1>1, <1>4 DEF JobsOK

\* The reviews stay statuses.
LEMMA ReviewsStay ==
    ASSUME NEW table, NEW P, \A f \in DOMAIN table : table[f] \in Statuses
    PROVE  \A f \in DOMAIN SaveReviews(table, P) : SaveReviews(table, P)[f] \in Statuses
<1> DEFINE asked == Named(P, "review") applied == Named(P, "applied")
<1>1. SaveReviews(table, P) = [f \in DOMAIN table \cup asked |->
            IF f \in applied THEN "APPLIED" ELSE IF f \in asked THEN "PENDING" ELSE table[f]]
  BY DEF SaveReviews
<1> HIDE DEF asked, applied
<1>2. ASSUME NEW f \in DOMAIN table \cup asked
      PROVE  (IF f \in applied THEN "APPLIED" ELSE IF f \in asked THEN "PENDING" ELSE table[f]) \in Statuses
  BY DEF Statuses
<1> QED BY <1>1, <1>2

\* What a transaction does to the tables.
LEMMA CommitIs ==
    ASSUME SyncIInv, NEW w \in Workers, SyncCommits(w), NEW j, j = job[w], NEW P, P = PlanOf(j)
    PROVE  /\ Transacted(courses, j.existing, j.syllabus, j.term, P, courses', nextID, nextID')
           /\ KeysUnique(courses')
           /\ courses' = ApplyCourses(courses, P, j.existing, j.syllabus, j.term, nextID)
           /\ entries' = Without(entries, FindSlotConflicts(courses', entries,
                                             MovedCourses(P, j.existing, j.syllabus, j.term)))
           /\ reviews' = SaveReviews(reviews, P)
           /\ nextEntry' = nextEntry /\ syncs' = syncs /\ job' = [job EXCEPT ![w] = Idle]
<1> DEFINE existing == j.existing
           S == j.syllabus
           term == j.term
<1>0. job[w] # Idle BY DEF SyncCommits
<1>1. /\ courses' = ApplyCourses(courses, P, existing, S, term, nextID)
      /\ nextID' = nextID + Cardinality(Named(P, "create"))
      /\ KeysUnique(ApplyCourses(courses, P, existing, S, term, nextID))
      /\ entries' = Without(entries, FindSlotConflicts(ApplyCourses(courses, P, existing, S, term, nextID),
                                         entries, MovedCourses(P, existing, S, term)))
      /\ reviews' = SaveReviews(reviews, P)
      /\ nextEntry' = nextEntry /\ syncs' = syncs /\ job' = [job EXCEPT ![w] = Idle]
  BY DEF SyncCommits
<1>2. /\ PlanFits(existing, S, term, P) /\ CourseTable(existing, nextID) /\ Described(existing)
      /\ S \in Syllabi
  BY <1>0, JobPlanFits
<1>3. nextID \in Nat \ {0} /\ CourseTable(courses, nextID) /\ Described(courses)
  BY SyncIInvParts DEF TablesOK
<1> HIDE DEF existing, S, term
<1>4. Transacted(courses, existing, S, term, P, ApplyCourses(courses, P, existing, S, term, nextID),
                 nextID, nextID + Cardinality(Named(P, "create")))
  BY <1>2, <1>3, TransactionIs
<1>5. /\ Transacted(courses, existing, S, term, P, courses', nextID, nextID')
      /\ KeysUnique(courses')
      /\ entries' = Without(entries, FindSlotConflicts(courses', entries, MovedCourses(P, existing, S, term)))
  BY <1>1, <1>4
<1> QED BY <1>1, <1>5 DEF existing, S, term

LEMMA CommitsKeeps ==
    ASSUME SyncIInv, NEW w \in Workers, SyncCommits(w)
    PROVE  SyncIInv'
<1>0. TablesOK /\ EntriesOK /\ JobsOK BY SyncIInvParts
<1> DEFINE j == job[w]
           P == PlanOf(j)
<1>1. /\ Transacted(courses, j.existing, j.syllabus, j.term, P, courses', nextID, nextID')
      /\ KeysUnique(courses')
      /\ entries' = Without(entries, FindSlotConflicts(courses', entries,
                                        MovedCourses(P, j.existing, j.syllabus, j.term)))
      /\ reviews' = SaveReviews(reviews, P)
      /\ nextEntry' = nextEntry /\ syncs' = syncs /\ job' = [job EXCEPT ![w] = Idle]
  BY CommitIs
<1> HIDE DEF j, P
<1>2. /\ nextID' \in Nat \ {0} /\ nextID <= nextID'
      /\ CourseTable(courses', nextID') /\ Described(courses') /\ DOMAIN courses \subseteq DOMAIN courses'
  BY <1>1 DEF Transacted
<1>3. \A f \in DOMAIN reviews' : reviews'[f] \in Statuses
  BY <1>0, <1>1, ReviewsStay DEF TablesOK
<1>4. TablesOK' BY <1>1, <1>2, <1>3 DEF TablesOK
<1>5. EntriesOK'
  <2>1. DOMAIN entries' \subseteq DOMAIN entries /\ \A e \in DOMAIN entries' : entries'[e] = entries[e]
    BY <1>1 DEF Without
  <2> QED BY <1>0, <1>1, <1>2, <2>1 DEF EntriesOK
<1>6. JobsOK'
  <2>1. nextID' \in Nat BY <1>2
  <2> QED BY <1>0, <1>1, <1>2, <2>1, JobsEnd
<1> QED BY <1>4, <1>5, <1>6, SyncIInvPartsNext

LEMMA FailsKeeps ==
    ASSUME SyncIInv, NEW w \in Workers, SyncFails(w)
    PROVE  SyncIInv'
<1>0. TablesOK /\ EntriesOK /\ JobsOK BY SyncIInvParts
<1>1. TablesOK' BY <1>0 DEF TablesOK, SyncFails
<1>2. EntriesOK' BY <1>0 DEF EntriesOK, SyncFails
<1>3. JobsOK'
  <2>1. nextID' \in Nat /\ nextID <= nextID' BY <1>0 DEF TablesOK, SyncFails
  <2>2. job' = [job EXCEPT ![w] = Idle] /\ syncs' = syncs BY DEF SyncFails
  <2> QED BY <1>0, <2>1, <2>2, JobsEnd
<1> QED BY <1>1, <1>2, <1>3, SyncIInvPartsNext

LEMMA ResolveKeeps ==
    ASSUME SyncIInv, NEW f, NEW d \in {"SAME", "DIFFERENT", "IGNORED"}, ResolveReview(f, d)
    PROVE  SyncIInv'
<1>0. TablesOK /\ EntriesOK /\ JobsOK BY SyncIInvParts
<1>1. \A x \in DOMAIN reviews' : reviews'[x] \in Statuses
  <2>1. d \in Statuses BY DEF Statuses
  <2>2. reviews' = [reviews EXCEPT ![f] = d] BY DEF ResolveReview
  <2>3. \A x \in DOMAIN reviews : reviews[x] \in Statuses BY <1>0 DEF TablesOK
  <2> QED BY <2>1, <2>2, <2>3
<1>2. TablesOK' BY <1>0, <1>1 DEF TablesOK, ResolveReview
<1>3. EntriesOK' BY <1>0 DEF EntriesOK, ResolveReview
<1>4. JobsOK' BY <1>0 DEF JobsOK, ResolveReview
<1> QED BY <1>2, <1>3, <1>4, SyncIInvPartsNext

LEMMA DeleteKeeps ==
    ASSUME SyncIInv, NEW c, AdminDeleteCourse(c)
    PROVE  SyncIInv'
<1>0. TablesOK /\ EntriesOK /\ JobsOK BY SyncIInvParts
<1>1. DOMAIN courses' = DOMAIN courses \ {c} /\ \A x \in DOMAIN courses' : courses'[x] = courses[x]
  <2>1. courses' = Without(courses, {c}) BY DEF AdminDeleteCourse
  <2> QED BY <2>1 DEF Without
<1>2. /\ DOMAIN entries' \subseteq DOMAIN entries
      /\ \A e \in DOMAIN entries' : entries'[e] = entries[e] /\ entries[e].course # c
  <2> DEFINE gone == {e \in DOMAIN entries : entries[e].course = c}
  <2>1. entries' = Without(entries, gone) BY DEF AdminDeleteCourse
  <2>2. DOMAIN entries' = DOMAIN entries \ gone /\ \A x \in DOMAIN entries' : entries'[x] = entries[x]
    <3> HIDE DEF gone
    <3> QED BY <2>1 DEF Without
  <2> QED BY <2>2
<1>3. TablesOK'
  <2>1. CourseTable(courses', nextID) /\ Described(courses') /\ KeysUnique(courses')
    BY <1>0, <1>1 DEF TablesOK, CourseTable, Described, KeysUnique
  <2> QED BY <1>0, <2>1 DEF TablesOK, AdminDeleteCourse
<1>4. EntriesOK'
  <2>1. nextEntry' = nextEntry BY DEF AdminDeleteCourse
  <2>2. \A e \in DOMAIN entries' : entries'[e].user \in Users /\ entries'[e].course \in DOMAIN courses'
    BY <1>0, <1>1, <1>2 DEF EntriesOK
  <2> QED BY <1>0, <1>2, <2>1, <2>2 DEF EntriesOK
<1>5. JobsOK' BY <1>0 DEF JobsOK, AdminDeleteCourse
<1> QED BY <1>3, <1>4, <1>5, SyncIInvPartsNext

LEMMA CreateKeeps ==
    ASSUME SyncIInv, NEW r \in ManualRows, AdminCreateCourse(r)
    PROVE  SyncIInv'
<1>0. TablesOK /\ EntriesOK /\ JobsOK BY SyncIInvParts
<1> DEFINE a == NewCourse([r EXCEPT !.ref = NoRef], <<"manual", nextID>>, NoName)
<1>1. /\ courses' = [c \in DOMAIN courses \cup {nextID} |-> IF c \in DOMAIN courses THEN courses[c] ELSE a]
      /\ nextID' = nextID + 1 /\ nextID \in Nat \ {0} /\ nextID' \in Nat \ {0} /\ nextID' - 1 = nextID
  BY <1>0 DEF AdminCreateCourse, TablesOK
<1>2. a.ref = NoRef /\ a.key = <<"manual", nextID>> BY DEF NewCourse
<1>3. a \in Course(nextID')
  <2>1. r \in Rows
    <3> DEFINE listed == UNION {{S[i] : i \in DOMAIN S} : S \in Syllabi \cup {Legacy}}
    <3>1. Rows = ManualRows \cup listed BY DEF Rows
    <3> HIDE DEF listed
    <3> QED BY <3>1
  <2>2. /\ r.sem \in Semesters /\ r.slot \in Slots /\ r.source \in Names /\ r.teacher \in Teachers
        /\ r.suffix \in Suffixes
        /\ r \in [sem : Semesters, ref : Refs, slot : Slots, source : Names,
                  teacher : Teachers, suffix : Suffixes, sure : BOOLEAN]
    <3>1. r \in [sem : Semesters, ref : Refs, slot : Slots, source : Names,
                 teacher : Teachers, suffix : Suffixes, sure : BOOLEAN]
      BY <2>1, SyllabusAssumption
    <3> QED BY <3>1
  <2>3. <<"manual", nextID>> \in Keys(nextID') BY <1>1 DEF Keys
  <2> DEFINE key == <<"manual", nextID>>
  <2>4. a = [sem |-> r.sem, slot |-> r.slot, ref |-> NoRef, key |-> key, name |-> r.source,
             suffix |-> r.suffix, source |-> NoName, teacher |-> r.teacher, disc |-> FALSE]
    BY <2>2 DEF NewCourse
  <2>5. key \in Keys(nextID') BY <2>3
  <2> HIDE DEF a, key
  <2> QED BY <2>2, <2>4, <2>5 DEF Course
<1> HIDE DEF a
<1>4. /\ DOMAIN courses' = DOMAIN courses \cup {nextID}
      /\ \A c \in DOMAIN courses : courses'[c] = courses[c]
      /\ nextID \notin DOMAIN courses /\ courses'[nextID] = a
  <2>1. nextID \notin DOMAIN courses
    <3>1. DOMAIN courses \subseteq 1..(nextID - 1) BY <1>0 DEF TablesOK, CourseTable
    <3> QED BY <1>1, <3>1
  <2> QED BY <1>1, <2>1
<1>5. CourseTable(courses', nextID')
  <2>1. DOMAIN courses' \subseteq 1..(nextID' - 1)
    <3>1. DOMAIN courses \subseteq 1..(nextID - 1) BY <1>0 DEF TablesOK, CourseTable
    <3> QED BY <1>1, <1>4, <3>1
  <2>2. Course(nextID) \subseteq Course(nextID')
    <3>1. nextID <= nextID' /\ nextID \in Nat /\ nextID' \in Nat BY <1>1
    <3> QED BY <3>1, KeysGrow
  <2>3. \A c \in DOMAIN courses : courses[c] \in Course(nextID) BY <1>0 DEF TablesOK, CourseTable
  <2> QED BY <1>3, <1>4, <2>1, <2>2, <2>3 DEF CourseTable
<1>6. Described(courses')
  <2>1. Describes(nextID, a) BY <1>2 DEF Describes
  <2> QED BY <1>0, <1>4, <2>1 DEF TablesOK, Described
<1>7. KeysUnique(courses')
  <2>1. ASSUME NEW c \in DOMAIN courses PROVE courses[c].key # a.key
    <3>1. Describes(c, courses[c]) /\ c # nextID BY <1>0, <1>4 DEF TablesOK, Described
    <3>2. CASE courses[c].ref = NoRef
      <4>1. courses[c].key \in {<<"retired", c>>, <<"manual", c>>} BY <3>1, <3>2 DEF Describes
      <4>2. <<"retired", c>> # <<"manual", nextID>> OBVIOUS
      <4>3. <<"manual", c>> # <<"manual", nextID>>
        <5> DEFINE x == <<"manual", c>> y == <<"manual", nextID>>
        <5>1. x[2] = c /\ y[2] = nextID OBVIOUS
        <5> HIDE DEF x, y
        <5>2. x # y BY <3>1, <5>1
        <5> QED BY <5>2 DEF x, y
      <4> QED BY <1>2, <4>1, <4>2, <4>3
    <3>3. CASE courses[c].ref # NoRef
      <4>1. courses[c].key = DedupKey(courses[c]) BY <3>1, <3>3 DEF Describes
      <4>2. courses[c].sem \in Semesters
        <5>1. courses[c] \in Course(nextID) BY <1>0 DEF TablesOK, CourseTable
        <5> QED BY <5>1 DEF Course
      <4>3. courses[c].sem # "manual" BY <4>2 DEF Semesters
      <4>4. DedupKey(courses[c])[1] = courses[c].sem BY DEF DedupKey
      <4>5. <<"manual", nextID>>[1] = "manual" OBVIOUS
      <4> QED BY <1>2, <4>1, <4>3, <4>4, <4>5
    <3> QED BY <3>2, <3>3
  <2>2. KeysUnique(courses) BY <1>0 DEF TablesOK
  <2> QED BY <1>4, <2>1, <2>2 DEF KeysUnique
<1>8. TablesOK' BY <1>0, <1>1, <1>5, <1>6, <1>7 DEF TablesOK, AdminCreateCourse
<1>9. EntriesOK' BY <1>0, <1>4 DEF EntriesOK, AdminCreateCourse
<1>10. JobsOK'
  <2>1. \A table : CourseTable(table, nextID) => CourseTable(table, nextID')
    <3>1. nextID <= nextID' /\ nextID \in Nat /\ nextID' \in Nat BY <1>1
    <3> QED BY <3>1, KeysGrow
  <2> QED BY <1>0, <2>1 DEF JobsOK, AdminCreateCourse
<1> QED BY <1>8, <1>9, <1>10, SyncIInvPartsNext

\* Put adds an entry for each course, numbered from nextEntry, and leaves the others.
PutFits(ents, u, added, R) ==
    /\ DOMAIN ents \subseteq DOMAIN R
    /\ \A e \in DOMAIN ents : R[e] = ents[e]
    /\ \A e \in DOMAIN R \ DOMAIN ents :
          /\ e \in nextEntry..(nextEntry + Cardinality(added) - 1)
          /\ R[e].user = u /\ R[e].course \in added

LEMMA PutIs ==
    ASSUME NEW ents, NEW u, NEW added, added \subseteq Nat, IsFiniteSet(added), nextEntry \in Nat
    PROVE  PutFits(ents, u, added, Put(ents, u, added))
<1> DEFINE id(c) == nextEntry + Cardinality({d \in added : d < c})
           which(e) == CHOOSE c \in added : id(c) = e
           D == DOMAIN ents \cup {id(c) : c \in added}
           R == Put(ents, u, added)
<1>1. R = [e \in D |-> IF e \in DOMAIN ents THEN ents[e] ELSE [user |-> u, course |-> which(e)]]
  BY DEF Put
<1>2. ASSUME NEW e \in D, e \notin DOMAIN ents PROVE which(e) \in added /\ id(which(e)) = e
  <2>1. \E c \in added : id(c) = e BY <1>2
  <2> HIDE DEF id
  <2> QED BY <2>1
<1>3. \A c \in added : id(c) \in nextEntry..(nextEntry + Cardinality(added) - 1) BY IdsInOrder
<1> HIDE DEF which, R
<1>4. DOMAIN R = D /\ \A e \in DOMAIN ents : R[e] = ents[e] BY <1>1
<1>5. \A e \in D : e \notin DOMAIN ents => R[e].user = u /\ R[e].course = which(e) BY <1>1
<1>6. DOMAIN ents \subseteq DOMAIN R BY <1>4
<1> HIDE DEF id, D
<1>7. \A e \in DOMAIN R \ DOMAIN ents :
          /\ e \in nextEntry..(nextEntry + Cardinality(added) - 1)
          /\ R[e].user = u /\ R[e].course \in added
  <2> SUFFICES ASSUME NEW e \in D, e \notin DOMAIN ents
               PROVE  /\ e \in nextEntry..(nextEntry + Cardinality(added) - 1)
                      /\ R[e].user = u /\ R[e].course \in added
    BY <1>4
  <2>1. which(e) \in added /\ id(which(e)) = e BY <1>2
  <2>2. id(which(e)) \in nextEntry..(nextEntry + Cardinality(added) - 1) BY <1>3, <2>1
  <2> QED BY <1>5, <2>1, <2>2
<1> QED BY <1>4, <1>6, <1>7 DEF PutFits, R

\* Entries that go and entries that come, for courses that are there.
LEMMA EntriesChange ==
    ASSUME EntriesOK, TablesOK, NEW gone, NEW u \in Users, NEW added, added \subseteq DOMAIN courses,
           nextEntry + Cardinality(added) <= MaxEntries + 1,
           entries' = Put(Without(entries, gone), u, added),
           nextEntry' = nextEntry + Cardinality(added), courses' = courses
    PROVE  EntriesOK' /\ PutFits(Without(entries, gone), u, added, entries') /\ IsFiniteSet(added)
<1>1. DOMAIN courses \subseteq 1..(nextID - 1) /\ nextID \in Nat BY DEF TablesOK, CourseTable
<1>2. added \subseteq Nat BY <1>1
<1>3. IsFiniteSet(added)
  <2>1. IsFiniteSet(1..(nextID - 1)) BY <1>1, FS_Interval
  <2>2. added \subseteq 1..(nextID - 1) BY <1>1
  <2> QED BY <2>1, <2>2, FS_Subset
<1>4. nextEntry \in Nat /\ Cardinality(added) \in Nat /\ MaxEntries \in Nat /\ nextEntry >= 1
  BY <1>3, FS_CardinalityType, SyllabusAssumption DEF EntriesOK
<1> DEFINE rest == Without(entries, gone)
<1>5. DOMAIN rest \subseteq DOMAIN entries /\ \A e \in DOMAIN rest : rest[e] = entries[e] BY DEF Without
<1> HIDE DEF rest
<1>6. PutFits(rest, u, added, entries') BY <1>2, <1>3, <1>4, PutIs DEF rest
<1>7. nextEntry' \in 1..(MaxEntries + 1) BY <1>4
<1>8. DOMAIN entries' \subseteq 1..(nextEntry' - 1)
  <2> SUFFICES ASSUME NEW e \in DOMAIN entries' PROVE e \in 1..(nextEntry' - 1) OBVIOUS
  <2>1. CASE e \in DOMAIN rest
    <3>1. e \in 1..(nextEntry - 1) BY <1>5, <2>1 DEF EntriesOK
    <3> QED BY <1>4, <3>1
  <2>2. CASE e \notin DOMAIN rest
    <3>1. e \in nextEntry..(nextEntry + Cardinality(added) - 1) BY <1>6, <2>2 DEF PutFits
    <3> QED BY <1>4, <3>1
  <2> QED BY <2>1, <2>2
<1>9. ASSUME NEW e \in DOMAIN entries' PROVE entries'[e].user \in Users /\ entries'[e].course \in DOMAIN courses'
  <2>1. CASE e \in DOMAIN rest
    <3>1. entries'[e] = entries[e] /\ e \in DOMAIN entries BY <1>5, <1>6, <2>1 DEF PutFits
    <3> QED BY <3>1 DEF EntriesOK
  <2>2. CASE e \notin DOMAIN rest
    <3>1. entries'[e].user = u /\ entries'[e].course \in added BY <1>6, <2>2 DEF PutFits
    <3> QED BY <3>1
  <2> QED BY <2>1, <2>2
<1> QED BY <1>3, <1>6, <1>7, <1>8, <1>9 DEF EntriesOK, rest

LEMMA UpsertKeeps ==
    ASSUME SyncIInv, NEW u \in Users, NEW c \in DOMAIN courses, Upsert(u, c)
    PROVE  /\ SyncIInv'
           /\ PutFits(Without(entries, {e \in DOMAIN entries :
                                  /\ entries[e].user = u
                                  /\ SameSlot(courses[entries[e].course], courses[c])}),
                      u, {c}, entries')
           /\ Cardinality({c}) = 1
<1>0. TablesOK /\ EntriesOK /\ JobsOK BY SyncIInvParts
<1> DEFINE gone == {e \in DOMAIN entries : /\ entries[e].user = u
                                           /\ SameSlot(courses[entries[e].course], courses[c])}
           added == {c}
<1>1. Cardinality(added) = 1 BY FS_Singleton
<1>2. nextEntry \in 1..(MaxEntries + 1) /\ MaxEntries \in Nat BY <1>0, SyllabusAssumption DEF EntriesOK
<1>3. /\ entries' = Put(Without(entries, gone), u, added) /\ nextEntry' = nextEntry + 1
      /\ nextEntry <= MaxEntries /\ courses' = courses
  BY DEF Upsert
<1>4. added \subseteq DOMAIN courses OBVIOUS
<1> HIDE DEF gone, added
<1>5. nextEntry + Cardinality(added) <= MaxEntries + 1 /\ nextEntry' = nextEntry + Cardinality(added)
  BY <1>1, <1>2, <1>3
<1>6. EntriesOK' /\ PutFits(Without(entries, gone), u, added, entries') BY <1>0, <1>3, <1>4, <1>5, EntriesChange
<1>7. TablesOK' BY <1>0 DEF TablesOK, Upsert
<1>8. JobsOK' BY <1>0 DEF JobsOK, Upsert
<1> QED BY <1>1, <1>6, <1>7, <1>8, SyncIInvPartsNext DEF gone, added

LEMMA ReplaceKeeps ==
    ASSUME SyncIInv, NEW u \in Users, NEW sem, NEW desired \in SUBSET DOMAIN courses,
           ReplaceForSemester(u, sem, desired)
    PROVE  SyncIInv'
<1>0. TablesOK /\ EntriesOK /\ JobsOK BY SyncIInvParts
<1> DEFINE view == {e \in DOMAIN entries : /\ entries[e].user = u
                                           /\ courses[entries[e].course].sem \in {sem, "full"}}
           added == desired \ {entries[e].course : e \in view}
           gone == {e \in view : entries[e].course \notin desired}
<1>1. /\ entries' = Put(Without(entries, gone), u, added) /\ nextEntry' = nextEntry + Cardinality(added)
      /\ nextEntry + Cardinality(added) <= MaxEntries + 1 /\ courses' = courses
  BY DEF ReplaceForSemester
<1>2. added \subseteq DOMAIN courses OBVIOUS
<1> HIDE DEF gone, added
<1>3. EntriesOK' BY <1>0, <1>1, <1>2, EntriesChange
<1>4. TablesOK' BY <1>0 DEF TablesOK, ReplaceForSemester
<1>5. JobsOK' BY <1>0 DEF JobsOK, ReplaceForSemester
<1> QED BY <1>3, <1>4, <1>5, SyncIInvPartsNext

LEMMA RemoveKeeps ==
    ASSUME SyncIInv, NEW u \in Users, NEW e, Remove(u, e)
    PROVE  SyncIInv'
<1>0. TablesOK /\ EntriesOK /\ JobsOK BY SyncIInvParts
<1>1. DOMAIN entries' \subseteq DOMAIN entries /\ \A x \in DOMAIN entries' : entries'[x] = entries[x]
  <2>1. entries' = Without(entries, {e}) BY DEF Remove
  <2> QED BY <2>1 DEF Without
<1>2. EntriesOK' BY <1>0, <1>1 DEF EntriesOK, Remove
<1>3. TablesOK' BY <1>0 DEF TablesOK, Remove
<1>4. JobsOK' BY <1>0 DEF JobsOK, Remove
<1> QED BY <1>2, <1>3, <1>4, SyncIInvPartsNext

LEMMA SyncNextIInv == SyncIInv /\ [SyncNext]_syncVars => SyncIInv'
<1> SUFFICES ASSUME SyncIInv, [SyncNext]_syncVars PROVE SyncIInv' OBVIOUS
<1>1. ASSUME NEW w \in Workers, NEW S \in Syllabi, NEW term \in Terms, NEW complete \in BOOLEAN,
             SyncReads(w, S, term, complete)
      PROVE  SyncIInv'
  BY <1>1, ReadsKeeps
<1>2. ASSUME NEW w \in Workers, SyncCommits(w) PROVE SyncIInv' BY <1>2, CommitsKeeps
<1>3. ASSUME NEW w \in Workers, SyncFails(w) PROVE SyncIInv' BY <1>3, FailsKeeps
<1>4. ASSUME NEW f \in DOMAIN reviews, NEW d \in {"SAME", "DIFFERENT", "IGNORED"}, ResolveReview(f, d)
      PROVE  SyncIInv'
  BY <1>4, ResolveKeeps
<1>5. ASSUME NEW c \in DOMAIN courses, AdminDeleteCourse(c) PROVE SyncIInv' BY <1>5, DeleteKeeps
<1>6. ASSUME NEW r \in ManualRows, AdminCreateCourse(r) PROVE SyncIInv' BY <1>6, CreateKeeps
<1>7. ASSUME NEW u \in Users, NEW c \in DOMAIN courses, Upsert(u, c) PROVE SyncIInv' BY <1>7, UpsertKeeps
<1>8. ASSUME Replaces PROVE SyncIInv' BY <1>8, ReplaceKeeps DEF Replaces
<1>9. ASSUME NEW u \in Users, NEW e \in DOMAIN entries, Remove(u, e) PROVE SyncIInv' BY <1>9, RemoveKeeps
<1>10. ASSUME UNCHANGED syncVars PROVE SyncIInv'
  <2>0. TablesOK /\ EntriesOK /\ JobsOK BY SyncIInvParts
  <2>1. TablesOK' /\ EntriesOK' /\ JobsOK' BY <1>10, <2>0 DEF syncVars, TablesOK, EntriesOK, JobsOK
  <2> QED BY <2>1, SyncIInvPartsNext
<1> QED BY <1>1, <1>2, <1>3, <1>4, <1>5, <1>6, <1>7, <1>8, <1>9, <1>10 DEF SyncNext

LEMMA SyncInvariant == SyncSpec => []SyncIInv
BY SyncInitIInv, SyncNextIInv, PTL DEF SyncSpec

-----------------------------------------------------------------------------
(* The timetables. *)

LEMMA SameSlotBack ==
    ASSUME NEW c, NEW d, SameSlot(c, d)
    PROVE  SameSlot(d, c)
BY DEF SameSlot, SemestersMeet

\* A course that a sync does not move, or moves from where it is, stands as it stood.
LEMMA MovedAre ==
    ASSUME SyncIInv, NEW w \in Workers, SyncCommits(w), ~Overtaken(w),
           NEW moved, moved = MovedCourses(PlanOf(job[w]), job[w].existing, job[w].syllabus, job[w].term)
    PROVE  \A c \in DOMAIN courses :
              /\ c \in DOMAIN courses'
              /\ c \in moved <=> courses'[c].sem # courses[c].sem \/ courses'[c].slot # courses[c].slot
<1> DEFINE j == job[w]
           existing == j.existing
           S == j.syllabus
           term == j.term
           P == PlanOf(j)
<1>0. job[w] # Idle BY DEF SyncCommits
<1>1. Transacted(courses, existing, S, term, P, courses', nextID, nextID')
  <2>1. j = job[w] /\ P = PlanOf(j) OBVIOUS
  <2>2. Transacted(courses, j.existing, j.syllabus, j.term, P, courses', nextID, nextID')
    <3> HIDE DEF j, P
    <3> QED BY <2>1, CommitIs
  <2> QED BY <2>2
<1>2. PlanFits(existing, S, term, P) BY <1>0, JobPlanFits
<1>3. \A c \in DOMAIN courses \cap Named(P, "update") :
         courses[c].sem = existing[c].sem /\ courses[c].slot = existing[c].slot
  BY DEF Overtaken
<1> DEFINE After1(c, i) == After(existing[c], S[i], term)
           Moves(c, i) == After1(c, i).sem # existing[c].sem \/ After1(c, i).slot # existing[c].slot
<1>4. moved = {f[2] : f \in {g \in P : g[1] = "update" /\ Moves(g[2], g[3])}} BY DEF MovedCourses
<1> HIDE DEF Moves
<1>5. \A c : c \in moved <=> \E f \in P : f[1] = "update" /\ f[2] = c /\ Moves(f[2], f[3]) BY <1>4
<1> HIDE DEF j, existing, S, term, P
<1>6. ASSUME NEW c \in DOMAIN courses
      PROVE  /\ c \in DOMAIN courses'
             /\ c \in moved <=> courses'[c].sem # courses[c].sem \/ courses'[c].slot # courses[c].slot
  <2>0. c \in DOMAIN courses' BY <1>1 DEF Transacted
  <2>1. CASE c \notin Named(P, "update")
    <3>1. courses'[c].sem = courses[c].sem /\ courses'[c].slot = courses[c].slot BY <1>1, <2>1 DEF Transacted
    <3>2. c \notin moved BY <1>5, <2>1 DEF Named
    <3> QED BY <2>0, <3>1, <3>2
  <2>2. CASE c \in Named(P, "update")
    <3> DEFINE i == UpdateRow(P, c)
    <3>1. UpdateFits(existing, S, term, P, c, i) BY <1>2, <2>2, UpdateRowIs
    <3>2. <<"update", c, i>> \in P /\ \A f \in P : f[1] = "update" /\ f[2] = c => f[3] = i
      BY <3>1 DEF UpdateFits
    <3>3. courses'[c].sem = After1(c, i).sem /\ courses'[c].slot = After1(c, i).slot
      BY <1>1, <2>2 DEF Transacted
    <3> HIDE DEF i, After1
    <3>4. c \in moved <=> Moves(c, i)
      <4> DEFINE f == <<"update", c, i>>
      <4>1. f[1] = "update" /\ f[2] = c /\ f[3] = i OBVIOUS
      <4>2. f \in P BY <3>2
      <4> HIDE DEF f
      <4> QED BY <1>5, <3>2, <4>1, <4>2
    <3>5. courses[c].sem = existing[c].sem /\ courses[c].slot = existing[c].slot BY <1>3, <2>2
    <3> QED BY <2>0, <3>3, <3>4, <3>5 DEF Moves
  <2> QED BY <2>1, <2>2
<1> QED BY <1>6

\* The entries that a sync leaves.
LEMMA EntriesLeft ==
    ASSUME SyncIInv, NEW w \in Workers, SyncCommits(w),
           NEW moved, moved = MovedCourses(PlanOf(job[w]), job[w].existing, job[w].syllabus, job[w].term)
    PROVE  /\ DOMAIN entries' \subseteq DOMAIN entries
           /\ \A e \in DOMAIN entries' : entries'[e] = entries[e]
           /\ \A e \in DOMAIN entries :
                 e \notin DOMAIN entries' <=>
                    /\ entries[e].course \in moved
                    /\ \E o \in DOMAIN entries :
                          /\ Overlap(courses', entries, e, o)
                          /\ entries[o].course \notin moved \/ (o < e /\ o \in DOMAIN entries')
<1> DEFINE gone == FindSlotConflicts(courses', entries, moved)
<1>1. entries' = Without(entries, gone)
  <2> DEFINE j == job[w] P == PlanOf(j)
  <2>1. entries' = Without(entries, FindSlotConflicts(courses', entries,
                                       MovedCourses(P, j.existing, j.syllabus, j.term)))
    <3> HIDE DEF j, P
    <3>1. j = job[w] /\ P = PlanOf(j) BY DEF j, P
    <3> QED BY <3>1, CommitIs
  <2> QED BY <2>1
<1>2. \A e \in DOMAIN entries :
              e \in gone <=>
                 /\ e \in MovedEntries(entries, moved)
                 /\ \E o \in DOMAIN entries :
                       /\ Overlap(courses', entries, e, o)
                       /\ \/ o \notin MovedEntries(entries, moved)
                          \/ o < e /\ o \notin gone
  <2>1. nextEntry \in 1..(MaxEntries + 1) /\ DOMAIN entries \subseteq 1..(nextEntry - 1)
    BY SyncIInvParts DEF EntriesOK
  <2>2. MaxEntries \in Nat BY SyllabusAssumption
  <2> DEFINE N == nextEntry - 1
             table == courses'
  <2>3. N \in Nat /\ DOMAIN entries \subseteq 1..N BY <2>1, <2>2
  <2>4. gone = FindSlotConflicts(table, entries, moved) OBVIOUS
  <2> HIDE DEF N, table, gone
  <2>5. \A e \in DOMAIN entries :
              e \in gone <=>
                 /\ e \in MovedEntries(entries, moved)
                 /\ \E o \in DOMAIN entries :
                       /\ Overlap(table, entries, e, o)
                       /\ \/ o \notin MovedEntries(entries, moved)
                          \/ o < e /\ o \notin gone
    BY <2>3, <2>4, ConflictsAre
  <2> QED BY <2>5 DEF table
<1> HIDE DEF gone
<1>3. \A e \in DOMAIN entries : e \in MovedEntries(entries, moved) <=> entries[e].course \in moved
  BY DEF MovedEntries
<1>4. DOMAIN entries' = DOMAIN entries \ gone /\ \A e \in DOMAIN entries' : entries'[e] = entries[e]
  BY <1>1 DEF Without
<1> QED BY <1>2, <1>3, <1>4

\* Entries that stay where they were, of courses that stay where they were, overlap as before.
LEMMA SameOverlaps ==
    ASSUME NEW t1, NEW e1, NEW t2, NEW e2, NEW d, NEW o,
           e2[d] = e1[d], e2[o] = e1[o],
           t2[e1[d].course].sem = t1[e1[d].course].sem, t2[e1[d].course].slot = t1[e1[d].course].slot,
           t2[e1[o].course].sem = t1[e1[o].course].sem, t2[e1[o].course].slot = t1[e1[o].course].slot,
           Overlap(t2, e2, d, o)
    PROVE  Overlap(t1, e1, d, o)
BY DEF Overlap, SameSlot

LEMMA OverlapBack ==
    ASSUME NEW table, NEW ents, NEW d, NEW o, Overlap(table, ents, d, o)
    PROVE  Overlap(table, ents, o, d)
BY SameSlotBack DEF Overlap

\* What makes Overlaps' a part of Overlaps.
LEMMA NoMoreOverlaps ==
    ASSUME DOMAIN entries' \subseteq DOMAIN entries,
           \A d, o \in DOMAIN entries' :
              Overlap(courses', entries', d, o) => Overlap(courses, entries, d, o)
    PROVE  Overlaps' \subseteq Overlaps
<1> SUFFICES ASSUME NEW p \in Overlaps' PROVE p \in Overlaps OBVIOUS
<1>1. p \in (DOMAIN entries') \X (DOMAIN entries') /\ Overlap(courses', entries', p[1], p[2]) BY DEF Overlaps
<1>2. p[1] \in DOMAIN entries' /\ p[2] \in DOMAIN entries' /\ p \in (DOMAIN entries) \X (DOMAIN entries) BY <1>1
<1>3. Overlap(courses, entries, p[1], p[2]) BY <1>1, <1>2
<1> QED BY <1>2, <1>3 DEF Overlaps

LEMMA CommitOverlaps ==
    ASSUME SyncIInv, NEW w \in Workers, SyncCommits(w), ~Overtaken(w)
    PROVE  Overlaps' \subseteq Overlaps
<1> DEFINE moved == MovedCourses(PlanOf(job[w]), job[w].existing, job[w].syllabus, job[w].term)
<1>1. \A c \in DOMAIN courses :
              /\ c \in DOMAIN courses'
              /\ c \in moved <=> courses'[c].sem # courses[c].sem \/ courses'[c].slot # courses[c].slot
  BY MovedAre
<1>2. /\ DOMAIN entries' \subseteq DOMAIN entries
      /\ \A e \in DOMAIN entries' : entries'[e] = entries[e]
      /\ \A e \in DOMAIN entries :
            e \notin DOMAIN entries' <=>
               /\ entries[e].course \in moved
               /\ \E o \in DOMAIN entries :
                     /\ Overlap(courses', entries, e, o)
                     /\ entries[o].course \notin moved \/ (o < e /\ o \in DOMAIN entries')
  BY EntriesLeft
<1> HIDE DEF moved
<1>3. \A e \in DOMAIN entries : entries[e].course \in DOMAIN courses /\ e \in Nat
  <2>1. \A e \in DOMAIN entries : entries[e].course \in DOMAIN courses BY SyncIInvParts DEF EntriesOK
  <2>2. DOMAIN entries \subseteq 1..(nextEntry - 1) BY SyncIInvParts DEF EntriesOK
  <2> QED BY <2>1, <2>2
\* An entry that stays does not meet one of a course that did not move, if its own did.
<1>4. ASSUME NEW d \in DOMAIN entries', NEW o \in DOMAIN entries', Overlap(courses', entries', d, o)
      PROVE  entries[d].course \notin moved
  <2> SUFFICES ASSUME entries[d].course \in moved PROVE FALSE OBVIOUS
  <2>1. Overlap(courses', entries, d, o) /\ d # o BY <1>2, <1>4 DEF Overlap
  <2>2. Overlap(courses', entries, o, d) BY <2>1, OverlapBack
  <2>3. d \in Nat /\ o \in Nat BY <1>2, <1>3
  <2>4. entries[o].course \in moved /\ ~(o < d) BY <1>2, <2>1
  <2>5. d < o BY <2>1, <2>3, <2>4
  <2> QED BY <1>2, <2>2, <2>4, <2>5
<1>5. ASSUME NEW d \in DOMAIN entries', NEW o \in DOMAIN entries', Overlap(courses', entries', d, o)
      PROVE  Overlap(courses, entries, d, o)
  <2> DEFINE t == courses' e == entries'
  <2>1. Overlap(t, e, d, o) /\ d \in DOMAIN e /\ o \in DOMAIN e BY <1>5
  <2>2. Overlap(courses', entries', o, d) BY <1>5, OverlapBack
  <2>3. entries[d].course \notin moved /\ entries[o].course \notin moved BY <1>4, <1>5, <2>2
  <2>4. e[d] = entries[d] /\ e[o] = entries[o] BY <1>2
  <2>5. /\ t[entries[d].course].sem = courses[entries[d].course].sem
        /\ t[entries[d].course].slot = courses[entries[d].course].slot
        /\ t[entries[o].course].sem = courses[entries[o].course].sem
        /\ t[entries[o].course].slot = courses[entries[o].course].slot
    BY <1>1, <1>2, <1>3, <2>3
  <2> HIDE DEF t, e
  <2> QED BY <2>1, <2>4, <2>5, SameOverlaps
<1> QED BY <1>2, <1>5, NoMoreOverlaps

LEMMA UpsertOverlaps ==
    ASSUME SyncIInv, NEW u \in Users, NEW c \in DOMAIN courses, Upsert(u, c)
    PROVE  Overlaps' \subseteq Overlaps
<1> DEFINE gone == {e \in DOMAIN entries : /\ entries[e].user = u
                                           /\ SameSlot(courses[entries[e].course], courses[c])}
           rest == Without(entries, gone)
           R == entries'
<1>0. PutFits(rest, u, {c}, R) /\ Cardinality({c}) = 1 BY UpsertKeeps
<1>1. courses' = courses BY DEF Upsert
<1>2. DOMAIN rest = DOMAIN entries \ gone /\ \A e \in DOMAIN rest : rest[e] = entries[e] BY DEF Without
<1>3. nextEntry \in Nat
  <2>1. nextEntry \in 1..(MaxEntries + 1) /\ MaxEntries \in Nat BY SyncIInvParts, SyllabusAssumption DEF EntriesOK
  <2> QED BY <2>1
<1> HIDE DEF rest
<1>4. ASSUME NEW e \in DOMAIN R PROVE \/ e \in DOMAIN entries \ gone /\ R[e] = entries[e]
                                      \/ e = nextEntry /\ R[e].user = u /\ R[e].course = c
  <2> HIDE DEF R, gone
  <2>1. CASE e \in DOMAIN rest BY <1>0, <1>2, <2>1 DEF PutFits
  <2>2. CASE e \notin DOMAIN rest
    <3>1. e \in nextEntry..(nextEntry + Cardinality({c}) - 1) /\ R[e].user = u /\ R[e].course \in {c}
      BY <1>0, <2>2 DEF PutFits
    <3>2. e = nextEntry BY <1>0, <1>3, <3>1
    <3> QED BY <3>1, <3>2
  <2> QED BY <2>1, <2>2
\* The new entry meets none that stays.
<1>5. ASSUME NEW d \in DOMAIN R, NEW o \in DOMAIN R, Overlap(courses, R, d, o),
             d \in DOMAIN entries \ gone, R[d] = entries[d], R[o].user = u, R[o].course = c
      PROVE  FALSE
  <2>1. entries[d].user = u /\ SameSlot(courses[entries[d].course], courses[c]) BY <1>5 DEF Overlap
  <2> QED BY <1>5, <2>1
<1>6. ASSUME NEW d \in DOMAIN R, NEW o \in DOMAIN R, Overlap(courses, R, d, o)
      PROVE  /\ d \in DOMAIN entries /\ o \in DOMAIN entries
             /\ R[d] = entries[d] /\ R[o] = entries[o]
  <2>1. Overlap(courses, R, o, d) /\ d # o BY <1>6, OverlapBack DEF Overlap
  <2> HIDE DEF R, gone
  <2>2. ~(d = nextEntry /\ o = nextEntry) BY <2>1
  <2> QED BY <1>4, <1>5, <1>6, <2>1, <2>2
<1>7. ASSUME NEW p \in Overlaps' PROVE p \in Overlaps
  <2>1. p \in (DOMAIN R) \X (DOMAIN R) /\ Overlap(courses, R, p[1], p[2]) BY <1>1 DEF Overlaps
  <2> HIDE DEF R
  <2>2. p[1] \in DOMAIN R /\ p[2] \in DOMAIN R /\ p = <<p[1], p[2]>> BY <2>1
  <2>3. /\ p[1] \in DOMAIN entries /\ p[2] \in DOMAIN entries
        /\ R[p[1]] = entries[p[1]] /\ R[p[2]] = entries[p[2]]
    BY <1>6, <2>1, <2>2
  <2>4. Overlap(courses, entries, p[1], p[2]) BY <2>1, <2>3 DEF Overlap
  <2>5. p \in (DOMAIN entries) \X (DOMAIN entries) BY <2>2, <2>3
  <2> QED BY <2>4, <2>5 DEF Overlaps
<1> QED BY <1>7

\* Entries taken away, the courses of the others as they were.
LEMMA FewerOverlaps ==
    ASSUME DOMAIN entries' \subseteq DOMAIN entries, \A e \in DOMAIN entries' : entries'[e] = entries[e],
           \A e \in DOMAIN entries' : courses'[entries[e].course] = courses[entries[e].course]
    PROVE  Overlaps' \subseteq Overlaps
<1>1. ASSUME NEW d \in DOMAIN entries', NEW o \in DOMAIN entries', Overlap(courses', entries', d, o)
      PROVE  Overlap(courses, entries, d, o)
  BY <1>1 DEF Overlap
<1> QED BY <1>1, NoMoreOverlaps

LEMMA NoNewOverlapStep ==
    ASSUME SyncIInv, [SyncNext]_syncVars
    PROVE  \/ Overlaps' \subseteq Overlaps
           \/ Replaces
           \/ \E w \in Workers : SyncEnds(w) /\ Overtaken(w)
<1> DEFINE Goal == \/ Overlaps' \subseteq Overlaps
                   \/ Replaces
                   \/ \E w \in Workers : SyncEnds(w) /\ Overtaken(w)
<1>0. /\ \A e \in DOMAIN entries : entries[e].course \in DOMAIN courses
      /\ DOMAIN job = Workers /\ DOMAIN courses \subseteq 1..(nextID - 1) /\ nextID \in Nat \ {0}
  BY SyncIInvParts DEF EntriesOK, JobsOK, TablesOK, CourseTable
<1>1. ASSUME courses' = courses, entries' = entries PROVE Goal
  <2>1. Overlaps' = Overlaps BY <1>1 DEF Overlaps, Overlap
  <2> QED BY <2>1
<1>2. ASSUME NEW w \in Workers, SyncCommits(w) PROVE Goal
  <2>1. CASE ~Overtaken(w) BY <1>2, <2>1, CommitOverlaps
  <2>2. CASE Overtaken(w)
    <3>1. job[w] # Idle /\ job' = [job EXCEPT ![w] = Idle] BY <1>2 DEF SyncCommits
    <3>2. SyncEnds(w) BY <1>0, <3>1 DEF SyncEnds
    <3> QED BY <2>2, <3>2
  <2> QED BY <2>1, <2>2
<1>3. ASSUME NEW c \in DOMAIN courses, AdminDeleteCourse(c) PROVE Goal
  <2>1. courses' = Without(courses, {c})
        /\ entries' = Without(entries, {e \in DOMAIN entries : entries[e].course = c})
    BY <1>3 DEF AdminDeleteCourse
  <2>2. DOMAIN entries' \subseteq DOMAIN entries
        /\ \A e \in DOMAIN entries' : entries'[e] = entries[e] /\ entries[e].course # c
    BY <2>1 DEF Without
  <2>3. \A x \in DOMAIN courses \ {c} : courses'[x] = courses[x] BY <2>1 DEF Without
  <2>4. \A e \in DOMAIN entries' : courses'[entries[e].course] = courses[entries[e].course]
    BY <1>0, <2>2, <2>3
  <2> QED BY <2>2, <2>4, FewerOverlaps
<1>4. ASSUME NEW r \in ManualRows, AdminCreateCourse(r) PROVE Goal
  <2>1. entries' = entries /\ \A x \in DOMAIN courses : courses'[x] = courses[x]
    BY <1>4 DEF AdminCreateCourse
  <2> QED BY <1>0, <2>1, FewerOverlaps
<1>5. ASSUME NEW u \in Users, NEW c \in DOMAIN courses, Upsert(u, c) PROVE Goal BY <1>5, UpsertOverlaps
<1>6. ASSUME NEW u \in Users, NEW e, Remove(u, e) PROVE Goal
  <2>1. entries' = Without(entries, {e}) /\ courses' = courses BY <1>6 DEF Remove
  <2>2. DOMAIN entries' \subseteq DOMAIN entries /\ \A x \in DOMAIN entries' : entries'[x] = entries[x]
    BY <2>1 DEF Without
  <2> QED BY <2>1, <2>2, FewerOverlaps
<1>7. ASSUME \/ \E w \in Workers, S \in Syllabi, term \in Terms, complete \in BOOLEAN :
                   SyncReads(w, S, term, complete)
             \/ \E w \in Workers : SyncFails(w)
             \/ \E f \in DOMAIN reviews, d \in {"SAME", "DIFFERENT", "IGNORED"} : ResolveReview(f, d)
             \/ UNCHANGED syncVars
      PROVE  courses' = courses /\ entries' = entries
  BY <1>7 DEF SyncReads, SyncFails, ResolveReview, syncVars
<1>8. CASE Replaces BY <1>8
<1> HIDE DEF Goal
<1>9. Goal
  <2>1. Replaces => Goal BY DEF Goal
  <2> QED BY <1>1, <1>2, <1>3, <1>4, <1>5, <1>6, <1>7, <2>1 DEF SyncNext
<1> QED BY <1>9 DEF Goal

LEMMA UnregistersStep ==
    ASSUME SyncIInv, [SyncNext]_syncVars, NEW w \in Workers, SyncEnds(w), ~Overtaken(w),
           NEW e \in DOMAIN entries \ DOMAIN entries', NEW c, c = entries[e].course
    PROVE  /\ courses[c].slot # courses'[c].slot \/ courses[c].sem # courses'[c].sem
           /\ \E o \in DOMAIN entries' :
                 /\ entries'[o].user = entries[e].user
                 /\ SameSlot(courses'[entries'[o].course], courses'[c])
<1>0. /\ \A x \in DOMAIN entries : entries[x].course \in DOMAIN courses
      /\ DOMAIN job = Workers
  BY SyncIInvParts DEF EntriesOK, JobsOK
<1>1. job[w] # Idle /\ job'[w] = Idle BY DEF SyncEnds
<1>2. SyncCommits(w)
  <2>1. job' # job /\ entries' # entries BY <1>1
  <2>2. ASSUME NEW v \in Workers, SyncCommits(v) PROVE v = w
    <3>1. job' = [job EXCEPT ![v] = Idle] BY <2>2 DEF SyncCommits
    <3> QED BY <1>0, <1>1, <3>1
  <2>3. ~(\E v \in Workers, S \in Syllabi, term \in Terms, complete \in BOOLEAN :
             SyncReads(v, S, term, complete))
    BY <2>1 DEF SyncReads
  <2>4. ~(\E v \in Workers : SyncFails(v)) BY <2>1 DEF SyncFails
  <2>5. ~(\E f \in DOMAIN reviews, d \in {"SAME", "DIFFERENT", "IGNORED"} : ResolveReview(f, d))
    BY <2>1 DEF ResolveReview
  <2>6. ~(\E x \in DOMAIN courses : AdminDeleteCourse(x)) BY <2>1 DEF AdminDeleteCourse
  <2>7. ~(\E r \in ManualRows : AdminCreateCourse(r)) BY <2>1 DEF AdminCreateCourse
  <2>8. ~(\E u \in Users, x \in DOMAIN courses : Upsert(u, x)) BY <2>1 DEF Upsert
  <2>9. ~Replaces BY <2>1 DEF Replaces, ReplaceForSemester
  <2>10. ~(\E u \in Users, x \in DOMAIN entries : Remove(u, x)) BY <2>1 DEF Remove
  <2>11. ~(UNCHANGED syncVars) BY <2>1 DEF syncVars
  <2> QED BY <2>2, <2>3, <2>4, <2>5, <2>6, <2>7, <2>8, <2>9, <2>10, <2>11 DEF SyncNext
<1> DEFINE moved == MovedCourses(PlanOf(job[w]), job[w].existing, job[w].syllabus, job[w].term)
<1>3. \A x \in DOMAIN courses :
              x \in moved <=> courses'[x].sem # courses[x].sem \/ courses'[x].slot # courses[x].slot
  BY <1>2, MovedAre
<1>4. /\ DOMAIN entries' \subseteq DOMAIN entries
      /\ \A x \in DOMAIN entries' : entries'[x] = entries[x]
      /\ \A x \in DOMAIN entries :
            x \notin DOMAIN entries' <=>
               /\ entries[x].course \in moved
               /\ \E o \in DOMAIN entries :
                     /\ Overlap(courses', entries, x, o)
                     /\ entries[o].course \notin moved \/ (o < x /\ o \in DOMAIN entries')
  BY <1>2, EntriesLeft
<1> HIDE DEF moved
<1>5. c \in moved BY <1>4
<1>6. courses[c].slot # courses'[c].slot \/ courses[c].sem # courses'[c].sem BY <1>0, <1>3, <1>5
<1>7. PICK o \in DOMAIN entries :
            /\ Overlap(courses', entries, e, o)
            /\ entries[o].course \notin moved \/ (o < e /\ o \in DOMAIN entries')
  BY <1>4
<1>8. o \in DOMAIN entries' BY <1>4, <1>7
<1>9. entries'[o] = entries[o] BY <1>4, <1>8
<1>10. Overlap(courses', entries, o, e) BY <1>7, OverlapBack
<1>11. entries'[o].user = entries[e].user /\ SameSlot(courses'[entries'[o].course], courses'[c])
  BY <1>9, <1>10 DEF Overlap
<1> QED BY <1>6, <1>8, <1>11

-----------------------------------------------------------------------------
(* The theorems on the synchronisation. *)

\* The tables and what the syncs read keep their types, and an entry names a course that
\* is there (SyncTypeOK), whatever a stale plan writes (sync_courses.go) and whatever the
\* administrator deletes meanwhile.
THEOREM SyncTypeCorrect == SyncSpec => []SyncTypeOK
<1>1. SyncIInv => SyncTypeOK BY DEF SyncIInv
<1> QED BY <1>1, SyncInvariant, PTL

\* A course the syllabus decides carries the key of its own semester, code and slot
\* (KeysDescribeRows): the update of CourseFields (sync_plan.go) may keep the slot of a
\* course whose semester is over, then it keeps the key and finds the same code.
THEOREM KeysDescribe == SyncSpec => []KeysDescribeRows
<1>1. SyncIInv => KeysDescribeRows
  BY DEF SyncIInv, KeysDescribeRows, Syncable, Described, Describes
<1> QED BY <1>1, SyncInvariant, PTL

\* A sync that reads the tables as they are can be written, in whatever order its rows
\* are, for every syllabus, term and pending decision (NextSyncFits): PlanCourseSync never
\* gives a key to two rows, and a row it does not retire keeps its own.
THEOREM SyncFits == SyncSpec => []NextSyncFits
<1>1. ASSUME SyncIInv PROVE NextSyncFits
  <2> SUFFICES ASSUME NEW S \in Syllabi, NEW term \in Terms
               PROVE  ~KeysClash(courses, PlanCourseSync(courses, reviews, S, term, TRUE), courses, S, term)
    BY DEF NextSyncFits
  <2> DEFINE P == PlanCourseSync(courses, reviews, S, term, TRUE)
  <2>1. nextID \in Nat \ {0} /\ CourseTable(courses, nextID) /\ Described(courses) /\ KeysUnique(courses)
    BY <1>1, SyncIInvParts DEF TablesOK
  <2>2. IsTable(courses) BY <2>1 DEF IsTable
  <2>3. P = PlanCourseSync(courses, reviews, S, term, TRUE) OBVIOUS
  <2> HIDE DEF P
  <2>4. PlanFits(courses, S, term, P) BY <2>2, <2>3, PlanIsFit
  <2>5. ~KeysClash(courses, P, courses, S, term) BY <2>1, <2>4, NoClash
  <2> QED BY <2>5 DEF P
<1> QED BY <1>1, SyncInvariant, PTL

\* A second sync with the same syllabus finds what the first one updated, created or retired
\* as it is listed (SyncSettles), for every syllabus, term and decision: its plan only asks,
\* judges the codes that are no longer listed, or creates the rows of a new code that the
\* first plan left out; unless it carries out an answer (planGroup, matchReissues and
\* CourseFields in sync_plan.go).
THEOREM SyncRepeats == SyncSpec => []SyncSettles
<1>1. ASSUME SyncIInv PROVE SyncSettles
  <2> DEFINE P(S, term) == PlanCourseSync(courses, reviews, S, term, TRUE)
             T(S, term) == ApplyCourses(courses, P(S, term), courses, S, term, nextID)
             Q(S, term) == PlanCourseSync(T(S, term), SaveReviews(reviews, P(S, term)), S, term, TRUE)
  <2>1. nextID \in Nat \ {0} /\ CourseTable(courses, nextID) /\ Described(courses) /\ KeysUnique(courses)
    BY <1>1, SyncIInvParts DEF TablesOK
  <2>2. ASSUME NEW S \in Syllabi, NEW term \in Terms, \A f \in Q(S, term) : f[1] # "applied",
               NEW f \in Q(S, term)
        PROVE  SaidAgain(courses, S, P(S, term), f)
    <3> DEFINE plan == P(S, term)
               table == T(S, term)
               later == SaveReviews(reviews, plan)
               again == Q(S, term)
    <3>1. /\ plan = PlanCourseSync(courses, reviews, S, term, TRUE)
          /\ table = ApplyCourses(courses, plan, courses, S, term, nextID)
          /\ again = PlanCourseSync(table, later, S, term, TRUE)
          /\ f \in again /\ \A g \in again : g[1] # "applied"
      BY <2>2
    <3> HIDE DEF plan, table, later, again
    <3>2. FirstSync(courses, reviews, S, term, TRUE, plan, table) BY <2>1, <3>1, FirstSyncIs
    <3>3. SaidAgain(courses, S, plan, f) BY <3>1, <3>2, Repeated
    <3> QED BY <3>3 DEF plan
  <2> HIDE DEF P, T, Q
  <2>3. \A S \in Syllabi, term \in Terms :
           \/ \E f \in Q(S, term) : f[1] = "applied"
           \/ \A f \in Q(S, term) : \/ f[1] \in {"gone", "review"}
                                   \/ /\ f[1] = "create"
                                      /\ f[2] \notin RowsWritten(P(S, term))
                                      /\ GroupKey(S[f[2]]) \notin OldKeys(courses)
    BY <2>2 DEF SaidAgain
  <2> QED BY <2>3 DEF SyncSettles, P, T, Q
<1> QED BY <1>1, SyncInvariant, PTL

\* Neither a sync that moves courses under the timetables nor a registration puts two
\* courses of a student into one slot (NoNewOverlap): FindSlotConflicts and Upsert
\* (timetable_repository.go) make room.
THEOREM OneCoursePerSlot == SyncSpec => NoNewOverlap
<1>1. SyncIInv /\ [SyncNext]_syncVars => [\/ Overlaps' \subseteq Overlaps
                                          \/ Replaces
                                          \/ \E w \in Workers : SyncEnds(w) /\ Overtaken(w)]_syncVars
  BY NoNewOverlapStep
<1> QED BY <1>1, SyncInvariant, PTL DEF SyncSpec, NoNewOverlap

\* A sync that was not overtaken takes an entry off a timetable only when it moved its
\* course and another course of the student keeps the slot (UnregistersForAnother).
THEOREM RemovedForAnother == SyncSpec => UnregistersForAnother
<1>1. SyncIInv /\ [SyncNext]_syncVars =>
        [\A w \in Workers : SyncEnds(w) /\ ~Overtaken(w) =>
         \A e \in DOMAIN entries \ DOMAIN entries' :
            LET c == entries[e].course
            IN  /\ courses[c].slot # courses'[c].slot \/ courses[c].sem # courses'[c].sem
                /\ \E o \in DOMAIN entries' :
                      /\ entries'[o].user = entries[e].user
                      /\ SameSlot(courses'[entries'[o].course], courses'[c])]_syncVars
  BY UnregistersStep
<1> QED BY <1>1, SyncInvariant, PTL DEF SyncSpec, UnregistersForAnother
=============================================================================
