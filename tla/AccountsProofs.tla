--------------------------- MODULE AccountsProofs ---------------------------
(***************************************************************************)
(* For any users, rooms, requests and times: a community keeps an owner    *)
(* until it is deleted, is deleted with its last member only, is handed    *)
(* over by whoever withdraws, and accounts go only when they may.          *)
(*                                                                         *)
(* The inductive invariant says what the row locks are for.  No two        *)
(* transactions have a row of room_users locked (Exclusive), so what       *)
(* LockRoomMemberRolesForUpdate returned is still so (Accurate), a         *)
(* transaction that ends an account knows every room that it owns (Owned), *)
(* and what it was allowed for is still so (Lawful).                       *)
(***************************************************************************)
EXTENDS Accounts, TLAPS

\* What a request is doing and which locks it has, step by step.
Stage(q) ==
    /\ pc[q] \in {"idle", "insert", "lock", "lifecycle", "write"} =>
          held[q] = {} /\ ~mine[q] /\ ~row[q]
    /\ pc[q] = "insert" => who[q] \in User /\ (op[q] = "join" => where[q] \in Room)
    /\ pc[q] \in {"lock", "apply"} => where[q] \in Room /\ (op[q] = "leave" => who[q] \in User)
    /\ pc[q] = "apply" => held[q] = {where[q]} /\ ~mine[q] /\ ~row[q]
    /\ pc[q] \in {"lifecycle", "memberships", "rooms"} => who[q] \in User
    /\ pc[q] = "memberships" => row[q] /\ held[q] = {} /\ ~mine[q]
    /\ pc[q] = "rooms" => row[q] /\ mine[q]
    /\ pc[q] = "write" => who[q] \in User

Stages == \A q \in Request : Stage(q)

\* No two transactions have the same row locked.
Exclusive ==
    \A p, q \in Request : p # q =>
      /\ held[p] \cap held[q] = {}
      /\ mine[p] /\ mine[q] => who[p] # who[q]
      /\ mine[q] => \A r \in held[p] : who[q] \notin Members(role[r])
      /\ row[p] /\ row[q] => who[p] # who[q]

\* What was read under a lock is still so.
Accurate == \A q \in Request : \A r \in held[q] : roles[q][r] = role[r]

\* A transaction that ends an account knows the rooms that the account owns.
Owned == \A q \in Request : pc[q] = "rooms" => owned[q] = {r \in Room : role[r][who[q]] = "owner"}

\* A purge after the grace period may still happen.
Lawful ==
    \A q \in Request : op[q] = "expire" =>
      /\ now[q] <= clock
      /\ pc[q] \in {"memberships", "rooms"} => Expired(who[q], now[q])

IInv == TypeOK /\ Stages /\ Exclusive /\ Accurate /\ Owned /\ Lawful
-----------------------------------------------------------------------------
(* Shapes of steps. *)

\* The step leaves request p alone.
Same(p) ==
    /\ op'[p] = op[p] /\ pc'[p] = pc[p] /\ who'[p] = who[p] /\ where'[p] = where[p]
    /\ now'[p] = now[p] /\ row'[p] = row[p] /\ mine'[p] = mine[p] /\ held'[p] = held[p]
    /\ owned'[p] = owned[p] /\ roles'[p] = roles[p]

\* Request q is over.
Over(q) == pc'[q] = "idle" /\ op'[q] = "none" /\ ~row'[q] /\ ~mine'[q] /\ held'[q] = {}

LEMMA ReturnShape ==
  ASSUME TypeOK, NEW q \in Request, Return(q)
  PROVE  Over(q) /\ \A p \in Request \ {q} : Same(p)
  BY DEF TypeOK, Return, Over, Same

LEMMA BeginShape ==
  ASSUME TypeOK, NEW q \in Request, NEW o, NEW s, NEW u, NEW r, NEW v, Begin(q, o, s, u, r, v)
  PROVE  /\ pc[q] = "idle" /\ op'[q] = o /\ pc'[q] = s /\ who'[q] = u /\ where'[q] = r
         /\ now'[q] = (IF o = "expire" THEN clock ELSE 0)
         /\ held'[q] = held[q] /\ mine'[q] = mine[q] /\ row'[q] = row[q]
         /\ \A p \in Request \ {q} : Same(p)
  BY DEF TypeOK, Begin, Same, lockVars
-----------------------------------------------------------------------------
(* Types. *)

DataType ==
    /\ status \in [User -> Status]
    /\ account \in [User -> BOOLEAN]
    /\ since \in [User -> (0..MaxClock) \cup {Null}]
    /\ room \in [Room -> {"unused", "open", "gone"}]
    /\ role \in [Room -> Roles]

LEMMA NobodyType == Nobody \in Roles
  BY DEF Nobody, Roles, Role

\* Every request starts with locks on nothing and values of the right kind.
LEMMA BeginType ==
  ASSUME TypeOK, NEW q \in Request, NEW o \in Op, NEW s \in Step \ {"idle"}, NEW u \in User \cup {Admin},
         NEW r \in Room \cup {Null}, NEW v \in Status, Begin(q, o, s, u, r, v)
  PROVE  TypeOK'
<1>1. /\ op' \in [Request -> Op] /\ pc' \in [Request -> Step] /\ who' \in [Request -> User \cup {Admin}]
      /\ where' \in [Request -> Room \cup {Null}] /\ saw' \in [Request -> Status]
  BY DEF TypeOK, Begin
<1>2. now' \in [Request -> 0..MaxClock]
  BY AccountsAssumption DEF TypeOK, Begin
<1>3. UNCHANGED <<clock, status, account, since, room, role, row, mine, held, owned, roles>>
  BY DEF Begin, dataVars, lockVars
<1>4. \A p \in Request : pc'[p] = "idle" => pc[p] = "idle"
  BY DEF TypeOK, Begin
<1> QED BY <1>1, <1>2, <1>3, <1>4 DEF TypeOK

\* Every request ends with its locks given back.
LEMMA ReturnType ==
  ASSUME TypeOK, NEW q \in Request, Return(q), DataType'
  PROVE  TypeOK'
<1>1. /\ op' \in [Request -> Op] /\ pc' \in [Request -> Step] /\ who' \in [Request -> User \cup {Admin}]
      /\ where' \in [Request -> Room \cup {Null}] /\ saw' \in [Request -> Status]
  BY DEF TypeOK, Return, Op, Step, Status
<1>2. now' \in [Request -> 0..MaxClock] /\ clock' \in 0..MaxClock
  BY AccountsAssumption DEF TypeOK, Return
<1>3. /\ row' \in [Request -> BOOLEAN] /\ mine' \in [Request -> BOOLEAN]
      /\ held' \in [Request -> SUBSET Room] /\ owned' \in [Request -> SUBSET Room]
  BY DEF TypeOK, Return
<1>4. roles' \in [Request -> [Room -> Roles]]
  BY NobodyType DEF TypeOK, Return
<1>5. \A p \in Request : pc'[p] = "idle" => ~row'[p] /\ ~mine'[p] /\ held'[p] = {}
  <2>1. Over(q) /\ \A p \in Request \ {q} : Same(p) BY ReturnShape
  <2> QED BY <2>1 DEF TypeOK, Over, Same
<1> QED BY <1>1, <1>2, <1>3, <1>4, <1>5 DEF TypeOK, DataType

\* A step that reads under a lock keeps the types.
LEMMA LockMembersType ==
  ASSUME TypeOK, NEW q \in Request, NEW r \in Room, LockMembers(q, r)
  PROVE  held' \in [Request -> SUBSET Room] /\ roles' \in [Request -> [Room -> Roles]]
  BY DEF TypeOK, LockMembers

LEMMA StartsType ==
  ASSUME TypeOK, NEW q \in Request, NEW u \in User, Start(q, u)
  PROVE  TypeOK'
<1> USE DEF Op, Step, Status
<1>1. CASE StartCreate(q, u) BY <1>1, BeginType DEF StartCreate
<1>2. CASE StartWithdraw(q, u) BY <1>2, BeginType DEF StartWithdraw
<1>3. CASE StartDelete(q, u) BY <1>3, BeginType DEF StartDelete
<1>4. CASE StartExpire(q, u) BY <1>4, BeginType DEF StartExpire
<1>5. CASE StartSave(q, u)
  <2>1. status[u] \in Status BY DEF TypeOK
  <2> QED BY <1>5, <2>1, BeginType DEF StartSave
<1>6. CASE StartLogin(q, u) BY <1>6, BeginType DEF StartLogin
<1>7. ASSUME NEW v \in Status, StartStatus(q, u, v) PROVE TypeOK'
  BY <1>7, BeginType DEF StartStatus
<1>8. ASSUME NEW r \in Room, StartJoin(q, u, r) \/ StartLeave(q, u, r) \/ StartUpdate(q, u, r) PROVE TypeOK'
  BY <1>8, BeginType DEF StartJoin, StartLeave, StartUpdate
<1> QED BY <1>1, <1>2, <1>3, <1>4, <1>5, <1>6, <1>7, <1>8 DEF Start

\* The roles after handOverOwnerships have the type of the roles before.
LEMMA HandOverType ==
  ASSUME TypeOK, NEW q \in Request, CommitWithdraw(q) \/ CommitPurge(q), who[q] \in User
  PROVE  role' \in [Room -> Roles]
<1> DEFINE u == who[q]
<1>1. Handed(q) \subseteq Room BY DEF Handed, TypeOK
<1>2. PICK heir \in Heirs(Handed(q), u) :
         role' = [r \in Room |-> IF r \in Handed(q) THEN [role[r] EXCEPT ![heir[r]] = "owner"] ELSE role[r]]
         \/ role' = [r \in Room |->
                     IF r \in Deserted(q) THEN Nobody
                     ELSE IF r \in Handed(q) THEN [role[r] EXCEPT ![heir[r]] = "owner", ![u] = "none"]
                     ELSE [role[r] EXCEPT ![u] = "none"]]
  BY DEF CommitWithdraw, CommitPurge
<1>3. ASSUME NEW r \in Room PROVE role'[r] \in Roles
  <2>1. role[r] \in Roles BY DEF TypeOK
  <2>2. [role[r] EXCEPT ![u] = "none"] \in Roles BY <2>1 DEF Roles, Role
  <2>3. ASSUME r \in Handed(q)
        PROVE  /\ [role[r] EXCEPT ![heir[r]] = "owner"] \in Roles
               /\ [role[r] EXCEPT ![heir[r]] = "owner", ![u] = "none"] \in Roles
    <3>1. heir[r] \in User BY <1>2, <2>3 DEF Heirs
    <3> QED BY <2>1, <3>1 DEF Roles, Role
  <2> QED BY <1>2, <2>1, <2>2, <2>3, NobodyType
<1> QED BY <1>2, <1>3

\* Commits and statements outside of transactions keep the types of the tables.
LEMMA WritesType ==
  ASSUME TypeOK, Stages, NEW q \in Request,
         \/ SaveCommunityWithRoom(q) \/ AddUserToRoom(q) \/ RemoveUserFromRoom(q) \/ SetRoomUserRoles(q)
         \/ CommitWithdraw(q) \/ CommitPurge(q) \/ SaveCredentials(q) \/ WriteStatus(q) \/ ReactivateUser(q)
         \/ Fail(q)
  PROVE  Return(q) /\ DataType'
<1>0. DataType BY DEF TypeOK, DataType
<1>1. CASE SaveCommunityWithRoom(q)
  <2>1. who[q] \in User BY <1>1 DEF Stages, Stage, SaveCommunityWithRoom
  <2> QED BY <1>0, <1>1, <2>1 DEF DataType, SaveCommunityWithRoom, Roles, Role
<1>2. CASE AddUserToRoom(q)
  <2>1. who[q] \in User /\ where[q] \in Room BY <1>2 DEF Stages, Stage, AddUserToRoom
  <2> QED BY <1>0, <1>2, <2>1 DEF DataType, AddUserToRoom, Roles, Role
<1>3. CASE RemoveUserFromRoom(q)
  <2>1. who[q] \in User /\ where[q] \in Room BY <1>3 DEF Stages, Stage, RemoveUserFromRoom
  <2>2. role' = [role EXCEPT ![where[q]] = Nobody] \/ role' = [role EXCEPT ![where[q]][who[q]] = "none"]
    BY <1>3 DEF RemoveUserFromRoom
  <2>3. [role[where[q]] EXCEPT ![who[q]] = "none"] \in Roles BY <1>0, <2>1 DEF DataType, Roles, Role
  <2>4. role' \in [Room -> Roles] BY <1>0, <2>1, <2>2, <2>3, NobodyType DEF DataType
  <2> QED BY <1>0, <1>3, <2>1, <2>4 DEF DataType, RemoveUserFromRoom
<1>4. CASE SetRoomUserRoles(q)
  <2>1. where[q] \in Room BY <1>4 DEF Stages, Stage, SetRoomUserRoles
  <2> QED BY <1>0, <1>4, <2>1 DEF DataType, SetRoomUserRoles, Updated
<1>5. CASE CommitWithdraw(q)
  <2>1. who[q] \in User BY <1>5 DEF Stages, Stage, CommitWithdraw
  <2>2. role' \in [Room -> Roles] BY <1>5, <2>1, HandOverType
  <2>3. now[q] \in 0..MaxClock BY DEF TypeOK
  <2> QED BY <1>0, <1>5, <2>1, <2>2, <2>3 DEF DataType, CommitWithdraw, Status
<1>6. CASE CommitPurge(q)
  <2>1. who[q] \in User BY <1>6 DEF Stages, Stage, CommitPurge
  <2>2. role' \in [Room -> Roles] BY <1>6, <2>1, HandOverType
  <2> QED BY <1>0, <1>6, <2>1, <2>2 DEF DataType, CommitPurge, Status
<1>7. CASE SaveCredentials(q) \/ WriteStatus(q)
  <2>1. who[q] \in User BY <1>7 DEF Stages, Stage, SaveCredentials, WriteStatus
  <2>2. saw[q] \in Status BY DEF TypeOK
  <2> QED BY <1>0, <1>7, <2>1, <2>2 DEF DataType, SaveCredentials, WriteStatus
<1>8. CASE ReactivateUser(q)
  <2>1. who[q] \in User BY <1>8 DEF Stages, Stage, ReactivateUser
  <2> QED BY <1>0, <1>8, <2>1 DEF DataType, ReactivateUser, Status
<1>9. CASE Fail(q) BY <1>0, <1>9 DEF DataType, Fail, dataVars
<1> QED BY <1>1, <1>2, <1>3, <1>4, <1>5, <1>6, <1>7, <1>8, <1>9

LEMMA LocksType ==
  ASSUME TypeOK, Stages, NEW q \in Request, LockRoom(q) \/ LockUserLifecycle(q) \/ LockMemberships(q) \/ LockOwned(q)
  PROVE  TypeOK'
<1>1. CASE LockRoom(q)
  <2>1. where[q] \in Room BY <1>1 DEF Stages, Stage, LockRoom
  <2>2. held' \in [Request -> SUBSET Room] /\ roles' \in [Request -> [Room -> Roles]]
    BY <1>1, <2>1, LockMembersType DEF LockRoom
  <2>3. pc' \in [Request -> Step] BY <1>1 DEF TypeOK, LockRoom, Step
  <2>4. \A p \in Request : pc'[p] = "idle" => p # q /\ pc[p] = "idle" /\ held'[p] = held[p]
    BY <1>1 DEF TypeOK, LockRoom, LockMembers
  <2> QED BY <1>1, <2>2, <2>3, <2>4 DEF TypeOK, LockRoom, dataVars, callVars
<1>2. CASE LockUserLifecycle(q)
  <2>1. CASE Return(q)
    <3>1. DataType' BY <1>2 DEF TypeOK, DataType, LockUserLifecycle, dataVars
    <3> QED BY <2>1, <3>1, ReturnType
  <2>2. CASE ~Return(q)
    <3>1. /\ pc[q] = "lifecycle" /\ pc' = [pc EXCEPT ![q] = "memberships"] /\ row' = [row EXCEPT ![q] = TRUE]
          /\ now' = [now EXCEPT ![q] = IF op[q] = "withdraw" THEN clock ELSE @]
          /\ UNCHANGED <<clock, status, account, since, room, role, op, who, where, saw, mine, held, owned, roles>>
      BY <1>2, <2>2 DEF LockUserLifecycle, dataVars
    <3>2. pc' \in [Request -> Step] BY <3>1 DEF TypeOK, Step
    <3>3. now' \in [Request -> 0..MaxClock] BY <3>1 DEF TypeOK
    <3>4. row' \in [Request -> BOOLEAN] BY <3>1 DEF TypeOK
    <3>5. \A p \in Request : pc'[p] = "idle" => p # q /\ pc[p] = "idle" /\ row'[p] = row[p]
      BY <3>1 DEF TypeOK
    <3> QED BY <3>1, <3>2, <3>3, <3>4, <3>5 DEF TypeOK
  <2> QED BY <2>1, <2>2
<1>3. CASE LockMemberships(q)
  <2>1. pc' \in [Request -> Step] BY <1>3 DEF TypeOK, LockMemberships, Step
  <2>2. mine' \in [Request -> BOOLEAN] BY <1>3 DEF TypeOK, LockMemberships
  <2>3. owned' \in [Request -> SUBSET Room] BY <1>3 DEF TypeOK, LockMemberships
  <2>4. \A p \in Request : pc'[p] = "idle" => p # q /\ pc[p] = "idle" /\ mine'[p] = mine[p]
    BY <1>3 DEF TypeOK, LockMemberships
  <2> QED BY <1>3, <2>1, <2>2, <2>3, <2>4 DEF TypeOK, LockMemberships, dataVars, callVars
<1>4. CASE LockOwned(q)
  <2>1. PICK r \in Room : LockMembers(q, r) BY <1>4 DEF TypeOK, LockOwned
  <2>2. held' \in [Request -> SUBSET Room] /\ roles' \in [Request -> [Room -> Roles]]
    BY <2>1, LockMembersType
  <2>3. \A p \in Request : pc[p] = "idle" => held'[p] = held[p]
    BY <1>4, <2>1 DEF TypeOK, LockOwned, LockMembers
  <2> QED BY <1>4, <2>2, <2>3 DEF TypeOK, LockOwned, dataVars, callVars
<1> QED BY <1>1, <1>2, <1>3, <1>4

LEMMA TypeStep ==
  ASSUME TypeOK, Stages, [Next]_vars
  PROVE  TypeOK'
<1>1. CASE UNCHANGED vars BY <1>1 DEF TypeOK, vars, dataVars, callVars, lockVars
<1>2. CASE Tick
  <2>1. clock' \in 0..MaxClock BY <1>2, AccountsAssumption DEF TypeOK, Tick
  <2> QED BY <1>2, <2>1 DEF TypeOK, Tick, dataVars, callVars, lockVars
<1>3. ASSUME NEW q \in Request, NEW u \in User, Start(q, u) PROVE TypeOK'
  BY <1>3, StartsType
<1>4. ASSUME NEW q \in Request, NEW r \in Room, StartUpdate(q, Admin, r) PROVE TypeOK'
  BY <1>4, BeginType DEF StartUpdate, Op, Step, Status
<1>5. ASSUME NEW q \in Request, Continue(q) PROVE TypeOK'
  BY <1>5, WritesType, LocksType, ReturnType DEF Continue
<1> QED BY <1>1, <1>2, <1>3, <1>4, <1>5 DEF Next
-----------------------------------------------------------------------------
(* Stages. *)

LEMMA LockShape ==
  ASSUME TypeOK, NEW q \in Request, LockRoom(q) \/ LockMemberships(q) \/ LockOwned(q)
                                    \/ (LockUserLifecycle(q) /\ ~Return(q))
  PROVE  /\ \A p \in Request \ {q} : Same(p)
         /\ op'[q] = op[q] /\ who'[q] = who[q] /\ where'[q] = where[q]
         /\ UNCHANGED <<clock, status, account, since, room, role>>
<1>1. CASE LockRoom(q) BY <1>1 DEF TypeOK, LockRoom, LockMembers, Same, dataVars, callVars
<1>2. CASE LockMemberships(q) BY <1>2 DEF TypeOK, LockMemberships, Same, dataVars, callVars
<1>3. CASE LockOwned(q)
  <2>1. PICK r \in Room : LockMembers(q, r) BY <1>3 DEF TypeOK, LockOwned
  <2> QED BY <1>3, <2>1 DEF TypeOK, LockOwned, LockMembers, Same, dataVars, callVars
<1>4. CASE LockUserLifecycle(q) /\ ~Return(q) BY <1>4 DEF TypeOK, LockUserLifecycle, Same, dataVars
<1> QED BY <1>1, <1>2, <1>3, <1>4

\* Each request begins without locks.
LEMMA StartStage ==
  ASSUME TypeOK, Stages, NEW q \in Request, NEW u \in User \cup {Admin},
         (u \in User /\ Start(q, u)) \/ \E r \in Room : StartUpdate(q, u, r)
  PROVE  /\ Stage(q)' /\ \A p \in Request \ {q} : Same(p)
         /\ pc[q] = "idle" /\ pc'[q] \notin {"memberships", "rooms"} /\ held'[q] = {} /\ ~mine'[q] /\ ~row'[q]
         /\ op'[q] = "expire" => now'[q] = clock
         /\ UNCHANGED <<clock, status, account, since, room, role>>
<1> DEFINE Goal == /\ Stage(q)' /\ \A p \in Request \ {q} : Same(p)
                   /\ pc[q] = "idle" /\ pc'[q] \notin {"memberships", "rooms"} /\ held'[q] = {} /\ ~mine'[q] /\ ~row'[q]
                   /\ op'[q] = "expire" => now'[q] = clock
                   /\ UNCHANGED <<clock, status, account, since, room, role>>
<1>0. ASSUME NEW o, NEW s \in {"insert", "lock", "lifecycle", "write"}, NEW r, NEW v, Begin(q, o, s, u, r, v),
             s # "lock" => u \in User, s = "lock" => r \in Room /\ (o = "leave" => u \in User),
             o = "join" => r \in Room
      PROVE  Goal
  <2>1. /\ pc[q] = "idle" /\ op'[q] = o /\ pc'[q] = s /\ who'[q] = u /\ where'[q] = r
        /\ now'[q] = (IF o = "expire" THEN clock ELSE 0)
        /\ held'[q] = held[q] /\ mine'[q] = mine[q] /\ row'[q] = row[q]
        /\ \A p \in Request \ {q} : Same(p)
    BY <1>0, BeginShape
  <2>2. held[q] = {} /\ ~mine[q] /\ ~row[q] BY <2>1 DEF Stages, Stage
  <2>3. Stage(q)' BY <1>0, <2>1, <2>2 DEF Stage
  <2>4. UNCHANGED <<clock, status, account, since, room, role>> BY <1>0 DEF Begin, dataVars
  <2> QED BY <1>0, <2>1, <2>2, <2>3, <2>4
<1> HIDE DEF Goal
<1>1. ASSUME u \in User, StartCreate(q, u) PROVE Goal
  <2>1. Begin(q, "create", "insert", u, Null, "active") BY <1>1 DEF StartCreate
  <2> QED BY <1>0, <1>1, <2>1
<1>2. ASSUME u \in User, StartWithdraw(q, u) PROVE Goal
  <2>1. Begin(q, "withdraw", "lifecycle", u, Null, "active") BY <1>2 DEF StartWithdraw
  <2> QED BY <1>0, <1>2, <2>1
<1>3. ASSUME u \in User, StartDelete(q, u) PROVE Goal
  <2>1. Begin(q, "delete", "lifecycle", u, Null, "active") BY <1>3 DEF StartDelete
  <2> QED BY <1>0, <1>3, <2>1
<1>4. ASSUME u \in User, StartExpire(q, u) PROVE Goal
  <2>1. Begin(q, "expire", "lifecycle", u, Null, "active") BY <1>4 DEF StartExpire
  <2> QED BY <1>0, <1>4, <2>1
<1>5. ASSUME u \in User, StartSave(q, u) PROVE Goal
  <2>1. Begin(q, "save", "write", u, Null, status[u]) BY <1>5 DEF StartSave
  <2> QED BY <1>0, <1>5, <2>1
<1>6. ASSUME u \in User, StartLogin(q, u) PROVE Goal
  <2>1. Begin(q, "login", "write", u, Null, "active") BY <1>6 DEF StartLogin
  <2> QED BY <1>0, <1>6, <2>1
<1>7. ASSUME u \in User, NEW v \in Status, StartStatus(q, u, v) PROVE Goal
  <2>1. Begin(q, "status", "write", u, Null, v) BY <1>7 DEF StartStatus
  <2> QED BY <1>0, <1>7, <2>1
<1>8. ASSUME u \in User, NEW r \in Room, StartJoin(q, u, r) \/ StartLeave(q, u, r) PROVE Goal
  BY <1>0, <1>8 DEF StartJoin, StartLeave
<1>9. ASSUME NEW r \in Room, StartUpdate(q, u, r) PROVE Goal BY <1>0, <1>9 DEF StartUpdate
<1> QED BY <1>1, <1>2, <1>3, <1>4, <1>5, <1>6, <1>7, <1>8, <1>9 DEF Start, Goal

LEMMA StagesStep ==
  ASSUME TypeOK, Stages, [Next]_vars
  PROVE  Stages'
<1>0. \A p \in Request : Stage(p) BY DEF Stages
<1>a. ASSUME NEW p \in Request, Same(p) PROVE Stage(p)' BY <1>0, <1>a DEF Stage, Same
<1>b. ASSUME NEW q \in Request, Return(q) PROVE Stages'
  <2>1. Over(q) /\ \A p \in Request \ {q} : Same(p) BY <1>b, ReturnShape
  <2>2. Stage(q)' BY <2>1 DEF Over, Stage
  <2> QED BY <1>a, <2>1, <2>2 DEF Stages
<1>1. CASE UNCHANGED vars BY <1>0, <1>1 DEF Stages, Stage, vars, dataVars, callVars, lockVars
<1>2. CASE Tick BY <1>0, <1>2 DEF Stages, Stage, Tick, dataVars, callVars, lockVars
<1>3. ASSUME NEW q \in Request, NEW u \in User \cup {Admin},
             (u \in User /\ Start(q, u)) \/ \E r \in Room : StartUpdate(q, u, r) PROVE Stages'
  <2>1. Stage(q)' /\ \A p \in Request \ {q} : Same(p) BY <1>3, StartStage
  <2> QED BY <1>a, <2>1 DEF Stages
<1>4. ASSUME NEW q \in Request, LockRoom(q) \/ LockMemberships(q) \/ LockOwned(q) \/ (LockUserLifecycle(q) /\ ~Return(q))
      PROVE  Stages'
  <2>1. /\ \A p \in Request \ {q} : Same(p)
        /\ op'[q] = op[q] /\ who'[q] = who[q] /\ where'[q] = where[q] BY <1>4, LockShape
  <2>2. CASE LockRoom(q)
    <3>1. /\ pc[q] = "lock" /\ pc'[q] = "apply" /\ held'[q] = held[q] \cup {where[q]}
          /\ mine'[q] = mine[q] /\ row'[q] = row[q] BY <2>2 DEF TypeOK, LockRoom, LockMembers
    <3>2. Stage(q)' BY <1>0, <2>1, <3>1 DEF Stage
    <3> QED BY <1>a, <2>1, <3>2 DEF Stages
  <2>3. CASE LockMemberships(q)
    <3>1. pc[q] = "memberships" /\ pc'[q] = "rooms" /\ mine'[q] /\ row'[q] = row[q]
      BY <2>3 DEF TypeOK, LockMemberships
    <3>2. Stage(q)' BY <1>0, <2>1, <3>1 DEF Stage
    <3> QED BY <1>a, <2>1, <3>2 DEF Stages
  <2>4. CASE LockOwned(q)
    <3>1. pc[q] = "rooms" /\ pc'[q] = "rooms" /\ mine'[q] = mine[q] /\ row'[q] = row[q]
      BY <2>4 DEF TypeOK, LockOwned
    <3>2. Stage(q)' BY <1>0, <2>1, <3>1 DEF Stage
    <3> QED BY <1>a, <2>1, <3>2 DEF Stages
  <2>5. CASE LockUserLifecycle(q) /\ ~Return(q)
    <3>1. pc[q] = "lifecycle" /\ pc'[q] = "memberships" /\ row'[q] /\ mine'[q] = mine[q] /\ held'[q] = held[q]
      BY <2>5 DEF TypeOK, LockUserLifecycle
    <3>2. Stage(q)' BY <1>0, <2>1, <3>1 DEF Stage
    <3> QED BY <1>a, <2>1, <3>2 DEF Stages
  <2> QED BY <1>4, <2>2, <2>3, <2>4, <2>5
<1>5. ASSUME NEW q \in Request, Continue(q) PROVE Stages'
  <2>1. \/ Return(q)
        \/ LockRoom(q) \/ LockMemberships(q) \/ LockOwned(q) \/ (LockUserLifecycle(q) /\ ~Return(q))
    BY <1>5, WritesType DEF Continue
  <2> QED BY <1>b, <1>4, <2>1
<1> QED BY <1>1, <1>2, <1>3, <1>5 DEF Next
-----------------------------------------------------------------------------
(* What a step does to rows that other transactions have locked. *)

\* Only a transaction that ends an account locks the rows of a user.
LEMMA MineStage ==
  ASSUME TypeOK, Stages, NEW p \in Request, mine[p]
  PROVE  who[p] \in User
<1>1. pc[p] \in Step BY DEF TypeOK
<1> QED BY <1>1 DEF Stages, Stage, Step

\* The new owner is one of the others.
LEMMA HeirsAreMembers ==
  ASSUME NEW q \in Request, NEW heir \in Heirs(Handed(q), who[q]), NEW r \in Handed(q)
  PROVE  heir[r] \in Members(role[r]) \ {who[q]}
  BY DEF Heirs, Successors

\* No step changes a row of room_users that another transaction has locked.
LEMMA LockedStays ==
  ASSUME TypeOK, Stages, Exclusive, Accurate, NEW q \in Request, Continue(q), NEW p \in Request \ {q}
  PROVE  /\ \A r \in held[p] : role'[r] = role[r]
         /\ mine[p] => \A r \in Room : role'[r][who[p]] = role[r][who[p]]
<1> DEFINE Goal == /\ \A r \in held[p] : role'[r] = role[r]
                   /\ mine[p] => \A r \in Room : role'[r][who[p]] = role[r][who[p]]
<1>0. /\ role \in [Room -> Roles] /\ held[p] \subseteq Room /\ held[q] \subseteq Room /\ owned[q] \subseteq Room
      /\ \A r \in Room : role[r] \in Roles
  BY DEF TypeOK
<1>m. mine[p] => who[p] \in User BY MineStage
<1>x. /\ held[p] \cap held[q] = {} /\ (mine[p] /\ mine[q] => who[p] # who[q])
      /\ mine[p] => \A r \in held[q] : who[p] \notin Members(role[r])
      /\ mine[q] => \A r \in held[p] : who[q] \notin Members(role[r])
  BY DEF Exclusive
<1>y. ASSUME mine[p], NEW r \in held[q] PROVE role[r][who[p]] = "none"
  BY <1>m, <1>x, <1>y DEF Members
<1>1. CASE SaveCommunityWithRoom(q) \/ AddUserToRoom(q)
  <2>1. PICK r \in Room, k \in Role : /\ role' = role \/ role' = [role EXCEPT ![r][who[q]] = k]
                                      /\ InsertFree(q, r, who[q])
    <3>1. CASE SaveCommunityWithRoom(q) BY <3>1 DEF SaveCommunityWithRoom, Role
    <3>2. CASE AddUserToRoom(q)
      <4>1. where[q] \in Room BY <3>2 DEF AddUserToRoom, Stages, Stage
      <4> QED BY <3>2, <4>1 DEF AddUserToRoom, Role
    <3> QED BY <1>1, <3>1, <3>2
  <2>2. r \notin held[p] /\ ~(mine[p] /\ who[p] = who[q]) BY <2>1 DEF InsertFree, Others
  <2>3. \A s \in held[p] : role'[s] = role[s] BY <1>0, <2>1, <2>2
  <2>4. ASSUME mine[p], NEW s \in Room PROVE role'[s][who[p]] = role[s][who[p]]
    <3>1. who[p] \in User /\ who[p] # who[q] BY <1>m, <2>2, <2>4
    <3>2. role[s] \in [User -> Role] BY <1>0 DEF Roles
    <3>3. CASE role' = role BY <3>3
    <3>4. CASE role' = [role EXCEPT ![r][who[q]] = k] /\ s = r
      <4>1. role'[s] = [role[s] EXCEPT ![who[q]] = k] BY <1>0, <3>4
      <4> QED BY <3>1, <3>2, <4>1
    <3>5. CASE role' = [role EXCEPT ![r][who[q]] = k] /\ s # r BY <1>0, <3>5
    <3> QED BY <2>1, <3>3, <3>4, <3>5
  <2> QED BY <2>3, <2>4
<1>2. CASE RemoveUserFromRoom(q) \/ SetRoomUserRoles(q)
  <2>1. where[q] \in Room /\ held[q] = {where[q]} BY <1>2 DEF RemoveUserFromRoom, SetRoomUserRoles, Stages, Stage
  <2>2. roles[q][where[q]] = role[where[q]] BY <2>1 DEF Accurate
  <2>3. where[q] \notin held[p] BY <1>x, <2>1
  <2>4. \A s \in Room : s # where[q] => role'[s] = role[s]
    BY <1>0, <1>2, <2>1 DEF RemoveUserFromRoom, SetRoomUserRoles
  <2>5. ASSUME mine[p] PROVE role'[where[q]][who[p]] = role[where[q]][who[p]]
    <3>1. role[where[q]][who[p]] = "none" /\ who[p] \in User BY <1>y, <1>m, <2>1, <2>5
    <3>2. CASE RemoveUserFromRoom(q)
      <4>1. who[q] \in Members(role[where[q]]) BY <2>2, <3>2 DEF RemoveUserFromRoom, MayLeave
      <4>2. who[p] # who[q] BY <3>1, <4>1 DEF Members
      <4>3. \/ role' = [role EXCEPT ![where[q]] = Nobody] \/ role' = [role EXCEPT ![where[q]][who[q]] = "none"]
        BY <3>2 DEF RemoveUserFromRoom
      <4> QED BY <1>0, <2>1, <3>1, <4>2, <4>3 DEF Nobody, Roles
    <3>3. CASE SetRoomUserRoles(q)
      <4>1. PICK S \in Updated(role[where[q]]) : role' = [role EXCEPT ![where[q]] = S]
        BY <2>2, <3>3 DEF SetRoomUserRoles
      <4> QED BY <1>0, <2>1, <3>1, <4>1 DEF Updated
    <3> QED BY <1>2, <3>2, <3>3
  <2> QED BY <1>0, <2>3, <2>4, <2>5
<1>3. CASE CommitWithdraw(q)
  <2>1. PICK heir \in Heirs(Handed(q), who[q]) :
          role' = [r \in Room |-> IF r \in Handed(q) THEN [role[r] EXCEPT ![heir[r]] = "owner"] ELSE role[r]]
    BY <1>3 DEF CommitWithdraw
  <2>2. Handed(q) \subseteq held[q] BY <1>3 DEF CommitWithdraw, Handed
  <2>3. \A r \in held[p] : role'[r] = role[r] BY <1>0, <1>x, <2>1, <2>2
  <2>4. ASSUME mine[p], NEW r \in Room PROVE role'[r][who[p]] = role[r][who[p]]
    <3>1. CASE r \in Handed(q)
      <4>1. heir[r] \in Members(role[r]) BY <3>1, HeirsAreMembers
      <4>2. heir[r] # who[p] BY <1>x, <2>2, <2>4, <3>1, <4>1
      <4> QED BY <1>0, <2>1, <3>1, <4>2 DEF Roles
    <3>2. CASE r \notin Handed(q) BY <2>1, <3>2
    <3> QED BY <3>1, <3>2
  <2> QED BY <2>3, <2>4
<1>4. CASE CommitPurge(q)
  <2>1. PICK heir \in Heirs(Handed(q), who[q]) :
          role' = [r \in Room |->
                     IF r \in Deserted(q) THEN Nobody
                     ELSE IF r \in Handed(q) THEN [role[r] EXCEPT ![heir[r]] = "owner", ![who[q]] = "none"]
                     ELSE [role[r] EXCEPT ![who[q]] = "none"]]
    BY <1>4 DEF CommitPurge
  <2>2. Handed(q) \subseteq held[q] /\ Deserted(q) \subseteq held[q] BY <1>4 DEF CommitPurge, Handed, Deserted
  <2>3. mine[q] /\ who[q] \in User BY <1>4 DEF CommitPurge, Stages, Stage
  <2>4. ASSUME NEW r \in held[p] PROVE role'[r] = role[r]
    <3>1. r \notin Handed(q) /\ r \notin Deserted(q) /\ r \in Room BY <1>0, <1>x, <2>2
    <3>2. role[r][who[q]] = "none" BY <1>x, <2>3 DEF Members
    <3>3. role'[r] = [role[r] EXCEPT ![who[q]] = "none"] BY <2>1, <3>1
    <3> QED BY <1>0, <2>3, <3>1, <3>2, <3>3 DEF Roles
  <2>5. ASSUME mine[p], NEW r \in Room PROVE role'[r][who[p]] = role[r][who[p]]
    <3>0. who[p] # who[q] /\ who[p] \in User BY <1>x, <1>m, <2>3, <2>5
    <3>1. CASE r \in Deserted(q)
      <4>1. role[r][who[p]] = "none" BY <1>y, <2>2, <2>5, <3>1
      <4>2. role'[r] = Nobody BY <2>1, <3>1
      <4> QED BY <3>0, <4>1, <4>2 DEF Nobody
    <3>2. CASE r \in Handed(q) /\ r \notin Deserted(q)
      <4>1. heir[r] \in Members(role[r]) BY <3>2, HeirsAreMembers
      <4>2. heir[r] # who[p] BY <1>x, <2>2, <2>5, <3>2, <4>1
      <4>3. role'[r] = [role[r] EXCEPT ![heir[r]] = "owner", ![who[q]] = "none"] BY <2>1, <3>2
      <4> QED BY <1>0, <3>0, <4>2, <4>3 DEF Roles
    <3>3. CASE r \notin Handed(q) /\ r \notin Deserted(q)
      <4>1. role'[r] = [role[r] EXCEPT ![who[q]] = "none"] BY <2>1, <3>3
      <4> QED BY <1>0, <3>0, <4>1 DEF Roles
    <3> QED BY <3>1, <3>2, <3>3
  <2> QED BY <2>4, <2>5
<1>5. ASSUME role' = role PROVE Goal BY <1>5
<1>6. \/ SaveCommunityWithRoom(q) \/ AddUserToRoom(q) \/ RemoveUserFromRoom(q) \/ SetRoomUserRoles(q)
      \/ CommitWithdraw(q) \/ CommitPurge(q) \/ role' = role
  BY DEF Continue, LockRoom, LockUserLifecycle, LockMemberships, LockOwned, SaveCredentials, WriteStatus,
         ReactivateUser, Fail, dataVars
<1> QED BY <1>1, <1>2, <1>3, <1>4, <1>5, <1>6

\* No step changes the users row that another transaction has locked.
LEMMA StatusStays ==
  ASSUME TypeOK, Stages, Exclusive, NEW q \in Request, Continue(q), NEW p \in Request \ {q}, row[p]
  PROVE  status'[who[p]] = status[who[p]] /\ since'[who[p]] = since[who[p]]
<1>0. status \in [User -> Status] /\ since \in [User -> (0..MaxClock) \cup {Null}] /\ pc[p] \in Step
  BY DEF TypeOK
<1>p. who[p] \in User BY <1>0 DEF Stages, Stage, Step
<1>1. CASE SaveCredentials(q) \/ WriteStatus(q) \/ ReactivateUser(q)
  <2>1. who[p] # who[q] BY <1>1 DEF SaveCredentials, WriteStatus, ReactivateUser, RowFree, Others
  <2>2. who[q] \in User BY <1>1 DEF SaveCredentials, WriteStatus, ReactivateUser, Stages, Stage
  <2> QED BY <1>0, <1>p, <1>1, <2>1, <2>2 DEF SaveCredentials, WriteStatus, ReactivateUser
<1>2. CASE CommitWithdraw(q) \/ CommitPurge(q)
  <2>1. row[q] /\ who[q] \in User BY <1>2 DEF CommitWithdraw, CommitPurge, Stages, Stage
  <2>2. who[p] # who[q] BY <2>1 DEF Exclusive
  <2> QED BY <1>0, <1>p, <1>2, <2>1, <2>2 DEF CommitWithdraw, CommitPurge
<1>3. \/ SaveCredentials(q) \/ WriteStatus(q) \/ ReactivateUser(q) \/ CommitWithdraw(q) \/ CommitPurge(q)
      \/ UNCHANGED <<status, since>>
  BY DEF Continue, LockRoom, LockUserLifecycle, LockMemberships, LockOwned, SaveCommunityWithRoom, AddUserToRoom,
         RemoveUserFromRoom, SetRoomUserRoles, Fail, dataVars
<1> QED BY <1>1, <1>2, <1>3

\* A request that has ended, or one that has just begun, has no row locked.
NoLocks(q) == ~row'[q] /\ ~mine'[q] /\ held'[q] = {} /\ pc'[q] \notin {"memberships", "rooms"}

\* A step after which request q has no locks, and that does not change rows which
\* others have locked, keeps the locks exclusive and what was read under them.
LEMMA WithoutLocks ==
  ASSUME IInv, NEW q \in Request, NoLocks(q),
         \A p \in Request \ {q} : Same(p),
         \A p \in Request \ {q} : /\ \A r \in held[p] : role'[r] = role[r]
                                  /\ mine[p] => \A r \in Room : role'[r][who[p]] = role[r][who[p]]
                                  /\ row[p] => status'[who[p]] = status[who[p]] /\ since'[who[p]] = since[who[p]],
         op'[q] = "expire" => now'[q] = clock,
         clock' = clock
  PROVE  Exclusive' /\ Accurate' /\ Owned' /\ Lawful'
<1>0. TypeOK /\ Stages /\ Exclusive /\ Accurate /\ Owned /\ Lawful BY DEF IInv
<1>1. Exclusive'
  <2> SUFFICES ASSUME NEW p \in Request, NEW o \in Request, p # o
               PROVE  /\ held'[p] \cap held'[o] = {}
                      /\ mine'[p] /\ mine'[o] => who'[p] # who'[o]
                      /\ mine'[o] => \A r \in held'[p] : who'[o] \notin Members(role'[r])
                      /\ row'[p] /\ row'[o] => who'[p] # who'[o]
    BY DEF Exclusive
  <2>1. CASE p = q \/ o = q BY <2>1 DEF NoLocks
  <2>2. CASE p # q /\ o # q
    <3>1. Same(p) /\ Same(o) /\ \A r \in held[p] : role'[r] = role[r] BY <2>2
    <3>2. /\ held[p] \cap held[o] = {}
          /\ mine[p] /\ mine[o] => who[p] # who[o]
          /\ mine[o] => \A r \in held[p] : who[o] \notin Members(role[r])
          /\ row[p] /\ row[o] => who[p] # who[o]
      BY <1>0, <2>2 DEF Exclusive
    <3> QED BY <3>1, <3>2 DEF Same
  <2> QED BY <2>1, <2>2
<1>2. Accurate'
  <2> SUFFICES ASSUME NEW p \in Request, NEW r \in held'[p] PROVE roles'[p][r] = role'[r]
    BY DEF Accurate
  <2>1. p # q BY DEF NoLocks
  <2>2. Same(p) /\ \A s \in held[p] : role'[s] = role[s] BY <2>1
  <2> QED BY <1>0, <2>2 DEF Same, Accurate
<1>3. Owned'
  <2> SUFFICES ASSUME NEW p \in Request, pc'[p] = "rooms"
               PROVE  owned'[p] = {r \in Room : role'[r][who'[p]] = "owner"}
    BY DEF Owned
  <2>1. p # q BY DEF NoLocks
  <2>2. Same(p) /\ (mine[p] => \A r \in Room : role'[r][who[p]] = role[r][who[p]]) BY <2>1
  <2>3. pc[p] = "rooms" /\ mine[p] BY <1>0, <2>2 DEF Same, Stages, Stage
  <2>4. owned[p] = {r \in Room : role[r][who[p]] = "owner"} BY <1>0, <2>3 DEF Owned
  <2> QED BY <2>2, <2>3, <2>4 DEF Same
<1>4. Lawful'
  <2> SUFFICES ASSUME NEW p \in Request, op'[p] = "expire"
               PROVE  /\ now'[p] <= clock'
                      /\ pc'[p] \in {"memberships", "rooms"} => Expired(who[p], now[p])' 
    BY DEF Lawful, Expired
  <2>1. CASE p = q
    <3>1. clock \in Int BY <1>0 DEF TypeOK
    <3> QED BY <2>1, <3>1 DEF NoLocks
  <2>2. CASE p # q
    <3>1. /\ Same(p)
          /\ row[p] => status'[who[p]] = status[who[p]] /\ since'[who[p]] = since[who[p]] BY <2>2
    <3>2. now[p] <= clock /\ (pc[p] \in {"memberships", "rooms"} => Expired(who[p], now[p]))
      BY <1>0, <3>1 DEF Same, Lawful
    <3>3. pc[p] \in {"memberships", "rooms"} => row[p] BY <1>0 DEF Stages, Stage
    <3> QED BY <3>1, <3>2, <3>3 DEF Same, Expired
  <2> QED BY <2>1, <2>2
<1> QED BY <1>1, <1>2, <1>3, <1>4
-----------------------------------------------------------------------------
(* The inductive invariant. *)

LEMMA InitInv == Init => IInv
<1> SUFFICES ASSUME Init PROVE IInv OBVIOUS
<1>1. TypeOK
  BY AccountsAssumption, NobodyType DEF Init, TypeOK, Status, Op, Step, Null
<1>2. Stages /\ Exclusive /\ Accurate /\ Owned /\ Lawful
  BY DEF Init, Stages, Stage, Exclusive, Accurate, Owned, Lawful
<1> QED BY <1>1, <1>2 DEF IInv

\* A transaction gets a lock only when no other has the rows.
LEMMA LockInv ==
  ASSUME IInv, NEW q \in Request,
         LockRoom(q) \/ LockMemberships(q) \/ LockOwned(q) \/ (LockUserLifecycle(q) /\ ~Return(q))
  PROVE  Exclusive' /\ Accurate' /\ Owned' /\ Lawful'
<1>0. TypeOK /\ Stages /\ Exclusive /\ Accurate /\ Owned /\ Lawful BY DEF IInv
<1>s. /\ \A p \in Request \ {q} : Same(p)
      /\ op'[q] = op[q] /\ who'[q] = who[q] /\ where'[q] = where[q]
      /\ UNCHANGED <<clock, status, account, since, room, role>>
  BY <1>0, LockShape
<1>a. ASSUME NEW p \in Request, NEW o \in Request, p # o
      PROVE  /\ held[p] \cap held[o] = {}
             /\ mine[p] /\ mine[o] => who[p] # who[o]
             /\ mine[o] => \A r \in held[p] : who[o] \notin Members(role[r])
             /\ row[p] /\ row[o] => who[p] # who[o]
  BY <1>0, <1>a DEF Exclusive
<1> DEFINE Apart(p, o) == /\ held'[p] \cap held'[o] = {}
                          /\ mine'[p] /\ mine'[o] => who'[p] # who'[o]
                          /\ mine'[o] => \A r \in held'[p] : who'[o] \notin Members(role'[r])
                          /\ row'[p] /\ row'[o] => who'[p] # who'[o]
<1>b. ASSUME NEW p \in Request \ {q}, NEW o \in Request \ {q}, p # o PROVE Apart(p, o)
  <2>1. Same(p) /\ Same(o) /\ role' = role BY <1>s
  <2>2. /\ held[p] \cap held[o] = {}
        /\ mine[p] /\ mine[o] => who[p] # who[o]
        /\ mine[o] => \A r \in held[p] : who[o] \notin Members(role[r])
        /\ row[p] /\ row[o] => who[p] # who[o]
    BY <1>a, <1>b
  <2> QED BY <2>1, <2>2 DEF Same
<1>c. ASSUME \A p \in Request \ {q} : Apart(p, q) /\ Apart(q, p) PROVE Exclusive'
  <2>1. ASSUME NEW p \in Request, NEW o \in Request, p # o PROVE Apart(p, o) BY <1>b, <1>c, <2>1
  <2> QED BY <2>1 DEF Exclusive
<1>d. ASSUME \A r \in held'[q] : roles'[q][r] = role[r] PROVE Accurate'
  <2>1. ASSUME NEW p \in Request \ {q}, NEW r \in held'[p] PROVE roles'[p][r] = role[r]
    BY <1>0, <1>s, <2>1 DEF Accurate, Same
  <2> QED BY <1>d, <1>s, <2>1 DEF Accurate
<1>e. ASSUME pc'[q] = "rooms" => owned'[q] = {r \in Room : role[r][who[q]] = "owner"} PROVE Owned'
  <2>1. ASSUME NEW p \in Request \ {q}, pc'[p] = "rooms"
        PROVE  owned'[p] = {r \in Room : role[r][who'[p]] = "owner"}
    BY <1>0, <1>s, <2>1 DEF Owned, Same
  <2> QED BY <1>e, <1>s, <2>1 DEF Owned
<1>f. ASSUME op[q] = "expire" => now'[q] = now[q] /\ (pc'[q] \in {"memberships", "rooms"} => Expired(who[q], now[q]))
      PROVE  Lawful'
  <2>1. ASSUME NEW p \in Request, op'[p] = "expire"
        PROVE  now'[p] <= clock' /\ (pc'[p] \in {"memberships", "rooms"} => Expired(who[p], now[p])')
    <3>1. CASE p = q BY <1>0, <1>f, <1>s, <2>1, <3>1 DEF Lawful, Expired
    <3>2. CASE p # q
      <4>1. Same(p) BY <1>s, <3>2
      <4> QED BY <1>0, <1>s, <2>1, <4>1 DEF Lawful, Expired, Same
    <3> QED BY <3>1, <3>2
  <2> QED BY <2>1 DEF Lawful, Expired
<1> HIDE DEF Apart
<1>1. CASE LockRoom(q)
  <2>1. /\ pc[q] = "lock" /\ pc'[q] = "apply" /\ held'[q] = held[q] \cup {where[q]} /\ roles'[q][where[q]] = role[where[q]]
        /\ mine'[q] = mine[q] /\ row'[q] = row[q] /\ now'[q] = now[q] /\ MembersFree(q, where[q])
    BY <1>0, <1>1 DEF TypeOK, LockRoom, LockMembers, callVars, Stages, Stage
  <2>2. held[q] = {} /\ ~mine[q] /\ ~row[q] BY <1>0, <2>1 DEF Stages, Stage
  <2>3. ASSUME NEW p \in Request \ {q} PROVE Apart(p, q) /\ Apart(q, p)
    <3>1. where[q] \notin held[p] /\ ~(mine[p] /\ who[p] \in Members(role[where[q]]))
      BY <2>1 DEF MembersFree, Others
    <3>2. Same(p) BY <1>s
    <3> QED BY <1>s, <2>1, <2>2, <3>1, <3>2 DEF Apart, Same
  <2> QED BY <1>c, <1>d, <1>e, <1>f, <2>1, <2>2, <2>3
<1>2. CASE LockMemberships(q)
  <2>1. /\ pc[q] = "memberships" /\ pc'[q] = "rooms" /\ held'[q] = held[q] /\ mine'[q] /\ row'[q] = row[q]
        /\ now'[q] = now[q] /\ MembershipsFree(q, who[q])
        /\ owned'[q] = {r \in Room : role[r][who[q]] = "owner"}
    BY <1>0, <1>2 DEF TypeOK, LockMemberships, callVars
  <2>2. held[q] = {} /\ row[q] BY <1>0, <2>1 DEF Stages, Stage
  <2>3. ASSUME NEW p \in Request \ {q} PROVE Apart(p, q) /\ Apart(q, p)
    <3>1. ~(mine[p] /\ who[p] = who[q]) /\ \A r \in held[p] : who[q] \notin Members(role[r])
      BY <2>1 DEF MembershipsFree, Others
    <3>2. Same(p) /\ (row[p] /\ row[q] => who[p] # who[q]) BY <1>s, <1>a
    <3> QED BY <1>s, <2>1, <2>2, <3>1, <3>2 DEF Apart, Same
  <2>4. op[q] = "expire" => Expired(who[q], now[q]) BY <1>0, <2>1 DEF Lawful
  <2> QED BY <1>c, <1>d, <1>e, <1>f, <2>1, <2>2, <2>3, <2>4
<1>3. CASE LockOwned(q)
  <2>1. PICK r \in Room : r \in owned[q] /\ LockMembers(q, r) BY <1>0, <1>3 DEF TypeOK, LockOwned
  <2>2. /\ pc[q] = "rooms" /\ pc'[q] = "rooms" /\ held'[q] = held[q] \cup {r} /\ mine'[q] = mine[q] /\ row'[q] = row[q]
        /\ now'[q] = now[q] /\ owned'[q] = owned[q] /\ MembersFree(q, r)
        /\ roles'[q][r] = role[r] /\ \A s \in Room : s # r => roles'[q][s] = roles[q][s]
    BY <1>0, <1>3, <2>1 DEF TypeOK, LockOwned, LockMembers, callVars
  <2>3. ASSUME NEW p \in Request \ {q} PROVE Apart(p, q) /\ Apart(q, p)
    <3>1. r \notin held[p] /\ ~(mine[p] /\ who[p] \in Members(role[r]))
      BY <2>2 DEF MembersFree, Others
    <3>2. Same(p) /\ role' = role /\ who'[q] = who[q] BY <1>s
    <3>3. /\ held[p] \cap held[q] = {}
          /\ mine[p] /\ mine[q] => who[p] # who[q]
          /\ mine[q] => \A s \in held[p] : who[q] \notin Members(role[s])
          /\ mine[p] => \A s \in held[q] : who[p] \notin Members(role[s])
          /\ row[p] /\ row[q] => who[p] # who[q]
      BY <1>a
    <3> QED BY <2>2, <3>1, <3>2, <3>3 DEF Apart, Same
  <2>4. \A s \in held'[q] : roles'[q][s] = role[s]
    <3>1. held[q] \subseteq Room BY <1>0 DEF TypeOK
    <3> QED BY <1>0, <2>2, <3>1 DEF Accurate
  <2>5. owned[q] = {s \in Room : role[s][who[q]] = "owner"} BY <1>0, <2>2 DEF Owned
  <2>6. op[q] = "expire" => Expired(who[q], now[q]) BY <1>0, <2>2 DEF Lawful
  <2> QED BY <1>c, <1>d, <1>e, <1>f, <2>2, <2>3, <2>4, <2>5, <2>6
<1>4. CASE LockUserLifecycle(q) /\ ~Return(q)
  <2>1. /\ pc[q] = "lifecycle" /\ pc'[q] = "memberships" /\ held'[q] = held[q] /\ mine'[q] = mine[q] /\ row'[q]
        /\ RowFree(q, who[q]) /\ Allowed(q) /\ (op[q] # "withdraw" => now'[q] = now[q])
    BY <1>0, <1>4 DEF TypeOK, LockUserLifecycle
  <2>2. held[q] = {} /\ ~mine[q] BY <1>0, <2>1 DEF Stages, Stage
  <2>3. ASSUME NEW p \in Request \ {q} PROVE Apart(p, q) /\ Apart(q, p)
    <3>1. ~(row[p] /\ who[p] = who[q]) BY <2>1 DEF RowFree, Others
    <3>2. Same(p) BY <1>s
    <3> QED BY <1>s, <2>1, <2>2, <3>1, <3>2 DEF Apart, Same
  <2>4. op[q] = "expire" => Expired(who[q], now[q]) BY <2>1 DEF Allowed
  <2> QED BY <1>c, <1>d, <1>e, <1>f, <2>1, <2>2, <2>3, <2>4
<1> QED BY <1>1, <1>2, <1>3, <1>4

LEMMA InvStep ==
  ASSUME IInv, [Next]_vars
  PROVE  IInv'
<1>0. TypeOK /\ Stages /\ Exclusive /\ Accurate /\ Owned /\ Lawful BY DEF IInv
<1>t. TypeOK' /\ Stages' BY <1>0, TypeStep, StagesStep
<1>1. CASE UNCHANGED vars
  BY <1>0, <1>t, <1>1 DEF IInv, Exclusive, Accurate, Owned, Lawful, Expired, vars, dataVars, callVars, lockVars
<1>2. CASE Tick
  <2>1. \A q \in Request : now[q] \in Int /\ clock \in Int BY <1>0 DEF TypeOK
  <2> QED BY <1>0, <1>t, <1>2, <2>1
      DEF IInv, Exclusive, Accurate, Owned, Lawful, Expired, Tick, dataVars, callVars, lockVars
<1>3. ASSUME NEW q \in Request, NEW u \in User \cup {Admin},
             (u \in User /\ Start(q, u)) \/ \E r \in Room : StartUpdate(q, u, r) PROVE IInv'
  <2>1. /\ \A p \in Request \ {q} : Same(p)
        /\ pc'[q] \notin {"memberships", "rooms"} /\ held'[q] = {} /\ ~mine'[q] /\ ~row'[q]
        /\ op'[q] = "expire" => now'[q] = clock
        /\ UNCHANGED <<clock, status, account, since, room, role>>
    BY <1>0, <1>3, StartStage
  <2>2. NoLocks(q) BY <2>1 DEF NoLocks
  <2>3. Exclusive' /\ Accurate' /\ Owned' /\ Lawful' BY <2>1, <2>2, WithoutLocks
  <2> QED BY <1>t, <2>3 DEF IInv
<1>4. ASSUME NEW q \in Request, Continue(q), Return(q) PROVE IInv'
  <2>1. Over(q) /\ \A p \in Request \ {q} : Same(p) BY <1>0, <1>4, ReturnShape
  <2>2. NoLocks(q) /\ op'[q] = "none" /\ clock' = clock BY <1>4, <2>1 DEF NoLocks, Over, Return
  <2>3. ASSUME NEW p \in Request \ {q}
        PROVE  /\ \A r \in held[p] : role'[r] = role[r]
               /\ mine[p] => \A r \in Room : role'[r][who[p]] = role[r][who[p]]
               /\ row[p] => status'[who[p]] = status[who[p]] /\ since'[who[p]] = since[who[p]]
    BY <1>0, <1>4, LockedStays, StatusStays
  <2>4. Exclusive' /\ Accurate' /\ Owned' /\ Lawful' BY <2>1, <2>2, <2>3, WithoutLocks
  <2> QED BY <1>t, <2>4 DEF IInv
<1>5. ASSUME NEW q \in Request, Continue(q), ~Return(q) PROVE IInv'
  <2>1. LockRoom(q) \/ LockMemberships(q) \/ LockOwned(q) \/ (LockUserLifecycle(q) /\ ~Return(q))
    BY <1>0, <1>5, WritesType DEF Continue
  <2> QED BY <1>t, <2>1, LockInv DEF IInv
<1> QED BY <1>1, <1>2, <1>3, <1>4, <1>5 DEF Next

\* The invariant holds throughout: row locks are exclusive, and what was read under
\* them still holds when the transaction acts on it.
THEOREM LocksHold == Spec => []IInv
  BY InitInv, InvStep, PTL DEF Spec
-----------------------------------------------------------------------------
(* The properties. *)

\* How a room loses its owners or goes: under its lock, or with an account.
LEMMA OwnerStep ==
  ASSUME IInv, [Next]_vars, NEW r \in Room
  PROVE  /\ room'[r] = "open" /\ Owners(role[r]) # {} => Owners(role'[r]) # {}
         /\ room[r] = "open" /\ room'[r] = "gone" => \A u, v \in Members(role[r]) : u = v
<1> DEFINE Kept == room'[r] = "open" /\ Owners(role[r]) # {} => Owners(role'[r]) # {}
           Alone == room[r] = "open" /\ room'[r] = "gone" => \A u, v \in Members(role[r]) : u = v
<1>0. TypeOK /\ Stages /\ Accurate /\ Owned BY DEF IInv
<1>a. /\ room \in [Room -> {"unused", "open", "gone"}] /\ role \in [Room -> Roles]
      /\ role[r] \in [User -> Role] /\ \A q \in Request : owned[q] \subseteq Room
  BY <1>0 DEF TypeOK, Roles
<1>b. ASSUME room' = room, NEW k \in User, role'[r] = [role[r] EXCEPT ![k] = "owner"] \/ role'[r] = role[r]
      PROVE  Kept /\ Alone
  BY <1>a, <1>b DEF Owners
<1>1. ASSUME NEW q \in Request, SaveCommunityWithRoom(q) PROVE Kept /\ Alone
  <2>1. who[q] \in User BY <1>0, <1>1 DEF SaveCommunityWithRoom, Stages, Stage
  <2>2. PICK s \in Room : /\ room' = [room EXCEPT ![s] = "open"]
                          /\ role' = role \/ role' = [role EXCEPT ![s][who[q]] = "owner"]
    BY <1>1 DEF SaveCommunityWithRoom
  <2>3. role'[r] = role[r] \/ role'[r] = [role[r] EXCEPT ![who[q]] = "owner"] BY <1>a, <2>2
  <2>4. Kept BY <1>a, <2>1, <2>3 DEF Owners
  <2>5. Alone BY <1>a, <2>2
  <2> QED BY <2>4, <2>5
<1>2. ASSUME NEW q \in Request, AddUserToRoom(q) PROVE Kept /\ Alone
  <2>1. who[q] \in User /\ where[q] \in Room /\ room' = room BY <1>0, <1>2 DEF AddUserToRoom, Stages, Stage
  <2>2. role'[r] = role[r] \/ (role[r][who[q]] = "none" /\ role'[r] = [role[r] EXCEPT ![who[q]] = "member"])
    BY <1>a, <1>2, <2>1 DEF AddUserToRoom
  <2>3. Kept BY <1>a, <2>1, <2>2 DEF Owners
  <2> QED BY <2>1, <2>3
<1>3. ASSUME NEW q \in Request, RemoveUserFromRoom(q) PROVE Kept /\ Alone
  <2>1. /\ who[q] \in User /\ where[q] \in Room /\ where[q] \in held[q]
    BY <1>0, <1>3 DEF RemoveUserFromRoom, Stages, Stage
  <2>2. roles[q][where[q]] = role[where[q]] BY <1>0, <2>1 DEF Accurate
  <2>3. CASE r # where[q]
    <3>1. role'[r] = role[r] /\ room'[r] = room[r] BY <1>a, <1>3, <2>1, <2>3 DEF RemoveUserFromRoom
    <3> QED BY <3>1
  <2>4. CASE r = where[q] /\ Members(role[r]) = {who[q]}
    <3>1. room'[r] = "gone" BY <1>a, <1>3, <2>1, <2>2, <2>4 DEF RemoveUserFromRoom
    <3> QED BY <2>4, <3>1
  <2>5. CASE r = where[q] /\ Members(role[r]) # {who[q]}
    <3>1. room' = room /\ role'[r] = [role[r] EXCEPT ![who[q]] = "none"]
      BY <1>a, <1>3, <2>1, <2>2, <2>5 DEF RemoveUserFromRoom
    <3>2. who[q] \in Members(role[r]) /\ ~(role[r][who[q]] = "owner" /\ Owners(role[r]) = {who[q]})
      BY <1>3, <2>2, <2>5 DEF RemoveUserFromRoom, MayLeave
    <3>3. ASSUME Owners(role[r]) # {} PROVE Owners(role'[r]) # {}
      <4>1. PICK k \in Owners(role[r]) : k # who[q] BY <3>2, <3>3 DEF Owners
      <4> QED BY <1>a, <3>1, <4>1 DEF Owners
    <3> QED BY <3>1, <3>3
  <2> QED BY <2>3, <2>4, <2>5
<1>4. ASSUME NEW q \in Request, SetRoomUserRoles(q) PROVE Kept /\ Alone
  <2>1. where[q] \in Room /\ room' = room BY <1>0, <1>4 DEF SetRoomUserRoles, Stages, Stage
  <2>2. PICK S \in Roles : Owners(S) # {} /\ role' = [role EXCEPT ![where[q]] = S]
    BY <1>4 DEF SetRoomUserRoles, Updated, MayUpdate
  <2>3. Kept BY <1>a, <2>1, <2>2
  <2> QED BY <2>1, <2>3
<1>5. ASSUME NEW q \in Request, CommitWithdraw(q) PROVE Kept /\ Alone
  <2>1. PICK heir \in Heirs(Handed(q), who[q]) :
          role' = [s \in Room |-> IF s \in Handed(q) THEN [role[s] EXCEPT ![heir[s]] = "owner"] ELSE role[s]]
    BY <1>5 DEF CommitWithdraw
  <2>2. room' = room /\ who[q] \in User BY <1>0, <1>5 DEF CommitWithdraw, Stages, Stage
  <2>3. CASE r \in Handed(q)
    <3>1. heir[r] \in User BY <2>1, <2>3 DEF Heirs
    <3> QED BY <1>b, <2>1, <2>2, <2>3, <3>1
  <2>4. CASE r \notin Handed(q) BY <1>b, <2>1, <2>2, <2>4
  <2> QED BY <2>3, <2>4
<1>6. ASSUME NEW q \in Request, CommitPurge(q) PROVE Kept /\ Alone
  <2>1. PICK heir \in Heirs(Handed(q), who[q]) :
          role' = [s \in Room |->
                     IF s \in Deserted(q) THEN Nobody
                     ELSE IF s \in Handed(q) THEN [role[s] EXCEPT ![heir[s]] = "owner", ![who[q]] = "none"]
                     ELSE [role[s] EXCEPT ![who[q]] = "none"]]
    BY <1>6 DEF CommitPurge
  <2>2. /\ who[q] \in User /\ pc[q] = "rooms" /\ owned[q] \subseteq held[q]
        /\ room' = [s \in Room |-> IF s \in Deserted(q) THEN "gone" ELSE room[s]]
    BY <1>0, <1>6 DEF CommitPurge, Stages, Stage
  <2>3. owned[q] = {s \in Room : role[s][who[q]] = "owner"} BY <1>0, <2>2 DEF Owned
  <2>4. \A s \in owned[q] : roles[q][s] = role[s] BY <1>0, <2>2 DEF Accurate
  <2>5. CASE r \in Deserted(q)
    <3>1. room'[r] = "gone" BY <2>2, <2>5
    <3>2. Members(role[r]) \subseteq {who[q]} BY <2>4, <2>5 DEF Deserted
    <3> QED BY <3>1, <3>2
  <2>6. CASE r \notin Deserted(q)
    <3>1. room'[r] = room[r] BY <2>2, <2>6
    <3>2. ASSUME Owners(role[r]) # {} PROVE Owners(role'[r]) # {}
      <4>1. CASE r \in Handed(q)
        <5>1. heir[r] \in User /\ heir[r] # who[q] BY <2>1, <4>1, HeirsAreMembers DEF Members
        <5>2. role'[r] = [role[r] EXCEPT ![heir[r]] = "owner", ![who[q]] = "none"] BY <2>1, <2>6, <4>1
        <5> QED BY <1>a, <5>1, <5>2 DEF Owners
      <4>2. CASE r \notin Handed(q)
        <5>1. role'[r] = [role[r] EXCEPT ![who[q]] = "none"] BY <2>1, <2>6, <4>2
        <5>2. Owners(role[r]) # {who[q]}
          <6>1. SUFFICES ASSUME Owners(role[r]) = {who[q]} PROVE FALSE OBVIOUS
          <6>2. r \in owned[q] BY <2>3, <6>1 DEF Owners
          <6>3. Members(role[r]) # {who[q]} BY <2>4, <2>6, <6>2 DEF Deserted
          <6> QED BY <2>4, <4>2, <6>1, <6>2, <6>3 DEF Handed, SoleOwnerAmongOthers
        <5>3. PICK k \in Owners(role[r]) : k # who[q] BY <3>2, <5>2
        <5> QED BY <1>a, <5>1, <5>3 DEF Owners
      <4> QED BY <4>1, <4>2
    <3> QED BY <3>1, <3>2
  <2> QED BY <2>5, <2>6
<1>7. CASE UNCHANGED <<room, role>> BY <1>7
<1>8. ASSUME NEW q \in Request, Continue(q) PROVE Kept /\ Alone
  <2>1. \/ SaveCommunityWithRoom(q) \/ AddUserToRoom(q) \/ RemoveUserFromRoom(q) \/ SetRoomUserRoles(q)
        \/ CommitWithdraw(q) \/ CommitPurge(q) \/ UNCHANGED <<room, role>>
    BY <1>8 DEF Continue, LockRoom, LockUserLifecycle, LockMemberships, LockOwned, SaveCredentials, WriteStatus,
           ReactivateUser, Fail, dataVars
  <2> QED BY <1>1, <1>2, <1>3, <1>4, <1>5, <1>6, <1>7, <2>1
<1>9. ASSUME NEW q \in Request, NEW u \in User \cup {Admin},
             (u \in User /\ Start(q, u)) \/ \E s \in Room : StartUpdate(q, u, s) PROVE Kept /\ Alone
  <2>1. UNCHANGED <<room, role>> BY <1>0, <1>9, StartStage
  <2> QED BY <1>7, <2>1
<1>10. CASE Tick \/ UNCHANGED vars BY <1>7, <1>10 DEF Tick, vars, dataVars
<1> QED BY <1>8, <1>9, <1>10 DEF Next

\* Types: what each request and each row may be.
THEOREM TypeCorrect == Spec => []TypeOK
<1>1. IInv => TypeOK BY DEF IInv
<1> QED BY <1>1, LocksHold, PTL

\* A community that has an owner keeps one until it is deleted, whatever requests
\* leave, kick, demote, withdraw or purge side by side.
THEOREM OwnersRemain == Spec => OwnerUntilGone
<1>1. IInv /\ [Next]_vars =>
        [\A r \in Room : room'[r] = "open" /\ Owners(role[r]) # {} => Owners(role'[r]) # {}]_vars
  BY OwnerStep
<1> QED BY <1>1, LocksHold, PTL DEF Spec, OwnerUntilGone

\* A community is deleted with its last member only: nobody joins between the look
\* at its members and its deletion.
THEOREM DeletedAlone == Spec => GoneOnlyAlone
<1>1. IInv /\ [Next]_vars =>
        [\A r \in Room : room[r] = "open" /\ room'[r] = "gone" => \A u, v \in Members(role[r]) : u = v]_vars
  BY OwnerStep
<1> QED BY <1>1, LocksHold, PTL DEF Spec, GoneOnlyAlone

\* Whoever withdraws is not the only owner of a community with others afterwards.
LEMMA WithdrawStep ==
  ASSUME IInv, NEW q \in Request, CommitWithdraw(q), NEW r \in Room, role[r][who[q]] = "owner"
  PROVE  ~SoleOwnerAmongOthers(role'[r], who[q])
<1>0. TypeOK /\ Stages /\ Accurate /\ Owned BY DEF IInv
<1>a. role[r] \in [User -> Role] BY <1>0 DEF TypeOK, Roles
<1>1. PICK heir \in Heirs(Handed(q), who[q]) :
        role' = [s \in Room |-> IF s \in Handed(q) THEN [role[s] EXCEPT ![heir[s]] = "owner"] ELSE role[s]]
  BY DEF CommitWithdraw
<1>2. pc[q] = "rooms" /\ owned[q] \subseteq held[q] /\ who[q] \in User
  BY <1>0 DEF CommitWithdraw, Stages, Stage
<1>3. r \in owned[q] BY <1>0, <1>2 DEF Owned
<1>4. roles[q][r] = role[r] BY <1>0, <1>2, <1>3 DEF Accurate
<1>5. CASE r \in Handed(q)
  <2>1. heir[r] \in User /\ heir[r] # who[q] BY <1>1, <1>5, HeirsAreMembers DEF Members
  <2>2. role'[r] = [role[r] EXCEPT ![heir[r]] = "owner"] BY <1>1, <1>5
  <2>3. heir[r] \in Owners(role'[r]) BY <1>a, <2>1, <2>2 DEF Owners
  <2> QED BY <2>1, <2>3 DEF SoleOwnerAmongOthers
<1>6. CASE r \notin Handed(q)
  <2>1. role'[r] = role[r] BY <1>1, <1>6
  <2>2. ~SoleOwnerAmongOthers(role[r], who[q]) BY <1>3, <1>4, <1>6 DEF Handed
  <2> QED BY <2>1, <2>2
<1> QED BY <1>5, <1>6

\* Whoever withdraws hands every community over that it owns alone among others.
THEOREM WithdrawHandsOver == Spec => HandedOver
<1>1. IInv /\ [Next]_vars =>
        [\A q \in Request : CommitWithdraw(q) =>
           \A r \in Room : role[r][who[q]] = "owner" => ~SoleOwnerAmongOthers(role'[r], who[q])]_vars
  BY WithdrawStep
<1> QED BY <1>1, LocksHold, PTL DEF Spec, HandedOver

\* An account goes with a purge only, and the purge may still happen.
LEMMA PurgeStep ==
  ASSUME IInv, [Next]_vars, NEW u \in User, account[u], ~account'[u]
  PROVE  Expired(u, clock) \/ \E q \in Request : op[q] = "delete" /\ who[q] = u
<1>0. TypeOK /\ Stages /\ Lawful BY DEF IInv
<1>1. ASSUME NEW q \in Request, CommitPurge(q)
      PROVE  Expired(u, clock) \/ \E p \in Request : op[p] = "delete" /\ who[p] = u
  <2>1. /\ op[q] \in {"delete", "expire"} /\ pc[q] = "rooms"
        /\ account' = [account EXCEPT ![who[q]] = FALSE]
    BY <1>1 DEF CommitPurge
  <2>2. who[q] = u BY <1>0, <2>1 DEF TypeOK
  <2>3. CASE op[q] = "expire"
    <3>1. now[q] <= clock /\ Expired(u, now[q]) BY <1>0, <2>1, <2>2, <2>3 DEF Lawful
    <3>2. now[q] \in Int /\ clock \in Int /\ (since[u] # Null => since[u] \in Int) BY <1>0 DEF TypeOK
    <3> QED BY <3>1, <3>2, AccountsAssumption DEF Expired
  <2> QED BY <2>1, <2>2, <2>3
<1>2. ASSUME NEW q \in Request, NEW v \in User \cup {Admin},
             (v \in User /\ Start(q, v)) \/ \E s \in Room : StartUpdate(q, v, s) PROVE account' = account
  BY <1>0, <1>2, StartStage
<1>3. ASSUME NEW q \in Request, Continue(q), ~CommitPurge(q) PROVE account' = account
  BY <1>3 DEF Continue, SaveCommunityWithRoom, AddUserToRoom, LockRoom, RemoveUserFromRoom, SetRoomUserRoles,
         LockUserLifecycle, LockMemberships, LockOwned, CommitWithdraw, SaveCredentials, WriteStatus,
         ReactivateUser, Fail, dataVars
<1>4. CASE Tick \/ UNCHANGED vars BY <1>4 DEF Tick, vars, dataVars
<1> QED BY <1>1, <1>2, <1>3, <1>4 DEF Next

\* Unless an administrator deletes it, an account goes only when its user is still
\* withdrawn and the grace period is over.
THEOREM GraceKept == Spec => PurgeNeedsGrace
<1>1. IInv /\ [Next]_vars =>
        [\A u \in User : account[u] /\ ~account'[u] =>
           Expired(u, clock) \/ \E q \in Request : op[q] = "delete" /\ who[q] = u]_vars
  BY PurgeStep
<1> QED BY <1>1, LocksHold, PTL DEF Spec, PurgeNeedsGrace
=============================================================================
