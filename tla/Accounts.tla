----------------------------- MODULE Accounts -----------------------------
(***************************************************************************)
(* Communities, their members, and the ways an account goes away.          *)
(*                                                                         *)
(* usecase/room (join, leave), usecase/community (create, update members)  *)
(* and usecase/user (withdraw, delete, purge after the grace period, log   *)
(* in, freeze, change a password) are requests that run side by side on    *)
(* the tables users, user_accounts, rooms and room_users.  A request that  *)
(* reads before it writes does so in several steps here.  A transaction    *)
(* takes its row locks step by step and shows its writes when it commits;  *)
(* a request may fail at any step, as the victim of a deadlock too, and    *)
(* then it leaves nothing behind.                                          *)
(*                                                                         *)
(* InnoDB also locks parent rows on an insert; the model does without      *)
(* those locks, so it has every order of steps that InnoDB lets happen.    *)
(*                                                                         *)
(* Definitions whose comment starts with "Wrong:" are faulty variants of   *)
(* the definition they precede; they show that the properties can fail.    *)
(***************************************************************************)
EXTENDS Integers

CONSTANTS
    User,
    Admin,      \* an administrator, who is no User
    Room,       \* the ids that rooms.id can take, in the order of creation
    Request,    \* requests that can be under way at a time
    Grace,      \* model.AccountDeletionGracePeriod
    MaxClock    \* bound: time

ASSUME AccountsAssumption ==
    /\ Admin \notin User
    /\ Room \subseteq Nat
    /\ Grace \in Nat
    /\ MaxClock \in Nat

VARIABLES
    clock,
    status,     \* users.status
    account,    \* is there a user_accounts row
    since,      \* users.deactivated_at, Null when it is NULL
    room,       \* the community rooms
    role,       \* room_users.role, "none" without a row
    op,         \* what each request is for
    pc,         \* its next step
    who,        \* its user: the caller or, of an administrator's request, the target
    where,      \* its room
    saw,        \* the status it is going to write
    now,        \* the time that a purge or a withdrawal has read
    row,        \* has it locked the users row of who
    mine,       \* has it locked the room_users rows of who, and their gaps
    held,       \* the rooms whose room_users rows, and their gaps, it has locked
    owned,      \* the rooms it has to lock
    roles       \* what LockRoomMemberRolesForUpdate has returned

dataVars == <<status, account, since, room, role>>
lockVars == <<row, mine, held, owned, roles>>
callVars == <<op, who, where, saw, now>>
vars == <<clock, dataVars, pc, callVars, lockVars>>

Null   == -1
Role   == {"none", "member", "owner"}
Status == {"active", "frozen", "deactivated", "deleted"}
Roles  == [User -> Role]
Nobody == [u \in User |-> "none"]

Op == {"none", "create", "join", "leave", "update", "withdraw", "delete", "expire", "save", "status", "login"}
Step == {"idle", "insert", "lock", "apply", "lifecycle", "memberships", "rooms", "write"}

TypeOK ==
    /\ clock \in 0..MaxClock
    /\ status \in [User -> Status]
    /\ account \in [User -> BOOLEAN]
    /\ since \in [User -> (0..MaxClock) \cup {Null}]
    /\ room \in [Room -> {"unused", "open", "gone"}]
    /\ role \in [Room -> Roles]
    /\ op \in [Request -> Op]
    /\ pc \in [Request -> Step]
    /\ who \in [Request -> User \cup {Admin}]
    /\ where \in [Request -> Room \cup {Null}]
    /\ saw \in [Request -> Status]
    /\ now \in [Request -> 0..MaxClock]
    /\ row \in [Request -> BOOLEAN]
    /\ mine \in [Request -> BOOLEAN]
    /\ held \in [Request -> SUBSET Room]
    /\ owned \in [Request -> SUBSET Room]
    /\ roles \in [Request -> [Room -> Roles]]
    /\ \A q \in Request : pc[q] = "idle" => ~row[q] /\ ~mine[q] /\ held[q] = {}

Init ==
    /\ clock = 0
    /\ status = [u \in User |-> "active"]
    /\ account = [u \in User |-> TRUE]
    /\ since = [u \in User |-> Null]
    /\ room = [r \in Room |-> "unused"]
    /\ role = [r \in Room |-> Nobody]
    /\ op = [q \in Request |-> "none"]
    /\ pc = [q \in Request |-> "idle"]
    /\ who = [q \in Request |-> Admin]
    /\ where = [q \in Request |-> Null]
    /\ saw = [q \in Request |-> "active"]
    /\ now = [q \in Request |-> 0]
    /\ row = [q \in Request |-> FALSE]
    /\ mine = [q \in Request |-> FALSE]
    /\ held = [q \in Request |-> {}]
    /\ owned = [q \in Request |-> {}]
    /\ roles = [q \in Request |-> [r \in Room |-> Nobody]]

Members(R) == {u \in User : R[u] # "none"}
Owners(R)  == {u \in User : R[u] = "owner"}
-----------------------------------------------------------------------------
(* Requests. *)

Tick ==
    /\ clock < MaxClock
    /\ clock' = clock + 1
    /\ UNCHANGED <<dataVars, pc, callVars, lockVars>>

\* A request o about user u and room r begins with step p; v is the status it has
\* read or is to write.
Begin(q, o, p, u, r, v) ==
    /\ pc[q] = "idle"
    /\ op' = [op EXCEPT ![q] = o]
    /\ pc' = [pc EXCEPT ![q] = p]
    /\ who' = [who EXCEPT ![q] = u]
    /\ where' = [where EXCEPT ![q] = r]
    /\ saw' = [saw EXCEPT ![q] = v]
    /\ now' = [now EXCEPT ![q] = IF o = "expire" THEN clock ELSE 0]
    /\ UNCHANGED <<clock, dataVars, lockVars>>

\* Wrong: the transaction stays open, and with it the locks on members.
ReturnOpen(q) ==
    /\ op' = [op EXCEPT ![q] = "none"]
    /\ pc' = [pc EXCEPT ![q] = "idle"]
    /\ UNCHANGED <<clock, who, where, saw, now, lockVars>>

\* The request answers; a commit or a rollback gives its locks back.
Return(q) ==
    /\ op' = [op EXCEPT ![q] = "none"]
    /\ pc' = [pc EXCEPT ![q] = "idle"]
    /\ who' = [who EXCEPT ![q] = Admin]
    /\ where' = [where EXCEPT ![q] = Null]
    /\ saw' = [saw EXCEPT ![q] = "active"]
    /\ now' = [now EXCEPT ![q] = 0]
    /\ row' = [row EXCEPT ![q] = FALSE]
    /\ mine' = [mine EXCEPT ![q] = FALSE]
    /\ held' = [held EXCEPT ![q] = {}]
    /\ owned' = [owned EXCEPT ![q] = {}]
    /\ roles' = [roles EXCEPT ![q] = [r \in Room |-> Nobody]]
    /\ clock' = clock

\* An error of the database, a deadlock or a cancelled context: rollback.
Fail(q) ==
    /\ pc[q] # "idle"
    /\ Return(q)
    /\ UNCHANGED dataVars

\* ValidateAndVerifyToken lets the caller in.
Auth(u) == account[u] /\ status[u] = "active"

Others(q) == Request \ {q}
-----------------------------------------------------------------------------
(* Locks. *)

\* No other transaction has the users row of u.
RowFree(q, u) == \A p \in Others(q) : ~(row[p] /\ who[p] = u)

\* Wrong: an insert passes the locked rows by.
InsertFreeAlways(q, r, u) == TRUE

\* No other transaction has locked the gap that the row of u in r goes into.
InsertFree(q, r, u) == \A p \in Others(q) : r \notin held[p] /\ ~(mine[p] /\ who[p] = u)

\* Wrong: the members are read without FOR UPDATE.
MembersFreeAlways(q, r) == TRUE

\* LockRoomMemberRolesForUpdate: no other transaction has a row of r.
MembersFree(q, r) ==
    \A p \in Others(q) : r \notin held[p] /\ ~(mine[p] /\ who[p] \in Members(role[r]))

\* LockUserCommunityMembershipsForUpdate: no other transaction has a row of u.
MembershipsFree(q, u) ==
    \A p \in Others(q) : /\ ~(mine[p] /\ who[p] = u)
                         /\ \A r \in held[p] : u \notin Members(role[r])

LockMembers(q, r) ==
    /\ MembersFree(q, r)
    /\ held' = [held EXCEPT ![q] = @ \cup {r}]
    /\ roles' = [roles EXCEPT ![q][r] = role[r]]
-----------------------------------------------------------------------------
(* usecase/community, usecase/room. *)

StartCreate(q, u) == Auth(u) /\ Begin(q, "create", "insert", u, Null, "active")

\* SaveCommunityWithRoom: room, owner and community in one transaction.  INSERT
\* IGNORE takes a creator without an account for done.
SaveCommunityWithRoom(q) ==
    /\ op[q] = "create" /\ pc[q] = "insert"
    /\ \E r \in Room :
          /\ room[r] = "unused" /\ \A s \in Room : s < r => room[s] # "unused"
          /\ InsertFree(q, r, who[q])
          /\ room' = [room EXCEPT ![r] = "open"]
          /\ role' = IF account[who[q]] THEN [role EXCEPT ![r][who[q]] = "owner"] ELSE role
    /\ Return(q)
    /\ UNCHANGED <<status, account, since>>

\* JoinRoom: GetRoomByID finds the community.
StartJoin(q, u, r) == Auth(u) /\ room[r] = "open" /\ Begin(q, "join", "insert", u, r, "active")

\* AddUserToRoom: INSERT IGNORE, so neither a row that is there nor a missing room
\* or account is an error.
AddUserToRoom(q) ==
    LET r == where[q]
        u == who[q] IN
    /\ op[q] = "join" /\ pc[q] = "insert"
    /\ InsertFree(q, r, u)
    /\ role' = IF room[r] = "open" /\ account[u] /\ role[r][u] = "none"
               THEN [role EXCEPT ![r][u] = "member"] ELSE role
    /\ Return(q)
    /\ UNCHANGED <<status, account, since, room>>

\* LeaveCommunity: GetRoomByID.
StartLeave(q, u, r) == Auth(u) /\ room[r] = "open" /\ Begin(q, "leave", "lock", u, r, "active")

\* UpdateCommunityMembers, by a member or an administrator: GetCommunityByID.
StartUpdate(q, u, r) ==
    /\ u \in User => Auth(u)
    /\ room[r] = "open"
    /\ Begin(q, "update", "lock", u, r, "active")

\* LockRoomMemberRolesForUpdate of both.
LockRoom(q) ==
    /\ pc[q] = "lock"
    /\ LockMembers(q, where[q])
    /\ pc' = [pc EXCEPT ![q] = "apply"]
    /\ UNCHANGED <<clock, dataVars, callVars, row, mine, owned>>

\* Wrong: the last owner may leave.
MayLeaveAlways(R, u) == u \in Members(R)

\* The last owner stays as long as there are others.
MayLeave(R, u) ==
    /\ u \in Members(R)
    /\ R[u] = "owner" /\ Owners(R) = {u} => Members(R) = {u}

\* LeaveCommunity: with its last member the room goes.
RemoveUserFromRoom(q) ==
    LET r == where[q]
        u == who[q] IN
    /\ op[q] = "leave" /\ pc[q] = "apply"
    /\ MayLeave(roles[q][r], u)
    /\ IF Members(roles[q][r]) = {u}
       THEN /\ room' = [room EXCEPT ![r] = "gone"]
            /\ role' = [role EXCEPT ![r] = Nobody]
       ELSE /\ role' = [role EXCEPT ![r][u] = "none"]
            /\ UNCHANGED room
    /\ Return(q)
    /\ UNCHANGED <<status, account, since>>

\* The new roles that updates ask for: promote, demote and kick, at most one of
\* them for a user (validateUpdates, groupByAction), of members only.
Updated(R) == {S \in Roles : \A u \in User : R[u] = "none" => S[u] = "none"}

\* validateAndSimulate and the checks of the caller before it: an owner, who does
\* not kick itself, or an administrator.
MayUpdate(R, S, u) ==
    /\ u # Admin => R[u] = "owner" /\ S[u] # "none"
    /\ Owners(S) # {}

SetRoomUserRoles(q) ==
    LET r == where[q] IN
    /\ op[q] = "update" /\ pc[q] = "apply"
    /\ \E S \in Updated(roles[q][r]) :
          /\ MayUpdate(roles[q][r], S, who[q])
          /\ role' = [role EXCEPT ![r] = S]
    /\ Return(q)
    /\ UNCHANGED <<status, account, since, room>>
-----------------------------------------------------------------------------
(* usecase/user: an account goes away. *)

\* DeleteMyAccount.
StartWithdraw(q, u) == Auth(u) /\ Begin(q, "withdraw", "lifecycle", u, Null, "active")

\* DeleteUser, by an administrator.
StartDelete(q, u) == Begin(q, "delete", "lifecycle", u, Null, "active")

Expired(u, t) == status[u] = "deactivated" /\ since[u] # Null /\ since[u] + Grace <= t

\* PurgeExpiredAccounts: ListUserIDsToPurge has listed u.
StartExpire(q, u) == Expired(u, clock) /\ Begin(q, "expire", "lifecycle", u, Null, "active")

\* Wrong: whoever was listed is purged.
AllowedAsListed(q) == op[q] = "withdraw" => status[who[q]] = "active"

\* DeactivateUser's WHERE, or what purge's callers allow once the row is locked.
Allowed(q) ==
    CASE op[q] = "withdraw" -> account[who[q]] /\ status[who[q]] = "active"
      [] op[q] = "delete"   -> status[who[q]] # "deleted"
      [] op[q] = "expire"   -> Expired(who[q], now[q])

\* DeactivateUser or LockUserLifecycle.
LockUserLifecycle(q) ==
    /\ pc[q] = "lifecycle"
    /\ RowFree(q, who[q])
    /\ IF Allowed(q)
       THEN /\ row' = [row EXCEPT ![q] = TRUE]
            /\ pc' = [pc EXCEPT ![q] = "memberships"]
            /\ now' = [now EXCEPT ![q] = IF op[q] = "withdraw" THEN clock ELSE @]
            /\ UNCHANGED <<clock, op, who, where, saw, mine, held, owned, roles>>
       ELSE Return(q)
    /\ UNCHANGED dataVars

\* ownedCommunities: first the rows of the user ...
LockMemberships(q) ==
    /\ pc[q] = "memberships"
    /\ MembershipsFree(q, who[q])
    /\ mine' = [mine EXCEPT ![q] = TRUE]
    /\ owned' = [owned EXCEPT ![q] = {r \in Room : role[r][who[q]] = "owner"}]
    /\ pc' = [pc EXCEPT ![q] = "rooms"]
    /\ UNCHANGED <<clock, dataVars, callVars, row, held, roles>>

\* ... then those of each room it owns, by ascending id.
LockOwned(q) ==
    /\ pc[q] = "rooms"
    /\ \E r \in owned[q] \ held[q] :
          /\ \A s \in owned[q] \ held[q] : r <= s
          /\ LockMembers(q, r)
    /\ UNCHANGED <<clock, dataVars, pc, callVars, row, mine, owned>>

\* isSoleOwnerAmongOthers.
SoleOwnerAmongOthers(R, u) == Owners(R) = {u} /\ Members(R) # {u}

\* FindOwnerSuccessor: those who are active first; the order among them (latest
\* message, latest activity, earliest to join) is left open.
Successors(r, u) ==
    LET rest == Members(role[r]) \ {u}
        best == {s \in rest : status[s] = "active"}
    IN  IF best = {} THEN rest ELSE best

\* handOverOwnerships, in the rooms of handed: heir is the new owner of each.
Heirs(handed, u) == {h \in [handed -> User] : \A r \in handed : h[r] \in Successors(r, u)}

\* The rooms that handOverOwnerships does not pass over.
Handed(q) == {r \in owned[q] : SoleOwnerAmongOthers(roles[q][r], who[q])}

\* DeleteMyAccount commits: its own role stays.
CommitWithdraw(q) ==
    /\ op[q] = "withdraw" /\ pc[q] = "rooms" /\ owned[q] \subseteq held[q]
    /\ \E heir \in Heirs(Handed(q), who[q]) :
          role' = [r \in Room |-> IF r \in Handed(q) THEN [role[r] EXCEPT ![heir[r]] = "owner"] ELSE role[r]]
    /\ status' = [status EXCEPT ![who[q]] = "deactivated"]
    /\ since' = [since EXCEPT ![who[q]] = now[q]]
    /\ Return(q)
    /\ UNCHANGED <<account, room>>

\* Wrong: only rooms without any member are deleted.
DesertedEmpty(q) == {r \in owned[q] : Members(roles[q][r]) = {}}

\* settleCommunities: the rooms that nobody else is in.
Deserted(q) == {r \in owned[q] : Members(roles[q][r]) \subseteq {who[q]}}

\* purge commits.  The account takes its memberships with it (ON DELETE CASCADE);
\* without an account, PurgeUser deletes nothing.
CommitPurge(q) ==
    LET u == who[q] IN
    /\ op[q] \in {"delete", "expire"} /\ pc[q] = "rooms" /\ owned[q] \subseteq held[q]
    /\ \E heir \in Heirs(Handed(q), u) :
          role' = [r \in Room |->
                     IF r \in Deserted(q) THEN Nobody
                     ELSE IF r \in Handed(q) THEN [role[r] EXCEPT ![heir[r]] = "owner", ![u] = "none"]
                     ELSE [role[r] EXCEPT ![u] = "none"]]
    /\ room' = [r \in Room |-> IF r \in Deserted(q) THEN "gone" ELSE room[r]]
    /\ account' = [account EXCEPT ![u] = FALSE]
    /\ status' = IF account[u] THEN [status EXCEPT ![u] = "deleted"] ELSE status
    /\ Return(q)
    /\ UNCHANGED since
-----------------------------------------------------------------------------
(* usecase/user: an account stays. *)

\* UpdateUser and ResetPassword read the credentials, whatever the status.
StartSave(q, u) == account[u] /\ Begin(q, "save", "write", u, Null, status[u])

\* SaveCredentials: the status goes back as it was read.  The UPDATE of users does
\* not look for the account.
SaveCredentials(q) ==
    /\ op[q] = "save" /\ pc[q] = "write"
    /\ RowFree(q, who[q])
    /\ status' = [status EXCEPT ![who[q]] = saw[q]]
    /\ Return(q)
    /\ UNCHANGED <<account, since, room, role>>

\* FreezeUser, UnfreezeUser and UpdateMyProfile, the last by the user or an
\* administrator, read who is visible and write the status v.
StartStatus(q, u, v) ==
    /\ account[u] /\ status[u] # "deactivated"
    /\ \/ v = "frozen" /\ status[u] # "frozen"
       \/ v = "active" /\ status[u] = "frozen"
       \/ v = status[u]
    /\ Begin(q, "status", "write", u, Null, v)

\* UpdateUser of the repository joins the account.
WriteStatus(q) ==
    /\ op[q] = "status" /\ pc[q] = "write"
    /\ RowFree(q, who[q])
    /\ status' = IF account[who[q]] THEN [status EXCEPT ![who[q]] = saw[q]] ELSE status
    /\ Return(q)
    /\ UNCHANGED <<account, since, room, role>>

\* LoginUser finds the account deactivated; other logins change nothing here.
StartLogin(q, u) ==
    /\ account[u] /\ status[u] = "deactivated"
    /\ Begin(q, "login", "write", u, Null, "active")

\* ReactivateUser.
ReactivateUser(q) ==
    LET u == who[q] IN
    /\ op[q] = "login" /\ pc[q] = "write"
    /\ RowFree(q, u)
    /\ status' = IF status[u] = "deactivated" THEN [status EXCEPT ![u] = "active"] ELSE status
    /\ since' = IF status[u] = "deactivated" THEN [since EXCEPT ![u] = Null] ELSE since
    /\ Return(q)
    /\ UNCHANGED <<account, room, role>>
-----------------------------------------------------------------------------
Start(q, u) ==
    \/ StartCreate(q, u) \/ StartWithdraw(q, u) \/ StartDelete(q, u) \/ StartExpire(q, u)
    \/ StartSave(q, u) \/ StartLogin(q, u)
    \/ \E v \in Status : StartStatus(q, u, v)
    \/ \E r \in Room : StartJoin(q, u, r) \/ StartLeave(q, u, r) \/ StartUpdate(q, u, r)

Continue(q) ==
    \/ SaveCommunityWithRoom(q) \/ AddUserToRoom(q)
    \/ LockRoom(q) \/ RemoveUserFromRoom(q) \/ SetRoomUserRoles(q)
    \/ LockUserLifecycle(q) \/ LockMemberships(q) \/ LockOwned(q)
    \/ CommitWithdraw(q) \/ CommitPurge(q)
    \/ SaveCredentials(q) \/ WriteStatus(q) \/ ReactivateUser(q)
    \/ Fail(q)

Next ==
    \/ Tick
    \/ \E q \in Request : \/ \E u \in User : Start(q, u)
                          \/ \E r \in Room : StartUpdate(q, Admin, r)
                          \/ Continue(q)

Spec == Init /\ [][Next]_vars
-----------------------------------------------------------------------------
(* Properties. *)

\* A community that has an owner keeps one until it is deleted, whichever members
\* leave, are kicked or demoted, withdraw or are purged at the same time
\* (LockRoomMemberRolesForUpdate, settleCommunities).
OwnerUntilGone ==
    [][\A r \in Room : room'[r] = "open" /\ Owners(role[r]) # {} => Owners(role'[r]) # {}]_vars

\* A community is deleted with its last member only, and never from under someone
\* who has just joined (LeaveCommunity, settleCommunities).
GoneOnlyAlone ==
    [][\A r \in Room : room[r] = "open" /\ room'[r] = "gone" =>
          \A u, v \in Members(role[r]) : u = v]_vars

\* Whoever withdraws leaves no community with itself as the only owner of others
\* (handOverOwnerships in DeleteMyAccount).
HandedOver ==
    [][\A q \in Request : CommitWithdraw(q) =>
          \A r \in Room : role[r][who[q]] = "owner" => ~SoleOwnerAmongOthers(role'[r], who[q])]_vars

\* Unless an administrator deletes it, an account goes only when its user is still
\* withdrawn and the grace period is over: a login between the listing and the
\* purge keeps it (LockUserLifecycle in purge).
PurgeNeedsGrace ==
    [][\A u \in User : account[u] /\ ~account'[u] =>
          Expired(u, clock) \/ \E q \in Request : op[q] = "delete" /\ who[q] = u]_vars

\* Whoever withdraws leaves no community whose owners are all invisible, if someone
\* else who is active is in it (the comment in DeleteMyAccount).
NoInvisibleOwnersOnly ==
    [][\A q \in Request : CommitWithdraw(q) =>
          \A r \in Room :
             /\ role[r][who[q]] = "owner"
             /\ \E u \in Members(role[r]) \ {who[q]} : status[u] = "active"
             => \E u \in Owners(role'[r]) : status'[u] # "deactivated"]_vars

============================================================================
