------------------------------ MODULE Sessions ------------------------------
(***************************************************************************)
(* The sessions of one account: how they are granted (login, refresh), how *)
(* they end (logout, a new password, withdrawal, expiry), and who still    *)
(* lets them in.                                                           *)
(*                                                                         *)
(* A grant is the pair of an access and a refresh token that one answer    *)
(* hands out.  The tokens are signed and carry credentials_version, so the *)
(* server keeps nothing of them but a mark in Redis for one that is used   *)
(* up or logged out.  An HTTP request is verified once, an open WebSocket  *)
(* or SSE stream again and again (WatchSession).  Every request reads and  *)
(* writes MySQL and Redis in several steps beside the others, and each     *)
(* step may fail.  Whatever has a time to live goes at any time here,      *)
(* except that the mark of a token lives as long as the token.             *)
(*                                                                         *)
(* Definitions whose comment starts with "Wrong:" are faulty variants of   *)
(* the definition they precede; they show that the properties can fail.    *)
(***************************************************************************)
EXTENDS Integers, Sequences, FiniteSets

CONSTANTS
    Request,         \* requests that can be under way at a time
    Connection,      \* WebSocket and SSE connections
    None,
    MaxUnavailable,  \* maxUnavailableChecks
    MaxGrants,       \* bound: token pairs
    MaxHashes,       \* bound: passwords after the first
    MaxVersion,      \* bound: credentials_version
    MaxCodes,        \* bound: codes mailed for a password reset
    MaxCalls,        \* bound: requests
    MaxExpired       \* bound: the last pair whose tokens may expire

ASSUME SessionsAssumption ==
    /\ Request \cap Connection = {}
    /\ None \notin Nat
    /\ {MaxUnavailable, MaxGrants} \subseteq Nat \ {0}
    /\ {MaxHashes, MaxVersion, MaxCodes, MaxCalls, MaxExpired} \subseteq Nat

VARIABLES
    account,    \* is there a user_accounts row
    status,     \* users.status
    hash,       \* hashed_password; a password is never chosen twice
    version,    \* credentials_version
    hashes,     \* hashes made so far
    grants,     \* the token pairs that were handed out
    expired,    \* tokens past their exp
    marked,     \* the revoked: keys of Redis
    tickets,    \* the sse_ticket: keys, by the grant of their access token
    code,       \* pwreset:otp, None without one
    codes,      \* codes made so far
    resets,     \* the pwreset:token: keys, by the code they were exchanged for
    calls,      \* requests begun so far
    pc,         \* the next step of a request or of the watch of a connection
    call,       \* what it is about and what it has read
    missed,     \* checks of a connection in a row that could not be made
    era,        \* ghost: how often the password changed or the account was withdrawn
    stopped,    \* ghost: tokens that were used up or logged out and would live on
    changed     \* ghost: password changes made with each code

rowVars   == <<account, status, hash, version, hashes, era>>
tokenVars == <<grants, expired, marked, stopped>>
resetVars == <<code, codes, resets, changed>>
vars == <<rowVars, tokenVars, tickets, resetVars, calls, pc, call, missed>>

Actor   == Request \cup Connection
Grant   == 1..MaxGrants
Code    == 1..MaxCodes
Access(g)  == <<"access", g>>
Refresh(g) == <<"refresh", g>>
Token   == {Access(g) : g \in Grant} \cup {Refresh(g) : g \in Grant}
Status  == {"active", "frozen", "deactivated", "deleted"}
Row     == [hash : 0..MaxHashes, version : 0..MaxVersion, status : Status, era : Nat]
NoRow   == [hash |-> 0, version |-> 0, status |-> "active", era |-> 0]
NoCall  == [op |-> "none", grant |-> None, dead |-> FALSE, row |-> NoRow, code |-> None]

Op      == {"none", "login", "refresh", "logout", "signed", "password", "edit", "freeze", "unfreeze", "code", "reset", "watch"}
Verify  == {"revoked", "user", "version"}
Step    == Verify \cup {"idle", "compare", "reactivate", "account", "same", "consume", "stop", "revoke",
                        "accepted", "credentials", "save", "status", "code", "closed", "open"}

TypeOK ==
    /\ account \in BOOLEAN
    /\ status \in Status
    /\ hash \in 0..MaxHashes
    /\ version \in 0..MaxVersion
    /\ hashes \in 0..MaxHashes
    /\ grants \in Seq([version : 0..MaxVersion, era : Nat, parent : Grant \cup {None}, dead : BOOLEAN])
    /\ Len(grants) <= MaxGrants
    /\ expired \subseteq Token
    /\ marked \subseteq Token
    /\ tickets \subseteq Grant
    /\ code \in Code \cup {None}
    /\ codes \in 0..MaxCodes
    /\ resets \subseteq Code
    /\ calls \in 0..MaxCalls
    /\ pc \in [Actor -> Step]
    /\ call \in [Actor -> [op : Op, grant : Grant \cup {None}, dead : BOOLEAN, row : Row, code : Code \cup {None}]]
    /\ missed \in [Connection -> 0..MaxUnavailable]
    /\ era \in Nat
    /\ stopped \subseteq Token
    /\ changed \in [Code -> Nat]

Init ==
    /\ account = TRUE /\ status = "active" /\ hash = 0 /\ version = 0 /\ hashes = 0
    /\ grants = <<[version |-> 0, era |-> 0, parent |-> None, dead |-> FALSE]>> /\ expired = {} /\ marked = {} /\ tickets = {}
    /\ code = None /\ codes = 0 /\ resets = {}
    /\ calls = 0
    /\ pc = [x \in Actor |-> IF x \in Request THEN "idle" ELSE "closed"]
    /\ call = [x \in Actor |-> NoCall]
    /\ missed = [c \in Connection |-> 0]
    /\ era = 0 /\ stopped = {} /\ changed = [c \in Code |-> 0]

Grants == DOMAIN grants

\* The session a token belongs to is over for good.
Dead(t) ==
    \/ t \in expired \cup stopped
    \/ ~account
    \/ grants[t[2]].era # era
-----------------------------------------------------------------------------
(* The steps of requests. *)

GoTo(x, step) == pc' = [pc EXCEPT ![x] = step]

Begin(q, step, what) ==
    /\ pc[q] = "idle"
    /\ GoTo(q, step)
    /\ call' = [call EXCEPT ![q] = what]

Return(q) ==
    /\ GoTo(q, "idle")
    /\ call' = [call EXCEPT ![q] = NoCall]

\* A request has read the row, as FindCredentialsByEmail or GetCredentialsByID return it.
Read(q, op) ==
    [call EXCEPT ![q] = [NoCall EXCEPT !.op = op, !.code = call[q].code, !.row =
        [hash |-> hash, version |-> version, status |-> status, era |-> era]]]

\* A query or a command fails and the request with it; nothing was written.
Fail(q) ==
    /\ pc[q] \notin {"idle"} \cup Verify
    /\ Return(q)
    /\ UNCHANGED <<rowVars, tokenVars, tickets, resetVars, missed>>

HandOut(row, parent, dead) ==
    /\ Len(grants) < MaxGrants
    /\ grants' = Append(grants, [version |-> row.version, era |-> row.era, parent |-> parent, dead |-> dead])

Mark(t) == marked' = marked \cup {t} /\ stopped' = stopped \cup {t}
-----------------------------------------------------------------------------
(* Login. *)

\* FindCredentialsByEmail; without an account the login is refused.
StartLogin(q) ==
    /\ account
    /\ pc[q] = "idle"
    /\ GoTo(q, "compare")
    /\ call' = Read(q, "login")
    /\ UNCHANGED <<rowVars, tokenVars, tickets, resetVars, missed>>

\* Wrong: the version is looked up when the tokens are made.
GrantedLate(q) == [call[q].row EXCEPT !.version = version]

\* The tokens carry the version that was read together with the hash.
Granted(q) == call[q].row

\* bcrypt has compared: the login is refused, goes on to restore the account, or
\* is answered with tokens.
LoginUser(q) ==
    /\ pc[q] = "compare"
    /\ \/ Return(q) /\ UNCHANGED grants
       \/ /\ call[q].row.status = "deactivated"
          /\ GoTo(q, "reactivate")
          /\ UNCHANGED <<call, grants>>
       \/ /\ call[q].row.status \notin {"frozen", "deactivated"}
          /\ HandOut(Granted(q), None, FALSE)
          /\ Return(q)
    /\ UNCHANGED <<rowVars, expired, marked, stopped, tickets, resetVars, missed>>

\* Restores whoever is still withdrawn, or refuses; when the answer of MySQL is lost
\* the account is restored without tokens.
ReactivateUser(q) ==
    /\ pc[q] = "reactivate"
    /\ \/ /\ status = "deactivated"
          /\ status' = "active"
          /\ HandOut(Granted(q), None, FALSE) \/ UNCHANGED grants
       \/ status # "deactivated" /\ UNCHANGED <<status, grants>>
    /\ Return(q)
    /\ UNCHANGED <<account, hash, version, hashes, era, expired, marked, stopped, tickets, resetVars, missed>>
-----------------------------------------------------------------------------
(* Refresh and logout. *)

\* ValidateRefreshToken.
StartRefresh(q, g) ==
    /\ Refresh(g) \notin expired
    /\ Begin(q, "account", [NoCall EXCEPT !.op = "refresh", !.grant = g, !.dead = Dead(Refresh(g))])
    /\ UNCHANGED <<rowVars, tokenVars, tickets, resetVars, missed>>

\* GetUserAccountByID: there is an account and it is active.
RefreshAccount(q) ==
    /\ pc[q] = "account"
    /\ IF account /\ status = "active" THEN GoTo(q, "same") /\ UNCHANGED call ELSE Return(q)
    /\ UNCHANGED <<rowVars, tokenVars, tickets, resetVars, missed>>

\* Is the token of the version that the account has now?  Without a row the query fails.
SameVersion(q) == account /\ version = grants[call[q].grant].version

RefreshVersion(q) ==
    /\ pc[q] = "same"
    /\ IF SameVersion(q) THEN GoTo(q, "consume") /\ UNCHANGED call ELSE Return(q)
    /\ UNCHANGED <<rowVars, tokenVars, tickets, resetVars, missed>>

\* ConsumeToken, SET NX: the first one gets the token.
Consumable(t) == t \notin expired /\ t \notin marked

\* The new pair goes out once the old refresh token is used up; when the answer of
\* Redis is lost it is used up without.
RefreshUserToken(q) ==
    LET g == call[q].grant IN
    /\ pc[q] = "consume"
    /\ IF Consumable(Refresh(g))
       THEN /\ Mark(Refresh(g))
            /\ \/ HandOut([version |-> grants[g].version, era |-> grants[g].era], g, call[q].dead)
               \/ UNCHANGED grants
       ELSE UNCHANGED <<grants, marked, stopped>>
    /\ Return(q)
    /\ UNCHANGED <<rowVars, expired, tickets, resetVars, missed>>

\* A logout names its access token and, with both, the refresh token too; a refresh
\* token that has expired is ignored.
StartLogout(q, g, both) ==
    /\ Begin(q, IF both /\ Refresh(g) \notin expired THEN "stop" ELSE "revoke",
             [NoCall EXCEPT !.op = "logout", !.grant = g])
    /\ UNCHANGED <<rowVars, tokenVars, tickets, resetVars, missed>>

\* ConsumeToken for the refresh token; that it was used up before does not matter.
LogoutRefresh(q) ==
    LET t == Refresh(call[q].grant) IN
    /\ pc[q] = "stop"
    /\ IF t \in expired THEN UNCHANGED <<marked, stopped>> ELSE Mark(t)
    /\ GoTo(q, "revoke")
    /\ UNCHANGED <<rowVars, grants, expired, call, tickets, resetVars, missed>>

\* RevokeToken for the access token; one that has expired is refused by ValidateToken.
LogoutUser(q) ==
    LET t == Access(call[q].grant) IN
    /\ pc[q] = "revoke"
    /\ IF t \in expired THEN UNCHANGED <<marked, stopped>> ELSE Mark(t)
    /\ Return(q)
    /\ UNCHANGED <<rowVars, grants, expired, tickets, resetVars, missed>>
-----------------------------------------------------------------------------
(* ValidateAndVerifyToken, for a request and for the watch of a connection. *)

\* A request comes with an access token; the middleware verifies it before anything is
\* known of what the request is for.
StartSigned(q, g) ==
    /\ Access(g) \notin expired
    /\ Begin(q, "revoked", [NoCall EXCEPT !.op = "signed", !.grant = g, !.dead = Dead(Access(g))])
    /\ UNCHANGED <<rowVars, tokenVars, tickets, resetVars, missed>>

Close(c) ==
    /\ GoTo(c, "closed")
    /\ call' = [call EXCEPT ![c] = NoCall]
    /\ missed' = [missed EXCEPT ![c] = 0]

\* The ticker of WatchSession; ValidateAccessToken refuses an expired token.
StartWatch(c) ==
    /\ pc[c] = "open"
    /\ IF Access(call[c].grant) \in expired
       THEN Close(c)
       ELSE GoTo(c, "revoked") /\ UNCHANGED <<call, missed>>
    /\ UNCHANGED <<rowVars, tokenVars, tickets, resetVars>>

Refuse(x) == IF x \in Connection THEN Close(x) ELSE Return(x) /\ UNCHANGED missed

\* Wrong: what cannot be checked is let through for ever.
UnavailableForever(x) ==
    IF x \in Request THEN Return(x) /\ UNCHANGED missed ELSE GoTo(x, "open") /\ UNCHANGED <<call, missed>>

\* ErrVerificationUnavailable ends a request; a connection stays open for
\* MaxUnavailable - 1 of them in a row.
Unavailable(x) ==
    CASE x \in Request -> Return(x) /\ UNCHANGED missed
      [] x \in Connection /\ missed[x] + 1 < MaxUnavailable ->
            /\ missed' = [missed EXCEPT ![x] = @ + 1]
            /\ GoTo(x, "open")
            /\ UNCHANGED call
      [] OTHER -> Close(x)

Accept(x) ==
    /\ GoTo(x, IF x \in Connection THEN "open" ELSE "accepted")
    /\ missed' = IF x \in Connection THEN [missed EXCEPT ![x] = 0] ELSE missed
    /\ UNCHANGED call

VerifyFails(x) ==
    /\ pc[x] \in Verify
    /\ Unavailable(x)
    /\ UNCHANGED <<rowVars, tokenVars, tickets, resetVars>>

\* IsRevoked.
VerifyMark(x) ==
    /\ pc[x] = "revoked"
    /\ IF Access(call[x].grant) \in marked THEN Refuse(x) ELSE GoTo(x, "user") /\ UNCHANGED <<call, missed>>
    /\ UNCHANGED <<rowVars, tokenVars, tickets, resetVars>>

\* GetUserByID finds nobody who is gone or withdrawn, and a frozen user is refused.
VerifyUser(x) ==
    /\ pc[x] = "user"
    /\ IF account /\ status \notin {"deactivated", "frozen"}
       THEN GoTo(x, "version") /\ UNCHANGED <<call, missed>> ELSE Refuse(x)
    /\ UNCHANGED <<rowVars, tokenVars, tickets, resetVars>>

\* GetCredentialsVersionByID; a row that is gone by now is an error of the query.
VerifyVersion(x) ==
    /\ pc[x] = "version"
    /\ CASE ~account       -> Unavailable(x)
         [] SameVersion(x) -> Accept(x)
         [] OTHER          -> Refuse(x)
    /\ UNCHANGED <<rowVars, tokenVars, tickets, resetVars>>
-----------------------------------------------------------------------------
(* What signed-in requests do. *)

\* A ticket for an SSE stream carries the access token.
IssueTicket(q) ==
    /\ pc[q] = "accepted"
    /\ tickets' = tickets \cup {call[q].grant}
    /\ Return(q)
    /\ UNCHANGED <<rowVars, tokenVars, resetVars, missed>>

Open(c, g) == [call EXCEPT ![c] = [NoCall EXCEPT !.op = "watch", !.grant = g]]

\* The ticket is taken (GETDEL) and the stream opens without another check.
OpenStream(c, g) ==
    /\ pc[c] = "closed"
    /\ g \in tickets
    /\ tickets' = tickets \ {g}
    /\ GoTo(c, "open")
    /\ call' = Open(c, g)
    /\ UNCHANGED <<rowVars, tokenVars, resetVars, missed>>

\* InitFunc of the WebSocket; also an SSE request whose token came in its header.
OpenSocket(q, c) ==
    /\ pc[q] = "accepted"
    /\ pc[c] = "closed"
    /\ pc' = [pc EXCEPT ![q] = "idle", ![c] = "open"]
    /\ call' = [Open(c, call[q].grant) EXCEPT ![q] = NoCall]
    /\ UNCHANGED <<rowVars, tokenVars, tickets, resetVars, missed>>

\* The client goes away.
Disconnect(c) ==
    /\ pc[c] # "closed"
    /\ Close(c)
    /\ UNCHANGED <<rowVars, tokenVars, tickets, resetVars>>

\* DeactivateUser: whoever is active withdraws, and the version moves on.
Withdraw(q) ==
    /\ pc[q] = "accepted"
    /\ \/ /\ account /\ status = "active" /\ version < MaxVersion
          /\ status' = "deactivated"
          /\ version' = version + 1
          /\ era' = era + 1
       \/ ~(account /\ status = "active") /\ UNCHANGED <<status, version, era>>
    /\ Return(q)
    /\ UNCHANGED <<account, hash, hashes, tokenVars, tickets, resetVars, missed>>

\* UpdateUser by the user, who has to know the password that was read to change it,
\* reads the credentials.
UpdateUser(q) ==
    /\ account
    /\ pc[q] = "accepted"
    /\ \E op \in {"password", "edit"} : call' = Read(q, op)
    /\ GoTo(q, "save")
    /\ UNCHANGED <<rowVars, tokenVars, tickets, resetVars, missed>>

\* UpdateUser by an administrator, who needs no password to set one.
StartEdit(q) ==
    /\ account
    /\ pc[q] = "idle"
    /\ \E op \in {"password", "edit"} : call' = Read(q, op)
    /\ GoTo(q, "save")
    /\ UNCHANGED <<rowVars, tokenVars, tickets, resetVars, missed>>

\* IF(hashed_password <> ?, 1, 0), against the hash in the row.
MovesOn(new) == hash # new

\* SaveCredentials writes back all that was read, the hash and the status too, and
\* with a new password its hash.  An account that is gone by now leaves the UPDATE
\* of users, which has no condition.
SaveCredentials(q) ==
    LET chosen == call[q].op \in {"password", "reset"}
        new == IF chosen THEN hashes + 1 ELSE call[q].row.hash
    IN
    /\ pc[q] = "save"
    /\ chosen => hashes < MaxHashes
    /\ version < MaxVersion
    /\ hashes' = IF chosen THEN hashes + 1 ELSE hashes
    /\ status' = call[q].row.status
    /\ IF account
       THEN /\ hash' = new
            /\ version' = IF MovesOn(new) THEN version + 1 ELSE version
            /\ era' = IF hash # new THEN era + 1 ELSE era
       ELSE UNCHANGED <<hash, version, era>>
    /\ changed' = IF call[q].op = "reset" THEN [changed EXCEPT ![call[q].code] = @ + 1] ELSE changed
    /\ Return(q)
    /\ UNCHANGED <<account, tokenVars, tickets, code, codes, resets, missed>>

\* FreezeUser and UnfreezeUser read a visible user, then write the status.
StartStatus(q, op) ==
    /\ account /\ status # "deactivated"
    /\ op = "freeze" <=> status # "frozen"
    /\ Begin(q, "status", [NoCall EXCEPT !.op = op])
    /\ UNCHANGED <<rowVars, tokenVars, tickets, resetVars, missed>>

WriteStatus(q) ==
    /\ pc[q] = "status"
    /\ status' = CASE ~account -> status
                   [] call[q].op = "freeze" -> "frozen"
                   [] OTHER -> "active"
    /\ Return(q)
    /\ UNCHANGED <<account, hash, version, hashes, era, tokenVars, tickets, resetVars, missed>>

\* PurgeUser, after the grace period or by an administrator.
PurgeUser ==
    /\ account
    /\ account' = FALSE
    /\ status' = "deleted"
    /\ UNCHANGED <<hash, version, hashes, era, tokenVars, tickets, resetVars, pc, call, missed>>
-----------------------------------------------------------------------------
(* A forgotten password. *)

\* FindByEmail finds the account.  TryBeginRequest limits the rate, which leaves every
\* order of requests possible.
StartCode(q) ==
    /\ account
    /\ Begin(q, "code", [NoCall EXCEPT !.op = "code"])
    /\ UNCHANGED <<rowVars, tokenVars, tickets, resetVars, missed>>

\* SaveOTP replaces a code there was; the new one is mailed.
RequestPasswordReset(q) ==
    /\ pc[q] = "code"
    /\ codes < MaxCodes
    /\ codes' = codes + 1
    /\ code' = codes + 1
    /\ Return(q)
    /\ UNCHANGED <<rowVars, tokenVars, tickets, resets, changed, missed>>

\* Wrong: the code stays after it was exchanged.
AfterExchangeKept == code

\* DEL of the code in the script.
AfterExchange == None

\* ExchangeOTPForResetToken, one script: the right code gives a reset token and goes.
\* A wrong one is counted, which changes nothing here, or is one too many
\* (otpMaxFailures), and then the code goes.
VerifyPasswordResetOTP(given) ==
    /\ code # None
    /\ IF given = code
       THEN resets' = resets \cup {given} /\ code' = AfterExchange
       ELSE code' = None /\ UNCHANGED resets
    /\ UNCHANGED <<rowVars, tokenVars, tickets, codes, changed, pc, call, missed>>

\* ConsumeResetToken, GETDEL.
ConsumeResetToken(q, c) ==
    /\ c \in resets
    /\ resets' = resets \ {c}
    /\ Begin(q, "credentials", [NoCall EXCEPT !.op = "reset", !.code = c])
    /\ UNCHANGED <<rowVars, tokenVars, tickets, code, codes, changed, missed>>

\* FindCredentialsByEmail.
ResetPassword(q) ==
    /\ pc[q] = "credentials"
    /\ account
    /\ call' = Read(q, "reset")
    /\ GoTo(q, "save")
    /\ UNCHANGED <<rowVars, tokenVars, tickets, resetVars, missed>>
-----------------------------------------------------------------------------
(* Times to live. *)

\* The mark of a token is set for the time the token has left, and goes with it.
ExpireToken(t) ==
    /\ t \notin expired
    /\ t[2] <= MaxExpired
    /\ expired' = expired \cup {t}
    /\ marked' = marked \ {t}
    /\ stopped' = stopped \ {t}
    /\ UNCHANGED <<rowVars, grants, tickets, resetVars, pc, call, missed>>

ExpireTicket(g) ==
    /\ tickets' = tickets \ {g}
    /\ UNCHANGED <<rowVars, tokenVars, resetVars, pc, call, missed>>

ExpireCode ==
    /\ code # None
    /\ code' = None
    /\ UNCHANGED <<rowVars, tokenVars, tickets, codes, resets, changed, pc, call, missed>>

ExpireReset(c) ==
    /\ resets' = resets \ {c}
    /\ UNCHANGED <<rowVars, tokenVars, tickets, code, codes, changed, pc, call, missed>>
-----------------------------------------------------------------------------
Start(q) ==
    \/ StartLogin(q)
    \/ StartEdit(q)
    \/ StartCode(q)
    \/ \E op \in {"freeze", "unfreeze"} : StartStatus(q, op)
    \/ \E c \in resets : ConsumeResetToken(q, c)
    \/ \E g \in Grants : \/ StartRefresh(q, g)
                         \/ \E both \in BOOLEAN : StartLogout(q, g, both)
                         \/ StartSigned(q, g)

Continue(q) ==
    \/ LoginUser(q)
    \/ ReactivateUser(q)
    \/ RefreshAccount(q)
    \/ RefreshVersion(q)
    \/ RefreshUserToken(q)
    \/ LogoutRefresh(q)
    \/ LogoutUser(q)
    \/ IssueTicket(q)
    \/ \E c \in Connection : OpenSocket(q, c)
    \/ Withdraw(q)
    \/ UpdateUser(q)
    \/ ResetPassword(q)
    \/ SaveCredentials(q)
    \/ WriteStatus(q)
    \/ RequestPasswordReset(q)
    \/ Fail(q)

Check(x) == VerifyMark(x) \/ VerifyUser(x) \/ VerifyVersion(x) \/ VerifyFails(x)

Watch(c) == StartWatch(c) \/ Check(c)

Proceed ==
    \/ \E q \in Request : Continue(q) \/ Check(q)
    \/ \E c \in Connection : Watch(c) \/ Disconnect(c) \/ \E g \in tickets : OpenStream(c, g)
    \/ \E given \in 0..codes : VerifyPasswordResetOTP(given)
    \/ \E g \in Grants : ExpireToken(Access(g)) \/ ExpireToken(Refresh(g))
    \/ \E g \in tickets : ExpireTicket(g)
    \/ ExpireCode
    \/ PurgeUser
    \/ \E c \in resets : ExpireReset(c)

Next ==
    \/ calls < MaxCalls /\ calls' = calls + 1 /\ \E q \in Request : Start(q)
    \/ Proceed /\ UNCHANGED calls

\* The goroutine of WatchSession runs as long as its connection does, and each of its
\* queries ends by an answer or an error.
Spec == Init /\ [][Next]_vars /\ \A c \in Connection : WF_vars(Watch(c) /\ UNCHANGED calls)
-----------------------------------------------------------------------------
(* Properties. *)

\* A request or a refresh that begins with a token whose session is over (logged out,
\* used up, the password changed or the account withdrawn since the credentials were
\* read that it was granted for) is never let in, whatever else was under way:
\* ValidateAndVerifyToken, RefreshUserToken.  Not claimed of a request whose token
\* expires after it was parsed: the mark goes at that moment too.
DeadStaysDead ==
    /\ \A q \in Request : pc[q] = "accepted" /\ Access(call[q].grant) \notin expired => ~call[q].dead
    /\ \A g \in Grants : ~grants[g].dead

\* What is good for one use is used once, however often it is sent and by how many tabs
\* at a time: a refresh token gives one new pair (ConsumeToken), a mailed code changes
\* one password (ExchangeOTPForResetToken, ConsumeResetToken).
UsedOnce ==
    /\ \A g \in Grants : Cardinality({h \in Grants : grants[h].parent = g}) <= 1
    /\ \A c \in Code : changed[c] <= 1

\* A connection does not outlive its session, even when the checks of WatchSession
\* cannot be made.
WatchEnds ==
    \A c \in Connection :
        (pc[c] # "closed" /\ Dead(Access(call[c].grant))) ~> pc[c] = "closed"
=============================================================================
