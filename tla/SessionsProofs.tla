--------------------------- MODULE SessionsProofs ---------------------------
(***************************************************************************)
(* What the sessions of an account guarantee for any number of requests    *)
(* and connections at a time, any number of logins, changes of the         *)
(* password, codes and expirations, and any failures of MySQL and Redis.   *)
(*                                                                         *)
(* The argument: what ends a session is never undone (Grows), every        *)
(* request takes one of a few steps (Flow), and at each step it still has  *)
(* to pass, a request with a dead token meets what stops it there          *)
(* (SignedIsStopped, RefreshIsStopped).                                    *)
(***************************************************************************)
EXTENDS Sessions, FiniteSetTheorems, TLAPS

\* Whoever holds a token pair in a request, a connection or a ticket holds one that was
\* handed out.
GrantsKnown ==
    /\ \A x \in Actor : pc[x] \in Verify \cup {"open", "accepted", "account", "same", "consume", "stop", "revoke"}
                            => call[x].grant \in Grants
    /\ tickets \subseteq Grants

\* credentials_version counts the changes of the password and the withdrawals, and no
\* token and no request has a version that the account has not had.
VersionCounts ==
    /\ version = era
    /\ \A g \in Grants : grants[g].version = grants[g].era /\ grants[g].era <= era
    /\ \A x \in Actor : call[x].row.version = call[x].row.era /\ call[x].row.era <= era

\* Redis marks every token that was used up or logged out and has not expired.
MarksStop == stopped \subseteq marked

\* The row of the token's account is gone, or of a later version.
Outdated(g) == ~account \/ grants[g].era # era

\* A request that began with a dead token meets, at every step it still has to pass, what
\* stops it there, unless the token expires meanwhile.
SignedIsStopped ==
    \A q \in Request : call[q].dead /\ Access(call[q].grant) \notin expired =>
        /\ pc[q] = "revoked" => Access(call[q].grant) \in stopped \/ Outdated(call[q].grant)
        /\ pc[q] \in {"user", "version"} => Outdated(call[q].grant)
        /\ pc[q] # "accepted"

\* The same of a refresh.
RefreshIsStopped ==
    /\ \A q \in Request : call[q].dead /\ Refresh(call[q].grant) \notin expired =>
        /\ pc[q] \in {"account", "same"} => Refresh(call[q].grant) \in stopped \/ Outdated(call[q].grant)
        /\ pc[q] = "consume" => Refresh(call[q].grant) \in stopped
    /\ \A g \in Grants : ~grants[g].dead

\* A pair that came from a refresh has used its parent's refresh token up, and is the only
\* child of its parent.
OneChild ==
    \A g \in Grants : grants[g].parent # None =>
        /\ Refresh(grants[g].parent) \in expired \cup marked
        /\ \A h \in Grants : grants[h].parent = grants[g].parent => h = g

\* A request that has taken the reset token of a code and has not saved yet.
Holds(q, c) == pc[q] \in {"credentials", "save"} /\ call[q].op = "reset" /\ call[q].code = c

\* A code that is neither taken nor used: not made yet, the code of the account or a reset token.
Waits(c) == c > codes \/ c = code \/ c \in resets

\* A code is in one place only: it waits, one request has taken it, or it was used.
CodeInOnePlace ==
    /\ \A c \in Code : Waits(c) => changed[c] = 0 /\ \A q \in Request : ~Holds(q, c)
    /\ \A c \in Code : c = code \/ c \in resets => c <= codes
    /\ code \notin resets
    /\ \A q \in Request : pc[q] = "credentials" => call[q].op = "reset" /\ call[q].code \in Code
    /\ \A q \in Request : \A c \in Code : Holds(q, c) => changed[c] = 0
    /\ \A q, r \in Request : \A c \in Code : Holds(q, c) /\ Holds(r, c) => q = r
    /\ \A c \in Code : changed[c] <= 1

\* The inductive invariant.
IInv ==
    /\ TypeOK
    /\ GrantsKnown
    /\ VersionCounts
    /\ MarksStop
    /\ SignedIsStopped
    /\ RefreshIsStopped
    /\ OneChild
    /\ CodeInOnePlace
-----------------------------------------------------------------------------
(* Types. *)

GrantType == [version : 0..MaxVersion, era : Nat, parent : Grant \cup {None}, dead : BOOLEAN]
CallType == [op : Op, grant : Grant \cup {None}, dead : BOOLEAN, row : Row, code : Code \cup {None}]

RowType ==
    /\ account \in BOOLEAN
    /\ status \in Status
    /\ hash \in 0..MaxHashes
    /\ version \in 0..MaxVersion
    /\ hashes \in 0..MaxHashes
    /\ era \in Nat

TokenType ==
    /\ grants \in Seq(GrantType)
    /\ Len(grants) <= MaxGrants
    /\ expired \subseteq Token
    /\ marked \subseteq Token
    /\ stopped \subseteq Token

ResetType ==
    /\ code \in Code \cup {None}
    /\ codes \in 0..MaxCodes
    /\ resets \subseteq Code
    /\ changed \in [Code -> Nat]

FlowType ==
    /\ pc \in [Actor -> Step]
    /\ call \in [Actor -> CallType]
    /\ missed \in [Connection -> 0..MaxUnavailable]

\* The parts of the type invariant.
LEMMA TypeParts == TypeOK <=> RowType /\ TokenType /\ ResetType /\ FlowType /\ tickets \subseteq Grant /\ calls \in 0..MaxCalls
  BY DEF TypeOK, RowType, TokenType, ResetType, FlowType, GrantType, CallType

\* Every bound is a number.
LEMMA Bounds ==
    /\ MaxGrants \in Nat /\ MaxHashes \in Nat /\ MaxVersion \in Nat /\ MaxCodes \in Nat /\ MaxCalls \in Nat
    /\ MaxExpired \in Nat /\ MaxUnavailable \in Nat /\ MaxUnavailable > 0
    /\ None \notin Grant /\ None \notin Code
  BY SessionsAssumption DEF Grant, Code

LEMMA NoCallType == NoCall \in CallType /\ NoRow \in Row
<1>1. NoRow \in Row BY Bounds DEF NoRow, Row, Status
<1>2. QED BY <1>1 DEF NoCall, CallType, Op

\* The call of a request that begins.
LEMMA StartedType ==
    \A o \in Op :
        /\ [NoCall EXCEPT !.op = o] \in CallType
        /\ \A c \in Code : [NoCall EXCEPT !.op = o, !.code = c] \in CallType
        /\ \A g \in Grant : /\ [NoCall EXCEPT !.op = o, !.grant = g] \in CallType
                            /\ \A d \in BOOLEAN : [NoCall EXCEPT !.op = o, !.grant = g, !.dead = d] \in CallType
  BY NoCallType DEF NoCall, CallType

\* Requests begin, return and read the row within the types.
LEMMA BeginType ==
    ASSUME FlowType, NEW q \in Request, NEW s \in Step, NEW what \in CallType, Begin(q, s, what), UNCHANGED missed
    PROVE  FlowType'
  BY DEF FlowType, Begin, GoTo, Actor

LEMMA GoToType ==
    ASSUME FlowType, NEW x \in Actor, NEW s \in Step, GoTo(x, s), UNCHANGED <<call, missed>>
    PROVE  FlowType'
  BY DEF FlowType, GoTo

LEMMA ReturnType ==
    ASSUME FlowType, NEW q \in Request, Return(q), UNCHANGED missed
    PROVE  FlowType'
  BY NoCallType DEF FlowType, Return, GoTo, Actor, Step

LEMMA CloseType ==
    ASSUME FlowType, NEW c \in Connection, Close(c)
    PROVE  FlowType'
  BY NoCallType, Bounds DEF FlowType, Close, GoTo, Actor, Step

LEMMA ReadType ==
    ASSUME FlowType, RowType, NEW q \in Request, NEW s \in Step, NEW o \in Op,
           call' = Read(q, o), GoTo(q, s), UNCHANGED missed
    PROVE  FlowType'
<1> DEFINE row == [hash |-> hash, version |-> version, status |-> status, era |-> era]
           new == [NoCall EXCEPT !.op = o, !.code = call[q].code, !.row = row]
<1>1. row \in Row BY DEF RowType, Row
<1>2. call[q].code \in Code \cup {None} BY DEF FlowType, CallType, Actor
<1>3. new \in CallType BY <1>1, <1>2, NoCallType DEF NoCall, CallType
<1>4. call' = [call EXCEPT ![q] = new] BY DEF Read
<1> HIDE DEF new
<1> QED BY <1>3, <1>4 DEF FlowType, GoTo, Actor

LEMMA UnavailableType ==
    ASSUME FlowType, NEW x \in Actor, Unavailable(x)
    PROVE  FlowType'
<1>1. CASE x \in Request
  <2>1. x \notin Connection BY <1>1, SessionsAssumption
  <2> QED BY <1>1, <2>1, ReturnType DEF Unavailable
<1>2. CASE x \in Connection /\ x \notin Request /\ missed[x] + 1 < MaxUnavailable
  <2>1. missed' = [missed EXCEPT ![x] = @ + 1] /\ GoTo(x, "open") /\ UNCHANGED call
    BY <1>2 DEF Unavailable
  <2>2. missed' \in [Connection -> 0..MaxUnavailable] BY <1>2, <2>1, Bounds DEF FlowType
  <2> QED BY <2>1, <2>2 DEF FlowType, GoTo, Step
<1>3. CASE x \in Connection /\ x \notin Request /\ ~(missed[x] + 1 < MaxUnavailable)
  BY <1>3, CloseType DEF Unavailable
<1> QED BY <1>1, <1>2, <1>3 DEF Actor

LEMMA RefuseType ==
    ASSUME FlowType, NEW x \in Actor, Refuse(x)
    PROVE  FlowType'
  BY CloseType, ReturnType DEF Refuse, Actor

\* A token that is handed out.
LEMMA HandOutType ==
    ASSUME TokenType, NEW row, row.version \in 0..MaxVersion, row.era \in Nat, NEW p \in Grant \cup {None},
           NEW d \in BOOLEAN, HandOut(row, p, d)
    PROVE  grants' \in Seq(GrantType) /\ Len(grants') <= MaxGrants
<1> DEFINE new == [version |-> row.version, era |-> row.era, parent |-> p, dead |-> d]
<1>1. new \in GrantType BY DEF GrantType
<1>2. grants' = Append(grants, new) BY DEF HandOut
<1> HIDE DEF new
<1> QED BY <1>1, <1>2, Bounds DEF TokenType, HandOut

\* The tokens of a pair that was handed out, and what was read of it.
LEMMA GrantFacts ==
    ASSUME TokenType, NEW g \in Grants
    PROVE  /\ g \in Grant /\ Access(g) \in Token /\ Refresh(g) \in Token
           /\ grants[g] \in GrantType /\ Dead(Access(g)) \in BOOLEAN /\ Dead(Refresh(g)) \in BOOLEAN
<1>1. g \in Grant /\ grants[g] \in GrantType BY Bounds DEF TokenType, Grants, Grant
<1> QED BY <1>1 DEF Token, Dead

LEMMA SameRow == RowType /\ UNCHANGED rowVars => RowType'
  BY DEF RowType, rowVars
LEMMA SameTokens == TokenType /\ UNCHANGED tokenVars => TokenType'
  BY DEF TokenType, tokenVars
LEMMA SameResets == ResetType /\ UNCHANGED resetVars => ResetType'
  BY DEF ResetType, resetVars


\* The types that a step keeps, but for the number of requests.
Typed == RowType /\ TokenType /\ ResetType /\ FlowType /\ tickets \subseteq Grant

\* A step that changes neither tickets nor a group of variables is typed for them.
LEMMA NextTyped ==
    ASSUME Typed, GrantsKnown, [Next]_vars
    PROVE  Typed'
<1> USE SameRow, SameTokens, SameResets DEF Typed
<1>1. ASSUME NEW q \in Request, StartLogin(q) PROVE Typed'
  BY <1>1, ReadType DEF StartLogin, Op, Step
<1>2. ASSUME NEW q \in Request, StartEdit(q) PROVE Typed'
  BY <1>2, ReadType DEF StartEdit, Op, Step
<1>3. ASSUME NEW q \in Request, StartCode(q) PROVE Typed'
  BY <1>3, BeginType, StartedType DEF StartCode, Op, Step
<1>4. ASSUME NEW q \in Request, NEW op \in {"freeze", "unfreeze"}, StartStatus(q, op) PROVE Typed'
  BY <1>4, BeginType, StartedType DEF StartStatus, Op, Step
<1>5. ASSUME NEW q \in Request, NEW c \in resets, ConsumeResetToken(q, c) PROVE Typed'
  <2>1. c \in Code BY DEF ResetType
  <2>2. FlowType' BY <1>5, <2>1, BeginType, StartedType DEF ConsumeResetToken, Op, Step
  <2>3. ResetType' BY <1>5 DEF ConsumeResetToken, ResetType
  <2> QED BY <1>5, <2>2, <2>3 DEF ConsumeResetToken
<1>6. ASSUME NEW q \in Request, NEW g \in Grants, StartRefresh(q, g) PROVE Typed'
  <2>1. g \in Grant /\ Dead(Refresh(g)) \in BOOLEAN BY GrantFacts
  <2>2. [NoCall EXCEPT !.op = "refresh", !.grant = g, !.dead = Dead(Refresh(g))] \in CallType
    BY <2>1, StartedType DEF Op
  <2> QED BY <1>6, <2>2, BeginType DEF StartRefresh, Step
<1>7. ASSUME NEW q \in Request, NEW g \in Grants, NEW both \in BOOLEAN, StartLogout(q, g, both) PROVE Typed'
  <2>1. g \in Grant BY GrantFacts
  <2>2. [NoCall EXCEPT !.op = "logout", !.grant = g] \in CallType BY <2>1, StartedType DEF Op
  <2>3. (IF both /\ Refresh(g) \notin expired THEN "stop" ELSE "revoke") \in Step BY DEF Step
  <2> QED BY <1>7, <2>2, <2>3, BeginType DEF StartLogout
<1>8. ASSUME NEW q \in Request, NEW g \in Grants, StartSigned(q, g) PROVE Typed'
  <2>1. g \in Grant /\ Dead(Access(g)) \in BOOLEAN BY GrantFacts
  <2>2. [NoCall EXCEPT !.op = "signed", !.grant = g, !.dead = Dead(Access(g))] \in CallType
    BY <2>1, StartedType DEF Op
  <2> QED BY <1>8, <2>2, BeginType DEF StartSigned, Step, Verify
<1>9. ASSUME NEW q \in Request, LoginUser(q) PROVE Typed'
  <2>0. call[q].row \in Row BY DEF FlowType, CallType, Actor
  <2>1. grants' \in Seq(GrantType) /\ Len(grants') <= MaxGrants
    BY <1>9, <2>0, HandOutType DEF LoginUser, Granted, Row, TokenType
  <2>2. FlowType'
    BY <1>9, ReturnType, GoToType DEF LoginUser, Actor, Step
  <2>3. TokenType' BY <1>9, <2>1 DEF LoginUser, TokenType
  <2> QED BY <1>9, <2>2, <2>3 DEF LoginUser
<1>10. ASSUME NEW q \in Request, ReactivateUser(q) PROVE Typed'
  <2>0. call[q].row \in Row BY DEF FlowType, CallType, Actor
  <2>1. grants' \in Seq(GrantType) /\ Len(grants') <= MaxGrants
    BY <1>10, <2>0, HandOutType DEF ReactivateUser, Granted, Row, TokenType
  <2>2. FlowType' BY <1>10, ReturnType DEF ReactivateUser
  <2>3. TokenType' BY <1>10, <2>1 DEF ReactivateUser, TokenType
  <2>4. RowType' BY <1>10 DEF ReactivateUser, RowType, Status
  <2> QED BY <1>10, <2>2, <2>3, <2>4 DEF ReactivateUser
<1>11. ASSUME NEW q \in Request, RefreshAccount(q) PROVE Typed'
  BY <1>11, ReturnType, GoToType DEF RefreshAccount, Step, Actor
<1>12. ASSUME NEW q \in Request, RefreshVersion(q) PROVE Typed'
  BY <1>12, ReturnType, GoToType DEF RefreshVersion, Step, Actor
<1>13. ASSUME NEW q \in Request, RefreshUserToken(q) PROVE Typed'
  <2> DEFINE g == call[q].grant
  <2>0. g \in Grants BY <1>13 DEF GrantsKnown, RefreshUserToken, Actor
  <2>1. g \in Grant /\ Refresh(g) \in Token /\ grants[g] \in GrantType BY <2>0, GrantFacts
  <2>2. call[q].dead \in BOOLEAN BY DEF FlowType, CallType, Actor
  <2>3. grants' \in Seq(GrantType) /\ Len(grants') <= MaxGrants
    <3>1. CASE UNCHANGED grants BY <3>1 DEF TokenType
    <3>2. CASE HandOut([version |-> grants[g].version, era |-> grants[g].era], g, call[q].dead)
      <4> DEFINE row == [version |-> grants[g].version, era |-> grants[g].era]
      <4>1. row.version \in 0..MaxVersion /\ row.era \in Nat BY <2>1 DEF GrantType
      <4> HIDE DEF row
      <4> QED BY <2>1, <2>2, <3>2, <4>1, HandOutType DEF row
    <3> QED BY <1>13, <3>1, <3>2 DEF RefreshUserToken
  <2>4. marked' \subseteq Token /\ stopped' \subseteq Token BY <1>13, <2>1 DEF RefreshUserToken, Mark, TokenType
  <2>5. FlowType' BY <1>13, ReturnType DEF RefreshUserToken
  <2>6. TokenType' BY <1>13, <2>3, <2>4 DEF RefreshUserToken, TokenType
  <2> QED BY <1>13, <2>5, <2>6 DEF RefreshUserToken
<1>14. ASSUME NEW q \in Request, LogoutRefresh(q) PROVE Typed'
  <2>0. call[q].grant \in Grants BY <1>14 DEF GrantsKnown, LogoutRefresh, Actor
  <2>1. Refresh(call[q].grant) \in Token BY <2>0, GrantFacts
  <2>2. FlowType' BY <1>14, GoToType DEF LogoutRefresh, Actor, Step
  <2>3. TokenType' BY <1>14, <2>1 DEF LogoutRefresh, Mark, TokenType
  <2> QED BY <1>14, <2>2, <2>3 DEF LogoutRefresh
<1>15. ASSUME NEW q \in Request, LogoutUser(q) PROVE Typed'
  <2>0. call[q].grant \in Grants BY <1>15 DEF GrantsKnown, LogoutUser, Actor, Verify
  <2>1. Access(call[q].grant) \in Token BY <2>0, GrantFacts
  <2>2. FlowType' BY <1>15, ReturnType DEF LogoutUser
  <2>3. TokenType' BY <1>15, <2>1 DEF LogoutUser, Mark, TokenType
  <2> QED BY <1>15, <2>2, <2>3 DEF LogoutUser
<1>16. ASSUME NEW q \in Request, IssueTicket(q) PROVE Typed'
  <2>0. call[q].grant \in Grants BY <1>16 DEF GrantsKnown, IssueTicket, Actor
  <2>1. call[q].grant \in Grant BY <2>0, GrantFacts
  <2> QED BY <1>16, <2>1, ReturnType DEF IssueTicket
<1>17. ASSUME NEW q \in Request, NEW c \in Connection, OpenSocket(q, c) PROVE Typed'
  <2>0. call[q].grant \in Grants BY <1>17 DEF GrantsKnown, OpenSocket, Actor
  <2>1. call[q].grant \in Grant BY <2>0, GrantFacts
  <2> DEFINE new == [NoCall EXCEPT !.op = "watch", !.grant = call[q].grant]
  <2>2. new \in CallType BY <2>1, StartedType DEF Op
  <2> HIDE DEF new
  <2>3. call' = [[call EXCEPT ![c] = new] EXCEPT ![q] = NoCall] BY <1>17 DEF OpenSocket, Open, new
  <2>4. FlowType' BY <1>17, <2>2, <2>3, NoCallType DEF OpenSocket, FlowType, Step, Actor
  <2> QED BY <1>17, <2>4 DEF OpenSocket
<1>18. ASSUME NEW q \in Request, Withdraw(q) PROVE Typed'
  <2>1. FlowType' BY <1>18, ReturnType DEF Withdraw
  <2>2. RowType' BY <1>18, Bounds DEF Withdraw, RowType, Status
  <2> QED BY <1>18, <2>1, <2>2 DEF Withdraw
<1>19. ASSUME NEW q \in Request, UpdateUser(q) PROVE Typed'
  BY <1>19, ReadType DEF UpdateUser, Op, Step
<1>20. ASSUME NEW q \in Request, ResetPassword(q) PROVE Typed'
  BY <1>20, ReadType DEF ResetPassword, Op, Step
<1>21. ASSUME NEW q \in Request, SaveCredentials(q) PROVE Typed'
  <2>0. call[q].row \in Row BY DEF FlowType, CallType, Actor
  <2>1. FlowType' BY <1>21, ReturnType DEF SaveCredentials
  <2>2. RowType' BY <1>21, <2>0, Bounds DEF SaveCredentials, MovesOn, RowType, Row
  <2>3. changed' \in [Code -> Nat]
    <3>1. CASE UNCHANGED changed BY <3>1 DEF ResetType
    <3>2. CASE changed' = [changed EXCEPT ![call[q].code] = @ + 1] /\ call[q].code \in Code
      BY <3>2 DEF ResetType
    <3>3. CASE changed' = [changed EXCEPT ![call[q].code] = @ + 1] /\ call[q].code \notin Code
      BY <3>3 DEF ResetType
    <3> QED BY <1>21, <3>1, <3>2, <3>3 DEF SaveCredentials
  <2>4. ResetType' BY <1>21, <2>3 DEF SaveCredentials, ResetType
  <2> QED BY <1>21, <2>1, <2>2, <2>4 DEF SaveCredentials
<1>22. ASSUME NEW q \in Request, WriteStatus(q) PROVE Typed'
  <2>1. FlowType' BY <1>22, ReturnType DEF WriteStatus
  <2>2. RowType' BY <1>22 DEF WriteStatus, RowType, Status
  <2> QED BY <1>22, <2>1, <2>2 DEF WriteStatus
<1>23. ASSUME NEW q \in Request, RequestPasswordReset(q) PROVE Typed'
  <2>1. FlowType' BY <1>23, ReturnType DEF RequestPasswordReset
  <2>2. ResetType' BY <1>23, Bounds DEF RequestPasswordReset, ResetType, Code
  <2> QED BY <1>23, <2>1, <2>2 DEF RequestPasswordReset
<1>24. ASSUME NEW q \in Request, Fail(q) PROVE Typed'
  BY <1>24, ReturnType DEF Fail
<1>25. ASSUME NEW x \in Actor, VerifyMark(x) PROVE Typed'
  BY <1>25, RefuseType, GoToType DEF VerifyMark, Step, Verify
<1>26. ASSUME NEW x \in Actor, VerifyUser(x) PROVE Typed'
  BY <1>26, RefuseType, GoToType DEF VerifyUser, Step, Verify
<1>27. ASSUME NEW x \in Actor, VerifyVersion(x) PROVE Typed'
  <2>1. CASE Unavailable(x) BY <1>27, <2>1, UnavailableType DEF VerifyVersion
  <2>2. CASE Refuse(x) BY <1>27, <2>2, RefuseType DEF VerifyVersion
  <2>3. CASE Accept(x)
    <3>1. missed' \in [Connection -> 0..MaxUnavailable] BY <2>3, Bounds DEF Accept, FlowType
    <3>2. FlowType' BY <2>3, <3>1 DEF Accept, FlowType, GoTo, Step
    <3> QED BY <1>27, <3>2 DEF VerifyVersion
  <2> QED BY <1>27, <2>1, <2>2, <2>3 DEF VerifyVersion
<1>28. ASSUME NEW x \in Actor, VerifyFails(x) PROVE Typed'
  BY <1>28, UnavailableType DEF VerifyFails
<1>29. ASSUME NEW c \in Connection, StartWatch(c) PROVE Typed'
  BY <1>29, CloseType, GoToType DEF StartWatch, Step, Verify, Actor
<1>30. ASSUME NEW c \in Connection, Disconnect(c) PROVE Typed'
  BY <1>30, CloseType DEF Disconnect
<1>31. ASSUME NEW c \in Connection, NEW g \in tickets, OpenStream(c, g) PROVE Typed'
  <2>1. g \in Grant BY DEF GrantsKnown
  <2>2. [NoCall EXCEPT !.op = "watch", !.grant = g] \in CallType BY <2>1, StartedType DEF Op
  <2>3. FlowType' BY <1>31, <2>2 DEF OpenStream, Open, GoTo, FlowType, Step, Actor
  <2> QED BY <1>31, <2>3 DEF OpenStream
<1>32. ASSUME NEW given \in 0..codes, VerifyPasswordResetOTP(given) PROVE Typed'
  <2>1. ResetType' BY <1>32 DEF VerifyPasswordResetOTP, AfterExchange, ResetType
  <2> QED BY <1>32, <2>1 DEF VerifyPasswordResetOTP, FlowType
<1>33. ASSUME NEW g \in Grants, NEW t \in {Access(g), Refresh(g)}, ExpireToken(t) PROVE Typed'
  <2>1. t \in Token BY GrantFacts
  <2>2. TokenType' BY <1>33, <2>1 DEF ExpireToken, TokenType
  <2> QED BY <1>33, <2>2 DEF ExpireToken, FlowType
<1>34. ASSUME NEW g \in tickets, ExpireTicket(g) PROVE Typed'
  BY <1>34 DEF ExpireTicket, FlowType
<1>35. ASSUME ExpireCode PROVE Typed'
  <2>1. ResetType' BY <1>35 DEF ExpireCode, ResetType
  <2> QED BY <1>35, <2>1 DEF ExpireCode, FlowType
<1>36. ASSUME PurgeUser PROVE Typed'
  <2>1. RowType' BY <1>36 DEF PurgeUser, RowType, Status
  <2> QED BY <1>36, <2>1 DEF PurgeUser, FlowType
<1>37. ASSUME NEW c \in resets, ExpireReset(c) PROVE Typed'
  <2>1. ResetType' BY <1>37 DEF ExpireReset, ResetType
  <2> QED BY <1>37, <2>1 DEF ExpireReset, FlowType
<1>38. CASE UNCHANGED vars
  BY <1>38 DEF vars, FlowType
<1>39. ASSUME NEW q \in Request, Start(q) PROVE Typed'
  BY <1>39, <1>1, <1>2, <1>3, <1>4, <1>5, <1>6, <1>7, <1>8 DEF Start
<1>40. ASSUME NEW q \in Request, Continue(q) PROVE Typed'
  BY <1>40, <1>9, <1>10, <1>11, <1>12, <1>13, <1>14, <1>15, <1>16, <1>17, <1>18, <1>19, <1>20,
     <1>21, <1>22, <1>23, <1>24 DEF Continue
<1>41. ASSUME NEW x \in Actor, Check(x) PROVE Typed'
  BY <1>41, <1>25, <1>26, <1>27, <1>28 DEF Check
<1>42. CASE Proceed
  BY <1>42, <1>40, <1>41, <1>29, <1>30, <1>31, <1>32, <1>33, <1>34, <1>35, <1>36, <1>37 DEF Proceed, Watch, Actor
<1> QED BY <1>38, <1>39, <1>42 DEF Next

-----------------------------------------------------------------------------
(* What every step keeps. *)

\* What ends a session is never undone before the token expires, no pair is taken back
\* or changed, and only pairs that were handed out get a ticket.
Grows ==
    /\ era <= era'
    /\ ~account => ~account'
    /\ expired \subseteq expired'
    /\ stopped \subseteq stopped' \cup expired'
    /\ expired \cup marked \subseteq expired' \cup marked'
    /\ Grants \subseteq Grants' /\ \A g \in Grants : grants'[g] = grants[g]
    /\ tickets' \subseteq tickets \cup Grants

\* A pair that was handed out is the last one.
LEMMA HandOutAppends ==
    ASSUME TypeOK, NEW row, NEW p, NEW d, HandOut(row, p, d)
    PROVE  /\ Grants' = Grants \cup {Len(grants) + 1} /\ Len(grants) + 1 \notin Grants
           /\ grants'[Len(grants) + 1] = [version |-> row.version, era |-> row.era, parent |-> p, dead |-> d]
           /\ \A g \in Grants : grants'[g] = grants[g]
<1> DEFINE new == [version |-> row.version, era |-> row.era, parent |-> p, dead |-> d]
<1>1. grants' = Append(grants, new) /\ grants \in Seq(GrantType)
  BY TypeParts DEF HandOut, TokenType
<1> HIDE DEF new
<1>2. grants'[Len(grants) + 1] = new BY <1>1
<1> QED BY <1>1, <1>2 DEF Grants, new

LEMMA SameGrows ==
    ASSUME UNCHANGED <<account, era, grants, expired, marked, stopped>>, tickets' \subseteq tickets \cup Grants, TypeOK
    PROVE  Grows
  BY DEF Grows, Grants, TypeOK

LEMMA NextGrows ==
    ASSUME TypeOK, GrantsKnown, [Next]_vars
    PROVE  Grows
<1> USE SameGrows DEF rowVars, tokenVars

<1>1. ASSUME NEW q \in Request, StartLogin(q) PROVE Grows
  BY <1>1 DEF StartLogin
<1>2. ASSUME NEW q \in Request, StartEdit(q) PROVE Grows
  BY <1>2 DEF StartEdit
<1>3. ASSUME NEW q \in Request, StartCode(q) PROVE Grows
  BY <1>3 DEF StartCode
<1>4. ASSUME NEW q \in Request, NEW op \in {"freeze", "unfreeze"}, StartStatus(q, op) PROVE Grows
  BY <1>4 DEF StartStatus
<1>5. ASSUME NEW q \in Request, NEW c \in resets, ConsumeResetToken(q, c) PROVE Grows
  BY <1>5 DEF ConsumeResetToken
<1>6. ASSUME NEW q \in Request, NEW g \in Grants, StartRefresh(q, g) PROVE Grows
  BY <1>6 DEF StartRefresh
<1>7. ASSUME NEW q \in Request, NEW g \in Grants, NEW both \in BOOLEAN, StartLogout(q, g, both) PROVE Grows
  BY <1>7 DEF StartLogout
<1>8. ASSUME NEW q \in Request, NEW g \in Grants, StartSigned(q, g) PROVE Grows
  BY <1>8 DEF StartSigned
<1>9. ASSUME NEW q \in Request, LoginUser(q) PROVE Grows
  <2>1. Grants \subseteq Grants' /\ \A g \in Grants : grants'[g] = grants[g]
    BY <1>9, HandOutAppends DEF LoginUser, Grants
  <2> QED BY <1>9, <2>1 DEF LoginUser, Grows, TypeOK
<1>10. ASSUME NEW q \in Request, ReactivateUser(q) PROVE Grows
  <2>1. Grants \subseteq Grants' /\ \A g \in Grants : grants'[g] = grants[g]
    BY <1>10, HandOutAppends DEF ReactivateUser, Grants
  <2> QED BY <1>10, <2>1 DEF ReactivateUser, Grows, TypeOK
<1>11. ASSUME NEW q \in Request, RefreshAccount(q) PROVE Grows
  BY <1>11 DEF RefreshAccount
<1>12. ASSUME NEW q \in Request, RefreshVersion(q) PROVE Grows
  BY <1>12 DEF RefreshVersion
<1>13. ASSUME NEW q \in Request, RefreshUserToken(q) PROVE Grows
  <2>1. Grants \subseteq Grants' /\ \A g \in Grants : grants'[g] = grants[g]
    BY <1>13, HandOutAppends DEF RefreshUserToken, Grants
  <2> QED BY <1>13, <2>1 DEF RefreshUserToken, Mark, Grows, TypeOK
<1>14. ASSUME NEW q \in Request, LogoutRefresh(q) PROVE Grows
  BY <1>14 DEF LogoutRefresh, Mark, Grows, Grants, TypeOK
<1>15. ASSUME NEW q \in Request, LogoutUser(q) PROVE Grows
  BY <1>15 DEF LogoutUser, Mark, Grows, Grants, TypeOK
<1>16. ASSUME NEW q \in Request, IssueTicket(q) PROVE Grows
  <2>1. call[q].grant \in Grants BY <1>16 DEF GrantsKnown, IssueTicket, Actor
  <2> QED BY <1>16, <2>1 DEF IssueTicket
<1>17. ASSUME NEW q \in Request, NEW c \in Connection, OpenSocket(q, c) PROVE Grows
  BY <1>17 DEF OpenSocket
<1>18. ASSUME NEW q \in Request, Withdraw(q) PROVE Grows
  BY <1>18 DEF Withdraw, Grows, Grants, TypeOK
<1>19. ASSUME NEW q \in Request, UpdateUser(q) PROVE Grows
  BY <1>19 DEF UpdateUser
<1>20. ASSUME NEW q \in Request, ResetPassword(q) PROVE Grows
  BY <1>20 DEF ResetPassword
<1>21. ASSUME NEW q \in Request, SaveCredentials(q) PROVE Grows
  BY <1>21 DEF SaveCredentials, Grows, Grants, TypeOK
<1>22. ASSUME NEW q \in Request, WriteStatus(q) PROVE Grows
  BY <1>22 DEF WriteStatus
<1>23. ASSUME NEW q \in Request, RequestPasswordReset(q) PROVE Grows
  BY <1>23 DEF RequestPasswordReset
<1>24. ASSUME NEW q \in Request, Fail(q) PROVE Grows
  BY <1>24 DEF Fail
<1>25. ASSUME NEW x \in Actor, VerifyMark(x) PROVE Grows
  BY <1>25 DEF VerifyMark
<1>26. ASSUME NEW x \in Actor, VerifyUser(x) PROVE Grows
  BY <1>26 DEF VerifyUser
<1>27. ASSUME NEW x \in Actor, VerifyVersion(x) PROVE Grows
  BY <1>27 DEF VerifyVersion
<1>28. ASSUME NEW x \in Actor, VerifyFails(x) PROVE Grows
  BY <1>28 DEF VerifyFails
<1>29. ASSUME NEW c \in Connection, StartWatch(c) PROVE Grows
  BY <1>29 DEF StartWatch
<1>30. ASSUME NEW c \in Connection, Disconnect(c) PROVE Grows
  BY <1>30 DEF Disconnect
<1>31. ASSUME NEW c \in Connection, NEW g \in tickets, OpenStream(c, g) PROVE Grows
  BY <1>31 DEF OpenStream
<1>32. ASSUME NEW given \in 0..codes, VerifyPasswordResetOTP(given) PROVE Grows
  BY <1>32 DEF VerifyPasswordResetOTP
<1>33. ASSUME NEW g \in Grants, NEW t \in {Access(g), Refresh(g)}, ExpireToken(t) PROVE Grows
  BY <1>33 DEF ExpireToken, Grows, Grants, TypeOK
<1>34. ASSUME NEW g \in tickets, ExpireTicket(g) PROVE Grows
  BY <1>34 DEF ExpireTicket
<1>35. ASSUME ExpireCode PROVE Grows
  BY <1>35 DEF ExpireCode
<1>36. ASSUME PurgeUser PROVE Grows
  BY <1>36 DEF PurgeUser, Grows, Grants, TypeOK
<1>37. ASSUME NEW c \in resets, ExpireReset(c) PROVE Grows
  BY <1>37 DEF ExpireReset
<1>38. CASE UNCHANGED vars
  BY <1>38 DEF vars
<1>39. ASSUME NEW q \in Request, Start(q) PROVE Grows
  BY <1>39, <1>1, <1>2, <1>3, <1>4, <1>5, <1>6, <1>7, <1>8 DEF Start
<1>40. ASSUME NEW q \in Request, Continue(q) PROVE Grows
  BY <1>40, <1>9, <1>10, <1>11, <1>12, <1>13, <1>14, <1>15, <1>16, <1>17, <1>18, <1>19, <1>20,
     <1>21, <1>22, <1>23, <1>24 DEF Continue
<1>41. ASSUME NEW x \in Actor, Check(x) PROVE Grows
  BY <1>41, <1>25, <1>26, <1>27, <1>28 DEF Check
<1>42. CASE Proceed
  BY <1>42, <1>40, <1>41, <1>29, <1>30, <1>31, <1>32, <1>33, <1>34, <1>35, <1>36, <1>37 DEF Proceed, Watch, Actor
<1> QED BY <1>38, <1>39, <1>42 DEF Next


(* What an actor does in a step. *)

Rests(x) == pc'[x] = pc[x] /\ call'[x] = call[x]

\* A request returns, a connection closes.
Quits(x) == pc'[x] \in {"idle", "closed"} /\ call'[x] = NoCall

\* A connection opens.
Opens(c) == pc'[c] = "open" /\ call'[c].grant \in Grants /\ call'[c].row = NoRow

\* A request reads the row.
Looks(q) ==
    /\ pc'[q] \in {"compare", "save"}
    /\ call'[q].row = [hash |-> hash, version |-> version, status |-> status, era |-> era]
    /\ ~call'[q].dead
    /\ call'[q].op = "reset" => pc[q] = "credentials" /\ call'[q].code = call[q].code

\* A request begins.
Begins(q) ==
    /\ pc[q] = "idle" /\ call'[q].row = NoRow
    /\ \/ /\ pc'[q] = "account" /\ call'[q].grant \in Grants
          /\ call'[q].dead => Dead(Refresh(call'[q].grant))
       \/ /\ pc'[q] = "revoked" /\ call'[q].grant \in Grants
          /\ call'[q].dead => Dead(Access(call'[q].grant))
       \/ pc'[q] \in {"stop", "revoke"} /\ call'[q].grant \in Grants /\ ~call'[q].dead
       \/ pc'[q] \in {"code", "status"} /\ ~call'[q].dead
       \/ pc'[q] = "credentials" /\ ~call'[q].dead /\ call'[q].op = "reset" /\ call'[q].code \in resets \ resets'

\* A request or the watch of a connection goes on with what it has.
Passes(x) ==
    /\ call'[x] = call[x]
    /\ \/ pc[x] = "compare" /\ pc'[x] = "reactivate"
       \/ pc[x] = "account" /\ pc'[x] = "same"
       \/ pc[x] = "same" /\ pc'[x] = "consume" /\ SameVersion(x)
       \/ pc[x] = "stop" /\ pc'[x] = "revoke"
       \/ pc[x] = "revoked" /\ pc'[x] = "user" /\ Access(call[x].grant) \notin marked
       \/ pc[x] = "user" /\ pc'[x] = "version"
       \/ pc[x] = "version" /\ pc'[x] = "accepted" /\ SameVersion(x)
       \/ x \in Connection /\ pc[x] \in Verify \cup {"open"} /\ pc'[x] \in {"open", "revoked"}

Moves(x) == Rests(x) \/ Quits(x) \/ Opens(x) \/ Looks(x) \/ Begins(x) \/ Passes(x)

\* Whoever is not named in a step rests.
LEMMA GoToRests ==
    ASSUME FlowType, NEW x \in Actor, NEW s, GoTo(x, s)
    PROVE  pc'[x] = s /\ \A y \in Actor \ {x} : pc'[y] = pc[y]
  BY DEF GoTo, FlowType

LEMMA GoesOn ==
    ASSUME FlowType, NEW x \in Actor, NEW s, GoTo(x, s), UNCHANGED call
    PROVE  pc'[x] = s /\ call'[x] = call[x] /\ \A y \in Actor \ {x} : Rests(y)
  BY GoToRests DEF Rests

LEMMA ReturnQuits ==
    ASSUME FlowType, NEW q \in Request, Return(q)
    PROVE  Quits(q) /\ \A y \in Actor \ {q} : Rests(y)
  BY DEF FlowType, Return, GoTo, Rests, Quits, Actor

LEMMA CloseQuits ==
    ASSUME FlowType, NEW c \in Connection, Close(c)
    PROVE  Quits(c) /\ \A y \in Actor \ {c} : Rests(y)
  BY DEF FlowType, Close, GoTo, Rests, Quits, Actor

LEMMA RefuseQuits ==
    ASSUME FlowType, NEW x \in Actor, Refuse(x)
    PROVE  Quits(x) /\ \A y \in Actor \ {x} : Rests(y)
  BY ReturnQuits, CloseQuits DEF Refuse, Actor

LEMMA UnavailableMoves ==
    ASSUME FlowType, NEW x \in Actor, Unavailable(x)
    PROVE  /\ \/ Quits(x)
              \/ x \in Connection /\ pc'[x] = "open" /\ call'[x] = call[x]
           /\ \A y \in Actor \ {x} : Rests(y)
<1>1. CASE x \in Request
  <2>1. x \notin Connection BY <1>1, SessionsAssumption
  <2> QED BY <1>1, <2>1, ReturnQuits DEF Unavailable
<1>2. CASE x \in Connection /\ x \notin Request
  BY <1>2, CloseQuits, GoesOn DEF Unavailable
<1> QED BY <1>1, <1>2 DEF Actor

LEMMA BeginRests ==
    ASSUME FlowType, NEW q \in Request, NEW s, NEW what, Begin(q, s, what)
    PROVE  pc[q] = "idle" /\ pc'[q] = s /\ call'[q] = what /\ \A y \in Actor \ {q} : Rests(y)
  BY DEF FlowType, Begin, GoTo, Rests, Actor

LEMMA ReadLooks ==
    ASSUME FlowType, NEW q \in Request, NEW s \in {"compare", "save"}, NEW o, o = "reset" => pc[q] = "credentials",
           GoTo(q, s), call' = Read(q, o)
    PROVE  Looks(q) /\ \A y \in Actor \ {q} : Rests(y)
<1> DEFINE row == [hash |-> hash, version |-> version, status |-> status, era |-> era]
           new == [NoCall EXCEPT !.op = o, !.code = call[q].code, !.row = row]
<1>1. call' = [call EXCEPT ![q] = new] BY DEF Read
<1>2. new.op = o /\ new.code = call[q].code /\ new.row = row /\ new.dead = FALSE BY DEF NoCall
<1>3. q \in Actor BY DEF Actor
<1> HIDE DEF new
<1>4. call'[q] = new /\ \A y \in Actor \ {q} : call'[y] = call[y] BY <1>1, <1>3 DEF FlowType
<1> QED BY <1>2, <1>3, <1>4, GoToRests DEF Looks, Rests

\* Every step leaves every actor alone or takes it one step further.
LEMMA NextMoves ==
    ASSUME TypeOK, GrantsKnown, [Next]_vars
    PROVE  \A x \in Actor : Moves(x)
<1>0. FlowType BY TypeParts
<1> USE <1>0 DEF Moves

<1>1. ASSUME NEW q \in Request, StartLogin(q) PROVE \A y \in Actor : Moves(y)
  BY <1>1, ReadLooks DEF StartLogin
<1>2. ASSUME NEW q \in Request, StartEdit(q) PROVE \A y \in Actor : Moves(y)
  BY <1>2, ReadLooks DEF StartEdit
<1>3. ASSUME NEW q \in Request, StartCode(q) PROVE \A y \in Actor : Moves(y)
  BY <1>3, BeginRests DEF StartCode, Begins, NoCall
<1>4. ASSUME NEW q \in Request, NEW op \in {"freeze", "unfreeze"}, StartStatus(q, op) PROVE \A y \in Actor : Moves(y)
  BY <1>4, BeginRests DEF StartStatus, Begins, NoCall
<1>5. ASSUME NEW q \in Request, NEW c \in resets, ConsumeResetToken(q, c) PROVE \A y \in Actor : Moves(y)
  <2> DEFINE what == [NoCall EXCEPT !.op = "reset", !.code = c]
  <2>1. what.op = "reset" /\ what.code = c /\ what.row = NoRow /\ ~what.dead BY DEF NoCall
  <2>2. Begin(q, "credentials", what) BY <1>5 DEF ConsumeResetToken
  <2> HIDE DEF what
  <2>3. pc[q] = "idle" /\ pc'[q] = "credentials" /\ call'[q] = what /\ \A y \in Actor \ {q} : Rests(y) BY <2>2, BeginRests
  <2> QED BY <1>5, <2>1, <2>3 DEF ConsumeResetToken, Begins
<1>6. ASSUME NEW q \in Request, NEW g \in Grants, StartRefresh(q, g) PROVE \A y \in Actor : Moves(y)
  <2> DEFINE what == [NoCall EXCEPT !.op = "refresh", !.grant = g, !.dead = Dead(Refresh(g))]
  <2>1. what.grant = g /\ what.row = NoRow /\ what.dead = Dead(Refresh(g)) BY DEF NoCall
  <2>2. Begin(q, "account", what) BY <1>6 DEF StartRefresh
  <2> HIDE DEF what
  <2>3. pc[q] = "idle" /\ pc'[q] = "account" /\ call'[q] = what /\ \A y \in Actor \ {q} : Rests(y) BY <2>2, BeginRests
  <2> QED BY <1>6, <2>1, <2>3 DEF StartRefresh, Begins
<1>7. ASSUME NEW q \in Request, NEW g \in Grants, NEW both \in BOOLEAN, StartLogout(q, g, both) PROVE \A y \in Actor : Moves(y)
  <2> DEFINE what == [NoCall EXCEPT !.op = "logout", !.grant = g]
  <2>1. what.grant = g /\ what.row = NoRow /\ ~what.dead BY DEF NoCall
  <2>2. Begin(q, (IF both /\ Refresh(g) \notin expired THEN "stop" ELSE "revoke"), what) BY <1>7 DEF StartLogout
  <2> HIDE DEF what
  <2>3. pc[q] = "idle" /\ pc'[q] = (IF both /\ Refresh(g) \notin expired THEN "stop" ELSE "revoke") /\ call'[q] = what /\ \A y \in Actor \ {q} : Rests(y) BY <2>2, BeginRests
  <2> QED BY <1>7, <2>1, <2>3 DEF StartLogout, Begins
<1>8. ASSUME NEW q \in Request, NEW g \in Grants, StartSigned(q, g) PROVE \A y \in Actor : Moves(y)
  <2> DEFINE what == [NoCall EXCEPT !.op = "signed", !.grant = g, !.dead = Dead(Access(g))]
  <2>1. what.grant = g /\ what.row = NoRow /\ what.dead = Dead(Access(g)) BY DEF NoCall
  <2>2. Begin(q, "revoked", what) BY <1>8 DEF StartSigned
  <2> HIDE DEF what
  <2>3. pc[q] = "idle" /\ pc'[q] = "revoked" /\ call'[q] = what /\ \A y \in Actor \ {q} : Rests(y) BY <2>2, BeginRests
  <2> QED BY <1>8, <2>1, <2>3 DEF StartSigned, Begins
<1>9. ASSUME NEW q \in Request, LoginUser(q) PROVE \A y \in Actor : Moves(y)
  BY <1>9, ReturnQuits, GoesOn DEF LoginUser, Passes, Actor
<1>10. ASSUME NEW q \in Request, ReactivateUser(q) PROVE \A y \in Actor : Moves(y)
  BY <1>10, ReturnQuits DEF ReactivateUser
<1>11. ASSUME NEW q \in Request, RefreshAccount(q) PROVE \A y \in Actor : Moves(y)
  BY <1>11, ReturnQuits, GoesOn DEF RefreshAccount, Passes, Actor
<1>12. ASSUME NEW q \in Request, RefreshVersion(q) PROVE \A y \in Actor : Moves(y)
  BY <1>12, ReturnQuits, GoesOn DEF RefreshVersion, Passes, Actor
<1>13. ASSUME NEW q \in Request, RefreshUserToken(q) PROVE \A y \in Actor : Moves(y)
  BY <1>13, ReturnQuits DEF RefreshUserToken
<1>14. ASSUME NEW q \in Request, LogoutRefresh(q) PROVE \A y \in Actor : Moves(y)
  BY <1>14, ReturnQuits, GoesOn DEF LogoutRefresh, Passes, Actor
<1>15. ASSUME NEW q \in Request, LogoutUser(q) PROVE \A y \in Actor : Moves(y)
  BY <1>15, ReturnQuits DEF LogoutUser
<1>16. ASSUME NEW q \in Request, IssueTicket(q) PROVE \A y \in Actor : Moves(y)
  BY <1>16, ReturnQuits DEF IssueTicket
<1>17. ASSUME NEW q \in Request, NEW c \in Connection, OpenSocket(q, c) PROVE \A y \in Actor : Moves(y)
  <2>1. call[q].grant \in Grants BY <1>17 DEF GrantsKnown, OpenSocket, Actor
  <2>2. q # c BY SessionsAssumption
  <2> DEFINE new == [NoCall EXCEPT !.op = "watch", !.grant = call[q].grant]
  <2>3. call' = [[call EXCEPT ![c] = new] EXCEPT ![q] = NoCall] BY <1>17 DEF OpenSocket, Open
  <2>4. new.grant = call[q].grant /\ new.row = NoRow BY DEF NoCall
  <2> HIDE DEF new
  <2>5. call'[q] = NoCall /\ call'[c] = new /\ \A y \in Actor \ {q, c} : call'[y] = call[y]
    BY <2>2, <2>3 DEF FlowType, Actor
  <2>6. pc'[q] = "idle" /\ pc'[c] = "open" /\ \A y \in Actor \ {q, c} : pc'[y] = pc[y]
    BY <1>17, <2>2 DEF OpenSocket, FlowType, Actor
  <2> QED BY <2>1, <2>4, <2>5, <2>6 DEF Quits, Opens, Rests
<1>18. ASSUME NEW q \in Request, Withdraw(q) PROVE \A y \in Actor : Moves(y)
  BY <1>18, ReturnQuits DEF Withdraw
<1>19. ASSUME NEW q \in Request, UpdateUser(q) PROVE \A y \in Actor : Moves(y)
  BY <1>19, ReadLooks DEF UpdateUser
<1>20. ASSUME NEW q \in Request, ResetPassword(q) PROVE \A y \in Actor : Moves(y)
  BY <1>20, ReadLooks DEF ResetPassword
<1>21. ASSUME NEW q \in Request, SaveCredentials(q) PROVE \A y \in Actor : Moves(y)
  BY <1>21, ReturnQuits DEF SaveCredentials
<1>22. ASSUME NEW q \in Request, WriteStatus(q) PROVE \A y \in Actor : Moves(y)
  BY <1>22, ReturnQuits DEF WriteStatus
<1>23. ASSUME NEW q \in Request, RequestPasswordReset(q) PROVE \A y \in Actor : Moves(y)
  BY <1>23, ReturnQuits DEF RequestPasswordReset
<1>24. ASSUME NEW q \in Request, Fail(q) PROVE \A y \in Actor : Moves(y)
  BY <1>24, ReturnQuits DEF Fail
<1>25. ASSUME NEW x \in Actor, VerifyMark(x) PROVE \A y \in Actor : Moves(y)
  BY <1>25, RefuseQuits, GoesOn DEF VerifyMark, Passes
<1>26. ASSUME NEW x \in Actor, VerifyUser(x) PROVE \A y \in Actor : Moves(y)
  BY <1>26, RefuseQuits, GoesOn DEF VerifyUser, Passes
<1>27. ASSUME NEW x \in Actor, VerifyVersion(x) PROVE \A y \in Actor : Moves(y)
  <2>1. CASE Unavailable(x) BY <1>27, <2>1, UnavailableMoves DEF VerifyVersion, Passes, Verify
  <2>2. CASE Refuse(x) BY <2>2, RefuseQuits
  <2>3. CASE Accept(x) /\ SameVersion(x)
    <3>1. CASE x \in Connection BY <1>27, <2>3, <3>1, GoesOn DEF VerifyVersion, Accept, Passes, Verify
    <3>2. CASE x \notin Connection BY <1>27, <2>3, <3>2, GoesOn DEF VerifyVersion, Accept, Passes
    <3> QED BY <3>1, <3>2
  <2> QED BY <1>27, <2>1, <2>2, <2>3 DEF VerifyVersion
<1>28. ASSUME NEW x \in Actor, VerifyFails(x) PROVE \A y \in Actor : Moves(y)
  BY <1>28, UnavailableMoves DEF VerifyFails, Passes
<1>29. ASSUME NEW c \in Connection, StartWatch(c) PROVE \A y \in Actor : Moves(y)
  <2>1. CASE Close(c) BY <2>1, CloseQuits
  <2>2. CASE GoTo(c, "revoked") /\ UNCHANGED call BY <1>29, <2>2, GoesOn DEF StartWatch, Passes, Actor
  <2> QED BY <1>29, <2>1, <2>2 DEF StartWatch
<1>30. ASSUME NEW c \in Connection, Disconnect(c) PROVE \A y \in Actor : Moves(y)
  BY <1>30, CloseQuits DEF Disconnect
<1>31. ASSUME NEW c \in Connection, NEW g \in tickets, OpenStream(c, g) PROVE \A y \in Actor : Moves(y)
  <2>1. g \in Grants BY DEF GrantsKnown
  <2> DEFINE new == [NoCall EXCEPT !.op = "watch", !.grant = g]
  <2>2. new.grant = g /\ new.row = NoRow BY DEF NoCall
  <2>3. call' = [call EXCEPT ![c] = new] BY <1>31 DEF OpenStream, Open
  <2> HIDE DEF new
  <2>4. call'[c] = new /\ \A y \in Actor \ {c} : call'[y] = call[y] BY <2>3 DEF FlowType, Actor
  <2>5. pc'[c] = "open" /\ \A y \in Actor \ {c} : pc'[y] = pc[y] BY <1>31, GoToRests DEF OpenStream, Actor
  <2> QED BY <2>1, <2>2, <2>4, <2>5 DEF Opens, Rests
<1>32. ASSUME NEW given \in 0..codes, VerifyPasswordResetOTP(given) PROVE \A y \in Actor : Moves(y)
  BY <1>32 DEF VerifyPasswordResetOTP, Rests
<1>33. ASSUME NEW g \in Grants, NEW t \in {Access(g), Refresh(g)}, ExpireToken(t) PROVE \A y \in Actor : Moves(y)
  BY <1>33 DEF ExpireToken, Rests
<1>34. ASSUME NEW g \in tickets, ExpireTicket(g) PROVE \A y \in Actor : Moves(y)
  BY <1>34 DEF ExpireTicket, Rests
<1>35. ASSUME ExpireCode PROVE \A y \in Actor : Moves(y)
  BY <1>35 DEF ExpireCode, Rests
<1>36. ASSUME PurgeUser PROVE \A y \in Actor : Moves(y)
  BY <1>36 DEF PurgeUser, Rests
<1>37. ASSUME NEW c \in resets, ExpireReset(c) PROVE \A y \in Actor : Moves(y)
  BY <1>37 DEF ExpireReset, Rests
<1>38. CASE UNCHANGED vars
  BY <1>38 DEF vars, Rests
<1>39. ASSUME NEW q \in Request, Start(q) PROVE \A y \in Actor : Moves(y)
  BY <1>39, <1>1, <1>2, <1>3, <1>4, <1>5, <1>6, <1>7, <1>8 DEF Start
<1>40. ASSUME NEW q \in Request, Continue(q) PROVE \A y \in Actor : Moves(y)
  BY <1>40, <1>9, <1>10, <1>11, <1>12, <1>13, <1>14, <1>15, <1>16, <1>17, <1>18, <1>19, <1>20,
     <1>21, <1>22, <1>23, <1>24 DEF Continue
<1>41. ASSUME NEW x \in Actor, Check(x) PROVE \A y \in Actor : Moves(y)
  BY <1>41, <1>25, <1>26, <1>27, <1>28 DEF Check
<1>42. CASE Proceed
  BY <1>42, <1>40, <1>41, <1>29, <1>30, <1>31, <1>32, <1>33, <1>34, <1>35, <1>36, <1>37 DEF Proceed, Watch, Actor
<1> QED BY <1>38, <1>39, <1>42 DEF Next

-----------------------------------------------------------------------------
(* The inductive invariant is kept. *)

\* A pair that is handed out carries the version that was read for it; it descends from
\* a login, or from a refresh token that it uses up; and no dead token gave it.
Newborn(n) ==
    /\ grants'[n].version = grants'[n].era /\ grants'[n].era <= era
    /\ ~grants'[n].dead
    /\ \/ grants'[n].parent = None
       \/ /\ Refresh(grants'[n].parent) \notin expired \cup marked
          /\ Refresh(grants'[n].parent) \in marked'

\* At most one pair is handed out in a step.
Births ==
    \/ Grants' = Grants
    \/ \E n : n \notin Grants /\ Grants' = Grants \cup {n} /\ Newborn(n)

LEMMA LoginBears ==
    ASSUME IInv, NEW q \in Request, HandOut(Granted(q), None, FALSE)
    PROVE  Births
<1> DEFINE n == Len(grants) + 1
<1>1. /\ Grants' = Grants \cup {n} /\ n \notin Grants
      /\ grants'[n] = [version |-> call[q].row.version, era |-> call[q].row.era, parent |-> None, dead |-> FALSE]
  BY HandOutAppends DEF IInv, Granted
<1>2. call[q].row.version = call[q].row.era /\ call[q].row.era <= era BY DEF IInv, VersionCounts, Actor
<1> HIDE DEF n
<1>3. Newborn(n) BY <1>1, <1>2 DEF Newborn
<1> QED BY <1>1, <1>3 DEF Births

LEMMA NextBears ==
    ASSUME IInv, [Next]_vars
    PROVE  Births
<1> USE DEF tokenVars, Grants

<1>1. ASSUME NEW q \in Request, StartLogin(q) PROVE Births
  BY <1>1 DEF StartLogin, Births
<1>2. ASSUME NEW q \in Request, StartEdit(q) PROVE Births
  BY <1>2 DEF StartEdit, Births
<1>3. ASSUME NEW q \in Request, StartCode(q) PROVE Births
  BY <1>3 DEF StartCode, Births
<1>4. ASSUME NEW q \in Request, NEW op \in {"freeze", "unfreeze"}, StartStatus(q, op) PROVE Births
  BY <1>4 DEF StartStatus, Births
<1>5. ASSUME NEW q \in Request, NEW c \in resets, ConsumeResetToken(q, c) PROVE Births
  BY <1>5 DEF ConsumeResetToken, Births
<1>6. ASSUME NEW q \in Request, NEW g \in Grants, StartRefresh(q, g) PROVE Births
  BY <1>6 DEF StartRefresh, Births
<1>7. ASSUME NEW q \in Request, NEW g \in Grants, NEW both \in BOOLEAN, StartLogout(q, g, both) PROVE Births
  BY <1>7 DEF StartLogout, Births
<1>8. ASSUME NEW q \in Request, NEW g \in Grants, StartSigned(q, g) PROVE Births
  BY <1>8 DEF StartSigned, Births
<1>9. ASSUME NEW q \in Request, LoginUser(q) PROVE Births
  BY <1>9, LoginBears DEF LoginUser, Births
<1>10. ASSUME NEW q \in Request, ReactivateUser(q) PROVE Births
  BY <1>10, LoginBears DEF ReactivateUser, Births
<1>11. ASSUME NEW q \in Request, RefreshAccount(q) PROVE Births
  BY <1>11 DEF RefreshAccount, Births
<1>12. ASSUME NEW q \in Request, RefreshVersion(q) PROVE Births
  BY <1>12 DEF RefreshVersion, Births
<1>13. ASSUME NEW q \in Request, RefreshUserToken(q) PROVE Births
  <2> DEFINE g == call[q].grant
             n == Len(grants) + 1
             row == [version |-> grants[g].version, era |-> grants[g].era]
  <2>1. CASE UNCHANGED grants BY <2>1 DEF Births
  <2>2. CASE Consumable(Refresh(g)) /\ Mark(Refresh(g)) /\ HandOut(row, g, call[q].dead)
    <3>1. g \in Grants BY <1>13 DEF IInv, GrantsKnown, RefreshUserToken, Actor
    <3>2. /\ Grants' = Grants \cup {n} /\ n \notin Grants
          /\ grants'[n] = [version |-> grants[g].version, era |-> grants[g].era, parent |-> g, dead |-> call[q].dead]
      <4>1. row.version = grants[g].version /\ row.era = grants[g].era OBVIOUS
      <4> HIDE DEF row
      <4>2. /\ Grants' = Grants \cup {n} /\ n \notin Grants
            /\ grants'[n] = [version |-> row.version, era |-> row.era, parent |-> g, dead |-> call[q].dead]
        BY <2>2, HandOutAppends DEF IInv
      <4> QED BY <4>1, <4>2
    <3>3. grants[g].version = grants[g].era /\ grants[g].era <= era BY <3>1 DEF IInv, VersionCounts
    <3>4. Refresh(g) \notin expired \cup marked /\ Refresh(g) \in marked' BY <2>2 DEF Consumable, Mark
    <3>5. ~call[q].dead BY <1>13, <3>4 DEF IInv, RefreshIsStopped, MarksStop, RefreshUserToken
    <3> HIDE DEF n, g, row
    <3>6. Newborn(n) BY <3>2, <3>3, <3>4, <3>5 DEF Newborn
    <3> QED BY <3>2, <3>6 DEF Births
  <2> QED BY <1>13, <2>1, <2>2 DEF RefreshUserToken
<1>14. ASSUME NEW q \in Request, LogoutRefresh(q) PROVE Births
  BY <1>14 DEF LogoutRefresh, Births
<1>15. ASSUME NEW q \in Request, LogoutUser(q) PROVE Births
  BY <1>15 DEF LogoutUser, Births
<1>16. ASSUME NEW q \in Request, IssueTicket(q) PROVE Births
  BY <1>16 DEF IssueTicket, Births
<1>17. ASSUME NEW q \in Request, NEW c \in Connection, OpenSocket(q, c) PROVE Births
  BY <1>17 DEF OpenSocket, Births
<1>18. ASSUME NEW q \in Request, Withdraw(q) PROVE Births
  BY <1>18 DEF Withdraw, Births
<1>19. ASSUME NEW q \in Request, UpdateUser(q) PROVE Births
  BY <1>19 DEF UpdateUser, Births
<1>20. ASSUME NEW q \in Request, ResetPassword(q) PROVE Births
  BY <1>20 DEF ResetPassword, Births
<1>21. ASSUME NEW q \in Request, SaveCredentials(q) PROVE Births
  BY <1>21 DEF SaveCredentials, Births
<1>22. ASSUME NEW q \in Request, WriteStatus(q) PROVE Births
  BY <1>22 DEF WriteStatus, Births
<1>23. ASSUME NEW q \in Request, RequestPasswordReset(q) PROVE Births
  BY <1>23 DEF RequestPasswordReset, Births
<1>24. ASSUME NEW q \in Request, Fail(q) PROVE Births
  BY <1>24 DEF Fail, Births
<1>25. ASSUME NEW x \in Actor, VerifyMark(x) PROVE Births
  BY <1>25 DEF VerifyMark, Births
<1>26. ASSUME NEW x \in Actor, VerifyUser(x) PROVE Births
  BY <1>26 DEF VerifyUser, Births
<1>27. ASSUME NEW x \in Actor, VerifyVersion(x) PROVE Births
  BY <1>27 DEF VerifyVersion, Births
<1>28. ASSUME NEW x \in Actor, VerifyFails(x) PROVE Births
  BY <1>28 DEF VerifyFails, Births
<1>29. ASSUME NEW c \in Connection, StartWatch(c) PROVE Births
  BY <1>29 DEF StartWatch, Births
<1>30. ASSUME NEW c \in Connection, Disconnect(c) PROVE Births
  BY <1>30 DEF Disconnect, Births
<1>31. ASSUME NEW c \in Connection, NEW g \in tickets, OpenStream(c, g) PROVE Births
  BY <1>31 DEF OpenStream, Births
<1>32. ASSUME NEW given \in 0..codes, VerifyPasswordResetOTP(given) PROVE Births
  BY <1>32 DEF VerifyPasswordResetOTP, Births
<1>33. ASSUME NEW g \in Grants, NEW t \in {Access(g), Refresh(g)}, ExpireToken(t) PROVE Births
  BY <1>33 DEF ExpireToken, Births
<1>34. ASSUME NEW g \in tickets, ExpireTicket(g) PROVE Births
  BY <1>34 DEF ExpireTicket, Births
<1>35. ASSUME ExpireCode PROVE Births
  BY <1>35 DEF ExpireCode, Births
<1>36. ASSUME PurgeUser PROVE Births
  BY <1>36 DEF PurgeUser, Births
<1>37. ASSUME NEW c \in resets, ExpireReset(c) PROVE Births
  BY <1>37 DEF ExpireReset, Births
<1>38. CASE UNCHANGED vars
  BY <1>38 DEF vars, Births
<1>39. ASSUME NEW q \in Request, Start(q) PROVE Births
  BY <1>39, <1>1, <1>2, <1>3, <1>4, <1>5, <1>6, <1>7, <1>8 DEF Start
<1>40. ASSUME NEW q \in Request, Continue(q) PROVE Births
  BY <1>40, <1>9, <1>10, <1>11, <1>12, <1>13, <1>14, <1>15, <1>16, <1>17, <1>18, <1>19, <1>20,
     <1>21, <1>22, <1>23, <1>24 DEF Continue
<1>41. ASSUME NEW x \in Actor, Check(x) PROVE Births
  BY <1>41, <1>25, <1>26, <1>27, <1>28 DEF Check
<1>42. CASE Proceed
  BY <1>42, <1>40, <1>41, <1>29, <1>30, <1>31, <1>32, <1>33, <1>34, <1>35, <1>36, <1>37 DEF Proceed, Watch, Actor
<1> QED BY <1>38, <1>39, <1>42 DEF Next


\* The version and the count of changes move together.
LEMMA NextVersion ==
    ASSUME TypeOK, version = era, [Next]_vars
    PROVE  version' = era'
<1> USE DEF rowVars

<1>1. ASSUME NEW q \in Request, StartLogin(q) PROVE version' = era'
  BY <1>1 DEF StartLogin
<1>2. ASSUME NEW q \in Request, StartEdit(q) PROVE version' = era'
  BY <1>2 DEF StartEdit
<1>3. ASSUME NEW q \in Request, StartCode(q) PROVE version' = era'
  BY <1>3 DEF StartCode
<1>4. ASSUME NEW q \in Request, NEW op \in {"freeze", "unfreeze"}, StartStatus(q, op) PROVE version' = era'
  BY <1>4 DEF StartStatus
<1>5. ASSUME NEW q \in Request, NEW c \in resets, ConsumeResetToken(q, c) PROVE version' = era'
  BY <1>5 DEF ConsumeResetToken
<1>6. ASSUME NEW q \in Request, NEW g \in Grants, StartRefresh(q, g) PROVE version' = era'
  BY <1>6 DEF StartRefresh
<1>7. ASSUME NEW q \in Request, NEW g \in Grants, NEW both \in BOOLEAN, StartLogout(q, g, both) PROVE version' = era'
  BY <1>7 DEF StartLogout
<1>8. ASSUME NEW q \in Request, NEW g \in Grants, StartSigned(q, g) PROVE version' = era'
  BY <1>8 DEF StartSigned
<1>9. ASSUME NEW q \in Request, LoginUser(q) PROVE version' = era'
  BY <1>9 DEF LoginUser
<1>10. ASSUME NEW q \in Request, ReactivateUser(q) PROVE version' = era'
  BY <1>10 DEF ReactivateUser
<1>11. ASSUME NEW q \in Request, RefreshAccount(q) PROVE version' = era'
  BY <1>11 DEF RefreshAccount
<1>12. ASSUME NEW q \in Request, RefreshVersion(q) PROVE version' = era'
  BY <1>12 DEF RefreshVersion
<1>13. ASSUME NEW q \in Request, RefreshUserToken(q) PROVE version' = era'
  BY <1>13 DEF RefreshUserToken
<1>14. ASSUME NEW q \in Request, LogoutRefresh(q) PROVE version' = era'
  BY <1>14 DEF LogoutRefresh
<1>15. ASSUME NEW q \in Request, LogoutUser(q) PROVE version' = era'
  BY <1>15 DEF LogoutUser
<1>16. ASSUME NEW q \in Request, IssueTicket(q) PROVE version' = era'
  BY <1>16 DEF IssueTicket
<1>17. ASSUME NEW q \in Request, NEW c \in Connection, OpenSocket(q, c) PROVE version' = era'
  BY <1>17 DEF OpenSocket
<1>18. ASSUME NEW q \in Request, Withdraw(q) PROVE version' = era'
  BY <1>18 DEF Withdraw
<1>19. ASSUME NEW q \in Request, UpdateUser(q) PROVE version' = era'
  BY <1>19 DEF UpdateUser
<1>20. ASSUME NEW q \in Request, ResetPassword(q) PROVE version' = era'
  BY <1>20 DEF ResetPassword
<1>21. ASSUME NEW q \in Request, SaveCredentials(q) PROVE version' = era'
  BY <1>21 DEF SaveCredentials, MovesOn
<1>22. ASSUME NEW q \in Request, WriteStatus(q) PROVE version' = era'
  BY <1>22 DEF WriteStatus
<1>23. ASSUME NEW q \in Request, RequestPasswordReset(q) PROVE version' = era'
  BY <1>23 DEF RequestPasswordReset
<1>24. ASSUME NEW q \in Request, Fail(q) PROVE version' = era'
  BY <1>24 DEF Fail
<1>25. ASSUME NEW x \in Actor, VerifyMark(x) PROVE version' = era'
  BY <1>25 DEF VerifyMark
<1>26. ASSUME NEW x \in Actor, VerifyUser(x) PROVE version' = era'
  BY <1>26 DEF VerifyUser
<1>27. ASSUME NEW x \in Actor, VerifyVersion(x) PROVE version' = era'
  BY <1>27 DEF VerifyVersion
<1>28. ASSUME NEW x \in Actor, VerifyFails(x) PROVE version' = era'
  BY <1>28 DEF VerifyFails
<1>29. ASSUME NEW c \in Connection, StartWatch(c) PROVE version' = era'
  BY <1>29 DEF StartWatch
<1>30. ASSUME NEW c \in Connection, Disconnect(c) PROVE version' = era'
  BY <1>30 DEF Disconnect
<1>31. ASSUME NEW c \in Connection, NEW g \in tickets, OpenStream(c, g) PROVE version' = era'
  BY <1>31 DEF OpenStream
<1>32. ASSUME NEW given \in 0..codes, VerifyPasswordResetOTP(given) PROVE version' = era'
  BY <1>32 DEF VerifyPasswordResetOTP
<1>33. ASSUME NEW g \in Grants, NEW t \in {Access(g), Refresh(g)}, ExpireToken(t) PROVE version' = era'
  BY <1>33 DEF ExpireToken
<1>34. ASSUME NEW g \in tickets, ExpireTicket(g) PROVE version' = era'
  BY <1>34 DEF ExpireTicket
<1>35. ASSUME ExpireCode PROVE version' = era'
  BY <1>35 DEF ExpireCode
<1>36. ASSUME PurgeUser PROVE version' = era'
  BY <1>36 DEF PurgeUser
<1>37. ASSUME NEW c \in resets, ExpireReset(c) PROVE version' = era'
  BY <1>37 DEF ExpireReset
<1>38. CASE UNCHANGED vars
  BY <1>38 DEF vars
<1>39. ASSUME NEW q \in Request, Start(q) PROVE version' = era'
  BY <1>39, <1>1, <1>2, <1>3, <1>4, <1>5, <1>6, <1>7, <1>8 DEF Start
<1>40. ASSUME NEW q \in Request, Continue(q) PROVE version' = era'
  BY <1>40, <1>9, <1>10, <1>11, <1>12, <1>13, <1>14, <1>15, <1>16, <1>17, <1>18, <1>19, <1>20,
     <1>21, <1>22, <1>23, <1>24 DEF Continue
<1>41. ASSUME NEW x \in Actor, Check(x) PROVE version' = era'
  BY <1>41, <1>25, <1>26, <1>27, <1>28 DEF Check
<1>42. CASE Proceed
  BY <1>42, <1>40, <1>41, <1>29, <1>30, <1>31, <1>32, <1>33, <1>34, <1>35, <1>36, <1>37 DEF Proceed, Watch, Actor
<1> QED BY <1>38, <1>39, <1>42 DEF Next


\* Only tokens that are marked are taken for used up.
LEMMA NextMarks ==
    ASSUME TypeOK, MarksStop, [Next]_vars
    PROVE  MarksStop'
<1> USE DEF tokenVars, MarksStop

<1>1. ASSUME NEW q \in Request, StartLogin(q) PROVE MarksStop'
  BY <1>1 DEF StartLogin
<1>2. ASSUME NEW q \in Request, StartEdit(q) PROVE MarksStop'
  BY <1>2 DEF StartEdit
<1>3. ASSUME NEW q \in Request, StartCode(q) PROVE MarksStop'
  BY <1>3 DEF StartCode
<1>4. ASSUME NEW q \in Request, NEW op \in {"freeze", "unfreeze"}, StartStatus(q, op) PROVE MarksStop'
  BY <1>4 DEF StartStatus
<1>5. ASSUME NEW q \in Request, NEW c \in resets, ConsumeResetToken(q, c) PROVE MarksStop'
  BY <1>5 DEF ConsumeResetToken
<1>6. ASSUME NEW q \in Request, NEW g \in Grants, StartRefresh(q, g) PROVE MarksStop'
  BY <1>6 DEF StartRefresh
<1>7. ASSUME NEW q \in Request, NEW g \in Grants, NEW both \in BOOLEAN, StartLogout(q, g, both) PROVE MarksStop'
  BY <1>7 DEF StartLogout
<1>8. ASSUME NEW q \in Request, NEW g \in Grants, StartSigned(q, g) PROVE MarksStop'
  BY <1>8 DEF StartSigned
<1>9. ASSUME NEW q \in Request, LoginUser(q) PROVE MarksStop'
  BY <1>9 DEF LoginUser
<1>10. ASSUME NEW q \in Request, ReactivateUser(q) PROVE MarksStop'
  BY <1>10 DEF ReactivateUser
<1>11. ASSUME NEW q \in Request, RefreshAccount(q) PROVE MarksStop'
  BY <1>11 DEF RefreshAccount
<1>12. ASSUME NEW q \in Request, RefreshVersion(q) PROVE MarksStop'
  BY <1>12 DEF RefreshVersion
<1>13. ASSUME NEW q \in Request, RefreshUserToken(q) PROVE MarksStop'
  BY <1>13 DEF RefreshUserToken, Mark
<1>14. ASSUME NEW q \in Request, LogoutRefresh(q) PROVE MarksStop'
  BY <1>14 DEF LogoutRefresh, Mark
<1>15. ASSUME NEW q \in Request, LogoutUser(q) PROVE MarksStop'
  BY <1>15 DEF LogoutUser, Mark
<1>16. ASSUME NEW q \in Request, IssueTicket(q) PROVE MarksStop'
  BY <1>16 DEF IssueTicket
<1>17. ASSUME NEW q \in Request, NEW c \in Connection, OpenSocket(q, c) PROVE MarksStop'
  BY <1>17 DEF OpenSocket
<1>18. ASSUME NEW q \in Request, Withdraw(q) PROVE MarksStop'
  BY <1>18 DEF Withdraw
<1>19. ASSUME NEW q \in Request, UpdateUser(q) PROVE MarksStop'
  BY <1>19 DEF UpdateUser
<1>20. ASSUME NEW q \in Request, ResetPassword(q) PROVE MarksStop'
  BY <1>20 DEF ResetPassword
<1>21. ASSUME NEW q \in Request, SaveCredentials(q) PROVE MarksStop'
  BY <1>21 DEF SaveCredentials
<1>22. ASSUME NEW q \in Request, WriteStatus(q) PROVE MarksStop'
  BY <1>22 DEF WriteStatus
<1>23. ASSUME NEW q \in Request, RequestPasswordReset(q) PROVE MarksStop'
  BY <1>23 DEF RequestPasswordReset
<1>24. ASSUME NEW q \in Request, Fail(q) PROVE MarksStop'
  BY <1>24 DEF Fail
<1>25. ASSUME NEW x \in Actor, VerifyMark(x) PROVE MarksStop'
  BY <1>25 DEF VerifyMark
<1>26. ASSUME NEW x \in Actor, VerifyUser(x) PROVE MarksStop'
  BY <1>26 DEF VerifyUser
<1>27. ASSUME NEW x \in Actor, VerifyVersion(x) PROVE MarksStop'
  BY <1>27 DEF VerifyVersion
<1>28. ASSUME NEW x \in Actor, VerifyFails(x) PROVE MarksStop'
  BY <1>28 DEF VerifyFails
<1>29. ASSUME NEW c \in Connection, StartWatch(c) PROVE MarksStop'
  BY <1>29 DEF StartWatch
<1>30. ASSUME NEW c \in Connection, Disconnect(c) PROVE MarksStop'
  BY <1>30 DEF Disconnect
<1>31. ASSUME NEW c \in Connection, NEW g \in tickets, OpenStream(c, g) PROVE MarksStop'
  BY <1>31 DEF OpenStream
<1>32. ASSUME NEW given \in 0..codes, VerifyPasswordResetOTP(given) PROVE MarksStop'
  BY <1>32 DEF VerifyPasswordResetOTP
<1>33. ASSUME NEW g \in Grants, NEW t \in {Access(g), Refresh(g)}, ExpireToken(t) PROVE MarksStop'
  BY <1>33 DEF ExpireToken
<1>34. ASSUME NEW g \in tickets, ExpireTicket(g) PROVE MarksStop'
  BY <1>34 DEF ExpireTicket
<1>35. ASSUME ExpireCode PROVE MarksStop'
  BY <1>35 DEF ExpireCode
<1>36. ASSUME PurgeUser PROVE MarksStop'
  BY <1>36 DEF PurgeUser
<1>37. ASSUME NEW c \in resets, ExpireReset(c) PROVE MarksStop'
  BY <1>37 DEF ExpireReset
<1>38. CASE UNCHANGED vars
  BY <1>38 DEF vars
<1>39. ASSUME NEW q \in Request, Start(q) PROVE MarksStop'
  BY <1>39, <1>1, <1>2, <1>3, <1>4, <1>5, <1>6, <1>7, <1>8 DEF Start
<1>40. ASSUME NEW q \in Request, Continue(q) PROVE MarksStop'
  BY <1>40, <1>9, <1>10, <1>11, <1>12, <1>13, <1>14, <1>15, <1>16, <1>17, <1>18, <1>19, <1>20,
     <1>21, <1>22, <1>23, <1>24 DEF Continue
<1>41. ASSUME NEW x \in Actor, Check(x) PROVE MarksStop'
  BY <1>41, <1>25, <1>26, <1>27, <1>28 DEF Check
<1>42. CASE Proceed
  BY <1>42, <1>40, <1>41, <1>29, <1>30, <1>31, <1>32, <1>33, <1>34, <1>35, <1>36, <1>37 DEF Proceed, Watch, Actor
<1> QED BY <1>38, <1>39, <1>42 DEF Next


LEMMA NextGrantsKnown ==
    ASSUME IInv, [Next]_vars
    PROVE  GrantsKnown'
<1>1. Grows BY NextGrows DEF IInv
<1>2. ASSUME NEW x \in Actor,
             pc'[x] \in Verify \cup {"open", "accepted", "account", "same", "consume", "stop", "revoke"}
      PROVE  call'[x].grant \in Grants'
  <2>1. Moves(x) BY NextMoves DEF IInv
  <2>2. call'[x].grant \in Grants
    BY <1>2, <2>1 DEF IInv, GrantsKnown, Moves, Rests, Quits, Opens, Looks, Begins, Passes, Verify
  <2> QED BY <1>1, <2>2 DEF Grows
<1>3. tickets' \subseteq Grants' BY <1>1 DEF Grows, IInv, GrantsKnown
<1> QED BY <1>2, <1>3 DEF GrantsKnown

LEMMA NextVersionCounts ==
    ASSUME IInv, [Next]_vars
    PROVE  VersionCounts'
<1>0. Grows /\ Births /\ version' = era' BY NextGrows, NextBears, NextVersion DEF IInv, VersionCounts
<1>1. era \in Nat /\ era' \in Nat /\ era <= era'
  BY <1>0, NextTyped, TypeParts DEF IInv, Typed, RowType, Grows
<1>2. ASSUME NEW g \in Grants' PROVE grants'[g].version = grants'[g].era /\ grants'[g].era <= era'
  <2>1. CASE g \in Grants
    <3>1. grants[g].era \in Nat BY <2>1, GrantFacts, TypeParts DEF IInv, GrantType
    <3> QED BY <1>0, <1>1, <2>1, <3>1 DEF Grows, IInv, VersionCounts
  <2>2. CASE g \notin Grants
    <3>1. Newborn(g) BY <1>0, <1>2, <2>2 DEF Births
    <3>2. TokenType' BY NextTyped, TypeParts DEF IInv, Typed
    <3>3. grants'[g] \in GrantType BY <1>2, <3>2 DEF TokenType, Grants
    <3>4. grants'[g].era \in Nat BY <3>3 DEF GrantType
    <3> QED BY <1>1, <3>1, <3>4 DEF Newborn
  <2> QED BY <2>1, <2>2
<1>3. ASSUME NEW x \in Actor PROVE call'[x].row.version = call'[x].row.era /\ call'[x].row.era <= era'
  <2>1. Moves(x) BY NextMoves DEF IInv
  <2>2. call[x].row.era \in Nat BY TypeParts DEF IInv, FlowType, CallType, Row
  <2>3. CASE call'[x] = call[x] BY <1>1, <2>2, <2>3 DEF IInv, VersionCounts
  <2>4. CASE call'[x].row = NoRow BY <1>1, <2>4 DEF NoRow
  <2>5. CASE call'[x].row = [hash |-> hash, version |-> version, status |-> status, era |-> era]
    BY <1>1, <2>5 DEF IInv, VersionCounts
  <2>6. CASE call'[x] = NoCall BY <1>1, <2>6 DEF NoCall, NoRow
  <2> QED BY <2>1, <2>3, <2>4, <2>5, <2>6 DEF Moves, Rests, Quits, Opens, Looks, Begins, Passes
<1> QED BY <1>0, <1>2, <1>3 DEF VersionCounts

\* A session that is over stays over.
LEMMA OutdatedStays ==
    ASSUME IInv, [Next]_vars, NEW g \in Grants, Outdated(g)
    PROVE  Outdated(g)'
<1>1. Grows BY NextGrows DEF IInv
<1>2. era \in Nat /\ era' \in Nat BY NextTyped, TypeParts DEF IInv, Typed, RowType
<1>3. grants[g].era \in Nat /\ grants[g].era <= era
  BY GrantFacts, TypeParts DEF IInv, GrantType, VersionCounts
<1> QED BY <1>1, <1>2, <1>3 DEF Grows, Outdated

LEMMA NextSignedIsStopped ==
    ASSUME IInv, [Next]_vars
    PROVE  SignedIsStopped'
<1> SUFFICES ASSUME NEW q \in Request, call'[q].dead, Access(call'[q].grant) \notin expired'
             PROVE  /\ pc'[q] = "revoked" => (Access(call[q].grant) \in stopped \/ Outdated(call[q].grant))'
                    /\ pc'[q] \in {"user", "version"} => Outdated(call[q].grant)'
                    /\ pc'[q] # "accepted"
  BY DEF SignedIsStopped
<1> PICK g : g = call'[q].grant OBVIOUS
<1>0. q \in Actor /\ q \notin Connection BY SessionsAssumption DEF Actor
<1>1. Moves(q) /\ Grows BY <1>0, NextMoves, NextGrows DEF IInv
<1>2. Access(g) \notin expired BY <1>1 DEF Grows
<1>3. g \in Grants /\ Outdated(g) => Outdated(g)'
  BY OutdatedStays
<1>4. Access(g) \in stopped => Access(g) \in stopped' BY <1>1 DEF Grows
<1>5. ASSUME pc'[q] = "revoked" PROVE Access(g) \in stopped' \/ Outdated(g)'
  <2>1. CASE Rests(q)
    <3>1. g \in Grants BY <1>0, <1>5, <2>1 DEF IInv, GrantsKnown, Rests, Verify
    <3> QED BY <1>2, <1>3, <1>4, <1>5, <2>1, <3>1 DEF IInv, SignedIsStopped, Rests
  <2>2. CASE Begins(q)
    <3>1. g \in Grants /\ Dead(Access(g)) BY <1>5, <2>2 DEF Begins
    <3>2. Access(g)[2] = g BY DEF Access
    <3>3. Access(g) \in stopped \/ Outdated(g) BY <1>2, <3>1, <3>2 DEF Dead, Outdated
    <3> QED BY <1>3, <1>4, <3>1, <3>3
  <2> QED BY <1>0, <1>1, <1>5, <2>1, <2>2 DEF Moves, Quits, Opens, Looks, Passes
<1>6. ASSUME pc'[q] \in {"user", "version"} PROVE Outdated(g)'
  <2>1. CASE Rests(q)
    <3>1. g \in Grants BY <1>0, <1>6, <2>1 DEF IInv, GrantsKnown, Rests, Verify
    <3> QED BY <1>2, <1>3, <1>6, <2>1, <3>1 DEF IInv, SignedIsStopped, Rests
  <2>2. CASE Passes(q)
    <3>1. call'[q] = call[q] /\ ((pc[q] = "revoked" /\ Access(g) \notin marked) \/ pc[q] = "user")
      BY <1>0, <1>6, <2>2 DEF Passes
    <3>2. g \in Grants BY <1>0, <3>1 DEF IInv, GrantsKnown, Verify
    <3>3. Outdated(g) BY <1>2, <3>1 DEF IInv, SignedIsStopped, MarksStop
    <3> QED BY <1>3, <3>2, <3>3
  <2> QED BY <1>1, <1>6, <2>1, <2>2 DEF Moves, Quits, Opens, Looks, Begins
<1>7. ASSUME pc'[q] = "accepted" PROVE FALSE
  <2>1. CASE Rests(q) BY <1>2, <1>7, <2>1 DEF IInv, SignedIsStopped, Rests
  <2>2. CASE Passes(q)
    <3>1. call'[q] = call[q] /\ pc[q] = "version" /\ SameVersion(q) BY <1>0, <1>7, <2>2 DEF Passes
    <3>2. g \in Grants BY <1>0, <3>1 DEF IInv, GrantsKnown, Verify
    <3>3. Outdated(g) BY <1>2, <3>1 DEF IInv, SignedIsStopped
    <3> QED BY <3>1, <3>2, <3>3 DEF SameVersion, Outdated, IInv, VersionCounts
  <2> QED BY <1>1, <1>7, <2>1, <2>2 DEF Moves, Quits, Opens, Looks, Begins
<1> QED BY <1>5, <1>6, <1>7 DEF Outdated

LEMMA NextRefreshIsStopped ==
    ASSUME IInv, [Next]_vars
    PROVE  RefreshIsStopped'
<1>1. ASSUME NEW n \in Grants' PROVE ~grants'[n].dead
  <2>1. Grows /\ Births BY NextGrows, NextBears DEF IInv
  <2> QED BY <1>1, <2>1 DEF Grows, Births, Newborn, IInv, RefreshIsStopped
<1> SUFFICES ASSUME NEW q \in Request, call'[q].dead, Refresh(call'[q].grant) \notin expired'
             PROVE  /\ pc'[q] \in {"account", "same"} =>
                          (Refresh(call[q].grant) \in stopped \/ Outdated(call[q].grant))'
                    /\ pc'[q] = "consume" => (Refresh(call[q].grant) \in stopped)'
  BY <1>1 DEF RefreshIsStopped
<1> PICK g : g = call'[q].grant OBVIOUS
<1>0. q \in Actor /\ q \notin Connection BY SessionsAssumption DEF Actor
<1>2. Moves(q) /\ Grows BY <1>0, NextMoves, NextGrows DEF IInv
<1>3. Refresh(g) \notin expired BY <1>2 DEF Grows
<1>4. g \in Grants /\ Outdated(g) => Outdated(g)'
  BY OutdatedStays
<1>5. Refresh(g) \in stopped => Refresh(g) \in stopped' BY <1>2 DEF Grows
<1>6. ASSUME pc'[q] \in {"account", "same"} PROVE Refresh(g) \in stopped' \/ Outdated(g)'
  <2>1. CASE Rests(q) \/ Passes(q)
    <3>1. call'[q] = call[q] /\ pc[q] \in {"account", "same"} BY <1>0, <1>6, <2>1 DEF Rests, Passes
    <3>2. g \in Grants BY <1>0, <3>1 DEF IInv, GrantsKnown
    <3>3. Refresh(g) \in stopped \/ Outdated(g) BY <1>3, <3>1 DEF IInv, RefreshIsStopped
    <3> QED BY <1>4, <1>5, <3>2, <3>3
  <2>2. CASE Begins(q)
    <3>1. g \in Grants /\ Dead(Refresh(g)) BY <1>6, <2>2 DEF Begins
    <3>2. Refresh(g)[2] = g BY DEF Refresh
    <3>3. Refresh(g) \in stopped \/ Outdated(g) BY <1>3, <3>1, <3>2 DEF Dead, Outdated
    <3> QED BY <1>4, <1>5, <3>1, <3>3
  <2> QED BY <1>0, <1>2, <1>6, <2>1, <2>2 DEF Moves, Quits, Opens, Looks
<1>7. ASSUME pc'[q] = "consume" PROVE Refresh(g) \in stopped'
  <2>1. CASE Rests(q) BY <1>3, <1>5, <1>7, <2>1 DEF IInv, RefreshIsStopped, Rests
  <2>2. CASE Passes(q)
    <3>1. call'[q] = call[q] /\ pc[q] = "same" /\ SameVersion(q) BY <1>0, <1>7, <2>2 DEF Passes
    <3>2. g \in Grants BY <1>0, <3>1 DEF IInv, GrantsKnown
    <3>3. ~Outdated(g) BY <3>1, <3>2 DEF SameVersion, Outdated, IInv, VersionCounts
    <3> QED BY <1>3, <1>5, <3>1, <3>3 DEF IInv, RefreshIsStopped
  <2> QED BY <1>2, <1>7, <2>1, <2>2 DEF Moves, Quits, Opens, Looks, Begins
<1> QED BY <1>6, <1>7 DEF Outdated

LEMMA NextOneChild ==
    ASSUME IInv, [Next]_vars
    PROVE  OneChild'
<1>1. Grows /\ Births BY NextGrows, NextBears DEF IInv
<1>2. CASE Grants' = Grants BY <1>1, <1>2 DEF Grows, IInv, OneChild
<1>3. ASSUME NEW n, n \notin Grants, Grants' = Grants \cup {n}, Newborn(n) PROVE OneChild'
  <2>1. ASSUME NEW g \in Grants, grants'[g].parent # None
        PROVE  /\ Refresh(grants'[g].parent) \in expired' \cup marked'
               /\ \A h \in Grants' : grants'[h].parent = grants'[g].parent => h = g
    <3>1. grants'[g] = grants[g] BY <1>1 DEF Grows
    <3>2. Refresh(grants[g].parent) \in expired \cup marked BY <2>1, <3>1 DEF IInv, OneChild
    <3>3. grants'[n].parent # grants[g].parent BY <1>3, <2>1, <3>1, <3>2 DEF Newborn
    <3> QED BY <1>1, <1>3, <2>1, <3>1, <3>2, <3>3 DEF Grows, IInv, OneChild
  <2>2. ASSUME grants'[n].parent # None
        PROVE  /\ Refresh(grants'[n].parent) \in expired' \cup marked'
               /\ \A h \in Grants' : grants'[h].parent = grants'[n].parent => h = n
    BY <1>3, <2>1, <2>2, <1>1 DEF Newborn, Grows, IInv, OneChild
  <2> QED BY <1>3, <2>1, <2>2 DEF OneChild
<1> QED BY <1>1, <1>2, <1>3 DEF Births

-----------------------------------------------------------------------------
(* Codes. *)

\* Who holds a code after a step held it before, or has just consumed its reset token.
LEMMA HoldsFrom ==
    ASSUME IInv, [Next]_vars, NEW q \in Request, NEW c \in Code, Holds(q, c)'
    PROVE  Holds(q, c) \/ (c \in resets \ resets' /\ pc[q] = "idle")
<1>0. q \in Actor /\ q \notin Connection BY SessionsAssumption DEF Actor
<1>1. Moves(q) BY <1>0, NextMoves DEF IInv
<1>2. CASE Looks(q) BY <1>2 DEF Looks, Holds, IInv, CodeInOnePlace
<1> QED BY <1>0, <1>1, <1>2 DEF Moves, Rests, Quits, Opens, Begins, Passes, Holds

LEMMA CredentialsFrom ==
    ASSUME IInv, [Next]_vars, NEW q \in Request, pc'[q] = "credentials"
    PROVE  call'[q].op = "reset" /\ call'[q].code \in Code
<1>0. q \in Actor /\ q \notin Connection BY SessionsAssumption DEF Actor
<1>1. Moves(q) BY <1>0, NextMoves DEF IInv
<1>2. CASE Begins(q) BY <1>2, TypeParts DEF Begins, IInv, ResetType
<1> QED BY <1>0, <1>1, <1>2 DEF Moves, Rests, Quits, Opens, Looks, Passes, IInv, CodeInOnePlace

\* A step that makes, uses and gives out no code leaves every code where it is.
LEMMA SameCodes ==
    ASSUME IInv, [Next]_vars, UNCHANGED <<codes, changed>>, code' \in {code, None}, resets' \subseteq resets,
           \A q \in Request : \A c \in Code : Holds(q, c)' => Holds(q, c)
    PROVE  CodeInOnePlace'
<1>1. \A c \in Code : c # None BY Bounds
<1>2. None \notin resets' BY Bounds, TypeParts DEF IInv, ResetType
<1>3. code' \notin resets' BY <1>2 DEF IInv, CodeInOnePlace
<1>4. \A c \in Code : Waits(c)' => Waits(c) BY <1>1 DEF Waits
<1>5. \A q \in Request : (pc[q] = "credentials" => call[q].op = "reset" /\ call[q].code \in Code)'
  BY CredentialsFrom
<1>6. \A c \in Code : c = code' \/ c \in resets' => c <= codes' BY <1>1 DEF IInv, CodeInOnePlace
<1> QED BY <1>3, <1>4, <1>5, <1>6 DEF IInv, CodeInOnePlace

\* Without a reset token that goes nobody takes a code.
LEMMA NobodyTakes ==
    ASSUME IInv, [Next]_vars, resets \subseteq resets'
    PROVE  \A q \in Request : \A c \in Code : Holds(q, c)' => Holds(q, c)
  BY HoldsFrom

LEMMA NextCodes ==
    ASSUME IInv, [Next]_vars
    PROVE  CodeInOnePlace'
<1>0. FlowType /\ ResetType BY TypeParts DEF IInv
<1> USE DEF resetVars

<1>1. ASSUME NEW q \in Request, StartLogin(q) PROVE CodeInOnePlace'
  BY <1>1, SameCodes, NobodyTakes DEF StartLogin
<1>2. ASSUME NEW q \in Request, StartEdit(q) PROVE CodeInOnePlace'
  BY <1>2, SameCodes, NobodyTakes DEF StartEdit
<1>3. ASSUME NEW q \in Request, StartCode(q) PROVE CodeInOnePlace'
  BY <1>3, SameCodes, NobodyTakes DEF StartCode
<1>4. ASSUME NEW q \in Request, NEW op \in {"freeze", "unfreeze"}, StartStatus(q, op) PROVE CodeInOnePlace'
  BY <1>4, SameCodes, NobodyTakes DEF StartStatus
<1>5. ASSUME NEW q \in Request, NEW c \in resets, ConsumeResetToken(q, c) PROVE CodeInOnePlace'
  <2>1. c \in Code /\ ~Waits(c)' /\ changed[c] = 0 /\ \A r \in Request : ~Holds(r, c)
    BY <1>5, <1>0 DEF ConsumeResetToken, ResetType, IInv, CodeInOnePlace, Waits, Code
  <2>2. \A r \in Request : \A d \in Code : Holds(r, d)' => Holds(r, d) \/ (r = q /\ d = c)
    <3> SUFFICES ASSUME NEW r \in Request, NEW d \in Code, Holds(r, d)', r # q \/ d # c PROVE Holds(r, d)
      OBVIOUS
    <3>1. CASE r = q BY <1>5, <3>1, HoldsFrom DEF ConsumeResetToken
    <3>2. CASE r # q
      <4>1. Rests(r) BY <1>5, <1>0, <3>2, BeginRests DEF ConsumeResetToken, Actor
      <4> QED BY <4>1 DEF Rests, Holds
    <3> QED BY <3>1, <3>2
  <2>3. ~Holds(q, c) /\ \A d \in Code : ~Holds(q, d)
    BY <1>5 DEF ConsumeResetToken, Begin, Holds
  <2>4. \A d \in Code : Waits(d)' => Waits(d) /\ d # c BY <1>5, <2>1 DEF ConsumeResetToken, Waits
  <2>5. \A r \in Request : (pc[r] = "credentials" => call[r].op = "reset" /\ call[r].code \in Code)'
    BY CredentialsFrom
  <2>6. UNCHANGED <<code, codes, changed>> /\ resets' \subseteq resets BY <1>5 DEF ConsumeResetToken
  <2>7. \A d \in Code : Waits(d)' => changed'[d] = 0 /\ \A r \in Request : ~Holds(r, d)'
    BY <2>2, <2>4, <2>6 DEF IInv, CodeInOnePlace
  <2>8. \A r \in Request : \A d \in Code : Holds(r, d)' => changed'[d] = 0
    BY <2>1, <2>2, <2>6 DEF IInv, CodeInOnePlace
  <2>9. \A r, s \in Request : \A d \in Code : Holds(r, d)' /\ Holds(s, d)' => r = s
    BY <2>1, <2>2, <2>3 DEF IInv, CodeInOnePlace
  <2> QED BY <2>5, <2>6, <2>7, <2>8, <2>9 DEF IInv, CodeInOnePlace
<1>6. ASSUME NEW q \in Request, NEW g \in Grants, StartRefresh(q, g) PROVE CodeInOnePlace'
  BY <1>6, SameCodes, NobodyTakes DEF StartRefresh
<1>7. ASSUME NEW q \in Request, NEW g \in Grants, NEW both \in BOOLEAN, StartLogout(q, g, both) PROVE CodeInOnePlace'
  BY <1>7, SameCodes, NobodyTakes DEF StartLogout
<1>8. ASSUME NEW q \in Request, NEW g \in Grants, StartSigned(q, g) PROVE CodeInOnePlace'
  BY <1>8, SameCodes, NobodyTakes DEF StartSigned
<1>9. ASSUME NEW q \in Request, LoginUser(q) PROVE CodeInOnePlace'
  BY <1>9, SameCodes, NobodyTakes DEF LoginUser
<1>10. ASSUME NEW q \in Request, ReactivateUser(q) PROVE CodeInOnePlace'
  BY <1>10, SameCodes, NobodyTakes DEF ReactivateUser
<1>11. ASSUME NEW q \in Request, RefreshAccount(q) PROVE CodeInOnePlace'
  BY <1>11, SameCodes, NobodyTakes DEF RefreshAccount
<1>12. ASSUME NEW q \in Request, RefreshVersion(q) PROVE CodeInOnePlace'
  BY <1>12, SameCodes, NobodyTakes DEF RefreshVersion
<1>13. ASSUME NEW q \in Request, RefreshUserToken(q) PROVE CodeInOnePlace'
  BY <1>13, SameCodes, NobodyTakes DEF RefreshUserToken
<1>14. ASSUME NEW q \in Request, LogoutRefresh(q) PROVE CodeInOnePlace'
  BY <1>14, SameCodes, NobodyTakes DEF LogoutRefresh
<1>15. ASSUME NEW q \in Request, LogoutUser(q) PROVE CodeInOnePlace'
  BY <1>15, SameCodes, NobodyTakes DEF LogoutUser
<1>16. ASSUME NEW q \in Request, IssueTicket(q) PROVE CodeInOnePlace'
  BY <1>16, SameCodes, NobodyTakes DEF IssueTicket
<1>17. ASSUME NEW q \in Request, NEW c \in Connection, OpenSocket(q, c) PROVE CodeInOnePlace'
  BY <1>17, SameCodes, NobodyTakes DEF OpenSocket
<1>18. ASSUME NEW q \in Request, Withdraw(q) PROVE CodeInOnePlace'
  BY <1>18, SameCodes, NobodyTakes DEF Withdraw
<1>19. ASSUME NEW q \in Request, UpdateUser(q) PROVE CodeInOnePlace'
  BY <1>19, SameCodes, NobodyTakes DEF UpdateUser
<1>20. ASSUME NEW q \in Request, ResetPassword(q) PROVE CodeInOnePlace'
  BY <1>20, SameCodes, NobodyTakes DEF ResetPassword
<1>21. ASSUME NEW q \in Request, SaveCredentials(q) PROVE CodeInOnePlace'
  <2>0. \A r \in Request : \A c \in Code : Holds(r, c)' => Holds(r, c) /\ r # q
    <3>1. Quits(q) BY <1>21, <1>0, ReturnQuits DEF SaveCredentials
    <3> QED BY <1>21, <3>1, NobodyTakes DEF SaveCredentials, Holds, Quits
  <2>1. CASE UNCHANGED changed BY <1>21, <2>0, <2>1, SameCodes DEF SaveCredentials
  <2>2. CASE call[q].op = "reset" /\ call[q].code \in Code
    <3> DEFINE c == call[q].code
    <3>1. Holds(q, c) BY <1>21, <2>2 DEF SaveCredentials, Holds
    <3>2. changed[c] = 0 /\ ~Waits(c) /\ \A r \in Request : Holds(r, c) => r = q
      BY <2>2, <3>1 DEF IInv, CodeInOnePlace
    <3>3. changed'[c] = 1 /\ \A d \in Code \ {c} : changed'[d] = changed[d]
      BY <1>21, <1>0, <2>2, <3>2 DEF SaveCredentials, ResetType
    <3>4. UNCHANGED <<code, codes, resets>> BY <1>21 DEF SaveCredentials
    <3>5. \A d \in Code : Waits(d)' <=> Waits(d) BY <3>4 DEF Waits
    <3>6. \A r \in Request : (pc[r] = "credentials" => call[r].op = "reset" /\ call[r].code \in Code)'
      BY CredentialsFrom
    <3>7. \A d \in Code : Waits(d)' => changed'[d] = 0 /\ \A r \in Request : ~Holds(r, d)'
      BY <2>0, <3>2, <3>3, <3>5 DEF IInv, CodeInOnePlace
    <3>8. \A r \in Request : \A d \in Code : Holds(r, d)' => changed'[d] = 0
      BY <2>0, <3>2, <3>3 DEF IInv, CodeInOnePlace
    <3>9. \A d \in Code : changed'[d] <= 1 BY <3>3 DEF IInv, CodeInOnePlace
    <3> QED BY <2>0, <3>4, <3>6, <3>7, <3>8, <3>9 DEF IInv, CodeInOnePlace
  <2>3. CASE call[q].op = "reset" /\ call[q].code \notin Code
    <3>1. UNCHANGED changed BY <1>21, <1>0, <2>3 DEF SaveCredentials, ResetType
    <3> QED BY <2>1, <3>1
  <2> QED BY <1>21, <2>1, <2>2, <2>3 DEF SaveCredentials
<1>22. ASSUME NEW q \in Request, WriteStatus(q) PROVE CodeInOnePlace'
  BY <1>22, SameCodes, NobodyTakes DEF WriteStatus
<1>23. ASSUME NEW q \in Request, RequestPasswordReset(q) PROVE CodeInOnePlace'
  <2> DEFINE n == codes + 1
  <2>0. codes \in Nat /\ n \in Code BY <1>23, <1>0, Bounds DEF RequestPasswordReset, ResetType, Code
  <2>1. UNCHANGED <<resets, changed>> /\ code' = n /\ codes' = n BY <1>23 DEF RequestPasswordReset
  <2>2. Waits(n) /\ n \notin resets
    BY <2>0 DEF Waits, IInv, CodeInOnePlace
  <2>3. \A c \in Code : c \in Nat BY DEF Code
  <2>4. \A c \in Code : Waits(c)' => Waits(c) BY <2>0, <2>1, <2>2, <2>3 DEF Waits
  <2>5. \A c \in Code : c = code' \/ c \in resets' => c <= codes'
    BY <2>0, <2>1, <2>3 DEF IInv, CodeInOnePlace
  <2>6. \A r \in Request : (pc[r] = "credentials" => call[r].op = "reset" /\ call[r].code \in Code)'
    BY CredentialsFrom
  <2>7. \A r \in Request : \A c \in Code : Holds(r, c)' => Holds(r, c) BY <2>1, NobodyTakes
  <2> QED BY <2>1, <2>2, <2>4, <2>5, <2>6, <2>7 DEF IInv, CodeInOnePlace
<1>24. ASSUME NEW q \in Request, Fail(q) PROVE CodeInOnePlace'
  BY <1>24, SameCodes, NobodyTakes DEF Fail
<1>25. ASSUME NEW x \in Actor, VerifyMark(x) PROVE CodeInOnePlace'
  BY <1>25, SameCodes, NobodyTakes DEF VerifyMark
<1>26. ASSUME NEW x \in Actor, VerifyUser(x) PROVE CodeInOnePlace'
  BY <1>26, SameCodes, NobodyTakes DEF VerifyUser
<1>27. ASSUME NEW x \in Actor, VerifyVersion(x) PROVE CodeInOnePlace'
  BY <1>27, SameCodes, NobodyTakes DEF VerifyVersion
<1>28. ASSUME NEW x \in Actor, VerifyFails(x) PROVE CodeInOnePlace'
  BY <1>28, SameCodes, NobodyTakes DEF VerifyFails
<1>29. ASSUME NEW c \in Connection, StartWatch(c) PROVE CodeInOnePlace'
  BY <1>29, SameCodes, NobodyTakes DEF StartWatch
<1>30. ASSUME NEW c \in Connection, Disconnect(c) PROVE CodeInOnePlace'
  BY <1>30, SameCodes, NobodyTakes DEF Disconnect
<1>31. ASSUME NEW c \in Connection, NEW g \in tickets, OpenStream(c, g) PROVE CodeInOnePlace'
  BY <1>31, SameCodes, NobodyTakes DEF OpenStream
<1>32. ASSUME NEW given \in 0..codes, VerifyPasswordResetOTP(given) PROVE CodeInOnePlace'
  <2>1. CASE given # code BY <1>32, <2>1, SameCodes, NobodyTakes DEF VerifyPasswordResetOTP
  <2>2. CASE given = code
    <3>1. UNCHANGED <<codes, changed>> /\ resets' = resets \cup {code} /\ code' = None
      BY <1>32, <2>2 DEF VerifyPasswordResetOTP, AfterExchange
    <3>2. \A c \in Code : Waits(c)' => Waits(c) BY <3>1, Bounds DEF Waits
    <3>3. code' \notin resets' BY <1>32, <1>0, <3>1, Bounds DEF VerifyPasswordResetOTP, ResetType
    <3>4. \A c \in Code : c = code' \/ c \in resets' => c <= codes'
      BY <3>1, Bounds DEF IInv, CodeInOnePlace
    <3>5. \A r \in Request : (pc[r] = "credentials" => call[r].op = "reset" /\ call[r].code \in Code)'
      BY CredentialsFrom
    <3>6. \A r \in Request : \A c \in Code : Holds(r, c)' => Holds(r, c) BY <3>1, NobodyTakes
    <3> QED BY <3>1, <3>2, <3>3, <3>4, <3>5, <3>6 DEF IInv, CodeInOnePlace
  <2> QED BY <2>1, <2>2
<1>33. ASSUME NEW g \in Grants, NEW t \in {Access(g), Refresh(g)}, ExpireToken(t) PROVE CodeInOnePlace'
  BY <1>33, SameCodes, NobodyTakes DEF ExpireToken
<1>34. ASSUME NEW g \in tickets, ExpireTicket(g) PROVE CodeInOnePlace'
  BY <1>34, SameCodes, NobodyTakes DEF ExpireTicket
<1>35. ASSUME ExpireCode PROVE CodeInOnePlace'
  BY <1>35, SameCodes, NobodyTakes DEF ExpireCode
<1>36. ASSUME PurgeUser PROVE CodeInOnePlace'
  BY <1>36, SameCodes, NobodyTakes DEF PurgeUser
<1>37. ASSUME NEW c \in resets, ExpireReset(c) PROVE CodeInOnePlace'
  <2>1. ASSUME NEW q \in Request, NEW d \in Code, Holds(q, d)' PROVE Holds(q, d)
    BY <1>37, <2>1 DEF ExpireReset, Holds
  <2> QED BY <1>37, <2>1, SameCodes DEF ExpireReset
<1>38. CASE UNCHANGED vars
  BY <1>38, SameCodes, NobodyTakes DEF vars
<1>39. ASSUME NEW q \in Request, Start(q) PROVE CodeInOnePlace'
  BY <1>39, <1>1, <1>2, <1>3, <1>4, <1>5, <1>6, <1>7, <1>8 DEF Start
<1>40. ASSUME NEW q \in Request, Continue(q) PROVE CodeInOnePlace'
  BY <1>40, <1>9, <1>10, <1>11, <1>12, <1>13, <1>14, <1>15, <1>16, <1>17, <1>18, <1>19, <1>20,
     <1>21, <1>22, <1>23, <1>24 DEF Continue
<1>41. ASSUME NEW x \in Actor, Check(x) PROVE CodeInOnePlace'
  BY <1>41, <1>25, <1>26, <1>27, <1>28 DEF Check
<1>42. CASE Proceed
  BY <1>42, <1>40, <1>41, <1>29, <1>30, <1>31, <1>32, <1>33, <1>34, <1>35, <1>36, <1>37 DEF Proceed, Watch, Actor
<1> QED BY <1>38, <1>39, <1>42 DEF Next

-----------------------------------------------------------------------------
(* The theorems. *)

LEMMA InitIInv == Init => IInv
<1> SUFFICES ASSUME Init PROVE IInv
  OBVIOUS
<1>0. Len(grants) = 1 /\ Grants = {1} /\ grants[1] = [version |-> 0, era |-> 0, parent |-> None, dead |-> FALSE]
  BY DEF Init, Grants
<1>1. TypeOK
  <2>1. RowType BY Bounds DEF Init, RowType, Status
  <2>2. TokenType
    <3>1. [version |-> 0, era |-> 0, parent |-> None, dead |-> FALSE] \in GrantType BY Bounds DEF GrantType
    <3> QED BY <1>0, <3>1, SessionsAssumption DEF Init, TokenType
  <2>3. ResetType BY Bounds DEF Init, ResetType
  <2>4. FlowType BY NoCallType, Bounds DEF Init, FlowType, Step, Actor
  <2> QED BY <2>1, <2>2, <2>3, <2>4, TypeParts, Bounds DEF Init
<1>2. GrantsKnown
  BY <1>0 DEF Init, GrantsKnown, Verify
<1>3. VersionCounts /\ MarksStop
  BY <1>0 DEF Init, VersionCounts, MarksStop, NoCall, NoRow
<1>4. SignedIsStopped /\ RefreshIsStopped /\ OneChild
  BY <1>0 DEF Init, SignedIsStopped, RefreshIsStopped, OneChild, Actor, NoCall
<1>5. CodeInOnePlace
  BY Bounds DEF Init, CodeInOnePlace, Holds, Actor
<1> QED
  BY <1>1, <1>2, <1>3, <1>4, <1>5 DEF IInv

LEMMA NextIInv == IInv /\ [Next]_vars => IInv'
<1> SUFFICES ASSUME IInv, [Next]_vars PROVE IInv'
  OBVIOUS
<1>1. calls' \in 0..MaxCalls BY Bounds, TypeParts DEF IInv, Next, vars
<1>2. TypeOK'
  <2>1. Typed' BY NextTyped, TypeParts DEF IInv, Typed
  <2> QED BY <1>1, <2>1 DEF Typed, TypeOK, RowType, TokenType, ResetType, FlowType, GrantType, CallType
<1>3. GrantsKnown' /\ VersionCounts' BY NextGrantsKnown, NextVersionCounts
<1>4. MarksStop' BY NextMarks DEF IInv
<1>5. SignedIsStopped' /\ RefreshIsStopped' BY NextSignedIsStopped, NextRefreshIsStopped
<1>6. OneChild' /\ CodeInOnePlace' BY NextOneChild, NextCodes
<1> QED BY <1>2, <1>3, <1>4, <1>5, <1>6 DEF IInv

\* The inductive invariant holds in every state.
THEOREM Inductive == Spec => []IInv
  BY InitIInv, NextIInv, PTL DEF Spec

\* Every variable keeps its type, whatever requests and failures there are.
THEOREM TypeCorrect == Spec => []TypeOK
<1>1. IInv => TypeOK BY DEF IInv
<1> QED BY <1>1, Inductive, PTL

\* No request is let in (ValidateAndVerifyToken) and no pair is handed out
\* (RefreshUserToken) with a token whose session was over when it came, however many
\* logins, refreshes, logouts and changes of the password run beside it.
THEOREM DeadSessionsStayOut == Spec => []DeadStaysDead
<1>1. IInv => DeadStaysDead BY DEF IInv, SignedIsStopped, RefreshIsStopped, DeadStaysDead
<1> QED BY <1>1, Inductive, PTL

\* A refresh token gives at most one new pair (ConsumeToken), and a mailed code changes
\* at most one password (ExchangeOTPForResetToken, ConsumeResetToken).
THEOREM SingleUse == Spec => []UsedOnce
<1>1. IInv => UsedOnce
  <2> SUFFICES ASSUME IInv PROVE UsedOnce
    OBVIOUS
  <2>1. ASSUME NEW g \in Grants PROVE Cardinality({h \in Grants : grants[h].parent = g}) <= 1
    <3> DEFINE C == {h \in Grants : grants[h].parent = g}
    <3>1. g # None BY Bounds, GrantFacts, TypeParts DEF IInv
    <3>2. \A h, k \in C : h = k BY <3>1 DEF IInv, OneChild
    <3>3. CASE C = {} BY <3>3, FS_EmptySet
    <3>4. ASSUME NEW h \in C PROVE Cardinality(C) <= 1
      <4>1. C = {h} BY <3>2, <3>4
      <4>2. Cardinality({h}) = 1 BY FS_Singleton
      <4> QED BY <4>1, <4>2
    <3> QED BY <3>3, <3>4
  <2>2. \A c \in Code : changed[c] <= 1 BY DEF IInv, CodeInOnePlace
  <2> QED BY <2>1, <2>2 DEF UsedOnce
<1> QED BY <1>1, Inductive, PTL

=============================================================================
