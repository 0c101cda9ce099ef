----------------------------- MODULE SSEProofs -----------------------------
(***************************************************************************)
(* What SSE guarantees for every number of users, tabs, instances and      *)
(* publishers, every history and buffer size and any number of faults.     *)
(***************************************************************************)
EXTENDS SSE, TLAPS

\* Every event in a history was published by one of the calls so far.
HistoryIsPast ==
    \A u \in User : \A k \in 1..Len(history[u]) : history[u][k].data <= published

\* Only a connection whose replay was answered has a replay to write.
MissedOnlyWhenOpen == \A t \in Tab : stage[t] # Open => missed[t] = {}

\* A tab without a connection has resumed from nothing.
IdleOwesNothing == \A t \in Tab : stage[t] = Idle => from[t] = -1

\* The inductive invariant.
IInv ==
    /\ TypeOK
    /\ HistoryIsRun
    /\ HistoryIsPast
    /\ ClientsMatchConnections
    /\ MissedOnlyWhenOpen
    /\ IdleOwesNothing
    /\ NothingFallsBetween
-----------------------------------------------------------------------------
\* LTRIM keeps a suffix: what it returns for a sequence one longer than the
\* limit at most.
LEMMA TrimFacts ==
    ASSUME NEW s \in Seq(Event), HistorySize \in Nat \ {0}
    PROVE  /\ Trim(s) \in Seq(Event)
           /\ Len(Trim(s)) <= HistorySize
           /\ Len(Trim(s)) <= Len(s)
           /\ \A k \in 1..Len(Trim(s)) : Trim(s)[k] = s[Len(s) - Len(Trim(s)) + k]
<1>1. CASE Len(s) <= HistorySize
  <2>1. Trim(s) = s
    BY <1>1 DEF Trim
  <2>2. QED
    BY <1>1, <2>1
<1>2. CASE Len(s) > HistorySize
  <2>1. Trim(s) = SubSeq(s, Len(s) - HistorySize + 1, Len(s))
    BY <1>2 DEF Trim
  <2>2. Len(Trim(s)) = HistorySize
    BY <2>1, <1>2
  <2>3. QED
    BY <2>1, <2>2, <1>2
<1>3. QED
  BY <1>1, <1>2

\* Appending an event keeps the ids of a history a run that ends at the counter.
LEMMA AppendKeepsRun ==
    ASSUME NEW h \in Seq(Event), NEW n \in Nat, NEW e \in Event, e.id = n + 1, IsRun(h, n)
    PROVE  /\ Trim(Append(h, e)) \in Seq(Event)
           /\ IsRun(Trim(Append(h, e)), n + 1)
           /\ \A k \in 1..Len(Trim(Append(h, e))) :
                 \/ Trim(Append(h, e))[k] = e
                 \/ \E j \in 1..Len(h) : Trim(Append(h, e))[k] = h[j]
<1> USE SSEAssumption DEF IsRun
<1> DEFINE a == Append(h, e)
           g == Trim(a)
<1>1. e.id = n + 1
  OBVIOUS
<1>2. /\ a \in Seq(Event)
      /\ Len(a) = Len(h) + 1
      /\ a[Len(h) + 1] = e
      /\ \A k \in 1..Len(h) : a[k] = h[k]
  OBVIOUS
<1>4. g = Trim(a)
  OBVIOUS
<1> HIDE DEF a, g
<1>3. \A k \in 1..Len(a) : a[k].id = (n + 1) - Len(a) + k
  <2> TAKE k \in 1..Len(a)
  <2>1. CASE k = Len(h) + 1
    BY <1>1, <1>2, <2>1
  <2>2. CASE k \in 1..Len(h)
    <3>1. a[k].id = n - Len(h) + k
      BY <1>2, <2>2
    <3>2. QED
      BY <3>1, <1>2, <2>2
  <2>3. QED
    BY <2>1, <2>2, <1>2
<1>5. /\ g \in Seq(Event)
      /\ Len(g) <= HistorySize
      /\ Len(g) <= Len(a)
      /\ \A k \in 1..Len(g) : g[k] = a[Len(a) - Len(g) + k]
  <2>1. a \in Seq(Event)
    BY <1>2
  <2>2. /\ Trim(a) \in Seq(Event)
        /\ Len(Trim(a)) <= HistorySize
        /\ Len(Trim(a)) <= Len(a)
        /\ \A k \in 1..Len(Trim(a)) : Trim(a)[k] = a[Len(a) - Len(Trim(a)) + k]
    BY <2>1, TrimFacts, Zenon
  <2>3. QED
    BY <2>2, <1>4, Zenon
<1>6. \A k \in 1..Len(g) : Len(a) - Len(g) + k \in 1..Len(a)
  BY <1>5, <1>2
<1>7. \A k \in 1..Len(g) : g[k].id = (n + 1) - Len(g) + k
  <2> TAKE k \in 1..Len(g)
  <2>1. g[k].id = (n + 1) - Len(a) + (Len(a) - Len(g) + k)
    BY <1>3, <1>5, <1>6
  <2>2. QED
    BY <2>1, <1>2, <1>5
<1>8. \A k \in 1..Len(g) : g[k] = e \/ \E j \in 1..Len(h) : g[k] = h[j]
  <2> TAKE k \in 1..Len(g)
  <2> DEFINE j == Len(a) - Len(g) + k
  <2>1. j \in 1..Len(a) /\ g[k] = a[j]
    BY <1>5, <1>6
  <2>2. j = Len(h) + 1 \/ j \in 1..Len(h)
    <3>1. Len(h) \in Nat
      OBVIOUS
    <3> HIDE DEF j
    <3>2. QED
      BY <3>1, <2>1, <1>2
  <2> HIDE DEF j
  <2>3. QED
    BY <2>1, <2>2, <1>2
<1>9. Len(g) <= n + 1
  BY <1>2, <1>5
<1>10. QED
  BY <1>5, <1>7, <1>8, <1>9 DEF a, g
-----------------------------------------------------------------------------
(* Type correctness. *)

LEMMA InitTypeOK == Init => TypeOK
  BY SSEAssumption DEF Init, TypeOK, Envelope, Event, Nothing, NoEvent, Idle

LEMMA NothingType == Nothing \in Envelope
  BY DEF Nothing, Envelope, Event

\* An event of the right type keeps what the tab remembers well typed.
LEMMA ReceiveType ==
    ASSUME TypeOK, NEW t \in Tab, NEW ev \in Event, Receive(t, ev)
    PROVE  last' \in [Tab -> Event \cup {NoEvent}] /\ received' \in [Tab -> SUBSET Nat]
<1>1. ev.data \in Nat
  BY DEF Event
<1>2. QED
  BY <1>1 DEF TypeOK, Receive

LEMMA NextTypeOK ==
    ASSUME TypeOK, [Next]_vars
    PROVE  TypeOK'
<1> USE SSEAssumption DEF TypeOK
<1>1. ASSUME NEW p \in Publisher, NEW u \in User, PublishToUser(p, u) PROVE TypeOK'
  <2> DEFINE e == [id |-> counter[u] + 1, data |-> published + 1]
  <2>1. e \in Event /\ [user |-> u, event |-> e] \in Envelope
    BY DEF Event, Envelope
  <2>2. /\ counter' = [counter EXCEPT ![u] = @ + 1]
        /\ history' = [history EXCEPT ![u] = Trim(Append(@, e))]
        /\ published' = published + 1
        /\ pending' = [pending EXCEPT ![p] = [user |-> u, event |-> e]]
        /\ UNCHANGED <<wire, connVars, faults, skipped>>
    BY <1>1 DEF PublishToUser, StoreAppend
  <2> HIDE DEF e
  <2>3. Append(history[u], e) \in Seq(Event)
    BY <2>1
  <2>4. Trim(Append(history[u], e)) \in Seq(Event)
    BY <2>3, TrimFacts, Zenon
  <2>5. history' \in [User -> Seq(Event)]
    BY <2>2, <2>4
  <2>6. counter' \in [User -> Nat] /\ pending' \in [Publisher -> Envelope]
    BY <2>1, <2>2
  <2>7. QED
    BY <2>2, <2>5, <2>6 DEF connVars
<1>2. ASSUME NEW p \in Publisher, NEW to \in User \cup {NoUser}, PublishEphemeral(p, to) PROVE TypeOK'
  <2>1. [user |-> to, event |-> [id |-> 0, data |-> published + 1]] \in Envelope
    BY DEF Event, Envelope
  <2>2. QED
    BY <1>2, <2>1 DEF PublishEphemeral, storeVars, connVars
<1>3. ASSUME NEW p \in Publisher, FanoutPublish(p) PROVE TypeOK'
  <2>1. wire' \in [Instance -> Seq(Envelope)]
    BY <1>3 DEF FanoutPublish
  <2>2. pending' \in [Publisher -> Envelope]
    BY <1>3, NothingType DEF FanoutPublish
  <2>3. QED
    BY <1>3, <2>1, <2>2 DEF FanoutPublish, storeVars, connVars
<1>4. ASSUME NEW p \in Publisher, FanoutFails(p) PROVE TypeOK'
  <2>1. pending[p].event \in Event
    BY DEF Envelope
  <2>2. skipped' \in [Tab -> SUBSET Event]
    BY <1>4, <2>1 DEF FanoutFails
  <2>3. pending' \in [Publisher -> Envelope]
    BY <1>4, NothingType DEF FanoutFails
  <2>4. QED
    BY <1>4, <2>2, <2>3 DEF FanoutFails, storeVars, connVars
<1>5. ASSUME NEW i \in Instance, FanoutLoses(i) PROVE TypeOK'
  <2>1. Head(wire[i]) \in Envelope /\ Tail(wire[i]) \in Seq(Envelope)
    BY <1>5 DEF FanoutLoses
  <2>2. Head(wire[i]).event \in Event
    BY <2>1 DEF Envelope
  <2>3. skipped' \in [Tab -> SUBSET Event]
    BY <1>5, <2>2 DEF FanoutLoses
  <2>4. wire' \in [Instance -> Seq(Envelope)]
    BY <1>5, <2>1 DEF FanoutLoses
  <2>5. QED
    BY <1>5, <2>3, <2>4 DEF FanoutLoses, storeVars, connVars
<1>6. ASSUME NEW i \in Instance, DeliverLocal(i) PROVE TypeOK'
  <2>1. Head(wire[i]) \in Envelope /\ Tail(wire[i]) \in Seq(Envelope)
    BY <1>6 DEF DeliverLocal
  <2>2. Head(wire[i]).event \in Event
    BY <2>1 DEF Envelope
  <2>3. skipped' \in [Tab -> SUBSET Event]
    BY <1>6, <2>2 DEF DeliverLocal
  <2>4. ch' \in [Tab -> Seq(Event)]
    BY <1>6, <2>2 DEF DeliverLocal
  <2>5. wire' \in [Instance -> Seq(Envelope)]
    BY <1>6, <2>1 DEF DeliverLocal
  <2>6. QED
    BY <1>6, <2>3, <2>4, <2>5 DEF DeliverLocal, storeVars
<1>7. ASSUME NEW t \in Tab, NEW i \in Instance, Subscribe(t, i) PROVE TypeOK'
  BY <1>7 DEF Subscribe, storeVars
<1>8. ASSUME NEW t \in Tab, Replay(t) PROVE TypeOK'
  <2>1. SelectMissed(last[t].id, history[Owner[t]]) \in SUBSET (Nat \X Event)
    BY DEF SelectMissed
  <2>2. missed' \in [Tab -> SUBSET (Nat \X Event)]
    BY <1>8, <2>1 DEF Replay
  <2>3. from' \in [Tab -> Nat \cup {-1}]
    <3>1. CanResume(t) => last[t].id \in Nat
      BY DEF CanResume, Event, NoEvent
    <3>2. QED
      BY <1>8, <3>1 DEF Replay
  <2>4. QED
    BY <1>8, <2>2, <2>3 DEF Replay, storeVars
<1>9. ASSUME NEW t \in Tab, ReplayFails(t) PROVE TypeOK'
  BY <1>9 DEF ReplayFails, storeVars
<1>10. ASSUME NEW t \in Tab, WriteMissed(t) PROVE TypeOK'
  <2>1. PICK m \in missed[t] : /\ Receive(t, m[2])
                               /\ missed' = [missed EXCEPT ![t] = @ \ {m}]
    BY <1>10 DEF WriteMissed
  <2>2. m[2] \in Event
    BY <2>1
  <2>3. last' \in [Tab -> Event \cup {NoEvent}] /\ received' \in [Tab -> SUBSET Nat]
    BY <2>2, <2>1, ReceiveType
  <2>4. missed' \in [Tab -> SUBSET (Nat \X Event)]
    BY <2>1
  <2>5. QED
    BY <1>10, <2>3, <2>4 DEF WriteMissed, storeVars
<1>11. ASSUME NEW t \in Tab, WriteLive(t) PROVE TypeOK'
  <2>1. Head(ch[t]) \in Event /\ Tail(ch[t]) \in Seq(Event)
    BY <1>11 DEF WriteLive
  <2>2. last' \in [Tab -> Event \cup {NoEvent}] /\ received' \in [Tab -> SUBSET Nat]
    BY <2>1, <1>11, ReceiveType DEF WriteLive
  <2>3. ch' \in [Tab -> Seq(Event)]
    BY <1>11, <2>1 DEF WriteLive
  <2>4. QED
    BY <1>11, <2>2, <2>3 DEF WriteLive, storeVars
<1>12. ASSUME NEW t \in Tab, Unsubscribe(t) PROVE TypeOK'
  BY <1>12 DEF Unsubscribe, Close, storeVars
<1>13. ASSUME NEW i \in Instance, Restart(i) PROVE TypeOK'
  BY <1>13 DEF Restart, Close, storeVars
<1>14. ASSUME NEW u \in User, ExpireHistory(u) PROVE TypeOK'
  BY <1>14 DEF ExpireHistory, connVars
<1>15. CASE Flush
  BY <1>15 DEF Flush, connVars
<1>16. CASE UNCHANGED vars
  BY <1>16 DEF vars
<1>17. QED
  BY <1>1, <1>2, <1>3, <1>4, <1>5, <1>6, <1>7, <1>8, <1>9, <1>10, <1>11, <1>12, <1>13, <1>14, <1>15, <1>16 DEF Next
-----------------------------------------------------------------------------
(* The histories. *)

\* Only an append, an expiry and a flush touch what Redis stores.
LEMMA NextHistory ==
    ASSUME TypeOK, HistoryIsRun, HistoryIsPast, [Next]_vars
    PROVE  HistoryIsRun' /\ HistoryIsPast'
<1> USE SSEAssumption
<1>1. ASSUME NEW p \in Publisher, NEW u \in User, PublishToUser(p, u)
      PROVE  HistoryIsRun' /\ HistoryIsPast'
  <2> DEFINE e == [id |-> counter[u] + 1, data |-> published + 1]
             g == Trim(Append(history[u], e))
  <2>1. /\ counter' = [counter EXCEPT ![u] = counter[u] + 1]
        /\ history' = [history EXCEPT ![u] = g]
        /\ published' = published + 1
    BY <1>1 DEF PublishToUser, StoreAppend, TypeOK
  <2>2. /\ history[u] \in Seq(Event) /\ counter[u] \in Nat /\ published \in Nat
        /\ e \in Event /\ e.id = counter[u] + 1 /\ e.data = published + 1
        /\ IsRun(history[u], counter[u])
        /\ \A k \in 1..Len(history[u]) : history[u][k].data <= published
    BY DEF TypeOK, HistoryIsRun, HistoryIsPast, Event
  <2> HIDE DEF e
  <2>3. /\ g \in Seq(Event)
        /\ IsRun(g, counter[u] + 1)
        /\ \A k \in 1..Len(g) : g[k] = e \/ \E j \in 1..Len(history[u]) : g[k] = history[u][j]
    BY <2>2, AppendKeepsRun, Zenon
  <2> HIDE DEF g
  <2>4. \A k \in 1..Len(g) : g[k].data <= published + 1
    <3> TAKE k \in 1..Len(g)
    <3>1. CASE g[k] = e
      BY <3>1, <2>2
    <3>2. CASE \E j \in 1..Len(history[u]) : g[k] = history[u][j]
      <4>1. PICK j \in 1..Len(history[u]) : g[k] = history[u][j]
        BY <3>2
      <4>2. history[u][j].data \in Nat
        <5>1. history[u][j] \in Event
          BY <2>2
        <5>2. QED
          BY <5>1 DEF Event
      <4>3. QED
        BY <4>1, <4>2, <2>2
    <3>3. QED
      BY <3>1, <3>2, <2>3
  <2>5. HistoryIsRun'
    <3> SUFFICES ASSUME NEW v \in User
                 PROVE  IsRun(history'[v], counter'[v])
      BY DEF HistoryIsRun
    <3>1. CASE v = u
      BY <3>1, <2>1, <2>3 DEF TypeOK
    <3>2. CASE v # u
      BY <3>2, <2>1 DEF TypeOK, HistoryIsRun
    <3>3. QED
      BY <3>1, <3>2
  <2>6. HistoryIsPast'
    <3> SUFFICES ASSUME NEW v \in User, NEW k \in 1..Len(history'[v])
                 PROVE  history'[v][k].data <= published'
      BY DEF HistoryIsPast
    <3>1. CASE v = u
      BY <3>1, <2>1, <2>4 DEF TypeOK
    <3>2. CASE v # u
      <4>1. history'[v] = history[v]
        BY <3>2, <2>1 DEF TypeOK
      <4>2. history[v][k] \in Event /\ history[v][k].data <= published
        BY <4>1 DEF TypeOK, HistoryIsPast
      <4>3. QED
        BY <4>1, <4>2, <2>1 DEF Event, TypeOK
    <3>3. QED
      BY <3>1, <3>2
  <2>7. QED
    BY <2>5, <2>6
<1>2. ASSUME NEW u \in User, ExpireHistory(u)
      PROVE  HistoryIsRun' /\ HistoryIsPast'
  <2>1. /\ history' = [history EXCEPT ![u] = <<>>]
        /\ counter' = counter /\ published' = published
    BY <1>2 DEF ExpireHistory
  <2>2. \A v \in User : history'[v] = <<>> \/ history'[v] = history[v]
    BY <2>1 DEF TypeOK
  <2>3. HistoryIsRun'
    BY <2>1, <2>2 DEF TypeOK, HistoryIsRun, IsRun
  <2>4. HistoryIsPast'
    BY <2>1, <2>2 DEF TypeOK, HistoryIsPast
  <2>5. QED
    BY <2>3, <2>4
<1>3. CASE Flush
  BY <1>3 DEF Flush, TypeOK, HistoryIsRun, HistoryIsPast, IsRun
<1>4. CASE UNCHANGED storeVars /\ published' = published
  BY <1>4 DEF storeVars, HistoryIsRun, HistoryIsPast, IsRun
<1>5. ASSUME NEW p \in Publisher, NEW to \in User \cup {NoUser}, PublishEphemeral(p, to)
      PROVE  HistoryIsRun' /\ HistoryIsPast'
  <2>1. UNCHANGED <<counter, history>> /\ published' = published + 1
    BY <1>5 DEF PublishEphemeral, storeVars
  <2>2. \A v \in User : \A k \in 1..Len(history[v]) : history[v][k].data \in Nat
    <3>1. \A v \in User : \A k \in 1..Len(history[v]) : history[v][k] \in Event
      BY DEF TypeOK
    <3>2. QED
      BY <3>1 DEF Event
  <2>3. QED
    BY <2>1, <2>2 DEF HistoryIsRun, HistoryIsPast, TypeOK, IsRun
<1>6. ASSUME NEW p \in Publisher, FanoutPublish(p) \/ FanoutFails(p)
      PROVE  UNCHANGED storeVars /\ published' = published
  BY <1>6 DEF FanoutPublish, FanoutFails
<1>7. ASSUME NEW i \in Instance, FanoutLoses(i) \/ DeliverLocal(i) \/ Restart(i)
      PROVE  UNCHANGED storeVars /\ published' = published
  BY <1>7 DEF FanoutLoses, DeliverLocal, Restart
<1>8. ASSUME NEW t \in Tab, NEW i \in Instance, Subscribe(t, i)
      PROVE  UNCHANGED storeVars /\ published' = published
  BY <1>8 DEF Subscribe
<1>9. ASSUME NEW t \in Tab, \/ Replay(t) \/ ReplayFails(t) \/ WriteMissed(t)
                            \/ WriteLive(t) \/ Unsubscribe(t)
      PROVE  UNCHANGED storeVars /\ published' = published
  BY <1>9 DEF Replay, ReplayFails, WriteMissed, WriteLive, Unsubscribe
<1>10. CASE UNCHANGED vars
  BY <1>4, <1>10 DEF vars, storeVars
<1>11. QED
  BY <1>1, <1>2, <1>3, <1>4, <1>5, <1>6, <1>7, <1>8, <1>9, <1>10 DEF Next
-----------------------------------------------------------------------------
(* The connections. *)

LEMMA NextClients ==
    ASSUME TypeOK, ClientsMatchConnections, MissedOnlyWhenOpen, [Next]_vars
    PROVE  ClientsMatchConnections' /\ MissedOnlyWhenOpen'
<1> USE SSEAssumption DEF TypeOK, ClientsMatchConnections, MissedOnlyWhenOpen, Idle,
                          Registered, Open
<1>1. ASSUME NEW p \in Publisher, NEW u \in User, PublishToUser(p, u)
      PROVE  UNCHANGED <<clients, stage, server, missed>>
  BY <1>1 DEF PublishToUser, connVars
<1>2. ASSUME NEW p \in Publisher, NEW to \in User \cup {NoUser}, PublishEphemeral(p, to)
      PROVE  UNCHANGED <<clients, stage, server, missed>>
  BY <1>2 DEF PublishEphemeral, connVars
<1>3. ASSUME NEW p \in Publisher, FanoutPublish(p) \/ FanoutFails(p)
      PROVE  UNCHANGED <<clients, stage, server, missed>>
  BY <1>3 DEF FanoutPublish, FanoutFails, connVars
<1>4. ASSUME NEW i \in Instance, FanoutLoses(i) \/ DeliverLocal(i)
      PROVE  UNCHANGED <<clients, stage, server, missed>>
  BY <1>4 DEF FanoutLoses, DeliverLocal, connVars
<1>5. ASSUME NEW t \in Tab, WriteLive(t)
      PROVE  UNCHANGED <<clients, stage, server, missed>>
  BY <1>5 DEF WriteLive
<1>6. ASSUME NEW u \in User, ExpireHistory(u)
      PROVE  UNCHANGED <<clients, stage, server, missed>>
  BY <1>6 DEF ExpireHistory, connVars
<1>7. CASE Flush \/ UNCHANGED vars
  BY <1>7 DEF Flush, connVars, vars
<1>8. ASSUME NEW t \in Tab, NEW i \in Instance, Subscribe(t, i)
      PROVE  ClientsMatchConnections' /\ MissedOnlyWhenOpen'
  BY <1>8 DEF Subscribe
<1>9. ASSUME NEW t \in Tab, Replay(t) \/ ReplayFails(t)
      PROVE  ClientsMatchConnections' /\ MissedOnlyWhenOpen'
  <2>1. /\ stage[t] = Registered
        /\ stage' = [stage EXCEPT ![t] = Open]
        /\ \A v \in Tab : v # t => missed'[v] = missed[v]
        /\ UNCHANGED <<clients, server>>
    BY <1>9 DEF Replay, ReplayFails
  <2>2. ClientsMatchConnections'
    BY <2>1
  <2>3. MissedOnlyWhenOpen'
    BY <2>1
  <2>4. QED
    BY <2>2, <2>3
<1>10. ASSUME NEW t \in Tab, WriteMissed(t)
       PROVE  ClientsMatchConnections' /\ MissedOnlyWhenOpen'
  BY <1>10 DEF WriteMissed
<1>11. ASSUME NEW t \in Tab, Unsubscribe(t)
       PROVE  ClientsMatchConnections' /\ MissedOnlyWhenOpen'
  BY <1>11 DEF Unsubscribe, Close
<1>12. ASSUME NEW i \in Instance, Restart(i)
       PROVE  ClientsMatchConnections' /\ MissedOnlyWhenOpen'
  BY <1>12 DEF Restart, Close
<1>13. CASE UNCHANGED <<clients, stage, server, missed>>
  BY <1>13
<1>14. QED
  BY <1>1, <1>2, <1>3, <1>4, <1>5, <1>6, <1>7, <1>8, <1>9, <1>10, <1>11, <1>12, <1>13 DEF Next
-----------------------------------------------------------------------------
(* Delivery. *)

\* Appending keeps the elements of a sequence, and a new one is among them.
LEMMA InAppend ==
    ASSUME NEW S, NEW s \in Seq(S), NEW e \in S, NEW x
    PROVE  /\ InSeq(x, s) => InSeq(x, Append(s, e))
           /\ InSeq(e, Append(s, e))
<1>1. /\ Len(Append(s, e)) = Len(s) + 1
      /\ \A k \in 1..Len(s) : Append(s, e)[k] = s[k]
      /\ Append(s, e)[Len(s) + 1] = e
  OBVIOUS
<1>2. Len(s) \in Nat
  OBVIOUS
<1>3. QED
  BY <1>1, <1>2 DEF InSeq

\* Taking the head leaves every other element.
LEMMA InTail ==
    ASSUME NEW S, NEW s \in Seq(S), s # <<>>, NEW x, InSeq(x, s)
    PROVE  x = Head(s) \/ InSeq(x, Tail(s))
<1>1. PICK k \in 1..Len(s) : s[k] = x
  BY DEF InSeq
<1>2. CASE k = 1
  BY <1>1, <1>2
<1>3. CASE k # 1
  <2>1. k - 1 \in 1..Len(Tail(s)) /\ Tail(s)[k - 1] = x
    BY <1>1, <1>3
  <2>2. QED
    BY <2>1 DEF InSeq
<1>4. QED
  BY <1>2, <1>3

\* An accounted event stays accounted while its connection lives: each step
\* that takes it from one place puts it into the next.
LEMMA AccountedStays ==
    ASSUME TypeOK, ClientsMatchConnections, MissedOnlyWhenOpen, [Next]_vars,
           NEW v \in Tab, NEW ev \in Event, stage[v] # Idle, stage'[v] # Idle,
           Accounted(v, ev)
    PROVE  Accounted(v, ev)'
<1> DEFINE env == [user |-> Owner[v], event |-> ev]
<1>0. /\ Owner[v] \in User /\ Owner[v] # NoUser /\ env \in Envelope /\ env # Nothing
      /\ env.user = Owner[v] /\ env.event = ev
      /\ v \in clients[server[v]][Owner[v]]
      /\ server[v] \in Instance
  BY SSEAssumption DEF Envelope, Nothing, ClientsMatchConnections, TypeOK
<1>a. \/ ev.data \in received[v]
      \/ \E m \in missed[v] : m[2] = ev
      \/ InSeq(ev, ch[v])
      \/ InSeq(env, wire[server[v]])
      \/ \E p \in Publisher : pending[p] = env
      \/ ev \in skipped[v]
  BY DEF Accounted, InFlight
<1> DEFINE Goal == \/ ev.data \in received'[v]
                   \/ \E m \in missed'[v] : m[2] = ev
                   \/ InSeq(ev, ch'[v])
                   \/ InSeq(env, wire'[server'[v]])
                   \/ \E p \in Publisher : pending'[p] = env
                   \/ ev \in skipped'[v]
<1> SUFFICES Goal
  BY DEF Accounted, InFlight, InSeq
<1> HIDE DEF env
<1>1. ASSUME NEW p \in Publisher, NEW u \in User, PublishToUser(p, u) PROVE Goal
  BY <1>a, <1>1, <1>0 DEF PublishToUser, TypeOK, connVars
<1>2. ASSUME NEW p \in Publisher, NEW to \in User \cup {NoUser}, PublishEphemeral(p, to)
      PROVE Goal
  BY <1>a, <1>2, <1>0 DEF PublishEphemeral, TypeOK, connVars
<1>3. ASSUME NEW p \in Publisher, FanoutPublish(p) PROVE Goal
  <2>1. /\ wire'[server[v]] = Append(wire[server[v]], pending[p])
        /\ wire[server[v]] \in Seq(Envelope) /\ pending[p] \in Envelope
    BY <1>3, <1>0 DEF FanoutPublish, TypeOK
  <2>2. InSeq(env, wire[server[v]]) => InSeq(env, wire'[server[v]])
    BY <2>1, InAppend, Zenon
  <2>3. pending[p] = env => InSeq(env, wire'[server[v]])
    BY <2>1, InAppend, Zenon
  <2>4. \A q \in Publisher : q # p => pending'[q] = pending[q]
    BY <1>3 DEF FanoutPublish, TypeOK
  <2>5. UNCHANGED <<received, missed, ch, server, skipped>>
    BY <1>3 DEF FanoutPublish, connVars
  <2>6. QED
    BY <1>a, <2>2, <2>3, <2>4, <2>5
<1>4. ASSUME NEW p \in Publisher, FanoutFails(p) PROVE Goal
  <2>1. pending[p] = env => ev \in skipped'[v]
    BY <1>4, <1>0 DEF FanoutFails
  <2>2. \A q \in Publisher : q # p => pending'[q] = pending[q]
    BY <1>4 DEF FanoutFails, TypeOK
  <2>3. skipped[v] \subseteq skipped'[v]
    BY <1>4 DEF FanoutFails, TypeOK
  <2>4. UNCHANGED <<received, missed, ch, server, wire>>
    BY <1>4 DEF FanoutFails, connVars
  <2>5. QED
    BY <1>a, <2>1, <2>2, <2>3, <2>4
<1>5. ASSUME NEW i \in Instance, FanoutLoses(i) PROVE Goal
  <2>1. UNCHANGED <<received, missed, ch, server, pending>>
    BY <1>5 DEF FanoutLoses, connVars
  <2>2. skipped[v] \subseteq skipped'[v]
    BY <1>5 DEF FanoutLoses, TypeOK
  <2>3. InSeq(env, wire[server[v]]) => InSeq(env, wire'[server[v]]) \/ ev \in skipped'[v]
    <3>1. CASE server[v] = i
      <4>1. /\ wire[i] \in Seq(Envelope) /\ wire[i] # <<>> /\ wire'[i] = Tail(wire[i])
            /\ skipped'[v] = skipped[v] \cup {Head(wire[i]).event}
        BY <1>5, <3>1 DEF FanoutLoses, TypeOK
      <4>2. InSeq(env, wire[i]) => env = Head(wire[i]) \/ InSeq(env, Tail(wire[i]))
        BY <4>1, InTail, Zenon
      <4>3. QED
        BY <4>1, <4>2, <3>1, <1>0
    <3>2. CASE server[v] # i
      BY <1>5, <3>2, <1>0 DEF FanoutLoses, TypeOK
    <3>3. QED
      BY <3>1, <3>2
  <2>4. QED
    BY <1>a, <2>1, <2>2, <2>3
<1>6. ASSUME NEW i \in Instance, DeliverLocal(i) PROVE Goal
  <2>1. UNCHANGED <<received, missed, server, pending>>
    BY <1>6 DEF DeliverLocal
  <2>2. /\ wire[i] \in Seq(Envelope) /\ wire[i] # <<>> /\ wire'[i] = Tail(wire[i])
        /\ Head(wire[i]) \in Envelope /\ ch[v] \in Seq(Event)
    BY <1>6 DEF DeliverLocal, TypeOK
  <2>3. Head(wire[i]).event \in Event
    BY <2>2 DEF Envelope
  <2>4. ch'[v] = ch[v] \/ ch'[v] = Append(ch[v], Head(wire[i]).event)
    BY <1>6 DEF DeliverLocal
  <2>5. InSeq(ev, ch[v]) => InSeq(ev, ch'[v])
    BY <2>2, <2>3, <2>4, InAppend, Zenon
  <2>6. skipped[v] \subseteq skipped'[v]
    BY <1>6 DEF DeliverLocal, TypeOK
  <2>7. InSeq(env, wire[server[v]]) =>
           InSeq(env, wire'[server[v]]) \/ InSeq(ev, ch'[v]) \/ ev \in skipped'[v]
    <3>1. CASE server[v] = i
      <4>1. InSeq(env, wire[i]) => env = Head(wire[i]) \/ InSeq(env, Tail(wire[i]))
        BY <2>2, InTail, Zenon
      <4>2. ASSUME env = Head(wire[i]) PROVE InSeq(ev, ch'[v]) \/ ev \in skipped'[v]
        <5>1. v \in Targets(i, Head(wire[i]))
          BY <4>2, <3>1, <1>0 DEF Targets
        <5>2. \/ ch'[v] = Append(ch[v], Head(wire[i]).event)
              \/ skipped'[v] = skipped[v] \cup {Head(wire[i]).event}
          BY <1>6, <5>1 DEF DeliverLocal
        <5>3. Head(wire[i]).event = ev
          BY <4>2, <1>0
        <5>4. InSeq(ev, Append(ch[v], ev))
          BY <2>2, InAppend, Zenon
        <5>5. QED
          BY <5>2, <5>3, <5>4
      <4>3. QED
        BY <4>1, <4>2, <3>1, <2>2
    <3>2. CASE server[v] # i
      BY <1>6, <3>2, <1>0 DEF DeliverLocal, TypeOK
    <3>3. QED
      BY <3>1, <3>2
  <2>8. QED
    BY <1>a, <2>1, <2>5, <2>6, <2>7
<1>7. ASSUME NEW t \in Tab, NEW i \in Instance, Subscribe(t, i) PROVE Goal
  <2>1. t # v
    BY <1>7 DEF Subscribe
  <2>2. QED
    BY <1>a, <1>7, <2>1 DEF Subscribe, TypeOK
<1>8. ASSUME NEW t \in Tab, Replay(t) PROVE Goal
  <2>1. t = v => missed[v] = {}
    BY <1>8 DEF Replay, MissedOnlyWhenOpen, Registered, Open
  <2>2. t # v => missed'[v] = missed[v]
    BY <1>8 DEF Replay, TypeOK
  <2>3. UNCHANGED <<received, ch, wire, server, pending, skipped>>
    BY <1>8 DEF Replay
  <2>4. QED
    BY <1>a, <2>1, <2>2, <2>3
<1>9. ASSUME NEW t \in Tab, ReplayFails(t) PROVE Goal
  <2>1. t = v => missed[v] = {}
    BY <1>9 DEF ReplayFails, MissedOnlyWhenOpen, Registered, Open
  <2>2. t # v => missed'[v] = missed[v]
    BY <1>9 DEF ReplayFails, TypeOK
  <2>3. UNCHANGED <<received, ch, wire, server, pending, skipped>>
    BY <1>9 DEF ReplayFails
  <2>4. QED
    BY <1>a, <2>1, <2>2, <2>3
<1>10. ASSUME NEW t \in Tab, WriteMissed(t) PROVE Goal
  <2>1. PICK m \in missed[t] : /\ Receive(t, m[2])
                               /\ missed' = [missed EXCEPT ![t] = @ \ {m}]
    BY <1>10 DEF WriteMissed
  <2>2. /\ received[v] \subseteq received'[v]
        /\ t = v => m[2].data \in received'[v]
    BY <2>1 DEF Receive, TypeOK
  <2>3. \A o \in missed[v] : o \in missed'[v] \/ (t = v /\ o = m)
    BY <2>1 DEF TypeOK
  <2>4. UNCHANGED <<ch, wire, server, pending, skipped>>
    BY <1>10 DEF WriteMissed
  <2>5. QED
    BY <1>a, <2>2, <2>3, <2>4
<1>11. ASSUME NEW t \in Tab, WriteLive(t) PROVE Goal
  <2>1. UNCHANGED <<missed, wire, server, pending, skipped>>
    BY <1>11 DEF WriteLive
  <2>2. /\ received[v] \subseteq received'[v]
        /\ t = v => Head(ch[v]).data \in received'[v]
        /\ ch'[v] = IF t = v THEN Tail(ch[v]) ELSE ch[v]
        /\ ch[v] \in Seq(Event)
        /\ t = v => ch[v] # <<>>
    BY <1>11 DEF WriteLive, Receive, TypeOK
  <2>3. (t = v /\ InSeq(ev, ch[v])) => ev = Head(ch[v]) \/ InSeq(ev, Tail(ch[v]))
    BY <2>2, InTail, Zenon
  <2>4. QED
    BY <1>a, <2>1, <2>2, <2>3
<1>12. ASSUME NEW t \in Tab, Unsubscribe(t) PROVE Goal
  <2>1. t # v
    BY <1>12 DEF Unsubscribe, Close, TypeOK
  <2>2. QED
    BY <1>a, <1>12, <2>1 DEF Unsubscribe, Close, TypeOK
<1>13. ASSUME NEW i \in Instance, Restart(i) PROVE Goal
  <2>1. server[v] # i
    BY <1>13 DEF Restart, Close, TypeOK
  <2>2. QED
    BY <1>a, <1>13, <1>0, <2>1 DEF Restart, Close, TypeOK
<1>14. ASSUME NEW u \in User, ExpireHistory(u) PROVE Goal
  BY <1>a, <1>14 DEF ExpireHistory, connVars
<1>15. CASE Flush
  BY <1>a, <1>15 DEF Flush, connVars
<1>16. CASE UNCHANGED vars
  BY <1>a, <1>16 DEF vars
<1>17. QED
  BY <1>1, <1>2, <1>3, <1>4, <1>5, <1>6, <1>7, <1>8, <1>9, <1>10, <1>11, <1>12, <1>13,
     <1>14, <1>15, <1>16 DEF Next

\* A step makes a connection owe an event only by publishing it (then a
\* publisher holds it) or by answering the replay (then it is in the replay).
LEMMA NextNothingFallsBetween ==
    ASSUME IInv, [Next]_vars
    PROVE  NothingFallsBetween'
<1> USE SSEAssumption
<1> SUFFICES ASSUME NEW v \in Tab, stage'[v] # Idle,
                    NEW k \in 1..Len(history'[Owner[v]]),
                    NEW ev, ev = history'[Owner[v]][k], Owed(v, ev)'
             PROVE  Accounted(v, ev)'
  BY DEF NothingFallsBetween, Owed, Accounted, InFlight, InSeq
<1> DEFINE o == Owner[v]
<1>1. TypeOK' /\ o \in User
  BY NextTypeOK DEF IInv, TypeOK
<1>2. ev \in Event
  BY <1>1 DEF TypeOK
<1>3. ASSUME stage[v] # Idle, NEW j \in 1..Len(history[o]), ev = history[o][j],
             Owed(v, history[o][j])
      PROVE  Accounted(v, ev)'
  <2>1. Accounted(v, ev)
    BY <1>3 DEF IInv, NothingFallsBetween
  <2>2. QED
    BY <2>1, <1>2, <1>3, AccountedStays DEF IInv
<1>4. ASSUME NEW p \in Publisher, NEW u \in User, PublishToUser(p, u)
      PROVE  Accounted(v, ev)'
  <2> DEFINE e == [id |-> counter[u] + 1, data |-> published + 1]
  <2>1. /\ e \in Event /\ e.id = counter[u] + 1
        /\ history[u] \in Seq(Event) /\ counter[u] \in Nat
        /\ IsRun(history[u], counter[u])
    BY DEF Event, IInv, TypeOK, HistoryIsRun
  <2>2. /\ history' = [history EXCEPT ![u] = Trim(Append(history[u], e))]
        /\ pending' = [pending EXCEPT ![p] = [user |-> u, event |-> e]]
        /\ UNCHANGED <<stage, from, since>>
    BY <1>4 DEF PublishToUser, StoreAppend, connVars, IInv, TypeOK
  <2> HIDE DEF e
  <2>3. \A i \in 1..Len(Trim(Append(history[u], e))) :
           \/ Trim(Append(history[u], e))[i] = e
           \/ \E j \in 1..Len(history[u]) : Trim(Append(history[u], e))[i] = history[u][j]
    BY <2>1, AppendKeepsRun, Zenon
  <2>4. (o = u /\ ev = e) \/ \E j \in 1..Len(history[o]) : ev = history[o][j]
    <3>1. CASE o = u
      <4>1. history'[o] = Trim(Append(history[u], e))
        BY <2>2, <3>1 DEF IInv, TypeOK
      <4>2. QED
        BY <4>1, <2>3, <3>1
    <3>2. CASE o # u
      BY <2>2, <3>2, <1>1 DEF IInv, TypeOK
    <3>3. QED
      BY <3>1, <3>2
  <2>5. CASE o = u /\ ev = e
    <3>1. pending'[p] = [user |-> Owner[v], event |-> ev]
      BY <2>2, <2>5 DEF IInv, TypeOK
    <3>2. QED
      BY <3>1 DEF Accounted, InFlight
  <2>6. CASE \E j \in 1..Len(history[o]) : ev = history[o][j]
    <3>1. PICK j \in 1..Len(history[o]) : ev = history[o][j]
      BY <2>6
    <3>2. stage[v] # Idle /\ Owed(v, history[o][j])
      BY <3>1, <2>2 DEF Owed
    <3>3. QED
      BY <3>1, <3>2, <1>3
  <2>7. QED
    BY <2>4, <2>5, <2>6
<1>5. ASSUME NEW t \in Tab, NEW i \in Instance, Subscribe(t, i)
      PROVE  Accounted(v, ev)'
  <2>1. UNCHANGED <<history, from>>
    BY <1>5 DEF Subscribe, storeVars
  <2>2. CASE t # v
    <3>1. since'[v] = since[v] /\ stage[v] # Idle
      BY <1>5, <2>2 DEF Subscribe, IInv, TypeOK
    <3>2. QED
      BY <2>1, <3>1, <1>3 DEF Owed
  <2>3. CASE t = v
    <3>1. since'[v] = published /\ stage[v] = Idle
      BY <1>5, <2>3 DEF Subscribe, IInv, TypeOK
    <3>2. from'[v] = -1
      BY <3>1, <2>1 DEF IInv, IdleOwesNothing
    <3>3. ev.data <= published /\ ev.data \in Nat /\ published \in Nat
      <4>1. ev.data <= published
        BY <2>1, <1>1 DEF IInv, HistoryIsPast
      <4>2. QED
        BY <4>1, <1>2 DEF Event, IInv, TypeOK
    <3>4. ~ Owed(v, ev)'
      BY <3>1, <3>2, <3>3 DEF Owed
    <3>5. QED
      BY <3>4
  <2>4. QED
    BY <2>2, <2>3
<1>6. ASSUME NEW t \in Tab, Replay(t)
      PROVE  Accounted(v, ev)'
  <2>1. UNCHANGED <<history, since>> /\ stage[v] # Idle
    BY <1>6 DEF Replay, storeVars, Registered, Idle, IInv, TypeOK
  <2>2. CASE t # v \/ Owed(v, ev)
    <3>1. t # v => from'[v] = from[v]
      BY <1>6 DEF Replay, IInv, TypeOK
    <3>2. Owed(v, ev)
      BY <3>1, <2>1, <2>2 DEF Owed
    <3>3. QED
      BY <2>1, <3>2, <1>3
  <2>3. CASE t = v /\ ~ Owed(v, ev)
    <3>1. from'[v] >= 0 /\ ev.id > from'[v]
      BY <2>1, <2>3 DEF Owed
    <3>2. CanResume(v) /\ from'[v] = last[v].id
      BY <1>6, <2>3, <3>1 DEF Replay, IInv, TypeOK
    <3>3. <<k, ev>> \in SelectMissed(last[v].id, history[o])
      BY <2>1, <3>1, <3>2 DEF SelectMissed
    <3>4. <<k, ev>> \in missed'[v]
      BY <1>6, <2>3, <3>2, <3>3 DEF Replay, IInv, TypeOK
    <3>5. \E m \in missed'[v] : m[2] = ev
      BY <3>4
    <3>6. QED
      BY <3>5 DEF Accounted, InFlight
  <2>4. QED
    BY <2>2, <2>3
<1>7. ASSUME NEW t \in Tab, ReplayFails(t)
      PROVE  Accounted(v, ev)'
  <2>1. UNCHANGED <<history, since, from>> /\ stage[v] # Idle
    BY <1>7 DEF ReplayFails, storeVars, Registered, Idle, IInv, TypeOK
  <2>2. QED
    BY <2>1, <1>3 DEF Owed
<1>8. ASSUME NEW i \in Instance, Restart(i)
      PROVE  Accounted(v, ev)'
  <2>1. UNCHANGED history /\ stage[v] # Idle /\ from'[v] = from[v] /\ since'[v] = since[v]
    BY <1>8 DEF Restart, Close, storeVars
  <2>2. QED
    BY <2>1, <1>3 DEF Owed
<1>9. ASSUME NEW t \in Tab, Unsubscribe(t)
      PROVE  Accounted(v, ev)'
  <2>1. UNCHANGED history /\ stage[v] # Idle /\ from'[v] = from[v] /\ since'[v] = since[v]
    BY <1>9 DEF Unsubscribe, Close, storeVars
  <2>2. QED
    BY <2>1, <1>3 DEF Owed
<1>10. ASSUME NEW u \in User, ExpireHistory(u)
       PROVE  Accounted(v, ev)'
  <2>1. /\ history' = [history EXCEPT ![u] = <<>>]
        /\ UNCHANGED <<stage, since, from>>
    BY <1>10 DEF ExpireHistory, connVars
  <2>2. history'[o] = history[o]
    <3>1. history'[o] = <<>> \/ history'[o] = history[o]
      BY <2>1, <1>1 DEF IInv, TypeOK
    <3>2. QED
      BY <3>1
  <2>3. QED
    BY <2>1, <2>2, <1>3 DEF Owed
<1>11. CASE Flush
  BY <1>11, <1>1 DEF Flush
<1>12. CASE UNCHANGED <<history, stage, since, from>>
  BY <1>12, <1>3 DEF Owed
<1>13. ASSUME NEW p \in Publisher, NEW to \in User \cup {NoUser}, PublishEphemeral(p, to)
       PROVE  UNCHANGED <<history, stage, since, from>>
  BY <1>13 DEF PublishEphemeral, storeVars, connVars
<1>14. ASSUME NEW p \in Publisher, FanoutPublish(p) \/ FanoutFails(p)
       PROVE  UNCHANGED <<history, stage, since, from>>
  BY <1>14 DEF FanoutPublish, FanoutFails, storeVars, connVars
<1>15. ASSUME NEW i \in Instance, FanoutLoses(i) \/ DeliverLocal(i)
       PROVE  UNCHANGED <<history, stage, since, from>>
  BY <1>15 DEF FanoutLoses, DeliverLocal, storeVars, connVars
<1>16. ASSUME NEW t \in Tab, WriteMissed(t) \/ WriteLive(t)
       PROVE  UNCHANGED <<history, stage, since, from>>
  BY <1>16 DEF WriteMissed, WriteLive, storeVars
<1>17. CASE UNCHANGED vars
  BY <1>17, <1>12 DEF vars
<1>18. QED
  BY <1>4, <1>5, <1>6, <1>7, <1>8, <1>9, <1>10, <1>11, <1>12, <1>13, <1>14, <1>15, <1>16,
     <1>17 DEF Next
-----------------------------------------------------------------------------
\* While a tab is not connected it owes nothing.
LEMMA NextIdleOwesNothing ==
    ASSUME TypeOK, IdleOwesNothing, [Next]_vars
    PROVE  IdleOwesNothing'
<1> USE DEF TypeOK, IdleOwesNothing, Idle, Registered, Open
<1>1. ASSUME NEW t \in Tab, NEW i \in Instance, Subscribe(t, i) PROVE IdleOwesNothing'
  BY <1>1 DEF Subscribe
<1>2. ASSUME NEW t \in Tab, Replay(t) PROVE IdleOwesNothing'
  BY <1>2 DEF Replay
<1>3. ASSUME NEW t \in Tab, ReplayFails(t) PROVE IdleOwesNothing'
  BY <1>3 DEF ReplayFails
<1>4. ASSUME NEW t \in Tab, Unsubscribe(t) PROVE IdleOwesNothing'
  BY <1>4 DEF Unsubscribe, Close
<1>5. ASSUME NEW i \in Instance, Restart(i) PROVE IdleOwesNothing'
  BY <1>5 DEF Restart, Close
<1>6. CASE UNCHANGED <<stage, from>>
  BY <1>6
<1>7. ASSUME NEW p \in Publisher, NEW u \in User, PublishToUser(p, u)
      PROVE  UNCHANGED <<stage, from>>
  BY <1>7 DEF PublishToUser, connVars
<1>8. ASSUME NEW p \in Publisher, NEW to \in User \cup {NoUser}, PublishEphemeral(p, to)
      PROVE  UNCHANGED <<stage, from>>
  BY <1>8 DEF PublishEphemeral, connVars
<1>9. ASSUME NEW p \in Publisher, FanoutPublish(p) \/ FanoutFails(p)
      PROVE  UNCHANGED <<stage, from>>
  BY <1>9 DEF FanoutPublish, FanoutFails, connVars
<1>10. ASSUME NEW i \in Instance, FanoutLoses(i) \/ DeliverLocal(i)
       PROVE  UNCHANGED <<stage, from>>
  BY <1>10 DEF FanoutLoses, DeliverLocal, connVars
<1>11. ASSUME NEW t \in Tab, WriteMissed(t) \/ WriteLive(t)
       PROVE  UNCHANGED <<stage, from>>
  BY <1>11 DEF WriteMissed, WriteLive
<1>12. ASSUME NEW u \in User, ExpireHistory(u) PROVE UNCHANGED <<stage, from>>
  BY <1>12 DEF ExpireHistory, connVars
<1>13. CASE Flush \/ UNCHANGED vars
  BY <1>13, <1>6 DEF Flush, connVars, vars
<1>14. QED
  BY <1>1, <1>2, <1>3, <1>4, <1>5, <1>6, <1>7, <1>8, <1>9, <1>10, <1>11, <1>12, <1>13 DEF Next
-----------------------------------------------------------------------------
LEMMA InitIInv == Init => IInv
<1> SUFFICES ASSUME Init PROVE IInv
  OBVIOUS
<1> USE SSEAssumption
<1>1. TypeOK
  BY InitTypeOK
<1>2. HistoryIsRun /\ HistoryIsPast
  BY DEF Init, HistoryIsRun, HistoryIsPast, IsRun
<1>3. ClientsMatchConnections /\ MissedOnlyWhenOpen /\ IdleOwesNothing
  BY DEF Init, ClientsMatchConnections, MissedOnlyWhenOpen, IdleOwesNothing
<1>4. NothingFallsBetween
  BY DEF Init, NothingFallsBetween
<1>5. QED
  BY <1>1, <1>2, <1>3, <1>4 DEF IInv

\* The inductive invariant holds in every reachable state.
THEOREM Invariance == Spec => []IInv
<1>1. IInv /\ [Next]_vars => IInv'
  BY NextTypeOK, NextHistory, NextClients, NextIdleOwesNothing, NextNothingFallsBetween DEF IInv
<1>2. QED
  BY InitIInv, <1>1, PTL DEF Spec

\* Type correctness of the notification delivery.
THEOREM TypeCorrect == Spec => []TypeOK
<1>1. IInv => TypeOK
  BY DEF IInv
<1>2. QED
  BY Invariance, <1>1, PTL

\* The history Redis keeps for a user is always a gap-free run of ids that ends
\* at the counter, whatever publishers, expiry and flushes do.
THEOREM HistoryRun == Spec => []HistoryIsRun
<1>1. IInv => HistoryIsRun
  BY DEF IInv
<1>2. QED
  BY Invariance, <1>1, PTL

\* Broker.clients lists exactly the live connections, so a closed channel is
\* never a target of DeliverLocal.
THEOREM ClientsMatch == Spec => []ClientsMatchConnections
<1>1. IInv => ClientsMatchConnections
  BY DEF IInv
<1>2. QED
  BY Invariance, <1>1, PTL

\* No event is lost in the gap between replay and live delivery.
THEOREM NoGap == Spec => []NothingFallsBetween
<1>1. IInv => NothingFallsBetween
  BY DEF IInv
<1>2. QED
  BY Invariance, <1>1, PTL
-----------------------------------------------------------------------------
(* At most once. *)

\* What is on its way was published, and each publisher holds a call of its own.
Serials ==
    /\ \A p \in Publisher : pending[p] # Nothing => pending[p].event.data \in 1..published
    /\ \A p, q \in Publisher : (pending[p] # Nothing /\ pending[q] # Nothing /\ p # q) =>
          pending[p].event.data # pending[q].event.data

\* An envelope on the wire is published, was let go by its publisher and comes once.
WireOnce ==
    \A i \in Instance : \A k \in 1..Len(wire[i]) :
        /\ wire[i][k].event.data <= published
        /\ \A p \in Publisher : pending[p] # Nothing => wire[i][k].event.data # pending[p].event.data
        /\ \A j \in 1..Len(wire[i]) : j # k => wire[i][j].event.data # wire[i][k].event.data

\* So does an event in a channel, which is no longer on the wire to the server.
ChanOnce ==
    \A t \in Tab :
        /\ stage[t] = Idle => ch[t] = <<>>
        /\ \A k \in 1..Len(ch[t]) :
              /\ ch[t][k].data <= published
              /\ \A p \in Publisher : pending[p] # Nothing => ch[t][k].data # pending[p].event.data
              /\ \A j \in 1..Len(ch[t]) : j # k => ch[t][j].data # ch[t][k].data
              /\ \A j \in 1..Len(wire[server[t]]) : wire[server[t]][j].event.data # ch[t][k].data

\* The inductive invariant of live delivery, beside IInv.
OInv == Serials /\ WireOnce /\ ChanOnce

\* One more at the end of a queue, or one less at its head.
LEMMA AtEnd ==
    ASSUME NEW S, NEW q \in Seq(S), NEW x \in S
    PROVE  \A k \in 1..Len(Append(q, x)) : \/ k \in 1..Len(q) /\ Append(q, x)[k] = q[k]
                                           \/ k = Len(q) + 1 /\ Append(q, x)[k] = x
  OBVIOUS

\* A queue that has lost its head or all it had.
Piece(p, q) == p = q \/ p = <<>> \/ (q # <<>> /\ p = Tail(q))

Shifted(p, q) == \E d \in Nat : \A k \in 1..Len(p) : k \in Nat /\ k + d \in 1..Len(q) /\ p[k] = q[k + d]

LEMMA PieceIsShifted ==
    ASSUME NEW S, NEW q \in Seq(S), NEW p, Piece(p, q)
    PROVE  Shifted(p, q)
<1> USE DEF Shifted
<1>1. CASE p = q
  <2>1. \A k \in 1..Len(p) : k \in Nat /\ k + 0 \in 1..Len(q) /\ p[k] = q[k + 0] BY <1>1
  <2> QED BY <2>1
<1>2. CASE p = <<>>
  <2>1. \A k \in 1..Len(p) : k \in Nat /\ k + 0 \in 1..Len(q) /\ p[k] = q[k + 0] BY <1>2
  <2> QED BY <2>1
<1>3. CASE q # <<>> /\ p = Tail(q)
  <2>1. \A k \in 1..Len(p) : k \in Nat /\ k + 1 \in 1..Len(q) /\ p[k] = q[k + 1] BY <1>3
  <2> QED BY <2>1
<1> QED BY <1>1, <1>2, <1>3 DEF Piece

LEMMA HeadIsFirst ==
    ASSUME NEW S, NEW q \in Seq(S), q # <<>>
    PROVE  /\ 1 \in 1..Len(q) /\ Head(q) = q[1] /\ q[1] \in S
           /\ \A k \in 1..Len(Tail(q)) : k \in Nat /\ k + 1 \in 1..Len(q) /\ k + 1 # 1 /\ Tail(q)[k] = q[k + 1]
  OBVIOUS

LEMMA ConcatIs ==
    ASSUME NEW S, NEW p \in Seq(S), NEW q \in Seq(S)
    PROVE  /\ Len(p \o q) = Len(p) + Len(q) /\ Len(p) \in Nat /\ Len(q) \in Nat
           /\ \A k \in 1..(Len(p) + Len(q)) : (p \o q)[k] = IF k <= Len(p) THEN p[k] ELSE q[k - Len(p)]
  OBVIOUS

\* The types that the counting of events needs.
LEMMA SerialTypes ==
    ASSUME TypeOK
    PROVE  /\ published \in Nat /\ Nothing \in Envelope
           /\ \A p \in Publisher : pending[p] \in Envelope
           /\ \A i \in Instance : wire[i] \in Seq(Envelope)
           /\ \A t \in Tab : ch[t] \in Seq(Event) /\ server[t] \in Instance
           /\ \A env \in Envelope : env.event \in Event /\ env.event.data \in Nat
           /\ \A ev \in Event : ev.data \in Nat
  BY NothingType DEF TypeOK, Envelope, Event

\* Less is on its way: a channel or the wire has lost its head or all it had, or a publisher
\* has given up.
Shrinks ==
    /\ published' = published
    /\ \A p \in Publisher : pending'[p] \in {pending[p], Nothing}
    /\ \A i \in Instance : Piece(wire'[i], wire[i])
    /\ \A t \in Tab : /\ Piece(ch'[t], ch[t])
                      /\ stage'[t] = Idle => ch'[t] = <<>> \/ (ch'[t] = ch[t] /\ stage[t] = Idle)
                      /\ server'[t] = server[t] \/ ch'[t] = <<>>

LEMMA ShrinkingKeepsOnce ==
    ASSUME TypeOK, OInv, Shrinks
    PROVE  OInv'
<1>0. published' = published BY DEF Shrinks
<1>1. \A p \in Publisher : pending'[p] # Nothing => pending[p] # Nothing /\ pending'[p] = pending[p] BY DEF Shrinks
<1>2. Serials' BY <1>0, <1>1 DEF OInv, Serials
<1>3. \A i \in Instance : \E d \in Nat : \A k \in 1..Len(wire'[i]) :
         k \in Nat /\ k + d \in 1..Len(wire[i]) /\ wire'[i][k] = wire[i][k + d]
  <2> TAKE i \in Instance
  <2>1. wire[i] \in Seq(Envelope) /\ Piece(wire'[i], wire[i]) BY SerialTypes DEF Shrinks
  <2>2. Shifted(wire'[i], wire[i]) BY <2>1, PieceIsShifted, Zenon
  <2> QED BY <2>2 DEF Shifted
<1>4. \A t \in Tab : \E d \in Nat : \A k \in 1..Len(ch'[t]) :
         k \in Nat /\ k + d \in 1..Len(ch[t]) /\ ch'[t][k] = ch[t][k + d]
  <2> TAKE t \in Tab
  <2>1. ch[t] \in Seq(Event) /\ Piece(ch'[t], ch[t]) BY SerialTypes DEF Shrinks
  <2>2. Shifted(ch'[t], ch[t]) BY <2>1, PieceIsShifted, Zenon
  <2> QED BY <2>2 DEF Shifted
<1>5. WireOnce'
  <2> SUFFICES ASSUME NEW i \in Instance, NEW k \in 1..Len(wire'[i])
               PROVE  /\ wire'[i][k].event.data <= published
                      /\ \A p \in Publisher : pending'[p] # Nothing => wire'[i][k].event.data # pending'[p].event.data
                      /\ \A j \in 1..Len(wire'[i]) : j # k => wire'[i][j].event.data # wire'[i][k].event.data
    BY <1>0 DEF WireOnce
  <2> PICK d \in Nat : \A j \in 1..Len(wire'[i]) : j \in Nat /\ j + d \in 1..Len(wire[i]) /\ wire'[i][j] = wire[i][j + d]
    BY <1>3
  <2>1. /\ wire[i][k + d].event.data <= published
        /\ \A p \in Publisher : pending[p] # Nothing => wire[i][k + d].event.data # pending[p].event.data
        /\ \A m \in 1..Len(wire[i]) : m # k + d => wire[i][m].event.data # wire[i][k + d].event.data
    BY DEF OInv, WireOnce
  <2>2. ASSUME NEW j \in 1..Len(wire'[i]), j # k PROVE wire'[i][j].event.data # wire'[i][k].event.data
    <3>1. j + d \in 1..Len(wire[i]) /\ j + d # k + d BY <2>2
    <3> QED BY <2>1, <3>1
  <2> QED BY <1>1, <2>1, <2>2
<1>6. ChanOnce'
  <2> SUFFICES ASSUME NEW t \in Tab
               PROVE  /\ stage'[t] = Idle => ch'[t] = <<>>
                      /\ \A k \in 1..Len(ch'[t]) :
                            /\ ch'[t][k].data <= published
                            /\ \A p \in Publisher : pending'[p] # Nothing => ch'[t][k].data # pending'[p].event.data
                            /\ \A j \in 1..Len(ch'[t]) : j # k => ch'[t][j].data # ch'[t][k].data
                            /\ \A j \in 1..Len(wire'[server'[t]]) : wire'[server'[t]][j].event.data # ch'[t][k].data
    BY <1>0 DEF ChanOnce
  <2>1. stage'[t] = Idle => ch'[t] = <<>> BY DEF OInv, ChanOnce, Shrinks
  <2>2. ASSUME NEW k \in 1..Len(ch'[t])
        PROVE  /\ ch'[t][k].data <= published
               /\ \A p \in Publisher : pending'[p] # Nothing => ch'[t][k].data # pending'[p].event.data
               /\ \A j \in 1..Len(ch'[t]) : j # k => ch'[t][j].data # ch'[t][k].data
               /\ \A j \in 1..Len(wire'[server'[t]]) : wire'[server'[t]][j].event.data # ch'[t][k].data
    <3> PICK d \in Nat : \A j \in 1..Len(ch'[t]) : j \in Nat /\ j + d \in 1..Len(ch[t]) /\ ch'[t][j] = ch[t][j + d]
      BY <1>4
    <3>1. ch'[t] # <<>> BY <2>2
    <3>2. server'[t] = server[t] /\ server[t] \in Instance BY <3>1, SerialTypes DEF Shrinks
    <3>3. /\ ch[t][k + d].data <= published
          /\ \A p \in Publisher : pending'[p] # Nothing => ch[t][k + d].data # pending'[p].event.data
      BY <1>1 DEF OInv, ChanOnce
    <3>4. ASSUME NEW j \in 1..Len(ch'[t]), j # k PROVE ch[t][j + d].data # ch[t][k + d].data
      <4>1. j + d \in 1..Len(ch[t]) /\ k + d \in 1..Len(ch[t]) /\ j + d # k + d BY <3>4
      <4>2. \A l, m \in 1..Len(ch[t]) : l # m => ch[t][l].data # ch[t][m].data BY DEF OInv, ChanOnce
      <4> QED BY <4>1, <4>2
    <3> PICK e \in Nat : \A j \in 1..Len(wire'[server[t]]) :
                            j + e \in 1..Len(wire[server[t]]) /\ wire'[server[t]][j] = wire[server[t]][j + e]
      BY <1>3, <3>2
    <3>5. \A j \in 1..Len(wire'[server[t]]) : wire'[server[t]][j].event.data # ch[t][k + d].data
      <4>1. \A m \in 1..Len(wire[server[t]]) : wire[server[t]][m].event.data # ch[t][k + d].data
        BY DEF OInv, ChanOnce
      <4> QED BY <4>1
    <3> QED BY <3>2, <3>3, <3>4, <3>5
  <2> QED BY <2>1, <2>2
<1> QED BY <1>2, <1>5, <1>6 DEF OInv

\* A publish call has a number of its own.
LEMMA PublishKeepsOnce ==
    ASSUME TypeOK, OInv, NEW p \in Publisher, NEW env \in Envelope, env.event.data = published + 1,
           published' = published + 1, pending' = [pending EXCEPT ![p] = env],
           UNCHANGED <<wire, ch, stage, server>>
    PROVE  OInv'
<1> USE SerialTypes
<1>1. \A q \in Publisher : pending'[q] # Nothing => (q = p /\ pending'[q].event.data = published + 1)
                                                     \/ (q # p /\ pending'[q] = pending[q])
  BY DEF TypeOK
<1>2. Serials' BY <1>1 DEF OInv, Serials
<1>3. WireOnce' BY <1>1 DEF OInv, WireOnce
<1>4. ChanOnce' BY <1>1 DEF OInv, ChanOnce
<1> QED BY <1>2, <1>3, <1>4 DEF OInv

\* PUBLISH moves an envelope from its publisher to the wires, once.
LEMMA FanoutKeepsOnce ==
    ASSUME TypeOK, OInv, NEW p \in Publisher, FanoutPublish(p)
    PROVE  OInv'
<1>0. /\ pending[p] # Nothing /\ pending' = [pending EXCEPT ![p] = Nothing]
      /\ \A i \in Instance : wire'[i] = Append(wire[i], pending[p])
      /\ UNCHANGED <<published, ch, stage, server>>
  BY DEF FanoutPublish, connVars
<1>1. \A q \in Publisher : pending'[q] # Nothing => q # p /\ pending'[q] = pending[q] BY <1>0 DEF TypeOK
<1>2. \A i \in Instance : \A k \in 1..Len(wire'[i]) : \/ k \in 1..Len(wire[i]) /\ wire'[i][k] = wire[i][k]
                                                      \/ k = Len(wire[i]) + 1 /\ wire'[i][k] = pending[p]
  BY <1>0, AtEnd, SerialTypes
<1>3. Serials' BY <1>0, <1>1 DEF OInv, Serials
<1>4. pending[p].event.data \in 1..published BY <1>0 DEF OInv, Serials
<1>5. WireOnce'
  <2>1. ASSUME NEW i \in Instance, NEW k \in 1..Len(wire'[i])
        PROVE  /\ wire'[i][k].event.data <= published
               /\ \A q \in Publisher : pending'[q] # Nothing => wire'[i][k].event.data # pending'[q].event.data
    <3>1. CASE k \in 1..Len(wire[i]) /\ wire'[i][k] = wire[i][k] BY <1>1, <3>1 DEF OInv, WireOnce
    <3>2. CASE wire'[i][k] = pending[p]
      <4>1. pending[p].event.data <= published BY <1>4, SerialTypes
      <4>2. \A q \in Publisher : pending'[q] # Nothing => pending[p].event.data # pending'[q].event.data
        BY <1>0, <1>1 DEF OInv, Serials
      <4> QED BY <3>2, <4>1, <4>2
    <3> QED BY <1>2, <2>1, <3>1, <3>2
  <2>2. ASSUME NEW i \in Instance, NEW j \in 1..Len(wire'[i]), NEW k \in 1..Len(wire'[i]), j # k
        PROVE  wire'[i][j].event.data # wire'[i][k].event.data
    <3>1. CASE j \in 1..Len(wire[i]) /\ k \in 1..Len(wire[i]) BY <1>2, <2>2, <3>1 DEF OInv, WireOnce
    <3>2. CASE j \notin 1..Len(wire[i])
      <4>1. wire'[i][j] = pending[p] /\ k \in 1..Len(wire[i]) /\ wire'[i][k] = wire[i][k] BY <1>2, <2>2, <3>2
      <4> QED BY <1>0, <4>1 DEF OInv, WireOnce
    <3>3. CASE k \notin 1..Len(wire[i])
      <4>1. wire'[i][k] = pending[p] /\ j \in 1..Len(wire[i]) /\ wire'[i][j] = wire[i][j] BY <1>2, <2>2, <3>3
      <4> QED BY <1>0, <4>1 DEF OInv, WireOnce
    <3> QED BY <3>1, <3>2, <3>3
  <2> QED BY <1>0, <2>1, <2>2 DEF WireOnce
<1>6. ChanOnce'
  <2>1. ASSUME NEW t \in Tab, NEW k \in 1..Len(ch[t]), NEW j \in 1..Len(wire'[server[t]])
        PROVE  wire'[server[t]][j].event.data # ch[t][k].data
    <3>1. \/ j \in 1..Len(wire[server[t]]) /\ wire'[server[t]][j] = wire[server[t]][j]
          \/ wire'[server[t]][j] = pending[p]
      BY <1>2, <2>1, SerialTypes
    <3> QED BY <1>0, <2>1, <3>1 DEF OInv, ChanOnce
  <2>2. \A t \in Tab : \A k \in 1..Len(ch[t]) : /\ ch[t][k].data <= published
                                                /\ \A j \in 1..Len(ch[t]) : j # k => ch[t][j].data # ch[t][k].data
    BY DEF OInv, ChanOnce
  <2>3. \A t \in Tab : \A k \in 1..Len(ch[t]) : \A q \in Publisher :
           pending'[q] # Nothing => ch[t][k].data # pending'[q].event.data
    BY <1>1 DEF OInv, ChanOnce
  <2>4. \A t \in Tab : stage[t] = Idle => ch[t] = <<>> BY DEF OInv, ChanOnce
  <2>5. UNCHANGED <<published, ch, stage, server>> BY <1>0
  <2> QED BY <2>1, <2>2, <2>3, <2>4, <2>5 DEF ChanOnce
<1> QED BY <1>3, <1>5, <1>6 DEF OInv

\* DeliverLocal takes an event from the wire when it puts it into the channels.
LEMMA DeliveryKeepsOnce ==
    ASSUME TypeOK, ClientsMatchConnections, OInv, NEW i \in Instance, DeliverLocal(i)
    PROVE  OInv'
<1> DEFINE env == Head(wire[i])
<1>0. /\ wire[i] # <<>> /\ wire' = [wire EXCEPT ![i] = Tail(@)]
      /\ UNCHANGED <<published, pending, stage, server>>
      /\ \A t \in Tab : ch'[t] = ch[t] \/ (ch'[t] = Append(ch[t], env.event) /\ t \in Targets(i, env))
  BY DEF DeliverLocal
<1>1. wire'[i] = Tail(wire[i]) /\ \A j \in Instance \ {i} : wire'[j] = wire[j] BY <1>0 DEF TypeOK
<1>2. wire[i] \in Seq(Envelope) BY SerialTypes
<1>3. /\ 1 \in 1..Len(wire[i]) /\ env = wire[i][1] /\ env \in Envelope
      /\ \A k \in 1..Len(wire'[i]) : k \in Nat /\ k + 1 \in 1..Len(wire[i]) /\ k + 1 # 1 /\ wire'[i][k] = wire[i][k + 1]
  <2>1. wire[i] # <<>> /\ env = Head(wire[i]) /\ wire'[i] = Tail(wire[i]) BY <1>0, <1>1
  <2> HIDE DEF env
  <2> QED BY <1>2, <2>1, HeadIsFirst
<1>4. env.event \in Event BY <1>3, SerialTypes
<1>5. \A t \in Targets(i, env) : t \in Tab /\ server[t] = i /\ stage[t] # Idle
  BY <1>3 DEF Targets, ClientsMatchConnections, Envelope
<1> HIDE DEF env
<1>6. Serials' BY <1>0 DEF OInv, Serials
<1>7. \A h \in Instance : \E d \in Nat : \A k \in 1..Len(wire'[h]) :
         k \in Nat /\ k + d \in 1..Len(wire[h]) /\ wire'[h][k] = wire[h][k + d]
  <2> TAKE h \in Instance
  <2>1. wire[h] \in Seq(Envelope) /\ Piece(wire'[h], wire[h]) BY <1>0, <1>1, SerialTypes DEF Piece
  <2>2. Shifted(wire'[h], wire[h]) BY <2>1, PieceIsShifted, Zenon
  <2> QED BY <2>2 DEF Shifted
<1>8. WireOnce'
  <2> SUFFICES ASSUME NEW h \in Instance, NEW k \in 1..Len(wire'[h])
               PROVE  /\ wire'[h][k].event.data <= published
                      /\ \A p \in Publisher : pending[p] # Nothing => wire'[h][k].event.data # pending[p].event.data
                      /\ \A j \in 1..Len(wire'[h]) : j # k => wire'[h][j].event.data # wire'[h][k].event.data
    BY <1>0 DEF WireOnce
  <2> PICK d \in Nat : \A j \in 1..Len(wire'[h]) : j \in Nat /\ j + d \in 1..Len(wire[h]) /\ wire'[h][j] = wire[h][j + d]
    BY <1>7
  <2>1. /\ wire[h][k + d].event.data <= published
        /\ \A p \in Publisher : pending[p] # Nothing => wire[h][k + d].event.data # pending[p].event.data
        /\ \A m \in 1..Len(wire[h]) : m # k + d => wire[h][m].event.data # wire[h][k + d].event.data
    BY DEF OInv, WireOnce
  <2>2. ASSUME NEW j \in 1..Len(wire'[h]), j # k PROVE wire'[h][j].event.data # wire'[h][k].event.data
    <3>1. j + d \in 1..Len(wire[h]) /\ j + d # k + d BY <2>2
    <3> QED BY <2>1, <3>1
  <2> QED BY <2>1, <2>2
<1>9. ChanOnce'
  <2> SUFFICES ASSUME NEW t \in Tab
               PROVE  /\ stage[t] = Idle => ch'[t] = <<>>
                      /\ \A k \in 1..Len(ch'[t]) :
                            /\ ch'[t][k].data <= published
                            /\ \A p \in Publisher : pending[p] # Nothing => ch'[t][k].data # pending[p].event.data
                            /\ \A j \in 1..Len(ch'[t]) : j # k => ch'[t][j].data # ch'[t][k].data
                            /\ \A j \in 1..Len(wire'[server[t]]) : wire'[server[t]][j].event.data # ch'[t][k].data
    <3>1. UNCHANGED <<published, pending, stage, server>> BY <1>0
    <3> QED BY <3>1 DEF ChanOnce
  <2>0. server[t] \in Instance /\ ch[t] \in Seq(Event) BY SerialTypes
  <2>1. \A k \in 1..Len(ch[t]) : \A j \in 1..Len(wire'[server[t]]) : wire'[server[t]][j].event.data # ch[t][k].data
    <3> PICK d \in Nat : \A j \in 1..Len(wire'[server[t]]) :
                            j + d \in 1..Len(wire[server[t]]) /\ wire'[server[t]][j] = wire[server[t]][j + d]
      BY <1>7, <2>0
    <3>1. \A k \in 1..Len(ch[t]) : \A m \in 1..Len(wire[server[t]]) : wire[server[t]][m].event.data # ch[t][k].data
      BY DEF OInv, ChanOnce
    <3> QED BY <3>1
  <2>2. CASE ch'[t] = ch[t] BY <2>1, <2>2 DEF OInv, ChanOnce
  <2>3. CASE ch'[t] = Append(ch[t], env.event) /\ t \in Targets(i, env)
    <3>1. \A k \in 1..Len(ch'[t]) : \/ k \in 1..Len(ch[t]) /\ ch'[t][k] = ch[t][k]
                                    \/ k = Len(ch[t]) + 1 /\ ch'[t][k] = env.event
      BY <1>4, <2>0, <2>3, AtEnd
    <3>2. server[t] = i /\ stage[t] # Idle BY <1>5, <2>3
    <3>3. /\ env.event.data <= published
          /\ \A p \in Publisher : pending[p] # Nothing => env.event.data # pending[p].event.data
      BY <1>3 DEF OInv, WireOnce
    <3>4. \A j \in 1..Len(wire'[i]) : wire'[i][j].event.data # env.event.data
      BY <1>3 DEF OInv, WireOnce
    <3>5. \A k \in 1..Len(ch[t]) : env.event.data # ch[t][k].data BY <1>3, <3>2 DEF OInv, ChanOnce
    <3>6. ASSUME NEW k \in 1..Len(ch'[t])
          PROVE  /\ ch'[t][k].data <= published
                 /\ \A p \in Publisher : pending[p] # Nothing => ch'[t][k].data # pending[p].event.data
                 /\ \A j \in 1..Len(wire'[i]) : wire'[i][j].event.data # ch'[t][k].data
      <4>1. CASE k \in 1..Len(ch[t]) /\ ch'[t][k] = ch[t][k] BY <2>1, <3>2, <4>1 DEF OInv, ChanOnce
      <4>2. CASE ch'[t][k] = env.event BY <3>3, <3>4, <4>2
      <4> QED BY <3>1, <3>6, <4>1, <4>2
    <3>7. ASSUME NEW j \in 1..Len(ch'[t]), NEW k \in 1..Len(ch'[t]), j # k PROVE ch'[t][j].data # ch'[t][k].data
      <4>1. CASE j \in 1..Len(ch[t]) /\ k \in 1..Len(ch[t]) BY <3>1, <3>7, <4>1 DEF OInv, ChanOnce
      <4>2. CASE j \notin 1..Len(ch[t]) BY <3>1, <3>5, <3>7, <4>2
      <4>3. CASE k \notin 1..Len(ch[t]) BY <3>1, <3>5, <3>7, <4>3
      <4> QED BY <4>1, <4>2, <4>3
    <3> QED BY <3>2, <3>6, <3>7
  <2> QED BY <1>0, <2>2, <2>3
<1> QED BY <1>6, <1>8, <1>9 DEF OInv

LEMMA NextOnce ==
    ASSUME TypeOK, ClientsMatchConnections, OInv, [Next]_vars
    PROVE  OInv'
<1>1. ASSUME NEW p \in Publisher, NEW u \in User, PublishToUser(p, u) PROVE OInv'
  <2> DEFINE env == [user |-> u, event |-> [id |-> counter[u] + 1, data |-> published + 1]]
  <2>1. env \in Envelope /\ env.event.data = published + 1 BY DEF TypeOK, Envelope, Event
  <2>2. published' = published + 1 /\ pending' = [pending EXCEPT ![p] = env] /\ UNCHANGED <<wire, ch, stage, server>>
    BY <1>1 DEF PublishToUser, StoreAppend, connVars, TypeOK
  <2> QED BY <2>1, <2>2, PublishKeepsOnce
<1>2. ASSUME NEW p \in Publisher, NEW to \in User \cup {NoUser}, PublishEphemeral(p, to) PROVE OInv'
  <2> DEFINE env == [user |-> to, event |-> [id |-> 0, data |-> published + 1]]
  <2>1. env \in Envelope /\ env.event.data = published + 1 BY DEF TypeOK, Envelope, Event
  <2>2. published' = published + 1 /\ pending' = [pending EXCEPT ![p] = env] /\ UNCHANGED <<wire, ch, stage, server>>
    BY <1>2 DEF PublishEphemeral, connVars
  <2> QED BY <2>1, <2>2, PublishKeepsOnce
<1>3. ASSUME NEW p \in Publisher, FanoutPublish(p) PROVE OInv'
  BY <1>3, FanoutKeepsOnce
<1>4. ASSUME NEW p \in Publisher, FanoutFails(p) PROVE Shrinks
  BY <1>4 DEF FanoutFails, connVars, Shrinks, Piece, TypeOK
<1>5. ASSUME NEW i \in Instance, FanoutLoses(i) PROVE Shrinks
  BY <1>5 DEF FanoutLoses, connVars, Shrinks, Piece, TypeOK
<1>6. ASSUME NEW i \in Instance, DeliverLocal(i) PROVE OInv'
  BY <1>6, DeliveryKeepsOnce
<1>7. ASSUME NEW i \in Instance, Restart(i) PROVE Shrinks
  BY <1>7 DEF Restart, Close, Shrinks, Piece, TypeOK
<1>8. ASSUME NEW t \in Tab, NEW i \in Instance, Subscribe(t, i) PROVE Shrinks
  <2>1. ch[t] = <<>> BY <1>8 DEF Subscribe, OInv, ChanOnce
  <2> QED BY <1>8, <2>1 DEF Subscribe, Shrinks, Piece, TypeOK, Idle, Registered
<1>9. ASSUME NEW t \in Tab, Replay(t) \/ ReplayFails(t) PROVE Shrinks
  BY <1>9 DEF Replay, ReplayFails, Shrinks, Piece, TypeOK, Idle, Open
<1>10. ASSUME NEW t \in Tab, WriteMissed(t) PROVE Shrinks
  BY <1>10 DEF WriteMissed, Shrinks, Piece
<1>11. ASSUME NEW t \in Tab, WriteLive(t) PROVE Shrinks
  BY <1>11 DEF WriteLive, Shrinks, Piece, TypeOK, Idle, Open
<1>12. ASSUME NEW t \in Tab, Unsubscribe(t) PROVE Shrinks
  BY <1>12 DEF Unsubscribe, Close, Shrinks, Piece, TypeOK
<1>13. ASSUME NEW u \in User, ExpireHistory(u) PROVE Shrinks
  BY <1>13 DEF ExpireHistory, connVars, Shrinks, Piece
<1>14. CASE Flush \/ UNCHANGED vars
  <2>1. Shrinks BY <1>14 DEF Flush, connVars, vars, Shrinks, Piece
  <2> QED BY <2>1, ShrinkingKeepsOnce
<1> QED BY <1>1, <1>2, <1>3, <1>4, <1>5, <1>6, <1>7, <1>8, <1>9, <1>10, <1>11, <1>12, <1>13, <1>14,
       ShrinkingKeepsOnce
    DEF Next

\* Redis PUBLISH, DeliverLocal and the channels: whatever publishers, losses, restarts and
\* reconnections do, no event is ever twice on its way to a connection.
THEOREM AtMostOnce == Spec => []LiveAtMostOnce
<1>1. Init => OInv BY SSEAssumption DEF Init, OInv, Serials, WireOnce, ChanOnce
<1>2. IInv /\ OInv /\ [Next]_vars => OInv' BY NextOnce DEF IInv
<1>3. IInv /\ OInv => LiveAtMostOnce
  <2> SUFFICES ASSUME IInv, OInv, NEW t \in Tab
               PROVE  LET w == wire[server[t]]
                          live == ch[t] \o [k \in 1..Len(w) |-> w[k].event]
                      IN  \A j, k \in 1..Len(live) : live[j] = live[k] => j = k
    BY DEF LiveAtMostOnce
  <2> DEFINE w == wire[server[t]]
             ev == [k \in 1..Len(w) |-> w[k].event]
             live == ch[t] \o ev
  <2>1. w \in Seq(Envelope) /\ ch[t] \in Seq(Event) BY SerialTypes DEF IInv
  <2>2. /\ \A j, k \in 1..Len(ch[t]) : j # k => ch[t][j].data # ch[t][k].data
        /\ \A j, k \in 1..Len(w) : j # k => w[j].event.data # w[k].event.data
        /\ \A k \in 1..Len(ch[t]) : \A j \in 1..Len(w) : w[j].event.data # ch[t][k].data
    BY SerialTypes DEF IInv, OInv, WireOnce, ChanOnce
  <2> HIDE DEF w
  <2>3. ev \in Seq(Event) /\ Len(ev) = Len(w) /\ \A k \in 1..Len(w) : ev[k] = w[k].event
    <3>1. Len(w) \in Nat /\ \A k \in 1..Len(w) : w[k] \in Envelope BY <2>1
    <3>2. \A k \in 1..Len(w) : w[k].event \in Event BY <3>1 DEF Envelope
    <3>3. ev \in [1..Len(w) -> Event] BY <3>2
    <3>4. ev \in Seq(Event) /\ DOMAIN ev = 1..Len(w) BY <3>1, <3>3
    <3> QED BY <3>1, <3>4
  <2> HIDE DEF ev
  <2>4. \A k \in 1..Len(live) : \/ k \in 1..Len(ch[t]) /\ live[k] = ch[t][k]
                                \/ k - Len(ch[t]) \in 1..Len(w) /\ live[k] = w[k - Len(ch[t])].event
    <3>1. /\ Len(live) = Len(ch[t]) + Len(ev) /\ Len(ch[t]) \in Nat /\ Len(ev) \in Nat
          /\ \A k \in 1..(Len(ch[t]) + Len(ev)) : live[k] = IF k <= Len(ch[t]) THEN ch[t][k] ELSE ev[k - Len(ch[t])]
      BY <2>1, <2>3, ConcatIs DEF live
    <3> HIDE DEF live
    <3>2. \A k \in 1..Len(live) : k \in 1..Len(ch[t]) \/ (k > Len(ch[t]) /\ k - Len(ch[t]) \in 1..Len(w))
      BY <2>3, <3>1
    <3>3. ASSUME NEW k \in 1..Len(live)
          PROVE  \/ k \in 1..Len(ch[t]) /\ live[k] = ch[t][k]
                 \/ k - Len(ch[t]) \in 1..Len(w) /\ live[k] = w[k - Len(ch[t])].event
      <4>1. live[k] = IF k <= Len(ch[t]) THEN ch[t][k] ELSE ev[k - Len(ch[t])] BY <3>1, <3>3
      <4>2. CASE k \in 1..Len(ch[t]) BY <3>1, <4>1, <4>2
      <4>3. CASE k > Len(ch[t]) /\ k - Len(ch[t]) \in 1..Len(w)
        <5>1. live[k] = ev[k - Len(ch[t])] BY <3>1, <4>1, <4>3
        <5> QED BY <2>3, <4>3, <5>1
      <4> QED BY <3>2, <4>2, <4>3
    <3> QED BY <3>3
  <2>5. ASSUME NEW j \in 1..Len(live), NEW k \in 1..Len(live), live[j] = live[k] PROVE j = k
    <3>1. live[j].data = live[k].data BY <2>5
    <3>2. j \in Int /\ k \in Int /\ Len(ch[t]) \in Nat BY <2>1
    <3> HIDE DEF live
    <3>3. CASE j \in 1..Len(ch[t]) /\ live[j] = ch[t][j] BY <2>2, <2>4, <3>1, <3>2, <3>3
    <3>4. CASE j - Len(ch[t]) \in 1..Len(w) /\ live[j] = w[j - Len(ch[t])].event
      <4>1. CASE k \in 1..Len(ch[t]) /\ live[k] = ch[t][k] BY <2>2, <3>1, <3>4, <4>1
      <4>2. CASE k - Len(ch[t]) \in 1..Len(w) /\ live[k] = w[k - Len(ch[t])].event
        <5>1. j - Len(ch[t]) = k - Len(ch[t]) BY <2>2, <3>1, <3>4, <4>2
        <5> QED BY <3>2, <5>1
      <4> QED BY <2>4, <4>1, <4>2
    <3> QED BY <2>4, <3>3, <3>4
  <2> QED BY <2>5 DEF w, ev
<1> QED BY <1>1, <1>2, <1>3, Invariance, PTL DEF Spec
=============================================================================
