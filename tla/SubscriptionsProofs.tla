------------------------ MODULE SubscriptionsProofs ------------------------
(***************************************************************************)
(* What subscriptions guarantee for any users, servers and streams, any    *)
(* capacity of the channels and any interval, whatever is lost on the way. *)
(*                                                                         *)
(* The argument follows a value on its way: Redis, the server that hands   *)
(* it out, the channel, the loop and the output of a stream keep the order *)
(* of the values (OnTheWire, InQueues).  A signal stays in its channel     *)
(* ahead of what it bars (Warnings), and a value that is let through was   *)
(* published soon after the last check (Timely).                           *)
(***************************************************************************)
EXTENDS Subscriptions, FiniteSetTheorems, SequenceTheorems, TLAPS

\* The streams of a server that count on a topic.
Counting(i, t) == {s \in Stream : Host[s] = i /\ t \in counted[s]}

\* Bus.refs counts them, and the list of a server holds the topics with a count.
Refs ==
    \A i \in Instance : \A t \in Topic :
        /\ refs[i][t] = Cardinality(Counting(i, t))
        /\ t \in wanted[i] <=> refs[i][t] > 0

\* Only what has the topic of a channel is in it, and a server hands to its own streams.
Routed ==
    /\ \A s \in Stream : \A t \in Topic : \A k \in DOMAIN chan[s][t] : chan[s][t][k].topic = t
    /\ \A i \in Instance : \A s \in handing[i].to : Host[s] = i

\* A stream has a value while it holds or sends one.
HoldsOne == \A s \in Stream : held[s] # 0 <=> stage[s] \in {"hold", "send"}

\* What went to the client, and what waits in the channel.
Sent(s) == got[s] \o out[s]
Queue(s) == chan[s]["value"]

\* All that has reached the stream is older than n.
Behind(s, n) ==
    /\ \A k \in DOMAIN Sent(s) : Sent(s)[k] < n
    /\ held[s] < n
    /\ \A k \in DOMAIN Queue(s) : Queue(s)[k].n < n

\* In a stream no value overtakes another.
InQueues ==
    \A s \in Stream :
        /\ \A j, k \in DOMAIN Sent(s) : j < k => Sent(s)[j] < Sent(s)[k]
        /\ held[s] # 0 => \A j \in DOMAIN Sent(s) : Sent(s)[j] < held[s]
        /\ \A k \in DOMAIN Queue(s) :
              /\ held[s] < Queue(s)[k].n
              /\ \A j \in DOMAIN Sent(s) : Sent(s)[j] < Queue(s)[k].n
              /\ \A j \in DOMAIN Queue(s) : j < k => Queue(s)[j].n < Queue(s)[k].n
        /\ Behind(s, published + 1)

\* Nor on the way to it.
OnTheWire ==
    \A i \in Instance :
        /\ \A k \in DOMAIN wire[i] : wire[i][k].topic = "value" =>
              /\ wire[i][k].n <= published
              /\ \A j \in DOMAIN wire[i] : j < k /\ wire[i][j].topic = "value" => wire[i][j].n < wire[i][k].n
              /\ \A s \in Stream : Host[s] = i => Behind(s, wire[i][k].n)
              /\ handing[i].to # {} /\ handing[i].item.topic = "value" => handing[i].item.n < wire[i][k].n
        /\ \A s \in handing[i].to : handing[i].item.topic = "value" =>
              handing[i].item.n <= published /\ Behind(s, handing[i].item.n)

\* A value that is let through was published within an interval of the last check, which
\* a user who has lost access did not pass since, but for the one when the stream began.
Timely ==
    /\ \A n \in Number : sentAt[n] <= clock
    /\ \A s \in Stream :
          /\ lastChecked[s] <= clock
          /\ stage[s] = "send" => sentAt[held[s]] < lastChecked[s] + Interval
          /\ Owner[s] \notin member => lastChecked[s] <= lostAt[Owner[s]] \/ lastChecked[s] = startedAt[s]

\* Until a stream that was warned ends, the signal waits in its channel.
Warnings ==
    \A s \in Stream :
        /\ warned[s] => Owner[s] \notin member
        /\ warned[s] /\ stage[s] \notin {"ending", "ended"} =>
              \E k \in DOMAIN chan[s]["access"] : chan[s]["access"][k].user = Owner[s]
        /\ barred[s] # {} => warned[s]
        /\ \A k \in DOMAIN Sent(s) : Sent(s)[k] \notin barred[s]
        /\ stage[s] = "send" => held[s] \notin barred[s]

\* The inductive invariant.
IInv == TypeOK /\ Refs /\ Routed /\ HoldsOne /\ InQueues /\ OnTheWire /\ Timely /\ Warnings
-----------------------------------------------------------------------------
(* Types. *)

Handed == {Nobody} \cup [item : Item, to : SUBSET Stream]

AccessType ==
    /\ clock \in 0..MaxClock
    /\ member \subseteq User /\ owed \subseteq User /\ changes \in 0..MaxChanges
    /\ lostAt \in [User -> 0..MaxClock]
    /\ published \in 0..MaxPublished
    /\ sentAt \in [Number -> 0..MaxClock]

BusType ==
    /\ wanted \in [Instance -> SUBSET Topic] /\ active \in [Instance -> SUBSET Topic]
    /\ wire \in [Instance -> Seq(Item)]
    /\ handing \in [Instance -> Handed]
    /\ refs \in [Instance -> [Topic -> Nat]]
    /\ joined \in [Stream -> SUBSET Topic] /\ counted \in [Stream -> SUBSET Topic]

ChanType ==
    /\ chan \in [Stream -> [Topic -> Seq(Item)]]
    /\ \A s \in Stream : \A t \in Topic : Len(chan[s][t]) <= Buffer
    /\ warned \in [Stream -> BOOLEAN]
    /\ barred \in [Stream -> SUBSET Number]

LoopType ==
    /\ stage \in [Stream -> Stages]
    /\ held \in [Stream -> 0..MaxPublished]
    /\ out \in [Stream -> Seq(Number)]
    /\ done \in [Stream -> BOOLEAN]
    /\ lastChecked \in [Stream -> 0..MaxClock] /\ startedAt \in [Stream -> 0..MaxClock]
    /\ got \in [Stream -> Seq(Number)]

\* The parts of the type invariant.
LEMMA TypeParts == TypeOK <=> AccessType /\ BusType /\ ChanType /\ LoopType
  BY DEF TypeOK, AccessType, BusType, ChanType, LoopType, Handed

\* What is sent through Redis.
LEMMA ItemFacts ==
    /\ \A x \in Item : /\ x.topic \in Topic
                       /\ x.topic = "value" => x.n \in Number
                       /\ x.topic = "access" => x.user \in User
    /\ \A n \in Number : [topic |-> "value", n |-> n] \in Item
    /\ \A u \in User : [topic |-> "access", user |-> u] \in Item
  BY DEF Item, Topic

\* What PubSub.Publish is handing out: nothing, or an item to some streams.
LEMMA HandedFacts ==
    ASSUME BusType, NEW i \in Instance
    PROVE  /\ handing[i].to \subseteq Stream
           /\ handing[i].to # {} => handing[i].item \in Item
           /\ Nobody \in Handed /\ Nobody.to = {}
<1>1. handing[i] \in Handed BY DEF BusType
<1> QED BY <1>1 DEF Handed, Nobody

LEMMA AccessSame ==
    AccessType /\ UNCHANGED <<clock, accessVars, published, sentAt>> => AccessType'
  BY DEF AccessType, accessVars
LEMMA BusSame ==
    BusType /\ UNCHANGED <<redisVars, refs, joined, counted>> => BusType'
  BY DEF BusType, redisVars
LEMMA ChanSame ==
    ChanType /\ UNCHANGED <<chan, warned, barred>> => ChanType'
  BY DEF ChanType
LEMMA LoopSame ==
    LoopType /\ UNCHANGED <<stage, held, out, done, lastChecked, got, startedAt>> => LoopType'
  BY DEF LoopType

\* The number of a value, and the instants, are numbers.
LEMMA Numbers ==
    /\ MaxPublished \in Nat /\ MaxClock \in Nat /\ MaxChanges \in Nat /\ Buffer \in Nat /\ Interval \in Nat
    /\ Buffer > 0 /\ Interval > 0
    /\ \A n \in Number : n \in Nat /\ n > 0 /\ n <= MaxPublished
  BY SubscriptionsAssumption DEF Number

\* Redis PUBLISH appends to what some servers are sent.
LEMMA ToRedisType ==
    ASSUME BusType, NEW item \in Item, ToRedis(item)
    PROVE  wire' \in [Instance -> Seq(Item)]
<1>1. \A i \in Instance : Append(wire[i], item) \in Seq(Item) BY DEF BusType
<1> QED BY <1>1 DEF ToRedis, BusType

\* A value leaves a channel, or comes to it.
LEMMA ChanShape ==
    ASSUME ChanType, NEW s \in Stream, NEW t \in Topic, NEW q \in Seq(Item), Len(q) <= Buffer,
           chan' = [chan EXCEPT ![s][t] = q]
    PROVE  /\ chan' \in [Stream -> [Topic -> Seq(Item)]]
           /\ \A r \in Stream : \A u \in Topic : Len(chan'[r][u]) <= Buffer
           /\ chan'[s][t] = q
           /\ \A r \in Stream : \A u \in Topic : r # s \/ u # t => chan'[r][u] = chan[r][u]
<1>1. chan[s] \in [Topic -> Seq(Item)] BY DEF ChanType
<1>2. [chan[s] EXCEPT ![t] = q] \in [Topic -> Seq(Item)] BY <1>1
<1>3. chan' \in [Stream -> [Topic -> Seq(Item)]] BY <1>2 DEF ChanType
<1>4. chan'[s][t] = q /\ \A u \in Topic \ {t} : chan'[s][u] = chan[s][u] BY <1>1 DEF ChanType
<1>5. \A r \in Stream \ {s} : chan'[r] = chan[r] BY DEF ChanType
<1> QED BY <1>3, <1>4, <1>5 DEF ChanType

\* The first item of a channel, and the rest.
LEMMA TailShape ==
    ASSUME ChanType, NEW s \in Stream, NEW t \in Topic, chan[s][t] # <<>>
    PROVE  /\ Head(chan[s][t]) \in Item /\ Tail(chan[s][t]) \in Seq(Item)
           /\ Len(chan[s][t]) \in Nat /\ Len(chan[s][t]) > 0
           /\ Len(Tail(chan[s][t])) = Len(chan[s][t]) - 1 /\ Len(Tail(chan[s][t])) <= Buffer
           /\ Head(chan[s][t]) = chan[s][t][1]
           /\ \A k \in 1..(Len(chan[s][t]) - 1) : Tail(chan[s][t])[k] = chan[s][t][k + 1]
<1>1. chan[s][t] \in Seq(Item) /\ Len(chan[s][t]) <= Buffer BY DEF ChanType
<1> QED BY <1>1, Numbers


\* The first item of the channel of values is a value.
LEMMA HeadValue ==
    ASSUME ChanType, Routed, NEW s \in Stream, Queue(s) # <<>>
    PROVE  Head(Queue(s)).n \in Number
<1>1. "value" \in Topic BY DEF Topic
<1>2. Head(Queue(s)) \in Item /\ Head(Queue(s)) = Queue(s)[1] /\ 1 \in DOMAIN Queue(s)
  BY <1>1, TailShape DEF Queue, ChanType
<1>3. Head(Queue(s)).topic = "value" BY <1>1, <1>2 DEF Routed, Queue
<1> QED BY <1>2, <1>3, ItemFacts

\* The streams are finitely many, and so are those that count on a topic.
LEMMA CountingFinite == \A i, t : IsFiniteSet(Counting(i, t)) /\ Cardinality(Counting(i, t)) \in Nat
  BY SubscriptionsAssumption, FS_Subset, FS_CardinalityType DEF Counting

\* A stream that counts on a topic is counted.
LEMMA CountedCounts ==
    ASSUME BusType, Refs, NEW s \in Stream, NEW t \in counted[s]
    PROVE  refs[Host[s]][t] \in Nat /\ refs[Host[s]][t] > 0
<1>1. Host[s] \in Instance /\ t \in Topic BY SubscriptionsAssumption DEF BusType
<1>2. s \in Counting(Host[s], t) BY DEF Counting
<1>3. Cardinality(Counting(Host[s], t)) # 0 BY <1>2, CountingFinite, FS_EmptySet
<1> QED BY <1>1, <1>3, CountingFinite DEF Refs, BusType

LEMMA RecheckType ==
    ASSUME AccessType, LoopType, NEW s \in Stream, Recheck(s)
    PROVE  /\ stage' \in [Stream -> Stages] /\ held' \in [Stream -> 0..MaxPublished]
           /\ lastChecked' \in [Stream -> 0..MaxClock]
<1>1. CASE lastChecked' = [lastChecked EXCEPT ![s] = clock] /\ UNCHANGED <<stage, held>>
  BY <1>1 DEF AccessType, LoopType
<1>2. CASE stage' = [stage EXCEPT ![s] = "ending"] /\ held' = [held EXCEPT ![s] = 0] /\ UNCHANGED lastChecked
  BY <1>2, Numbers DEF LoopType, Stages
<1> QED BY <1>1, <1>2 DEF Recheck

\* The type invariant, as its parts.
Typed == AccessType /\ BusType /\ ChanType /\ LoopType

LEMMA NextTyped ==
    ASSUME Typed, Refs, Routed, HoldsOne, [Next]_vars
    PROVE  Typed'
<1> USE AccessSame, BusSame, ChanSame, LoopSame DEF Typed
<1>1. CASE Tick
  <2>1. AccessType' BY <1>1, Numbers DEF Tick, AccessType, accessVars
  <2> QED BY <1>1, <2>1 DEF Tick, redisVars, streamVars
<1>2. ASSUME NEW u \in User, LoseAccess(u) PROVE Typed'
  <2>1. AccessType' BY <1>2, Numbers DEF LoseAccess, AccessType, accessVars
  <2> QED BY <1>2, <2>1 DEF LoseAccess, redisVars, streamVars
<1>3. ASSUME NEW u \in User, GainAccess(u) PROVE Typed'
  <2>1. AccessType' BY <1>3, Numbers DEF GainAccess, AccessType
  <2>2. ChanType' BY <1>3 DEF GainAccess, ChanType, streamVars
  <2> QED BY <1>3, <2>1, <2>2 DEF GainAccess, redisVars, streamVars
<1>4. ASSUME NEW u \in User, PublishRoomAccessChanged(u) PROVE Typed'
  <2>1. AccessType' BY <1>4 DEF PublishRoomAccessChanged, AccessType
  <2>2. wire' \in [Instance -> Seq(Item)] BY <1>4, ToRedisType, ItemFacts DEF PublishRoomAccessChanged
  <2>3. BusType' BY <1>4, <2>2 DEF PublishRoomAccessChanged, BusType, streamVars
  <2> QED BY <1>4, <2>1, <2>3 DEF PublishRoomAccessChanged, streamVars
<1>5. ASSUME NEW u \in User, PublishFails(u) PROVE Typed'
  <2>1. AccessType' BY <1>5 DEF PublishFails, AccessType
  <2> QED BY <1>5, <2>1 DEF PublishFails, redisVars, streamVars
<1>6. CASE Publish
  <2>0. published + 1 \in Number BY <1>6, Numbers DEF Publish, AccessType, Number
  <2>1. AccessType' BY <1>6, <2>0, Numbers DEF Publish, AccessType, accessVars
  <2>2. wire' \in [Instance -> Seq(Item)] BY <1>6, <2>0, ToRedisType, ItemFacts DEF Publish
  <2>3. BusType' BY <1>6, <2>2 DEF Publish, BusType, streamVars
  <2> QED BY <1>6, <2>1, <2>3 DEF Publish, streamVars
<1>7. ASSUME NEW i \in Instance, RedisListens(i) PROVE Typed'
  <2>1. BusType' BY <1>7 DEF RedisListens, BusType, streamVars
  <2> QED BY <1>7, <2>1 DEF RedisListens, streamVars
<1>8. ASSUME NEW i \in Instance, LoseConnection(i) PROVE Typed'
  <2>1. BusType' BY <1>8 DEF LoseConnection, BusType, streamVars
  <2> QED BY <1>8, <2>1 DEF LoseConnection, streamVars
<1>9. ASSUME NEW i \in Instance, Receive(i) PROVE Typed'
  <2> DEFINE item == Head(wire[i])
             to == {s \in Stream : Host[s] = i /\ item.topic \in joined[s]}
  <2>1. wire[i] \in Seq(Item) /\ wire[i] # <<>> BY <1>9 DEF Receive, BusType
  <2>2. item \in Item /\ Tail(wire[i]) \in Seq(Item) BY <2>1
  <2>3. wire' \in [Instance -> Seq(Item)] BY <1>9, <2>2 DEF Receive, BusType
  <2>4. [item |-> item, to |-> to] \in Handed BY <2>2 DEF Handed
  <2>5. handing' = [handing EXCEPT ![i] = IF to = {} THEN Nobody ELSE [item |-> item, to |-> to]]
    BY <1>9 DEF Receive
  <2> HIDE DEF item, to
  <2>6. handing' \in [Instance -> Handed] BY <2>4, <2>5, HandedFacts DEF BusType
  <2>7. BusType' BY <1>9, <2>3, <2>6 DEF Receive, BusType, streamVars
  <2> QED BY <1>9, <2>7 DEF Receive, streamVars
<1>10. ASSUME NEW i \in Instance, NEW s \in Stream, Hand(i, s) PROVE Typed'
  <2> DEFINE item == handing[i].item
             t == item.topic
             put == t \in joined[s] /\ Fits(chan[s][t])
  <2>1. handing[i].to \subseteq Stream /\ item \in Item /\ t \in Topic /\ Nobody \in Handed
    BY <1>10, HandedFacts, ItemFacts DEF Hand
  <2> DEFINE rest == IF handing[i].to = {s} THEN Nobody ELSE [item |-> item, to |-> handing[i].to \ {s}]
  <2>3. rest \in Handed BY <2>1 DEF Handed
  <2>4. handing' = [handing EXCEPT ![i] = rest] BY <1>10 DEF Hand
  <2> HIDE DEF rest
  <2>5. handing' \in [Instance -> Handed] BY <2>3, <2>4 DEF BusType
  <2>6. BusType' BY <1>10, <2>5 DEF Hand, BusType
  <2>7. ChanType'
    <3>1. barred' \in [Stream -> SUBSET Number]
      <4>1. CASE UNCHANGED barred BY <4>1 DEF ChanType
      <4>2. CASE t = "value" /\ barred' = [barred EXCEPT ![s] = @ \cup {item.n}]
        <5>1. item.n \in Number BY <2>1, <4>2, ItemFacts
        <5> QED BY <4>2, <5>1 DEF ChanType
      <4> QED BY <1>10, <4>1, <4>2 DEF Hand
    <3>2. warned' \in [Stream -> BOOLEAN] BY <1>10 DEF Hand, ChanType
    <3>3. CASE ~put BY <1>10, <3>1, <3>2, <3>3 DEF Hand, ChanType
    <3>4. CASE put
      <4> DEFINE q == Append(chan[s][t], item)
      <4>1. chan[s][t] \in Seq(Item) /\ Len(chan[s][t]) < Buffer BY <2>1, <3>4 DEF Fits, ChanType
      <4>2. q \in Seq(Item) /\ Len(q) <= Buffer BY <2>1, <4>1, Numbers
      <4>3. chan' = [chan EXCEPT ![s][t] = q] BY <1>10, <3>4 DEF Hand
      <4> HIDE DEF q, t, item
      <4> QED BY <2>1, <3>1, <3>2, <4>2, <4>3, ChanShape DEF ChanType
    <3> QED BY <3>3, <3>4
  <2> QED BY <1>10, <2>6, <2>7 DEF Hand
<1>11. ASSUME NEW s \in Stream, Authorize(s) PROVE Typed'
  <2>1. LoopType' BY <1>11, Numbers DEF Authorize, LoopType, Stages
  <2> QED BY <1>11, <2>1 DEF Authorize
<1>12. ASSUME NEW s \in Stream, NEW t \in Topic, SubscribeLocal(s, t) PROVE Typed'
  <2>1. BusType' BY <1>12 DEF SubscribeLocal, BusType, redisVars
  <2> QED BY <1>12, <2>1 DEF SubscribeLocal
<1>13. ASSUME NEW s \in Stream, NEW t \in Topic, SubscribeBus(s, t) PROVE Typed'
  <2>0. Host[s] \in Instance BY SubscriptionsAssumption
  <2>1. refs' \in [Instance -> [Topic -> Nat]]
    <3>1. refs[Host[s]] \in [Topic -> Nat] BY <2>0 DEF BusType
    <3> QED BY <1>13, <2>0, <3>1 DEF SubscribeBus, BusType
  <2>2. BusType' BY <1>13, <2>0, <2>1 DEF SubscribeBus, BusType
  <2>3. LoopType' BY <1>13 DEF SubscribeBus, LoopType, AccessType, Stages
  <2> QED BY <1>13, <2>2, <2>3 DEF SubscribeBus
<1>14. ASSUME NEW s \in Stream, Cancel(s) PROVE Typed'
  <2>1. LoopType' BY <1>14, Numbers DEF Cancel, LoopType, Stages
  <2> QED BY <1>14, <2>1 DEF Cancel
<1>15. ASSUME NEW s \in Stream, Stop(s) PROVE Typed'
  <2>1. LoopType' BY <1>15, Numbers DEF Stop, LoopType, Stages
  <2> QED BY <1>15, <2>1 DEF Stop
<1>16. ASSUME NEW s \in Stream, HandleSignal(s) PROVE Typed'
  <2>1. LoopType'
    <3>1. CASE Recheck(s) BY <1>16, <3>1, RecheckType DEF HandleSignal, LoopType
    <3>2. CASE UNCHANGED <<stage, held, lastChecked>> BY <1>16, <3>2 DEF HandleSignal
    <3> QED BY <1>16, <3>1, <3>2 DEF HandleSignal
  <2>2. "access" \in Topic BY DEF Topic
  <2>3. chan' = [chan EXCEPT ![s]["access"] = Tail(chan[s]["access"])]
    BY <1>16 DEF HandleSignal
  <2>4. ChanType' BY <1>16, <2>2, <2>3, ChanShape, TailShape DEF HandleSignal, ChanType
  <2> QED BY <1>16, <2>1, <2>4 DEF HandleSignal
<1>17. ASSUME NEW s \in Stream, TakeValue(s) PROVE Typed'
  <2>1. "value" \in Topic BY DEF Topic
  <2>2. chan' = [chan EXCEPT ![s]["value"] = Tail(chan[s]["value"])]
    BY <1>17 DEF TakeValue
  <2>3. ChanType' BY <1>17, <2>1, <2>2, ChanShape, TailShape DEF TakeValue, ChanType
  <2>4. Head(chan[s]["value"]).n \in Number BY <1>17, HeadValue DEF TakeValue, Queue
  <2>5. LoopType' BY <1>17, <2>4, Numbers DEF TakeValue, LoopType, Stages
  <2> QED BY <1>17, <2>3, <2>5 DEF TakeValue
<1>18. ASSUME NEW s \in Stream, Pass(s) PROVE Typed'
  <2>1. LoopType' BY <1>18, Numbers DEF Pass, LoopType, Stages
  <2> QED BY <1>18, <2>1 DEF Pass
<1>19. ASSUME NEW s \in Stream, RecheckDue(s) PROVE Typed'
  <2>1. CASE lastChecked' = [lastChecked EXCEPT ![s] = clock] /\ stage' = [stage EXCEPT ![s] = "send"] /\ UNCHANGED held
    BY <1>19, <2>1 DEF RecheckDue, LoopType, AccessType, Stages
  <2>2. CASE stage' = [stage EXCEPT ![s] = "ending"] /\ held' = [held EXCEPT ![s] = 0] /\ UNCHANGED lastChecked
    BY <1>19, <2>2, Numbers DEF RecheckDue, LoopType, Stages
  <2> QED BY <1>19, <2>1, <2>2 DEF RecheckDue
<1>20. ASSUME NEW s \in Stream, SendOut(s) PROVE Typed'
  <2>1. held[s] \in Number BY <1>20 DEF SendOut, LoopType, HoldsOne, Number
  <2>2. LoopType' BY <1>20, <2>1, Numbers DEF SendOut, LoopType, Stages
  <2> QED BY <1>20, <2>2 DEF SendOut
<1>21. ASSUME NEW s \in Stream, ClientReads(s) PROVE Typed'
  <2>1. LoopType' BY <1>21, Numbers DEF ClientReads, LoopType, Stages
  <2> QED BY <1>21, <2>1 DEF ClientReads
<1>22. ASSUME NEW s \in Stream, NEW t \in Topic, UnsubscribeLocal(s, t) PROVE Typed'
  <2>1. BusType' BY <1>22 DEF UnsubscribeLocal, BusType, redisVars
  <2>2. ChanType' BY <1>22, ChanShape, Numbers DEF UnsubscribeLocal, ChanType
  <2> QED BY <1>22, <2>1, <2>2 DEF UnsubscribeLocal
<1>23. ASSUME NEW s \in Stream, NEW t \in Topic, UnsubscribeBus(s, t) PROVE Typed'
  <2>0. Host[s] \in Instance BY SubscriptionsAssumption
  <2>1. refs' \in [Instance -> [Topic -> Nat]]
    <3>1. refs[Host[s]] \in [Topic -> Nat] BY <2>0 DEF BusType
    <3>2. refs[Host[s]][t] > 0 BY <1>23, CountedCounts DEF UnsubscribeBus
    <3> QED BY <1>23, <2>0, <3>1, <3>2 DEF UnsubscribeBus, BusType
  <2>2. BusType' BY <1>23, <2>0, <2>1 DEF UnsubscribeBus, BusType
  <2>3. LoopType' BY <1>23 DEF UnsubscribeBus, LoopType, Stages
  <2> QED BY <1>23, <2>2, <2>3 DEF UnsubscribeBus
<1>24. CASE UNCHANGED vars
  BY <1>24 DEF vars, streamVars
<1> QED BY <1>1, <1>2, <1>3, <1>4, <1>5, <1>6, <1>7, <1>8, <1>9, <1>10, <1>11, <1>12, <1>13, <1>14,
       <1>15, <1>16, <1>17, <1>18, <1>19, <1>20, <1>21, <1>22, <1>23, <1>24
    DEF Next, Loop

-----------------------------------------------------------------------------
(* The counts of the bus. *)

\* A step that changes neither counts nor lists.
LEMMA SameRefs == Refs /\ UNCHANGED <<refs, counted, wanted>> => Refs'
  BY DEF Refs, Counting

LEMMA NextRefs ==
    ASSUME Typed, Refs, [Next]_vars
    PROVE  Refs'
<1> USE SameRefs DEF redisVars, streamVars

<1>1. CASE Tick
  BY <1>1 DEF Tick
<1>2. ASSUME NEW u \in User, LoseAccess(u) PROVE Refs'
  BY <1>2 DEF LoseAccess
<1>3. ASSUME NEW u \in User, GainAccess(u) PROVE Refs'
  BY <1>3 DEF GainAccess
<1>4. ASSUME NEW u \in User, PublishRoomAccessChanged(u) PROVE Refs'
  BY <1>4 DEF PublishRoomAccessChanged
<1>5. ASSUME NEW u \in User, PublishFails(u) PROVE Refs'
  BY <1>5 DEF PublishFails
<1>6. CASE Publish
  BY <1>6 DEF Publish
<1>7. ASSUME NEW i \in Instance, RedisListens(i) PROVE Refs'
  BY <1>7 DEF RedisListens
<1>8. ASSUME NEW i \in Instance, LoseConnection(i) PROVE Refs'
  BY <1>8 DEF LoseConnection
<1>9. ASSUME NEW i \in Instance, Receive(i) PROVE Refs'
  BY <1>9 DEF Receive
<1>10. ASSUME NEW i \in Instance, NEW s \in Stream, Hand(i, s) PROVE Refs'
  BY <1>10 DEF Hand
<1>11. ASSUME NEW s \in Stream, Authorize(s) PROVE Refs'
  BY <1>11 DEF Authorize
<1>12. ASSUME NEW s \in Stream, NEW t \in Topic, SubscribeLocal(s, t) PROVE Refs'
  BY <1>12 DEF SubscribeLocal
<1>13. ASSUME NEW s \in Stream, NEW t \in Topic, SubscribeBus(s, t) PROVE Refs'
  <2> DEFINE h == Host[s]
  <2>0. h \in Instance /\ s \in Stream /\ refs[h][t] \in Nat BY SubscriptionsAssumption DEF Typed, BusType
  <2>1. \A i \in Instance : \A u \in Topic : i # h \/ u # t =>
           Counting(i, u)' = Counting(i, u) /\ refs'[i][u] = refs[i][u] /\ (u \in wanted'[i] <=> u \in wanted[i])
    BY <1>13, <2>0 DEF SubscribeBus, Counting, Typed, BusType
  <2>2. Counting(h, t)' = Counting(h, t) \cup {s} /\ s \notin Counting(h, t)
    BY <1>13, <2>0 DEF SubscribeBus, Counting, Typed, BusType
  <2>3. Cardinality(Counting(h, t)') = Cardinality(Counting(h, t)) + 1
    BY <2>2, CountingFinite, FS_AddElement
  <2>4. refs'[h][t] = refs[h][t] + 1 BY <1>13, <2>0 DEF SubscribeBus, Typed, BusType
  <2>5. refs'[h][t] = Cardinality(Counting(h, t)') BY <2>0, <2>3, <2>4 DEF Refs
  <2>6. t \in wanted'[h] <=> refs'[h][t] > 0
    BY <1>13, <2>0, <2>4 DEF SubscribeBus, Refs, Typed, BusType
  <2> QED BY <2>1, <2>5, <2>6 DEF Refs
<1>14. ASSUME NEW s \in Stream, Cancel(s) PROVE Refs'
  BY <1>14 DEF Cancel
<1>15. ASSUME NEW s \in Stream, Stop(s) PROVE Refs'
  BY <1>15 DEF Stop
<1>16. ASSUME NEW s \in Stream, HandleSignal(s) PROVE Refs'
  BY <1>16 DEF HandleSignal
<1>17. ASSUME NEW s \in Stream, TakeValue(s) PROVE Refs'
  BY <1>17 DEF TakeValue
<1>18. ASSUME NEW s \in Stream, Pass(s) PROVE Refs'
  BY <1>18 DEF Pass
<1>19. ASSUME NEW s \in Stream, RecheckDue(s) PROVE Refs'
  BY <1>19 DEF RecheckDue
<1>20. ASSUME NEW s \in Stream, SendOut(s) PROVE Refs'
  BY <1>20 DEF SendOut
<1>21. ASSUME NEW s \in Stream, ClientReads(s) PROVE Refs'
  BY <1>21 DEF ClientReads
<1>22. ASSUME NEW s \in Stream, NEW t \in Topic, UnsubscribeLocal(s, t) PROVE Refs'
  BY <1>22 DEF UnsubscribeLocal
<1>23. ASSUME NEW s \in Stream, NEW t \in Topic, UnsubscribeBus(s, t) PROVE Refs'
  <2> DEFINE h == Host[s]
  <2>0. h \in Instance /\ s \in Stream /\ refs[h][t] \in Nat BY SubscriptionsAssumption DEF Typed, BusType
  <2>1. \A i \in Instance : \A u \in Topic : i # h \/ u # t =>
           Counting(i, u)' = Counting(i, u) /\ refs'[i][u] = refs[i][u] /\ (u \in wanted'[i] <=> u \in wanted[i])
    BY <1>23, <2>0 DEF UnsubscribeBus, Counting, Typed, BusType
  <2>2. Counting(h, t)' = Counting(h, t) \ {s} /\ s \in Counting(h, t)
    BY <1>23, <2>0 DEF UnsubscribeBus, Counting, Typed, BusType
  <2>3. Cardinality(Counting(h, t)') = Cardinality(Counting(h, t)) - 1
    BY <2>2, CountingFinite, FS_RemoveElement
  <2>4. refs'[h][t] = refs[h][t] - 1 BY <1>23, <2>0 DEF UnsubscribeBus, Typed, BusType
  <2>5. refs'[h][t] = Cardinality(Counting(h, t)') BY <2>0, <2>3, <2>4 DEF Refs
  <2>6. t \in wanted'[h] <=> refs'[h][t] > 0
    BY <1>23, <2>0, <2>4, CountedCounts DEF UnsubscribeBus, Refs, Typed, BusType, LastLeaves
  <2> QED BY <2>1, <2>5, <2>6 DEF Refs
<1>24. CASE UNCHANGED vars
  BY <1>24 DEF vars
<1> QED BY <1>1, <1>2, <1>3, <1>4, <1>5, <1>6, <1>7, <1>8, <1>9, <1>10, <1>11, <1>12, <1>13, <1>14,
       <1>15, <1>16, <1>17, <1>18, <1>19, <1>20, <1>21, <1>22, <1>23, <1>24
    DEF Next, Loop

-----------------------------------------------------------------------------
(* The way of a value through a stream. *)

Rests(s) == Sent(s)' = Sent(s) /\ held'[s] = held[s] /\ Queue(s)' = Queue(s)

\* The stream ends and forgets what it holds.
Drops(s) == Sent(s)' = Sent(s) /\ held'[s] = 0 /\ Queue(s)' = Queue(s)

\* Its channel is closed.
Clears(s) == Sent(s)' = Sent(s) /\ held'[s] = held[s] /\ Queue(s)' = <<>>

Takes(s) ==
    /\ held[s] = 0 /\ Queue(s) # <<>>
    /\ Sent(s)' = Sent(s) /\ held'[s] = Head(Queue(s)).n /\ Queue(s)' = Tail(Queue(s))

Sends(s) ==
    /\ held[s] \in Number
    /\ Sent(s)' = Append(Sent(s), held[s]) /\ held'[s] = 0 /\ Queue(s)' = Queue(s)

Gets(s) ==
    LET here == handing[Host[s]] IN
    /\ s \in here.to \ handing'[Host[s]].to /\ here.item.topic = "value"
    /\ Sent(s)' = Sent(s) /\ held'[s] = held[s] /\ Queue(s)' = Append(Queue(s), here.item)

Moves(s) == Rests(s) \/ Drops(s) \/ Clears(s) \/ Takes(s) \/ Sends(s) \/ Gets(s)

\* What waits for a stream, and what it has sent, are sequences.
LEMMA StreamFacts ==
    ASSUME Typed, Routed, NEW s \in Stream
    PROVE  /\ Sent(s) \in Seq(Number) /\ held[s] \in 0..MaxPublished
           /\ Queue(s) \in Seq(Item) /\ \A k \in DOMAIN Queue(s) : Queue(s)[k].n \in Number
<1>1. "value" \in Topic BY DEF Topic
<1>2. got[s] \in Seq(Number) /\ out[s] \in Seq(Number) /\ held[s] \in 0..MaxPublished BY DEF Typed, LoopType
<1>3. Sent(s) \in Seq(Number) BY <1>2 DEF Sent
<1>4. Queue(s) \in Seq(Item) BY <1>1 DEF Typed, ChanType, Queue
<1>5. ASSUME NEW k \in DOMAIN Queue(s) PROVE Queue(s)[k].n \in Number
  <2>1. Queue(s)[k] \in Item /\ Queue(s)[k].topic = "value" BY <1>1, <1>4, <1>5 DEF Routed, Queue
  <2> QED BY <2>1, ItemFacts
<1> QED BY <1>2, <1>3, <1>4, <1>5

LEMMA SameMoves ==
    ASSUME UNCHANGED <<chan, held, out, got>>
    PROVE  \A s \in Stream : Moves(s)
  BY DEF Moves, Rests, Sent, Queue

\* A stream that is not named in a step rests.
LEMMA OthersRest ==
    ASSUME NEW s \in Stream,
           \A r \in Stream \ {s} : /\ chan'[r]["value"] = chan[r]["value"] /\ held'[r] = held[r]
                                   /\ out'[r] = out[r] /\ got'[r] = got[r],
           Moves(s)
    PROVE  \A r \in Stream : Moves(r)
  BY DEF Moves, Rests, Sent, Queue

LEMMA NextMoves ==
    ASSUME Typed, Routed, HoldsOne, [Next]_vars
    PROVE  \A r \in Stream : Moves(r)
<1> USE SameMoves DEF streamVars

<1>1. CASE Tick
  BY <1>1 DEF Tick
<1>2. ASSUME NEW u \in User, LoseAccess(u) PROVE \A r \in Stream : Moves(r)
  BY <1>2 DEF LoseAccess
<1>3. ASSUME NEW u \in User, GainAccess(u) PROVE \A r \in Stream : Moves(r)
  BY <1>3 DEF GainAccess
<1>4. ASSUME NEW u \in User, PublishRoomAccessChanged(u) PROVE \A r \in Stream : Moves(r)
  BY <1>4 DEF PublishRoomAccessChanged
<1>5. ASSUME NEW u \in User, PublishFails(u) PROVE \A r \in Stream : Moves(r)
  BY <1>5 DEF PublishFails
<1>6. CASE Publish
  BY <1>6 DEF Publish
<1>7. ASSUME NEW i \in Instance, RedisListens(i) PROVE \A r \in Stream : Moves(r)
  BY <1>7 DEF RedisListens
<1>8. ASSUME NEW i \in Instance, LoseConnection(i) PROVE \A r \in Stream : Moves(r)
  BY <1>8 DEF LoseConnection
<1>9. ASSUME NEW i \in Instance, Receive(i) PROVE \A r \in Stream : Moves(r)
  BY <1>9 DEF Receive
<1>10. ASSUME NEW i \in Instance, NEW s \in Stream, Hand(i, s) PROVE \A r \in Stream : Moves(r)
  <2> DEFINE item == handing[i].item
             t == item.topic
             put == t \in joined[s] /\ Fits(chan[s][t])
  <2>0. BusType /\ ChanType /\ Host[s] = i /\ "value" \in Topic BY <1>10 DEF Typed, Routed, Hand, Topic
  <2>1. handing[i].to \subseteq Stream /\ item \in Item /\ t \in Topic /\ Nobody.to = {}
    BY <1>10, <2>0, HandedFacts, ItemFacts DEF Hand
  <2>2. UNCHANGED <<held, out, got>> BY <1>10 DEF Hand
  <2>3. CASE ~put BY <1>10, <2>2, <2>3 DEF Hand
  <2>4. CASE put
    <3> DEFINE q == Append(chan[s][t], item)
    <3>1. chan[s][t] \in Seq(Item) /\ Len(chan[s][t]) < Buffer BY <2>0, <2>1, <2>4 DEF Fits, ChanType
    <3>2. q \in Seq(Item) /\ Len(q) <= Buffer BY <2>1, <3>1, Numbers
    <3>3. chan' = [chan EXCEPT ![s][t] = q] BY <1>10, <2>4 DEF Hand
    <3> HIDE DEF q, t, item, put
    <3>4. chan'[s][t] = q /\ \A r \in Stream : \A u \in Topic : r # s \/ u # t => chan'[r][u] = chan[r][u]
      BY <2>0, <2>1, <3>3 DEF ChanType
    <3> USE DEF q, t, item, put
    <3>5. s \in handing[i].to \ handing'[i].to
      BY <1>10, <2>0, <2>1 DEF Hand, BusType
    <3>6. CASE t # "value"
      <4>1. Rests(s) BY <2>0, <2>2, <3>4, <3>6 DEF Rests, Sent, Queue
      <4> QED BY <2>0, <2>2, <3>4, <3>6, <4>1, OthersRest DEF Moves
    <3>7. CASE t = "value"
      <4>1. Gets(s) BY <2>0, <2>2, <3>4, <3>5, <3>7 DEF Gets, Sent, Queue
      <4> QED BY <2>0, <2>2, <3>4, <3>7, <4>1, OthersRest DEF Moves
    <3> QED BY <3>6, <3>7
  <2> QED BY <2>3, <2>4
<1>11. ASSUME NEW s \in Stream, Authorize(s) PROVE \A r \in Stream : Moves(r)
  BY <1>11 DEF Authorize
<1>12. ASSUME NEW s \in Stream, NEW t \in Topic, SubscribeLocal(s, t) PROVE \A r \in Stream : Moves(r)
  BY <1>12 DEF SubscribeLocal
<1>13. ASSUME NEW s \in Stream, NEW t \in Topic, SubscribeBus(s, t) PROVE \A r \in Stream : Moves(r)
  BY <1>13 DEF SubscribeBus
<1>14. ASSUME NEW s \in Stream, Cancel(s) PROVE \A r \in Stream : Moves(r)
  BY <1>14 DEF Cancel
<1>15. ASSUME NEW s \in Stream, Stop(s) PROVE \A r \in Stream : Moves(r)
  <2>1. Drops(s) BY <1>15 DEF Stop, Drops, Sent, Queue, Typed, LoopType
  <2> QED BY <1>15, <2>1, OthersRest DEF Stop, Moves, Typed, LoopType
<1>16. ASSUME NEW s \in Stream, HandleSignal(s) PROVE \A r \in Stream : Moves(r)
  <2>0. ChanType /\ "access" \in Topic /\ "value" \in Topic BY DEF Typed, Topic
  <2>1. \A r \in Stream : chan'[r]["value"] = chan[r]["value"]
    BY <1>16, <2>0, ChanShape, TailShape DEF HandleSignal
  <2>2. UNCHANGED held \/ held' = [held EXCEPT ![s] = 0] BY <1>16 DEF HandleSignal, Recheck
  <2>3. Drops(s) \/ Rests(s) BY <1>16, <2>1, <2>2 DEF HandleSignal, Drops, Rests, Sent, Queue, Typed, LoopType
  <2> QED BY <1>16, <2>1, <2>2, <2>3, OthersRest DEF HandleSignal, Moves, Typed, LoopType
<1>17. ASSUME NEW s \in Stream, TakeValue(s) PROVE \A r \in Stream : Moves(r)
  <2>0. ChanType /\ "value" \in Topic BY DEF Typed, Topic
  <2>1. /\ chan'[s]["value"] = Tail(chan[s]["value"])
        /\ \A r \in Stream \ {s} : chan'[r]["value"] = chan[r]["value"]
    BY <1>17, <2>0, ChanShape, TailShape DEF TakeValue
  <2>2. held[s] = 0 BY <1>17 DEF TakeValue, HoldsOne
  <2>3. Takes(s) BY <1>17, <2>1, <2>2 DEF TakeValue, Takes, Sent, Queue, Typed, LoopType
  <2> QED BY <1>17, <2>1, <2>3, OthersRest DEF TakeValue, Moves, Typed, LoopType
<1>18. ASSUME NEW s \in Stream, Pass(s) PROVE \A r \in Stream : Moves(r)
  BY <1>18 DEF Pass
<1>19. ASSUME NEW s \in Stream, RecheckDue(s) PROVE \A r \in Stream : Moves(r)
  <2>1. Drops(s) \/ Rests(s) BY <1>19 DEF RecheckDue, Drops, Rests, Sent, Queue, Typed, LoopType
  <2> QED BY <1>19, <2>1, OthersRest DEF RecheckDue, Moves, Typed, LoopType
<1>20. ASSUME NEW s \in Stream, SendOut(s) PROVE \A r \in Stream : Moves(r)
  <2>1. held[s] \in Number BY <1>20 DEF SendOut, Typed, LoopType, HoldsOne, Number
  <2>2. got[s] \in Seq(Number) /\ out[s] = <<>> /\ out'[s] = <<held[s]>> /\ got'[s] = got[s]
    BY <1>20 DEF SendOut, Typed, LoopType
  <2>3. Sent(s)' = Append(Sent(s), held[s])
    <3>1. got[s] \o <<>> = got[s] BY <2>2, ConcatEmptySeq
    <3>2. got[s] \o <<held[s]>> = Append(got[s], held[s]) BY <2>1, <2>2, AppendIsConcat
    <3> QED BY <2>2, <3>1, <3>2 DEF Sent
  <2>4. Sends(s) BY <1>20, <2>1, <2>3 DEF SendOut, Sends, Queue, Typed, LoopType
  <2> QED BY <1>20, <2>4, OthersRest DEF SendOut, Moves, Typed, LoopType
<1>21. ASSUME NEW s \in Stream, ClientReads(s) PROVE \A r \in Stream : Moves(r)
  <2>1. got[s] \in Seq(Number) /\ out[s] \in Seq(Number) /\ out'[s] = <<>> /\ got'[s] = got[s] \o out[s]
    BY <1>21 DEF ClientReads, Typed, LoopType
  <2>2. Sent(s)' = Sent(s)
    <3>1. got[s] \o out[s] \in Seq(Number) BY <2>1
    <3>2. (got[s] \o out[s]) \o <<>> = got[s] \o out[s] BY <3>1, ConcatEmptySeq
    <3> QED BY <2>1, <3>2 DEF Sent
  <2>3. Rests(s) BY <1>21, <2>2 DEF ClientReads, Rests, Queue
  <2> QED BY <1>21, <2>3, OthersRest DEF ClientReads, Moves, Typed, LoopType
<1>22. ASSUME NEW s \in Stream, NEW t \in Topic, UnsubscribeLocal(s, t) PROVE \A r \in Stream : Moves(r)
  <2>0. ChanType /\ "value" \in Topic BY DEF Typed, Topic
  <2>1. /\ chan'[s][t] = <<>>
        /\ \A r \in Stream : \A u \in Topic : r # s \/ u # t => chan'[r][u] = chan[r][u]
    BY <1>22, <2>0 DEF UnsubscribeLocal, ChanType
  <2>2. Rests(s) \/ Clears(s) BY <1>22, <2>0, <2>1 DEF UnsubscribeLocal, Rests, Clears, Sent, Queue
  <2> QED BY <1>22, <2>0, <2>1, <2>2, OthersRest DEF UnsubscribeLocal, Moves
<1>23. ASSUME NEW s \in Stream, NEW t \in Topic, UnsubscribeBus(s, t) PROVE \A r \in Stream : Moves(r)
  BY <1>23 DEF UnsubscribeBus
<1>24. CASE UNCHANGED vars
  BY <1>24 DEF vars
<1> QED BY <1>1, <1>2, <1>3, <1>4, <1>5, <1>6, <1>7, <1>8, <1>9, <1>10, <1>11, <1>12, <1>13, <1>14,
       <1>15, <1>16, <1>17, <1>18, <1>19, <1>20, <1>21, <1>22, <1>23, <1>24
    DEF Next, Loop


\* What is behind n stays behind n, unless the stream gets something that is not.
LEMMA BehindStays ==
    ASSUME Typed, Routed, NEW s \in Stream, Moves(s), NEW n \in Nat, n > 0, Behind(s, n),
           Gets(s) => handing[Host[s]].item.n < n
    PROVE  Behind(s, n)'
<1>0. /\ Sent(s) \in Seq(Number) /\ held[s] \in Nat
      /\ Queue(s) \in Seq(Item) /\ \A k \in DOMAIN Queue(s) : Queue(s)[k].n \in Nat
  BY StreamFacts, Numbers
<1>1. CASE Rests(s) \/ Drops(s) \/ Clears(s) BY <1>1 DEF Rests, Drops, Clears, Behind
<1>2. CASE Takes(s) BY <1>0, <1>2 DEF Takes, Behind
<1>3. CASE Sends(s) BY <1>0, <1>3, Numbers DEF Sends, Behind
<1>4. CASE Gets(s)
  <2>1. Queue(s)' = Append(Queue(s), handing[Host[s]].item) /\ Sent(s)' = Sent(s) /\ held'[s] = held[s]
    BY <1>4 DEF Gets
  <2>2. \A k \in DOMAIN Queue(s)' : Queue(s)'[k].n < n
    BY <1>0, <1>4, <2>1 DEF Behind
  <2> QED BY <2>1, <2>2 DEF Behind
<1> QED BY <1>1, <1>2, <1>3, <1>4 DEF Moves

-----------------------------------------------------------------------------
(* The way of a value through a server. *)

Idles(i) == wire'[i] = wire[i] /\ handing'[i] = handing[i]

Loses(i) == wire'[i] = <<>> /\ handing'[i] = handing[i]

\* Redis sends the server something; a value is the newest there is.
Hears(i) ==
    /\ handing'[i] = handing[i]
    /\ \E item \in Item :
          /\ wire'[i] = Append(wire[i], item)
          /\ item.topic = "value" => item.n = published + 1 /\ published' = published + 1

Begins(i) ==
    /\ wire[i] # <<>> /\ handing[i].to = {}
    /\ wire'[i] = Tail(wire[i])
    /\ handing'[i].to # {} => handing'[i].item = Head(wire[i])
    /\ \A s \in handing'[i].to : s \in Stream /\ Host[s] = i

GoesOn(i) ==
    /\ wire'[i] = wire[i]
    /\ handing'[i].to \subseteq handing[i].to
    /\ handing'[i].to # {} => handing'[i].item = handing[i].item

Serves(i) == Idles(i) \/ Loses(i) \/ Hears(i) \/ Begins(i) \/ GoesOn(i)

LEMMA SameServes ==
    ASSUME UNCHANGED <<wire, handing>>
    PROVE  \A i \in Instance : Serves(i)
  BY DEF Serves, Idles

LEMMA NextServes ==
    ASSUME Typed, [Next]_vars
    PROVE  \A j \in Instance : Serves(j)
<1> USE SameServes DEF redisVars

<1>1. CASE Tick
  BY <1>1 DEF Tick
<1>2. ASSUME NEW u \in User, LoseAccess(u) PROVE \A j \in Instance : Serves(j)
  BY <1>2 DEF LoseAccess
<1>3. ASSUME NEW u \in User, GainAccess(u) PROVE \A j \in Instance : Serves(j)
  BY <1>3 DEF GainAccess
<1>4. ASSUME NEW u \in User, PublishRoomAccessChanged(u) PROVE \A j \in Instance : Serves(j)
  <2> DEFINE item == [topic |-> "access", user |-> u]
  <2>1. item \in Item
    BY <1>4, ItemFacts, Numbers DEF PublishRoomAccessChanged, Typed, AccessType, Number
  <2>2. item.topic = "value" => item.n = published + 1 /\ published' = published + 1 BY <1>4 DEF PublishRoomAccessChanged
  <2>3. ToRedis(item) /\ UNCHANGED handing BY <1>4 DEF PublishRoomAccessChanged
  <2> HIDE DEF item
  <2> QED BY <2>1, <2>2, <2>3 DEF ToRedis, Serves, Idles, Hears
<1>5. ASSUME NEW u \in User, PublishFails(u) PROVE \A j \in Instance : Serves(j)
  BY <1>5 DEF PublishFails
<1>6. CASE Publish
  <2> DEFINE item == [topic |-> "value", n |-> published + 1]
  <2>1. item \in Item
    BY <1>6, ItemFacts, Numbers DEF Publish, Typed, AccessType, Number
  <2>2. item.topic = "value" => item.n = published + 1 /\ published' = published + 1 BY <1>6 DEF Publish
  <2>3. ToRedis(item) /\ UNCHANGED handing BY <1>6 DEF Publish
  <2> HIDE DEF item
  <2> QED BY <2>1, <2>2, <2>3 DEF ToRedis, Serves, Idles, Hears
<1>7. ASSUME NEW i \in Instance, RedisListens(i) PROVE \A j \in Instance : Serves(j)
  BY <1>7 DEF RedisListens
<1>8. ASSUME NEW i \in Instance, LoseConnection(i) PROVE \A j \in Instance : Serves(j)
  BY <1>8 DEF LoseConnection, Serves, Idles, Loses, Typed, BusType
<1>9. ASSUME NEW i \in Instance, Receive(i) PROVE \A j \in Instance : Serves(j)
  <2> DEFINE to == {s \in Stream : Host[s] = i /\ Head(wire[i]).topic \in joined[s]}
             new == IF to = {} THEN Nobody ELSE [item |-> Head(wire[i]), to |-> to]
  <2>0. handing[i] = Nobody /\ wire[i] # <<>> /\ handing' = [handing EXCEPT ![i] = new] /\ wire' = [wire EXCEPT ![i] = Tail(@)]
    BY <1>9 DEF Receive
  <2>1. new.to \subseteq to /\ (new.to # {} => new.item = Head(wire[i])) BY DEF Nobody
  <2>2. to \subseteq {s \in Stream : Host[s] = i} OBVIOUS
  <2> HIDE DEF new, to
  <2>3. Begins(i) BY <2>0, <2>1, <2>2 DEF Begins, Typed, BusType, Nobody
  <2>4. \A j \in Instance \ {i} : Idles(j) BY <2>0 DEF Idles, Typed, BusType
  <2> QED BY <2>3, <2>4 DEF Serves
<1>10. ASSUME NEW i \in Instance, NEW s \in Stream, Hand(i, s) PROVE \A j \in Instance : Serves(j)
  <2> DEFINE new == IF handing[i].to = {s} THEN Nobody ELSE [item |-> handing[i].item, to |-> handing[i].to \ {s}]
  <2>0. handing' = [handing EXCEPT ![i] = new] /\ UNCHANGED wire BY <1>10 DEF Hand
  <2>1. new.to \subseteq handing[i].to /\ (new.to # {} => new.item = handing[i].item) BY DEF Nobody
  <2> HIDE DEF new
  <2>2. GoesOn(i) BY <2>0, <2>1 DEF GoesOn, Typed, BusType
  <2>3. \A j \in Instance \ {i} : Idles(j) BY <2>0 DEF Idles, Typed, BusType
  <2> QED BY <2>2, <2>3 DEF Serves
<1>11. ASSUME NEW s \in Stream, Authorize(s) PROVE \A j \in Instance : Serves(j)
  BY <1>11 DEF Authorize
<1>12. ASSUME NEW s \in Stream, NEW t \in Topic, SubscribeLocal(s, t) PROVE \A j \in Instance : Serves(j)
  BY <1>12 DEF SubscribeLocal
<1>13. ASSUME NEW s \in Stream, NEW t \in Topic, SubscribeBus(s, t) PROVE \A j \in Instance : Serves(j)
  BY <1>13 DEF SubscribeBus
<1>14. ASSUME NEW s \in Stream, Cancel(s) PROVE \A j \in Instance : Serves(j)
  BY <1>14 DEF Cancel
<1>15. ASSUME NEW s \in Stream, Stop(s) PROVE \A j \in Instance : Serves(j)
  BY <1>15 DEF Stop
<1>16. ASSUME NEW s \in Stream, HandleSignal(s) PROVE \A j \in Instance : Serves(j)
  BY <1>16 DEF HandleSignal
<1>17. ASSUME NEW s \in Stream, TakeValue(s) PROVE \A j \in Instance : Serves(j)
  BY <1>17 DEF TakeValue
<1>18. ASSUME NEW s \in Stream, Pass(s) PROVE \A j \in Instance : Serves(j)
  BY <1>18 DEF Pass
<1>19. ASSUME NEW s \in Stream, RecheckDue(s) PROVE \A j \in Instance : Serves(j)
  BY <1>19 DEF RecheckDue
<1>20. ASSUME NEW s \in Stream, SendOut(s) PROVE \A j \in Instance : Serves(j)
  BY <1>20 DEF SendOut
<1>21. ASSUME NEW s \in Stream, ClientReads(s) PROVE \A j \in Instance : Serves(j)
  BY <1>21 DEF ClientReads
<1>22. ASSUME NEW s \in Stream, NEW t \in Topic, UnsubscribeLocal(s, t) PROVE \A j \in Instance : Serves(j)
  BY <1>22 DEF UnsubscribeLocal
<1>23. ASSUME NEW s \in Stream, NEW t \in Topic, UnsubscribeBus(s, t) PROVE \A j \in Instance : Serves(j)
  BY <1>23 DEF UnsubscribeBus
<1>24. CASE UNCHANGED vars
  BY <1>24 DEF vars
<1> QED BY <1>1, <1>2, <1>3, <1>4, <1>5, <1>6, <1>7, <1>8, <1>9, <1>10, <1>11, <1>12, <1>13, <1>14,
       <1>15, <1>16, <1>17, <1>18, <1>19, <1>20, <1>21, <1>22, <1>23, <1>24
    DEF Next, Loop


\* Numbers are given out in order, and the instants of earlier values stay.
Newer ==
    /\ published' \in {published, published + 1}
    /\ \A n \in Number : n <= published => sentAt'[n] = sentAt[n]

LEMMA NextNewer ==
    ASSUME Typed, [Next]_vars
    PROVE  Newer
<1> USE DEF Newer
<1>1. CASE Tick
  BY <1>1 DEF Tick
<1>2. ASSUME NEW u \in User, LoseAccess(u) PROVE Newer
  BY <1>2 DEF LoseAccess
<1>3. ASSUME NEW u \in User, GainAccess(u) PROVE Newer
  BY <1>3 DEF GainAccess
<1>4. ASSUME NEW u \in User, PublishRoomAccessChanged(u) PROVE Newer
  BY <1>4 DEF PublishRoomAccessChanged
<1>5. ASSUME NEW u \in User, PublishFails(u) PROVE Newer
  BY <1>5 DEF PublishFails
<1>6. CASE Publish
  BY <1>6, Numbers DEF Publish, Typed, AccessType
<1>7. ASSUME NEW i \in Instance, RedisListens(i) PROVE Newer
  BY <1>7 DEF RedisListens
<1>8. ASSUME NEW i \in Instance, LoseConnection(i) PROVE Newer
  BY <1>8 DEF LoseConnection
<1>9. ASSUME NEW i \in Instance, Receive(i) PROVE Newer
  BY <1>9 DEF Receive
<1>10. ASSUME NEW i \in Instance, NEW s \in Stream, Hand(i, s) PROVE Newer
  BY <1>10 DEF Hand
<1>11. ASSUME NEW s \in Stream, Authorize(s) PROVE Newer
  BY <1>11 DEF Authorize
<1>12. ASSUME NEW s \in Stream, NEW t \in Topic, SubscribeLocal(s, t) PROVE Newer
  BY <1>12 DEF SubscribeLocal
<1>13. ASSUME NEW s \in Stream, NEW t \in Topic, SubscribeBus(s, t) PROVE Newer
  BY <1>13 DEF SubscribeBus
<1>14. ASSUME NEW s \in Stream, Cancel(s) PROVE Newer
  BY <1>14 DEF Cancel
<1>15. ASSUME NEW s \in Stream, Stop(s) PROVE Newer
  BY <1>15 DEF Stop
<1>16. ASSUME NEW s \in Stream, HandleSignal(s) PROVE Newer
  BY <1>16 DEF HandleSignal
<1>17. ASSUME NEW s \in Stream, TakeValue(s) PROVE Newer
  BY <1>17 DEF TakeValue
<1>18. ASSUME NEW s \in Stream, Pass(s) PROVE Newer
  BY <1>18 DEF Pass
<1>19. ASSUME NEW s \in Stream, RecheckDue(s) PROVE Newer
  BY <1>19 DEF RecheckDue
<1>20. ASSUME NEW s \in Stream, SendOut(s) PROVE Newer
  BY <1>20 DEF SendOut
<1>21. ASSUME NEW s \in Stream, ClientReads(s) PROVE Newer
  BY <1>21 DEF ClientReads
<1>22. ASSUME NEW s \in Stream, NEW t \in Topic, UnsubscribeLocal(s, t) PROVE Newer
  BY <1>22 DEF UnsubscribeLocal
<1>23. ASSUME NEW s \in Stream, NEW t \in Topic, UnsubscribeBus(s, t) PROVE Newer
  BY <1>23 DEF UnsubscribeBus
<1>24. CASE UNCHANGED vars
  BY <1>24 DEF vars
<1> QED BY <1>1, <1>2, <1>3, <1>4, <1>5, <1>6, <1>7, <1>8, <1>9, <1>10, <1>11, <1>12, <1>13, <1>14,
       <1>15, <1>16, <1>17, <1>18, <1>19, <1>20, <1>21, <1>22, <1>23, <1>24
    DEF Next, Loop


LEMMA WireFacts ==
    ASSUME Typed, NEW i \in Instance
    PROVE  wire[i] \in Seq(Item) /\ \A k \in DOMAIN wire[i] : wire[i][k].topic = "value" => wire[i][k].n \in Number
<1>1. wire[i] \in Seq(Item) BY DEF Typed, BusType
<1>2. ASSUME NEW k \in DOMAIN wire[i], wire[i][k].topic = "value" PROVE wire[i][k].n \in Number
  <2>1. wire[i][k] \in Item BY <1>1, <1>2
  <2> QED BY <1>2, <2>1, ItemFacts
<1> QED BY <1>1, <1>2

LEMMA HandingFacts ==
    ASSUME Typed, NEW i \in Instance, handing[i].to # {}, handing[i].item.topic = "value"
    PROVE  handing[i].item \in Item /\ handing[i].item.n \in Number /\ handing[i].to \subseteq Stream
  BY HandedFacts, ItemFacts DEF Typed

\* Only what has its topic is in a channel.
ChanRouted == \A s \in Stream : \A t \in Topic : \A k \in DOMAIN chan[s][t] : chan[s][t][k].topic = t

LEMMA SameChan == ChanRouted /\ UNCHANGED chan => ChanRouted'
  BY DEF ChanRouted

LEMMA NextChanRouted ==
    ASSUME Typed, ChanRouted, [Next]_vars
    PROVE  ChanRouted'
<1> USE SameChan DEF streamVars

<1>1. CASE Tick
  BY <1>1 DEF Tick
<1>2. ASSUME NEW u \in User, LoseAccess(u) PROVE ChanRouted'
  BY <1>2 DEF LoseAccess
<1>3. ASSUME NEW u \in User, GainAccess(u) PROVE ChanRouted'
  BY <1>3 DEF GainAccess
<1>4. ASSUME NEW u \in User, PublishRoomAccessChanged(u) PROVE ChanRouted'
  BY <1>4 DEF PublishRoomAccessChanged
<1>5. ASSUME NEW u \in User, PublishFails(u) PROVE ChanRouted'
  BY <1>5 DEF PublishFails
<1>6. CASE Publish
  BY <1>6 DEF Publish
<1>7. ASSUME NEW i \in Instance, RedisListens(i) PROVE ChanRouted'
  BY <1>7 DEF RedisListens
<1>8. ASSUME NEW i \in Instance, LoseConnection(i) PROVE ChanRouted'
  BY <1>8 DEF LoseConnection
<1>9. ASSUME NEW i \in Instance, Receive(i) PROVE ChanRouted'
  BY <1>9 DEF Receive
<1>10. ASSUME NEW i \in Instance, NEW s \in Stream, Hand(i, s) PROVE ChanRouted'
  <2> DEFINE item == handing[i].item
             t == item.topic
             put == t \in joined[s] /\ Fits(chan[s][t])
  <2>0. BusType /\ ChanType BY DEF Typed
  <2>1. item \in Item /\ t \in Topic BY <1>10, <2>0, HandedFacts, ItemFacts DEF Hand
  <2>2. CASE ~put BY <1>10, <2>2 DEF Hand
  <2>3. CASE put
    <3>1. chan[s][t] \in Seq(Item) BY <2>0, <2>1 DEF ChanType
    <3>2. chan' = [chan EXCEPT ![s][t] = Append(@, item)] BY <1>10, <2>3 DEF Hand
    <3> HIDE DEF t, item, put
    <3>3. /\ chan'[s][t] = Append(chan[s][t], item)
          /\ \A r \in Stream : \A u \in Topic : r # s \/ u # t => chan'[r][u] = chan[r][u]
      BY <2>0, <2>1, <3>2 DEF ChanType
    <3>4. \A k \in DOMAIN chan'[s][t] : chan'[s][t][k].topic = t
      <4>1. item.topic = t BY DEF t
      <4>2. \A k \in DOMAIN chan[s][t] : chan[s][t][k].topic = t BY <2>1 DEF ChanRouted
      <4> QED BY <2>1, <3>1, <3>3, <4>1, <4>2
    <3> QED BY <3>3, <3>4 DEF ChanRouted
  <2> QED BY <2>2, <2>3
<1>11. ASSUME NEW s \in Stream, Authorize(s) PROVE ChanRouted'
  BY <1>11 DEF Authorize
<1>12. ASSUME NEW s \in Stream, NEW t \in Topic, SubscribeLocal(s, t) PROVE ChanRouted'
  BY <1>12 DEF SubscribeLocal
<1>13. ASSUME NEW s \in Stream, NEW t \in Topic, SubscribeBus(s, t) PROVE ChanRouted'
  BY <1>13 DEF SubscribeBus
<1>14. ASSUME NEW s \in Stream, Cancel(s) PROVE ChanRouted'
  BY <1>14 DEF Cancel
<1>15. ASSUME NEW s \in Stream, Stop(s) PROVE ChanRouted'
  BY <1>15 DEF Stop
<1>16. ASSUME NEW s \in Stream, HandleSignal(s) PROVE ChanRouted'
  <2>0. ChanType /\ "access" \in Topic BY DEF Typed, Topic
  <2>1. /\ chan'[s]["access"] = Tail(chan[s]["access"])
        /\ \A r \in Stream : \A u \in Topic : r # s \/ u # "access" => chan'[r][u] = chan[r][u]
    BY <1>16, <2>0 DEF HandleSignal, ChanType
  <2>2. chan[s]["access"] # <<>> BY <1>16 DEF HandleSignal
  <2>3. \A k \in DOMAIN chan'[s]["access"] : chan'[s]["access"][k].topic = "access"
    BY <2>0, <2>1, <2>2, TailShape DEF ChanRouted, ChanType
  <2>4. ASSUME NEW r \in Stream, NEW u \in Topic, NEW k \in DOMAIN chan'[r][u] PROVE chan'[r][u][k].topic = u
    <3>1. CASE r = s /\ u = "access" BY <2>3, <2>4, <3>1
    <3>2. CASE r # s \/ u # "access"
      <4>1. chan'[r][u] = chan[r][u] BY <2>1, <3>2
      <4> QED BY <2>4, <4>1 DEF ChanRouted
    <3> QED BY <3>1, <3>2
  <2> QED BY <2>4 DEF ChanRouted
<1>17. ASSUME NEW s \in Stream, TakeValue(s) PROVE ChanRouted'
  <2>0. ChanType /\ "value" \in Topic BY DEF Typed, Topic
  <2>1. /\ chan'[s]["value"] = Tail(chan[s]["value"])
        /\ \A r \in Stream : \A u \in Topic : r # s \/ u # "value" => chan'[r][u] = chan[r][u]
    BY <1>17, <2>0 DEF TakeValue, ChanType
  <2>2. chan[s]["value"] # <<>> BY <1>17 DEF TakeValue
  <2>3. \A k \in DOMAIN chan'[s]["value"] : chan'[s]["value"][k].topic = "value"
    BY <2>0, <2>1, <2>2, TailShape DEF ChanRouted, ChanType
  <2>4. ASSUME NEW r \in Stream, NEW u \in Topic, NEW k \in DOMAIN chan'[r][u] PROVE chan'[r][u][k].topic = u
    <3>1. CASE r = s /\ u = "value" BY <2>3, <2>4, <3>1
    <3>2. CASE r # s \/ u # "value"
      <4>1. chan'[r][u] = chan[r][u] BY <2>1, <3>2
      <4> QED BY <2>4, <4>1 DEF ChanRouted
    <3> QED BY <3>1, <3>2
  <2> QED BY <2>4 DEF ChanRouted
<1>18. ASSUME NEW s \in Stream, Pass(s) PROVE ChanRouted'
  BY <1>18 DEF Pass
<1>19. ASSUME NEW s \in Stream, RecheckDue(s) PROVE ChanRouted'
  BY <1>19 DEF RecheckDue
<1>20. ASSUME NEW s \in Stream, SendOut(s) PROVE ChanRouted'
  BY <1>20 DEF SendOut
<1>21. ASSUME NEW s \in Stream, ClientReads(s) PROVE ChanRouted'
  BY <1>21 DEF ClientReads
<1>22. ASSUME NEW s \in Stream, NEW t \in Topic, UnsubscribeLocal(s, t) PROVE ChanRouted'
  <2>1. /\ chan'[s][t] = <<>>
        /\ \A r \in Stream : \A u \in Topic : r # s \/ u # t => chan'[r][u] = chan[r][u]
    BY <1>22 DEF UnsubscribeLocal, Typed, ChanType
  <2> QED BY <2>1 DEF ChanRouted
<1>23. ASSUME NEW s \in Stream, NEW t \in Topic, UnsubscribeBus(s, t) PROVE ChanRouted'
  BY <1>23 DEF UnsubscribeBus
<1>24. CASE UNCHANGED vars
  BY <1>24 DEF vars
<1> QED BY <1>1, <1>2, <1>3, <1>4, <1>5, <1>6, <1>7, <1>8, <1>9, <1>10, <1>11, <1>12, <1>13, <1>14,
       <1>15, <1>16, <1>17, <1>18, <1>19, <1>20, <1>21, <1>22, <1>23, <1>24
    DEF Next, Loop


LEMMA NextRouted ==
    ASSUME Typed, Routed, [Next]_vars
    PROVE  Routed'
<1>1. ASSUME NEW i \in Instance, NEW s \in handing'[i].to PROVE Host[s] = i
  <2>1. Serves(i) BY NextServes
  <2> QED BY <1>1, <2>1 DEF Serves, Idles, Loses, Hears, Begins, GoesOn, Routed
<1>2. ChanRouted' BY NextChanRouted DEF Routed, ChanRouted
<1> QED BY <1>1, <1>2 DEF Routed, ChanRouted

LEMMA NextHoldsOne ==
    ASSUME Typed, Routed, HoldsOne, [Next]_vars
    PROVE  HoldsOne'
<1> USE DEF HoldsOne, streamVars
<1>1. CASE Tick
  BY <1>1 DEF Tick
<1>2. ASSUME NEW u \in User, LoseAccess(u) PROVE HoldsOne'
  BY <1>2 DEF LoseAccess
<1>3. ASSUME NEW u \in User, GainAccess(u) PROVE HoldsOne'
  BY <1>3 DEF GainAccess
<1>4. ASSUME NEW u \in User, PublishRoomAccessChanged(u) PROVE HoldsOne'
  BY <1>4 DEF PublishRoomAccessChanged
<1>5. ASSUME NEW u \in User, PublishFails(u) PROVE HoldsOne'
  BY <1>5 DEF PublishFails
<1>6. CASE Publish
  BY <1>6 DEF Publish
<1>7. ASSUME NEW i \in Instance, RedisListens(i) PROVE HoldsOne'
  BY <1>7 DEF RedisListens
<1>8. ASSUME NEW i \in Instance, LoseConnection(i) PROVE HoldsOne'
  BY <1>8 DEF LoseConnection
<1>9. ASSUME NEW i \in Instance, Receive(i) PROVE HoldsOne'
  BY <1>9 DEF Receive
<1>10. ASSUME NEW i \in Instance, NEW s \in Stream, Hand(i, s) PROVE HoldsOne'
  BY <1>10 DEF Hand
<1>11. ASSUME NEW s \in Stream, Authorize(s) PROVE HoldsOne'
  BY <1>11 DEF Authorize, Typed, LoopType
<1>12. ASSUME NEW s \in Stream, NEW t \in Topic, SubscribeLocal(s, t) PROVE HoldsOne'
  BY <1>12 DEF SubscribeLocal
<1>13. ASSUME NEW s \in Stream, NEW t \in Topic, SubscribeBus(s, t) PROVE HoldsOne'
  BY <1>13 DEF SubscribeBus, Typed, LoopType
<1>14. ASSUME NEW s \in Stream, Cancel(s) PROVE HoldsOne'
  BY <1>14 DEF Cancel
<1>15. ASSUME NEW s \in Stream, Stop(s) PROVE HoldsOne'
  BY <1>15 DEF Stop, Typed, LoopType
<1>16. ASSUME NEW s \in Stream, HandleSignal(s) PROVE HoldsOne'
  BY <1>16 DEF HandleSignal, Recheck, Typed, LoopType
<1>17. ASSUME NEW s \in Stream, TakeValue(s) PROVE HoldsOne'
  <2>1. Head(chan[s]["value"]).n # 0 BY <1>17, HeadValue, Numbers DEF TakeValue, Queue, Typed
  <2> QED BY <1>17, <2>1 DEF TakeValue, Typed, LoopType
<1>18. ASSUME NEW s \in Stream, Pass(s) PROVE HoldsOne'
  BY <1>18 DEF Pass, Typed, LoopType
<1>19. ASSUME NEW s \in Stream, RecheckDue(s) PROVE HoldsOne'
  BY <1>19 DEF RecheckDue, Typed, LoopType
<1>20. ASSUME NEW s \in Stream, SendOut(s) PROVE HoldsOne'
  BY <1>20 DEF SendOut, Typed, LoopType
<1>21. ASSUME NEW s \in Stream, ClientReads(s) PROVE HoldsOne'
  BY <1>21 DEF ClientReads
<1>22. ASSUME NEW s \in Stream, NEW t \in Topic, UnsubscribeLocal(s, t) PROVE HoldsOne'
  BY <1>22 DEF UnsubscribeLocal
<1>23. ASSUME NEW s \in Stream, NEW t \in Topic, UnsubscribeBus(s, t) PROVE HoldsOne'
  BY <1>23 DEF UnsubscribeBus, Typed, LoopType
<1>24. CASE UNCHANGED vars
  BY <1>24 DEF vars
<1> QED BY <1>1, <1>2, <1>3, <1>4, <1>5, <1>6, <1>7, <1>8, <1>9, <1>10, <1>11, <1>12, <1>13, <1>14,
       <1>15, <1>16, <1>17, <1>18, <1>19, <1>20, <1>21, <1>22, <1>23, <1>24
    DEF Next, Loop


(* The order of the values is kept. *)

LEMMA Successor == \A p \in Nat : p + 1 \in Nat /\ p + 1 > 0
  OBVIOUS

\* p is q with x at its end.
Appended(p, q, x) ==
    \A k \in DOMAIN p : (k \in DOMAIN q /\ p[k] = q[k]) \/ (k = Len(q) + 1 /\ p[k] = x)

LEMMA AppendShape ==
    ASSUME NEW S, NEW q \in Seq(S), NEW x \in S
    PROVE  Appended(Append(q, x), q, x)
  BY DEF Appended

LEMMA NextInQueues ==
    ASSUME Typed, Routed, HoldsOne, InQueues, OnTheWire, [Next]_vars
    PROVE  InQueues'
<1> SUFFICES ASSUME NEW s \in Stream
             PROVE  (/\ \A j, k \in DOMAIN Sent(s) : j < k => Sent(s)[j] < Sent(s)[k]
                     /\ held[s] # 0 => \A j \in DOMAIN Sent(s) : Sent(s)[j] < held[s]
                     /\ \A k \in DOMAIN Queue(s) :
                           /\ held[s] < Queue(s)[k].n
                           /\ \A j \in DOMAIN Sent(s) : Sent(s)[j] < Queue(s)[k].n
                           /\ \A j \in DOMAIN Queue(s) : j < k => Queue(s)[j].n < Queue(s)[k].n
                     /\ Behind(s, published + 1))'
  BY DEF InQueues
<1> DEFINE here == handing[Host[s]]
<1>0. Moves(s) /\ Newer /\ Host[s] \in Instance BY NextMoves, NextNewer, SubscriptionsAssumption
<1>1. /\ Sent(s) \in Seq(Number) /\ held[s] \in Nat
      /\ Queue(s) \in Seq(Item) /\ \A k \in DOMAIN Queue(s) : Queue(s)[k].n \in Nat /\ Queue(s)[k].n > 0
      /\ \A k \in DOMAIN Sent(s) : Sent(s)[k] \in Nat
  BY StreamFacts, Numbers
<1>2. published \in Nat /\ published' \in Nat /\ published <= published' BY <1>0, Numbers DEF Typed, AccessType, Newer
<1>3. ASSUME Gets(s) PROVE here.item.n \in Nat /\ here.item.n <= published /\ Behind(s, here.item.n) /\ here.item \in Item
  BY <1>0, <1>3, HandingFacts, Numbers DEF Gets, OnTheWire
<1>4. Behind(s, published' + 1)
  BY <1>1, <1>2 DEF InQueues, Behind
<1>5. Behind(s, published + 1)'
  <2> PICK n \in Nat : n = published' + 1 BY <1>2, Successor, Zenon
  <2>1. n > 0 /\ Behind(s, n) BY <1>2, <1>4, Successor, Zenon
  <2>2. Gets(s) => here.item.n < n BY <1>2, <1>3
  <2>3. Behind(s, n)' BY <1>0, <2>1, <2>2, BehindStays
  <2> QED BY <2>3 DEF Behind
<1>6. CASE Rests(s) \/ Drops(s) \/ Clears(s)
  BY <1>1, <1>5, <1>6 DEF Rests, Drops, Clears, InQueues
<1>7. CASE Takes(s)
  <2>1. Sent(s)' = Sent(s) /\ held'[s] = Queue(s)[1].n /\ Queue(s)' = Tail(Queue(s)) /\ 1 \in DOMAIN Queue(s)
    BY <1>1, <1>7 DEF Takes
  <2>2. \A k \in DOMAIN Queue(s)' : k + 1 \in DOMAIN Queue(s) /\ Queue(s)'[k] = Queue(s)[k + 1] /\ k \in Nat /\ k >= 1
    BY <1>1, <1>7, <2>1
  <2>3. \A k \in DOMAIN Queue(s)' : /\ held'[s] < Queue(s)'[k].n
                                     /\ \A j \in DOMAIN Sent(s)' : Sent(s)'[j] < Queue(s)'[k].n
    BY <1>1, <2>1, <2>2 DEF InQueues
  <2>4. ASSUME NEW j \in DOMAIN Queue(s)', NEW k \in DOMAIN Queue(s)', j < k PROVE Queue(s)'[j].n < Queue(s)'[k].n
    <3>1. j + 1 \in DOMAIN Queue(s) /\ k + 1 \in DOMAIN Queue(s) /\ j + 1 < k + 1 BY <2>2, <2>4
    <3>2. Queue(s)[j + 1].n < Queue(s)[k + 1].n BY <3>1 DEF InQueues
    <3> QED BY <2>2, <3>2
  <2>5. \A j \in DOMAIN Sent(s)' : Sent(s)'[j] < held'[s] BY <2>1 DEF InQueues
  <2>6. \A j, k \in DOMAIN Sent(s)' : j < k => Sent(s)'[j] < Sent(s)'[k] BY <2>1 DEF InQueues
  <2> QED BY <1>5, <2>3, <2>4, <2>5, <2>6
<1>8. CASE Sends(s)
  <2>1. Sent(s)' = Append(Sent(s), held[s]) /\ held'[s] = 0 /\ Queue(s)' = Queue(s) /\ held[s] # 0
    BY <1>8, Numbers DEF Sends
  <2>2. Appended(Sent(s)', Sent(s), held[s]) BY <1>1, <1>8, <2>1, AppendShape DEF Sends
  <2>3. \A j, k \in DOMAIN Sent(s)' : j < k => Sent(s)'[j] < Sent(s)'[k]
    BY <1>1, <2>1, <2>2 DEF InQueues, Appended
  <2> QED BY <1>1, <1>5, <2>1, <2>2, <2>3 DEF InQueues, Appended
<1>9. CASE Gets(s)
  <2>1. Queue(s)' = Append(Queue(s), here.item) /\ Sent(s)' = Sent(s) /\ held'[s] = held[s]
    BY <1>9 DEF Gets
  <2>2. Appended(Queue(s)', Queue(s), here.item) BY <1>1, <1>3, <1>9, <2>1, AppendShape
  <2>3. \A k \in DOMAIN Queue(s)' : /\ held'[s] < Queue(s)'[k].n
                                     /\ \A j \in DOMAIN Sent(s)' : Sent(s)'[j] < Queue(s)'[k].n
    BY <1>1, <1>3, <1>9, <2>1, <2>2 DEF InQueues, Appended, Behind
  <2>4. \A j, k \in DOMAIN Queue(s)' : j < k => Queue(s)'[j].n < Queue(s)'[k].n
    BY <1>1, <1>3, <1>9, <2>1, <2>2 DEF InQueues, Appended, Behind
  <2> QED BY <1>1, <1>5, <2>1, <2>3, <2>4 DEF InQueues, Appended
<1> QED BY <1>0, <1>6, <1>7, <1>8, <1>9 DEF Moves

\* What a server will still hand out stays ahead of its streams.
LEMMA WireStaysAhead ==
    ASSUME Typed, Routed, HoldsOne, OnTheWire, [Next]_vars, NEW i \in Instance, NEW k \in DOMAIN wire[i],
           wire[i][k].topic = "value", NEW s \in Stream, Host[s] = i
    PROVE  \A n \in Nat : n = wire[i][k].n => Behind(s, n)'
<1> SUFFICES ASSUME NEW n \in Nat, n = wire[i][k].n PROVE Behind(s, n)'
  OBVIOUS
<1>1. Moves(s) /\ Behind(s, n) /\ n > 0 BY NextMoves, WireFacts, Numbers DEF OnTheWire
<1>2. Gets(s) => handing[i].item.n < n BY DEF OnTheWire, Gets
<1> QED BY <1>1, <1>2, BehindStays

\* So does what it is handing out.
LEMMA HandingStaysAhead ==
    ASSUME Typed, Routed, HoldsOne, OnTheWire, [Next]_vars, NEW i \in Instance, NEW s \in handing[i].to,
           s \in handing'[i].to, handing[i].item.topic = "value"
    PROVE  \A n \in Nat : n = handing[i].item.n => Behind(s, n)'
<1> SUFFICES ASSUME NEW n \in Nat, n = handing[i].item.n PROVE Behind(s, n)'
  OBVIOUS
<1>1. s \in Stream /\ Host[s] = i /\ n > 0 BY HandingFacts, Numbers DEF Routed
<1>2. Moves(s) /\ Behind(s, n) /\ ~Gets(s) BY <1>1, NextMoves DEF OnTheWire, Gets
<1> QED BY <1>1, <1>2, BehindStays

\* Numbers of items on the wire are kept in order.
WireOk(i) ==
    \A k \in DOMAIN wire[i] : wire[i][k].topic = "value" =>
        /\ wire[i][k].n <= published
        /\ \A j \in DOMAIN wire[i] : j < k /\ wire[i][j].topic = "value" => wire[i][j].n < wire[i][k].n

WireAhead(i) ==
    \A k \in DOMAIN wire[i] : wire[i][k].topic = "value" => \A s \in Stream : Host[s] = i => Behind(s, wire[i][k].n)

HandingFirst(i) ==
    \A k \in DOMAIN wire[i] : wire[i][k].topic = "value" =>
        (handing[i].to # {} /\ handing[i].item.topic = "value" => handing[i].item.n < wire[i][k].n)

HandingAhead(i) ==
    \A s \in handing[i].to : handing[i].item.topic = "value" =>
        handing[i].item.n <= published /\ Behind(s, handing[i].item.n)

LEMMA OnTheWireParts ==
    OnTheWire <=> \A i \in Instance : WireOk(i) /\ WireAhead(i) /\ HandingFirst(i) /\ HandingAhead(i)
  BY DEF OnTheWire, WireOk, WireAhead, HandingFirst, HandingAhead

\* A value that is new is ahead of all streams.
LEMMA NewStaysAhead ==
    ASSUME Typed, Routed, HoldsOne, InQueues, OnTheWire, [Next]_vars, NEW s \in Stream
    PROVE  \A n \in Nat : n = published + 1 => Behind(s, n)'
<1> SUFFICES ASSUME NEW n \in Nat, n = published + 1 PROVE Behind(s, n)'
  OBVIOUS
<1>1. published \in Nat /\ Host[s] \in Instance BY Numbers, SubscriptionsAssumption DEF Typed, AccessType
<1>2. Moves(s) /\ Behind(s, n) /\ n > 0 BY <1>1, NextMoves DEF InQueues
<1>3. Gets(s) => handing[Host[s]].item.n < n
  BY <1>1, HandingFacts, Numbers DEF OnTheWire, Gets
<1> QED BY <1>2, <1>3, BehindStays

LEMMA NextOnTheWire ==
    ASSUME Typed, Refs, Routed, HoldsOne, InQueues, OnTheWire, [Next]_vars
    PROVE  OnTheWire'
<1> SUFFICES ASSUME NEW i \in Instance
             PROVE  WireOk(i)' /\ WireAhead(i)' /\ HandingFirst(i)' /\ HandingAhead(i)'
  BY DEF OnTheWire, WireOk, WireAhead, HandingFirst, HandingAhead
<1>0. Newer /\ Serves(i) /\ published \in Nat /\ published' \in Nat /\ published <= published'
  BY NextNewer, NextServes, Numbers DEF Newer, Typed, AccessType
<1>1. WireOk(i) /\ WireAhead(i) /\ HandingFirst(i) /\ HandingAhead(i) BY OnTheWireParts
<1>2. /\ wire[i] \in Seq(Item)
      /\ \A k \in DOMAIN wire[i] : wire[i][k].topic = "value" => wire[i][k].n \in Nat
  BY WireFacts, Numbers
<1>3. handing[i].to # {} /\ handing[i].item.topic = "value" =>
         handing[i].item.n \in Nat /\ handing[i].item.n <= published /\ handing[i].to \subseteq Stream
  BY <1>1, HandingFacts, Numbers DEF HandingAhead
<1>4. CASE GoesOn(i) \/ Idles(i)
  <2>1. /\ wire'[i] = wire[i] /\ handing'[i].to \subseteq handing[i].to
        /\ handing'[i].to # {} => handing'[i].item = handing[i].item
    BY <1>4 DEF GoesOn, Idles
  <2>2. WireOk(i)' BY <1>0, <1>1, <1>2, <2>1 DEF WireOk
  <2>3. WireAhead(i)'
    <3> SUFFICES ASSUME NEW k \in DOMAIN wire[i], wire[i][k].topic = "value", NEW s \in Stream, Host[s] = i
                 PROVE  Behind(s, wire[i][k].n)'
      BY <2>1 DEF WireAhead
    <3> PICK n \in Nat : n = wire[i][k].n BY <1>2
    <3>1. Behind(s, n)' BY WireStaysAhead
    <3> QED BY <2>1, <3>1 DEF Behind
  <2>4. HandingFirst(i)' BY <1>1, <2>1 DEF HandingFirst
  <2>5. HandingAhead(i)'
    <3> SUFFICES ASSUME NEW s \in handing'[i].to, handing'[i].item.topic = "value"
                 PROVE  handing'[i].item.n <= published' /\ Behind(s, handing[i].item.n)'
      BY DEF HandingAhead
    <3>1. s \in handing[i].to /\ handing'[i].item = handing[i].item BY <2>1
    <3> PICK n \in Nat : n = handing[i].item.n BY <1>3, <3>1
    <3>2. Behind(s, n)' BY <3>1, HandingStaysAhead
    <3>3. handing'[i].item.n <= published' BY <1>0, <1>3, <3>1
    <3> QED BY <3>1, <3>2, <3>3 DEF Behind
  <2> QED BY <2>2, <2>3, <2>4, <2>5
<1>5. CASE Loses(i)
  <2>1. DOMAIN wire'[i] = {} /\ handing'[i] = handing[i] BY <1>5 DEF Loses
  <2>2. HandingAhead(i)'
    <3> SUFFICES ASSUME NEW s \in handing[i].to, handing[i].item.topic = "value"
                 PROVE  handing[i].item.n <= published' /\ Behind(s, handing[i].item.n)'
      BY <2>1 DEF HandingAhead
    <3> PICK n \in Nat : n = handing[i].item.n BY <1>3
    <3>1. Behind(s, n)' BY <2>1, HandingStaysAhead
    <3> QED BY <1>0, <1>3, <2>1, <3>1 DEF Behind
  <2> QED BY <2>1, <2>2 DEF WireOk, WireAhead, HandingFirst
<1>6. CASE Hears(i)
  <2> PICK item \in Item : /\ wire'[i] = Append(wire[i], item)
                           /\ item.topic = "value" => item.n = published + 1 /\ published' = published + 1
    BY <1>6 DEF Hears
  <2>1. handing'[i] = handing[i] BY <1>6 DEF Hears
  <2>2. Appended(wire'[i], wire[i], item) BY <1>2, AppendShape
  <2>3. WireOk(i)' BY <1>0, <1>1, <1>2, <2>2 DEF WireOk, Appended
  <2>4. WireAhead(i)'
    <3> SUFFICES ASSUME NEW k \in DOMAIN wire'[i], wire'[i][k].topic = "value", NEW s \in Stream, Host[s] = i
                 PROVE  Behind(s, wire[i][k].n)'
      BY DEF WireAhead
    <3>1. CASE k \in DOMAIN wire[i] /\ wire'[i][k] = wire[i][k]
      <4> PICK n \in Nat : n = wire[i][k].n BY <1>2, <3>1
      <4>1. Behind(s, n)' BY <3>1, WireStaysAhead
      <4> QED BY <3>1, <4>1 DEF Behind
    <3>2. CASE wire'[i][k] = item
      <4> PICK n \in Nat : n = published + 1 BY <1>0
      <4>1. Behind(s, n)' BY NewStaysAhead
      <4> QED BY <3>2, <4>1 DEF Behind
    <3> QED BY <2>2, <3>1, <3>2 DEF Appended
  <2>5. HandingFirst(i)' BY <1>0, <1>1, <1>3, <2>1, <2>2 DEF HandingFirst, Appended
  <2>6. HandingAhead(i)'
    <3> SUFFICES ASSUME NEW s \in handing[i].to, handing[i].item.topic = "value"
                 PROVE  handing[i].item.n <= published' /\ Behind(s, handing[i].item.n)'
      BY <2>1 DEF HandingAhead
    <3> PICK n \in Nat : n = handing[i].item.n BY <1>3
    <3>1. Behind(s, n)' BY <2>1, HandingStaysAhead
    <3> QED BY <1>0, <1>3, <2>1, <3>1 DEF Behind
  <2> QED BY <2>3, <2>4, <2>5, <2>6
<1>7. CASE Begins(i)
  <2>1. wire[i] # <<>> /\ handing[i].to = {} /\ wire'[i] = Tail(wire[i]) BY <1>7 DEF Begins
  <2>2. 1 \in DOMAIN wire[i] /\ Head(wire[i]) = wire[i][1] BY <1>2, <2>1
  <2>3. \A k \in DOMAIN wire'[i] : k \in Nat /\ k >= 1 /\ k + 1 \in DOMAIN wire[i] /\ wire'[i][k] = wire[i][k + 1]
    BY <1>2, <2>1
  <2>4. /\ handing'[i].to # {} => handing'[i].item = wire[i][1]
        /\ \A s \in handing'[i].to : s \in Stream /\ Host[s] = i
    BY <1>7, <2>2 DEF Begins
  <2>5. WireOk(i)'
    <3>1. ASSUME NEW k \in DOMAIN wire'[i], wire'[i][k].topic = "value" PROVE wire'[i][k].n <= published'
      BY <1>0, <1>1, <1>2, <2>3, <3>1 DEF WireOk
    <3>2. ASSUME NEW j \in DOMAIN wire'[i], NEW k \in DOMAIN wire'[i], j < k,
                 wire'[i][j].topic = "value", wire'[i][k].topic = "value"
          PROVE  wire'[i][j].n < wire'[i][k].n
      <4>1. j + 1 \in DOMAIN wire[i] /\ k + 1 \in DOMAIN wire[i] /\ j + 1 < k + 1 BY <2>3, <3>2
      <4>2. wire[i][j + 1].topic = "value" /\ wire[i][k + 1].topic = "value" BY <2>3, <3>2
      <4>3. wire[i][j + 1].n < wire[i][k + 1].n BY <1>1, <4>1, <4>2 DEF WireOk
      <4> QED BY <2>3, <4>3
    <3> QED BY <3>1, <3>2 DEF WireOk
  <2>6. WireAhead(i)'
    <3> SUFFICES ASSUME NEW k \in DOMAIN wire'[i], wire'[i][k].topic = "value", NEW s \in Stream, Host[s] = i
                 PROVE  Behind(s, wire[i][k].n)'
      BY DEF WireAhead
    <3> PICK n \in Nat : n = wire[i][k + 1].n BY <1>2, <2>3
    <3>1. Behind(s, n)' BY <2>3, WireStaysAhead
    <3> QED BY <2>3, <3>1 DEF Behind
  <2>7. HandingFirst(i)' BY <1>1, <1>2, <2>2, <2>3, <2>4 DEF HandingFirst, WireOk
  <2>8. HandingAhead(i)'
    <3> SUFFICES ASSUME NEW s \in handing'[i].to, handing'[i].item.topic = "value"
                 PROVE  handing'[i].item.n <= published' /\ Behind(s, handing[i].item.n)'
      BY DEF HandingAhead
    <3>1. handing'[i].item = wire[i][1] /\ s \in Stream /\ Host[s] = i BY <2>4
    <3> PICK n \in Nat : n = wire[i][1].n BY <1>2, <2>2, <3>1
    <3>2. Behind(s, n)' BY <2>2, <3>1, WireStaysAhead
    <3>3. handing'[i].item.n <= published' BY <1>0, <1>1, <1>2, <2>2, <3>1 DEF WireOk
    <3> QED BY <3>1, <3>2, <3>3 DEF Behind
  <2> QED BY <2>5, <2>6, <2>7, <2>8
<1> QED BY <1>0, <1>4, <1>5, <1>6, <1>7 DEF Serves

-----------------------------------------------------------------------------
(* Checks and time. *)

LEMMA TimeFacts ==
    ASSUME Typed, HoldsOne, InQueues
    PROVE  /\ clock \in Nat /\ published \in Nat
           /\ \A n \in Number : sentAt[n] \in Nat
           /\ \A u \in User : lostAt[u] \in Nat
           /\ \A s \in Stream : /\ lastChecked[s] \in Nat /\ startedAt[s] \in Nat /\ Owner[s] \in User
                                /\ stage[s] \in {"hold", "send"} => held[s] \in Number /\ held[s] <= published
<1>1. /\ clock \in Nat /\ published \in Nat
      /\ \A n \in Number : sentAt[n] \in Nat
      /\ \A u \in User : lostAt[u] \in Nat
  BY Numbers DEF Typed, AccessType
<1>2. ASSUME NEW s \in Stream
      PROVE  lastChecked[s] \in Nat /\ startedAt[s] \in Nat /\ Owner[s] \in User
  BY <1>2, Numbers, SubscriptionsAssumption DEF Typed, LoopType
<1>3. ASSUME NEW s \in Stream, stage[s] \in {"hold", "send"}
      PROVE  held[s] \in Number /\ held[s] <= published
  <2>1. held[s] \in 0..MaxPublished /\ held[s] # 0 /\ held[s] < published + 1
    BY <1>3 DEF Typed, LoopType, HoldsOne, InQueues, Behind
  <2> QED BY <1>1, <2>1, Numbers DEF Number
<1> QED BY <1>1, <1>2, <1>3

LEMMA SameTimely == Timely /\ UNCHANGED <<clock, sentAt, member, lostAt, held, stage, lastChecked, startedAt>> => Timely'
  BY DEF Timely

LEMMA NextTimely ==
    ASSUME Typed, HoldsOne, InQueues, Timely, [Next]_vars
    PROVE  Timely'
<1> USE SameTimely, TimeFacts, Numbers DEF accessVars, streamVars

<1>1. CASE Tick
  BY <1>1 DEF Tick, Timely, Typed, AccessType
<1>2. ASSUME NEW u \in User, LoseAccess(u) PROVE Timely'
  BY <1>2 DEF LoseAccess, Timely, Typed, AccessType
<1>3. ASSUME NEW u \in User, GainAccess(u) PROVE Timely'
  BY <1>3 DEF GainAccess, Timely, Typed, AccessType
<1>4. ASSUME NEW u \in User, PublishRoomAccessChanged(u) PROVE Timely'
  BY <1>4 DEF PublishRoomAccessChanged
<1>5. ASSUME NEW u \in User, PublishFails(u) PROVE Timely'
  BY <1>5 DEF PublishFails
<1>6. CASE Publish
  BY <1>6 DEF Publish, Timely, Typed, AccessType
<1>7. ASSUME NEW i \in Instance, RedisListens(i) PROVE Timely'
  BY <1>7 DEF RedisListens
<1>8. ASSUME NEW i \in Instance, LoseConnection(i) PROVE Timely'
  BY <1>8 DEF LoseConnection
<1>9. ASSUME NEW i \in Instance, Receive(i) PROVE Timely'
  BY <1>9 DEF Receive
<1>10. ASSUME NEW i \in Instance, NEW s \in Stream, Hand(i, s) PROVE Timely'
  BY <1>10 DEF Hand
<1>11. ASSUME NEW s \in Stream, Authorize(s) PROVE Timely'
  BY <1>11 DEF Authorize, Timely, Typed, LoopType
<1>12. ASSUME NEW s \in Stream, NEW t \in Topic, SubscribeLocal(s, t) PROVE Timely'
  BY <1>12 DEF SubscribeLocal
<1>13. ASSUME NEW s \in Stream, NEW t \in Topic, SubscribeBus(s, t) PROVE Timely'
  <2>1. CASE t = "access"
    <3>1. /\ stage' = [stage EXCEPT ![s] = "listen"] /\ lastChecked' = [lastChecked EXCEPT ![s] = clock]
          /\ startedAt' = [startedAt EXCEPT ![s] = clock] /\ UNCHANGED <<clock, sentAt, member, lostAt, held>>
      BY <1>13, <2>1 DEF SubscribeBus
    <3>2. ASSUME NEW r \in Stream
          PROVE  /\ lastChecked'[r] <= clock
                 /\ stage'[r] = "send" => sentAt[held[r]] < lastChecked'[r] + Interval
                 /\ Owner[r] \notin member => lastChecked'[r] <= lostAt[Owner[r]] \/ lastChecked'[r] = startedAt'[r]
      <4>1. CASE r = s
        <5>1. lastChecked'[r] = clock /\ startedAt'[r] = clock /\ stage'[r] = "listen"
          BY <3>1, <4>1 DEF Typed, LoopType
        <5> QED BY <5>1
      <4>2. CASE r # s
        <5>1. lastChecked'[r] = lastChecked[r] /\ startedAt'[r] = startedAt[r] /\ stage'[r] = stage[r]
          BY <3>1, <4>2 DEF Typed, LoopType
        <5> QED BY <5>1 DEF Timely
      <4> QED BY <4>1, <4>2
    <3> QED BY <3>1, <3>2 DEF Timely
  <2>2. CASE t # "access" BY <1>13, <2>2 DEF SubscribeBus
  <2> QED BY <2>1, <2>2
<1>14. ASSUME NEW s \in Stream, Cancel(s) PROVE Timely'
  BY <1>14 DEF Cancel
<1>15. ASSUME NEW s \in Stream, Stop(s) PROVE Timely'
  BY <1>15 DEF Stop, Timely, Typed, LoopType
<1>16. ASSUME NEW s \in Stream, HandleSignal(s) PROVE Timely'
  <2>1. CASE /\ Owner[s] \in member /\ lastChecked' = [lastChecked EXCEPT ![s] = clock] /\ UNCHANGED <<stage, held>>
    BY <1>16, <2>1 DEF HandleSignal, Timely, Typed, LoopType
  <2>2. CASE /\ stage' = [stage EXCEPT ![s] = "ending"] /\ held' = [held EXCEPT ![s] = 0] /\ UNCHANGED lastChecked
    BY <1>16, <2>2 DEF HandleSignal, Timely, Typed, LoopType
  <2>3. CASE UNCHANGED <<stage, held, lastChecked>> BY <1>16, <2>3 DEF HandleSignal
  <2> QED BY <1>16, <2>1, <2>2, <2>3 DEF HandleSignal, Recheck
<1>17. ASSUME NEW s \in Stream, TakeValue(s) PROVE Timely'
  BY <1>17 DEF TakeValue, Timely, Typed, LoopType
<1>18. ASSUME NEW s \in Stream, Pass(s) PROVE Timely'
  BY <1>18 DEF Pass, Due, Timely, Typed, LoopType
<1>19. ASSUME NEW s \in Stream, RecheckDue(s) PROVE Timely'
  <2>1. CASE /\ Owner[s] \in member /\ lastChecked' = [lastChecked EXCEPT ![s] = clock]
             /\ stage' = [stage EXCEPT ![s] = "send"] /\ UNCHANGED held
    BY <1>19, <2>1 DEF RecheckDue, Timely, Typed, LoopType
  <2>2. CASE /\ stage' = [stage EXCEPT ![s] = "ending"] /\ held' = [held EXCEPT ![s] = 0] /\ UNCHANGED lastChecked
    BY <1>19, <2>2 DEF RecheckDue, Timely, Typed, LoopType
  <2> QED BY <1>19, <2>1, <2>2 DEF RecheckDue
<1>20. ASSUME NEW s \in Stream, SendOut(s) PROVE Timely'
  BY <1>20 DEF SendOut, Timely, Typed, LoopType
<1>21. ASSUME NEW s \in Stream, ClientReads(s) PROVE Timely'
  BY <1>21 DEF ClientReads
<1>22. ASSUME NEW s \in Stream, NEW t \in Topic, UnsubscribeLocal(s, t) PROVE Timely'
  BY <1>22 DEF UnsubscribeLocal
<1>23. ASSUME NEW s \in Stream, NEW t \in Topic, UnsubscribeBus(s, t) PROVE Timely'
  BY <1>23 DEF UnsubscribeBus, Timely, Typed, LoopType
<1>24. CASE UNCHANGED vars
  BY <1>24 DEF vars, streamVars, accessVars
<1> QED BY <1>1, <1>2, <1>3, <1>4, <1>5, <1>6, <1>7, <1>8, <1>9, <1>10, <1>11, <1>12, <1>13, <1>14,
       <1>15, <1>16, <1>17, <1>18, <1>19, <1>20, <1>21, <1>22, <1>23, <1>24
    DEF Next, Loop

-----------------------------------------------------------------------------
(* Signals. *)

\* The part of one stream.
Warning(s) ==
    /\ warned[s] => Owner[s] \notin member
    /\ warned[s] /\ stage[s] \notin {"ending", "ended"} =>
          \E k \in DOMAIN chan[s]["access"] : chan[s]["access"][k].user = Owner[s]
    /\ barred[s] # {} => warned[s]
    /\ \A k \in DOMAIN Sent(s) : Sent(s)[k] \notin barred[s]
    /\ stage[s] = "send" => held[s] \notin barred[s]

\* What a step leaves alone when the warnings of a stream stay as they are.
Quiet(s) ==
    /\ warned'[s] = warned[s] /\ barred'[s] = barred[s]
    /\ Sent(s)' = Sent(s)
    /\ chan'[s]["access"] = chan[s]["access"]

LEMMA WarningStays ==
    ASSUME NEW s \in Stream, Warning(s), Quiet(s), Owner[s] \in member' => Owner[s] \in member,
           \/ stage'[s] = stage[s] /\ held'[s] = held[s]
           \/ stage'[s] \in {"ending", "ended"}
           \/ stage'[s] \in {"starting", "listen", "hold"} /\ stage[s] \notin {"ending", "ended"}
    PROVE  Warning(s)'
  BY DEF Warning, Quiet

\* A step that changes nothing of them.
LEMMA SameWarnings ==
    ASSUME Warnings, UNCHANGED <<warned, barred, member, chan, stage, held, got, out>>
    PROVE  Warnings'
  BY DEF Warnings, Sent

LEMMA NextWarnings ==
    ASSUME Typed, Routed, HoldsOne, InQueues, OnTheWire, Warnings, [Next]_vars
    PROVE  Warnings'
<1> USE SameWarnings DEF accessVars, streamVars
<1>0. /\ "access" \in Topic /\ "value" \in Topic
      /\ \A r \in Stream : Warning(r)
      /\ (\A r \in Stream : Warning(r)') => Warnings'
  BY DEF Topic, Warnings, Warning

<1>1. CASE Tick
  BY <1>1 DEF Tick
<1>2. ASSUME NEW u \in User, LoseAccess(u) PROVE Warnings'
  <2>1. ASSUME NEW r \in Stream PROVE Warning(r)'
    BY <1>2, <1>0, WarningStays DEF LoseAccess, Quiet, Sent
  <2> QED BY <1>0, <2>1
<1>3. ASSUME NEW u \in User, GainAccess(u) PROVE Warnings'
  <2>1. ASSUME NEW r \in Stream PROVE Warning(r)'
    <3>1. UNCHANGED <<chan, stage, held, got, out>> /\ member' = member \cup {u} BY <1>3 DEF GainAccess
    <3>2. CASE Owner[r] = u
      <4>1. ~warned'[r] /\ barred'[r] = {} BY <1>3, <3>2 DEF GainAccess
      <4> QED BY <4>1 DEF Warning
    <3>3. CASE Owner[r] # u
      <4>1. (warned'[r] <=> warned[r]) /\ barred'[r] = barred[r] BY <1>3, <3>3 DEF GainAccess
      <4> QED BY <1>0, <3>1, <3>3, <4>1 DEF Warning, Sent
    <3> QED BY <3>2, <3>3
  <2> QED BY <1>0, <2>1
<1>4. ASSUME NEW u \in User, PublishRoomAccessChanged(u) PROVE Warnings'
  BY <1>4 DEF PublishRoomAccessChanged
<1>5. ASSUME NEW u \in User, PublishFails(u) PROVE Warnings'
  BY <1>5 DEF PublishFails
<1>6. CASE Publish
  BY <1>6 DEF Publish
<1>7. ASSUME NEW i \in Instance, RedisListens(i) PROVE Warnings'
  BY <1>7 DEF RedisListens
<1>8. ASSUME NEW i \in Instance, LoseConnection(i) PROVE Warnings'
  BY <1>8 DEF LoseConnection
<1>9. ASSUME NEW i \in Instance, Receive(i) PROVE Warnings'
  BY <1>9 DEF Receive
<1>10. ASSUME NEW i \in Instance, NEW s \in Stream, Hand(i, s) PROVE Warnings'
  <2> DEFINE item == handing[i].item
             t == item.topic
             put == t \in joined[s] /\ Fits(chan[s][t])
             q == chan[s]["access"]
  <2>0. UNCHANGED <<got, out, member, stage, held>> BY <1>10 DEF Hand
  <2>1. s \in handing[i].to /\ item \in Item /\ t \in Topic
    BY <1>10, HandedFacts, ItemFacts DEF Hand, Typed
  <2>2. /\ chan' = IF put THEN [chan EXCEPT ![s][t] = Append(@, item)] ELSE chan
        /\ warned' = [warned EXCEPT ![s] = @ \/ /\ put /\ t = "access"
                                                /\ item.user = Owner[s] /\ Owner[s] \notin member]
        /\ barred' = IF put /\ t = "value" /\ warned[s] THEN [barred EXCEPT ![s] = @ \cup {item.n}] ELSE barred
    BY <1>10 DEF Hand
  <2>3. chan \in [Stream -> [Topic -> Seq(Item)]] /\ warned \in [Stream -> BOOLEAN] /\ barred \in [Stream -> SUBSET Number]
    BY DEF Typed, ChanType
  <2> HIDE DEF item, t, put
  <2>4. ASSUME NEW r \in Stream \ {s} PROVE Warning(r)'
    <3>1. chan'[r]["access"] = chan[r]["access"] /\ barred'[r] = barred[r] BY <1>0, <2>1, <2>2, <2>3
    <3>2. warned'[r] = warned[r] BY <2>2, <2>3
    <3>3. Quiet(r) BY <2>0, <3>1, <3>2 DEF Quiet, Sent
    <3> QED BY <1>0, <2>0, <3>3, WarningStays
  <2>5. \/ chan'[s]["access"] = q
        \/ put /\ t = "access" /\ chan'[s]["access"] = Append(q, item)
    BY <1>0, <2>1, <2>2, <2>3
  <2>6. q \in Seq(Item) BY <1>0, <2>3
  <2>7. warned'[s] <=> warned[s] \/ (put /\ t = "access" /\ item.user = Owner[s] /\ Owner[s] \notin member)
    BY <2>2, <2>3
  <2>8. put /\ t = "access" => chan'[s]["access"] = Append(q, item) BY <1>0, <2>1, <2>2, <2>3
  <2>9. \A k \in DOMAIN q : k \in DOMAIN chan'[s]["access"] /\ chan'[s]["access"][k] = q[k]
    BY <2>1, <2>5, <2>6
  <2>10. warned'[s] /\ stage'[s] \notin {"ending", "ended"} =>
            \E k \in DOMAIN chan'[s]["access"] : chan'[s]["access"][k].user = Owner[s]
    <3>1. CASE warned[s] BY <1>0, <2>0, <2>9, <3>1 DEF Warning
    <3>2. CASE put /\ t = "access" /\ item.user = Owner[s]
      <4>1. Len(q) + 1 \in DOMAIN Append(q, item) /\ Append(q, item)[Len(q) + 1] = item BY <2>1, <2>6
      <4> QED BY <2>8, <3>2, <4>1
    <3> QED BY <2>7, <3>1, <3>2
  <2>11. barred'[s] = barred[s] \/ (t = "value" /\ warned[s] /\ barred'[s] = barred[s] \cup {item.n})
    BY <2>2, <2>3
  <2>12. t = "value" => /\ \A k \in DOMAIN Sent(s) : Sent(s)[k] < item.n
                        /\ held[s] < item.n /\ item.n \in Nat
    <3>1. t = "value" => Behind(s, item.n) BY <2>1 DEF OnTheWire, item, t
    <3>2. t = "value" => item.n \in Nat BY <2>1, ItemFacts, Numbers DEF t
    <3> QED BY <3>1, <3>2 DEF Behind
  <2>13. Sent(s)' = Sent(s) /\ Sent(s) \in Seq(Number) /\ held[s] \in Nat BY <2>0, StreamFacts, Numbers DEF Sent
  <2>14. \A k \in DOMAIN Sent(s) : Sent(s)[k] \notin barred'[s]
    <3>1. \A k \in DOMAIN Sent(s) : Sent(s)[k] \in Nat BY <2>13, Numbers
    <3> QED BY <1>0, <2>11, <2>12, <3>1 DEF Warning
  <2>15. stage[s] = "send" => held[s] \notin barred'[s]
    BY <1>0, <2>11, <2>12, <2>13 DEF Warning
  <2>16. (warned'[s] => Owner[s] \notin member) /\ (barred'[s] # {} => warned'[s])
    BY <1>0, <2>7, <2>11 DEF Warning
  <2>17. Warning(s)' BY <2>0, <2>10, <2>13, <2>14, <2>15, <2>16 DEF Warning
  <2> QED BY <1>0, <2>4, <2>17
<1>11. ASSUME NEW s \in Stream, Authorize(s) PROVE Warnings'
  <2>1. ASSUME NEW r \in Stream PROVE Warning(r)'
    <3>1. Quiet(r) BY <1>11 DEF Authorize, Quiet, Sent
    <3>2. /\ UNCHANGED member
          /\ \/ stage'[r] = stage[r] /\ held'[r] = held[r]
             \/ stage'[r] \in {"ending", "ended"}
             \/ stage'[r] \in {"starting", "listen", "hold"} /\ stage[r] \notin {"ending", "ended"}
      BY <1>11 DEF Authorize, Typed, LoopType
    <3> QED BY <1>0, <3>1, <3>2, WarningStays
  <2> QED BY <1>0, <2>1
<1>12. ASSUME NEW s \in Stream, NEW t \in Topic, SubscribeLocal(s, t) PROVE Warnings'
  BY <1>12 DEF SubscribeLocal
<1>13. ASSUME NEW s \in Stream, NEW t \in Topic, SubscribeBus(s, t) PROVE Warnings'
  <2>1. ASSUME NEW r \in Stream PROVE Warning(r)'
    <3>1. Quiet(r) BY <1>13 DEF SubscribeBus, Quiet, Sent
    <3>2. /\ UNCHANGED member
          /\ \/ stage'[r] = stage[r] /\ held'[r] = held[r]
             \/ stage'[r] \in {"ending", "ended"}
             \/ stage'[r] \in {"starting", "listen", "hold"} /\ stage[r] \notin {"ending", "ended"}
      BY <1>13 DEF SubscribeBus, Typed, LoopType
    <3> QED BY <1>0, <3>1, <3>2, WarningStays
  <2> QED BY <1>0, <2>1
<1>14. ASSUME NEW s \in Stream, Cancel(s) PROVE Warnings'
  BY <1>14 DEF Cancel
<1>15. ASSUME NEW s \in Stream, Stop(s) PROVE Warnings'
  <2>1. ASSUME NEW r \in Stream PROVE Warning(r)'
    <3>1. Quiet(r) BY <1>15 DEF Stop, Quiet, Sent
    <3>2. /\ UNCHANGED member
          /\ \/ stage'[r] = stage[r] /\ held'[r] = held[r]
             \/ stage'[r] \in {"ending", "ended"}
             \/ stage'[r] \in {"starting", "listen", "hold"} /\ stage[r] \notin {"ending", "ended"}
      BY <1>15 DEF Stop, Typed, LoopType
    <3> QED BY <1>0, <3>1, <3>2, WarningStays
  <2> QED BY <1>0, <2>1
<1>16. ASSUME NEW s \in Stream, HandleSignal(s) PROVE Warnings'
  <2> DEFINE q == chan[s]["access"]
  <2>0. UNCHANGED <<got, out, warned, barred, member>> /\ stage[s] \in {"listen", "hold"} /\ q # <<>>
    BY <1>16 DEF HandleSignal
  <2>1. chan'[s]["access"] = Tail(q) /\ \A r \in Stream \ {s} : chan'[r]["access"] = chan[r]["access"]
    BY <1>16, <1>0 DEF HandleSignal, Typed, ChanType
  <2>2. \A r \in Stream \ {s} : stage'[r] = stage[r] /\ held'[r] = held[r]
    BY <1>16 DEF HandleSignal, Recheck, Typed, LoopType
  <2>3. ASSUME NEW r \in Stream \ {s} PROVE Warning(r)'
    <3>1. Quiet(r) BY <2>0, <2>1 DEF Quiet, Sent
    <3> QED BY <1>0, <2>0, <2>2, <3>1, WarningStays
  <2>4. q \in Seq(Item) /\ Head(q) = q[1]
    BY <1>0 DEF Typed, ChanType
  <2>5. stage'[s] \in {"ending", stage[s]} BY <1>16 DEF HandleSignal, Recheck, Typed, LoopType
  <2>6. ASSUME warned[s], stage'[s] # "ending"
        PROVE  \E k \in DOMAIN Tail(q) : Tail(q)[k].user = Owner[s]
    <3>1. Owner[s] \notin member BY <1>0, <2>6 DEF Warning
    <3>2. q[1].user # Owner[s]
      BY <1>16, <2>4, <2>6, <3>1 DEF HandleSignal, Recheck, Affects, Typed, LoopType
    <3> PICK k \in DOMAIN q : q[k].user = Owner[s] BY <1>0, <2>0, <2>6 DEF Warning
    <3>3. k # 1 BY <3>2
    <3>4. k \in 2..Len(q) BY <2>4, <3>3
    <3>5. k - 1 \in DOMAIN Tail(q) /\ Tail(q)[k - 1] = q[k] BY <2>0, <2>4, <3>4
    <3> QED BY <3>5
  <2>7. Warning(s)'
    <3>1. stage'[s] # "send" /\ Sent(s)' = Sent(s) BY <2>0, <2>5 DEF Sent
    <3>2. \A k \in DOMAIN Sent(s)' : Sent(s)'[k] \notin barred'[s] BY <1>0, <2>0, <3>1 DEF Warning
    <3>3. (warned'[s] => Owner[s] \notin member') /\ (barred'[s] # {} => warned'[s]) BY <1>0, <2>0 DEF Warning
    <3>4. warned'[s] /\ stage'[s] \notin {"ending", "ended"} =>
             \E k \in DOMAIN chan'[s]["access"] : chan'[s]["access"][k].user = Owner[s]
      BY <2>0, <2>1, <2>6
    <3> QED BY <3>1, <3>2, <3>3, <3>4 DEF Warning
  <2> QED BY <1>0, <2>3, <2>7
<1>17. ASSUME NEW s \in Stream, TakeValue(s) PROVE Warnings'
  <2>1. ASSUME NEW r \in Stream PROVE Warning(r)'
    <3>1. Quiet(r) BY <1>17, <1>0 DEF TakeValue, Quiet, Sent, Typed, ChanType
    <3>2. /\ UNCHANGED member
          /\ \/ stage'[r] = stage[r] /\ held'[r] = held[r]
             \/ stage'[r] \in {"ending", "ended"}
             \/ stage'[r] \in {"starting", "listen", "hold"} /\ stage[r] \notin {"ending", "ended"}
      BY <1>17 DEF TakeValue, Typed, LoopType
    <3> QED BY <1>0, <3>1, <3>2, WarningStays
  <2> QED BY <1>0, <2>1
<1>18. ASSUME NEW s \in Stream, Pass(s) PROVE Warnings'
  <2>1. Drained(s) /\ stage[s] = "hold" BY <1>18 DEF Pass
  <2>2. ~warned[s] /\ barred[s] = {} BY <1>0, <2>1 DEF Warning, Drained
  <2>3. ASSUME NEW r \in Stream PROVE Warning(r)'
    <3>1. UNCHANGED <<chan, got, out, warned, barred, member>> BY <1>18 DEF Pass
    <3>2. CASE r = s BY <2>2, <3>1, <3>2 DEF Warning
    <3>3. CASE r # s
      <4>1. stage'[r] = stage[r] /\ held'[r] = held[r] BY <1>18, <3>3 DEF Pass, Typed, LoopType
      <4>2. Quiet(r) BY <3>1 DEF Quiet, Sent
      <4> QED BY <1>0, <3>1, <4>1, <4>2, WarningStays
    <3> QED BY <3>2, <3>3
  <2> QED BY <1>0, <2>3
<1>19. ASSUME NEW s \in Stream, RecheckDue(s) PROVE Warnings'
  <2>1. Drained(s) /\ stage[s] = "hold" BY <1>19 DEF RecheckDue
  <2>2. ~warned[s] /\ barred[s] = {} BY <1>0, <2>1 DEF Warning, Drained
  <2>3. ASSUME NEW r \in Stream PROVE Warning(r)'
    <3>1. UNCHANGED <<chan, got, out, warned, barred, member>> BY <1>19 DEF RecheckDue
    <3>2. CASE r = s BY <2>2, <3>1, <3>2 DEF Warning
    <3>3. CASE r # s
      <4>1. stage'[r] = stage[r] /\ held'[r] = held[r] BY <1>19, <3>3 DEF RecheckDue, Typed, LoopType
      <4>2. Quiet(r) BY <3>1 DEF Quiet, Sent
      <4> QED BY <1>0, <3>1, <4>1, <4>2, WarningStays
    <3> QED BY <3>2, <3>3
  <2> QED BY <1>0, <2>3
<1>20. ASSUME NEW s \in Stream, SendOut(s) PROVE Warnings'
  <2>1. UNCHANGED <<chan, warned, barred, member>> /\ stage[s] = "send" BY <1>20 DEF SendOut
  <2>2. ASSUME NEW r \in Stream \ {s} PROVE Warning(r)'
    <3>1. stage'[r] = stage[r] /\ held'[r] = held[r] /\ Quiet(r)
      BY <1>20 DEF SendOut, Quiet, Sent, Typed, LoopType
    <3> QED BY <1>0, <2>1, <3>1, WarningStays
  <2>3. Warning(s)'
    <3>1. stage'[s] = "listen" BY <1>20 DEF SendOut, Typed, LoopType
    <3>2. Sent(s) \in Seq(Number) /\ got[s] \in Seq(Number) BY StreamFacts DEF Typed, LoopType
    <3>3. held[s] \in Number BY <2>1, TimeFacts
    <3>4. Sent(s) = got[s] /\ Sent(s)' = Append(Sent(s), held[s])
      BY <1>20, <3>2, <3>3 DEF SendOut, Sent, Typed, LoopType
    <3>5. Appended(Sent(s)', Sent(s), held[s]) BY <3>2, <3>3, <3>4, AppendShape
    <3>6. \A k \in DOMAIN Sent(s)' : Sent(s)'[k] \notin barred[s]
      BY <1>0, <2>1, <3>5 DEF Warning, Appended
    <3> QED BY <1>0, <2>1, <3>1, <3>6 DEF Warning
  <2> QED BY <1>0, <2>2, <2>3
<1>21. ASSUME NEW s \in Stream, ClientReads(s) PROVE Warnings'
  <2>1. UNCHANGED <<chan, warned, barred, member, stage, held>> BY <1>21 DEF ClientReads
  <2>2. ASSUME NEW r \in Stream PROVE Sent(r)' = Sent(r)
    <3>1. got[r] \in Seq(Number) /\ out[r] \in Seq(Number) BY DEF Typed, LoopType
    <3>2. CASE r = s
      <4>1. got'[r] = got[r] \o out[r] /\ out'[r] = <<>> BY <1>21, <3>2 DEF ClientReads, Typed, LoopType
      <4> QED BY <3>1, <4>1 DEF Sent
    <3>3. CASE r # s BY <1>21, <3>3 DEF ClientReads, Sent, Typed, LoopType
    <3> QED BY <3>2, <3>3
  <2>3. ASSUME NEW r \in Stream PROVE Warning(r)'
    BY <1>0, <2>1, <2>2, WarningStays DEF Quiet
  <2> QED BY <1>0, <2>3
<1>22. ASSUME NEW s \in Stream, NEW t \in Topic, UnsubscribeLocal(s, t) PROVE Warnings'
  <2>1. UNCHANGED <<got, out, warned, barred, member, stage, held>> /\ stage[s] = "ending" BY <1>22 DEF UnsubscribeLocal
  <2>2. \A r \in Stream \ {s} : chan'[r]["access"] = chan[r]["access"]
    BY <1>22, <1>0 DEF UnsubscribeLocal, Typed, ChanType
  <2>3. ASSUME NEW r \in Stream PROVE Warning(r)'
    <3>1. CASE r = s BY <1>0, <2>1, <3>1 DEF Warning, Sent
    <3>2. CASE r # s
      <4>1. Quiet(r) BY <2>1, <2>2, <3>2 DEF Quiet, Sent
      <4> QED BY <1>0, <2>1, <4>1, WarningStays
    <3> QED BY <3>1, <3>2
  <2> QED BY <1>0, <2>3
<1>23. ASSUME NEW s \in Stream, NEW t \in Topic, UnsubscribeBus(s, t) PROVE Warnings'
  <2>1. ASSUME NEW r \in Stream PROVE Warning(r)'
    <3>1. Quiet(r) BY <1>23 DEF UnsubscribeBus, Quiet, Sent
    <3>2. /\ UNCHANGED member
          /\ \/ stage'[r] = stage[r] /\ held'[r] = held[r]
             \/ stage'[r] \in {"ending", "ended"}
             \/ stage'[r] \in {"starting", "listen", "hold"} /\ stage[r] \notin {"ending", "ended"}
      BY <1>23 DEF UnsubscribeBus, Typed, LoopType
    <3> QED BY <1>0, <3>1, <3>2, WarningStays
  <2> QED BY <1>0, <2>1
<1>24. CASE UNCHANGED vars
  BY <1>24 DEF vars, streamVars, accessVars
<1> QED BY <1>1, <1>2, <1>3, <1>4, <1>5, <1>6, <1>7, <1>8, <1>9, <1>10, <1>11, <1>12, <1>13, <1>14,
       <1>15, <1>16, <1>17, <1>18, <1>19, <1>20, <1>21, <1>22, <1>23, <1>24
    DEF Next, Loop

-----------------------------------------------------------------------------
(* The theorems. *)

LEMMA InitIInv == Init => IInv
<1> SUFFICES ASSUME Init PROVE IInv
  OBVIOUS
<1>1. TypeOK BY Numbers DEF Init, TypeOK, Stages, Number, Topic, Nobody
<1>2. Refs
  <2>1. \A i \in Instance : \A t \in Topic : Counting(i, t) = {} BY DEF Init, Counting
  <2>2. Cardinality({}) = 0 BY FS_EmptySet
  <2>3. \A i \in Instance : \A t \in Topic : refs[i][t] = 0 /\ t \notin wanted[i] BY DEF Init
  <2>4. \A i \in Instance : \A t \in Topic : Cardinality(Counting(i, t)) = 0 BY <2>1, <2>2, Zenon
  <2> QED BY <2>3, <2>4 DEF Refs
<1>3. \A s \in Stream : /\ Sent(s) = <<>> /\ Queue(s) = <<>> /\ chan[s]["access"] = <<>>
                        /\ held[s] = 0 /\ stage[s] = "new" /\ barred[s] = {} /\ ~warned[s]
                        /\ lastChecked[s] = 0 /\ startedAt[s] = 0 /\ Owner[s] \in member
  BY SubscriptionsAssumption DEF Init, Sent, Queue, Topic
<1>4. \A i \in Instance : wire[i] = <<>> /\ handing[i].to = {} BY DEF Init, Nobody
<1>5. Routed BY <1>4 DEF Routed, Init
<1>6. HoldsOne BY <1>3 DEF HoldsOne
<1>7. InQueues BY <1>3, Numbers DEF InQueues, Behind, Init
<1>8. OnTheWire BY <1>4 DEF OnTheWire
<1>9. Timely BY <1>3, Numbers DEF Timely, Init
<1>10. Warnings BY <1>3 DEF Warnings
<1> QED BY <1>1, <1>2, <1>5, <1>6, <1>7, <1>8, <1>9, <1>10 DEF IInv

LEMMA NextIInv == IInv /\ [Next]_vars => IInv'
<1> SUFFICES ASSUME IInv, [Next]_vars PROVE IInv'
  OBVIOUS
<1>1. Typed /\ Refs /\ Routed /\ HoldsOne /\ InQueues /\ OnTheWire /\ Timely /\ Warnings
  BY TypeParts DEF IInv, Typed
<1>2. Typed' BY <1>1, NextTyped
<1>3. TypeOK' BY <1>2 DEF TypeOK, Typed, AccessType, BusType, ChanType, LoopType, Handed
<1>4. Refs' /\ Routed' /\ HoldsOne' BY <1>1, NextRefs, NextRouted, NextHoldsOne
<1>5. InQueues' /\ OnTheWire' BY <1>1, NextInQueues, NextOnTheWire
<1>6. Timely' /\ Warnings' BY <1>1, NextTimely, NextWarnings
<1> QED BY <1>3, <1>4, <1>5, <1>6 DEF IInv

\* The inductive invariant: the counts of the bus, the order of the values all the way from
\* Redis to a client, the time of the last check and the signals that wait are right in
\* every state of every run.
THEOREM Inductive == Spec => []IInv
  BY InitIInv, NextIInv, PTL DEF Spec

\* Every variable keeps its type; no channel holds more than Buffer items.
THEOREM TypeCorrect == Spec => []TypeOK
<1>1. IInv => TypeOK BY DEF IInv
<1> QED BY <1>1, Inductive, PTL

\* Bus.Subscribe and Bus.Unsubscribe, in any order of any streams: a server's list is exactly
\* the topics that its streams count on.
THEOREM BusFollows == Spec => []BusFollowsStreams
<1>1. IInv => BusFollowsStreams
  <2> SUFFICES ASSUME IInv, NEW i \in Instance
               PROVE  wanted[i] = UNION {counted[s] : s \in {x \in Stream : Host[x] = i}}
    BY DEF BusFollowsStreams
  <2>0. BusType /\ Refs BY TypeParts DEF IInv
  <2>1. ASSUME NEW s \in Stream, Host[s] = i, NEW t \in counted[s] PROVE t \in wanted[i]
    BY <2>0, <2>1, CountedCounts DEF Refs, BusType
  <2>2. ASSUME NEW t \in wanted[i] PROVE \E s \in Stream : Host[s] = i /\ t \in counted[s]
    <3>1. t \in Topic BY <2>0, <2>2 DEF BusType
    <3>2. Cardinality(Counting(i, t)) > 0 BY <2>0, <2>2, <3>1 DEF Refs
    <3>3. Counting(i, t) # {} BY <3>2, FS_EmptySet
    <3> QED BY <3>3 DEF Counting
  <2> QED BY <2>1, <2>2
<1> QED BY <1>1, Inductive, PTL

\* The way of a value through Redis, the handing out and the loop: a client is sent each value
\* at most once and in the order of publication, whatever is lost or dropped.
THEOREM Ordered == Spec => []InOrder
<1>1. IInv => InOrder BY DEF IInv, InQueues, InOrder, Sent
<1> QED BY <1>1, Inductive, PTL

\* drainSignals: a stream never sends what was put into its channel after the signal that its
\* user was removed.
THEOREM SignalsFirst == Spec => []SignalComesFirst
<1>1. IInv => SignalComesFirst BY DEF IInv, Warnings, SignalComesFirst, Sent, Values
<1> QED BY <1>1, Inductive, PTL

\* accessRecheckInterval: with no signal at all, a removed user is only sent what was published
\* within an interval of the removal or of the stream's beginning.
THEOREM RecheckInTime == Spec => []RecheckBounds
<1>1. IInv => RecheckBounds
  <2> SUFFICES ASSUME IInv, NEW s \in Stream, stage[s] = "send", Owner[s] \notin member
               PROVE  \/ sentAt[held[s]] < lostAt[Owner[s]] + Interval
                      \/ sentAt[held[s]] < startedAt[s] + Interval
    BY DEF RecheckBounds
  <2>1. Typed /\ HoldsOne /\ InQueues /\ Timely BY TypeParts DEF IInv, Typed
  <2>2. /\ sentAt[held[s]] \in Nat /\ lostAt[Owner[s]] \in Nat /\ startedAt[s] \in Nat /\ lastChecked[s] \in Nat
        /\ Interval \in Nat
    BY <2>1, TimeFacts, Numbers
  <2>3. /\ sentAt[held[s]] < lastChecked[s] + Interval
        /\ lastChecked[s] <= lostAt[Owner[s]] \/ lastChecked[s] = startedAt[s]
    BY <2>1 DEF Timely
  <2> QED BY <2>2, <2>3
<1> QED BY <1>1, Inductive, PTL

=============================================================================
