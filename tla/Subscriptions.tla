--------------------------- MODULE Subscriptions ---------------------------
(***************************************************************************)
(* GraphQL subscriptions of one room.                                      *)
(*                                                                         *)
(* A value is published through Redis to every server that listens to its  *)
(* topic (infra/redis/bus.go), handed to the channels of that server's     *)
(* streams (internal/pubsub/pubsub.go) and forwarded by each stream's loop *)
(* to its client as long as the user may read the room                     *)
(* (graph/subscription_stream.go).  The topic "value" stands for the       *)
(* room's message, question and poll topics, "access" for its              *)
(* access:changed topic.                                                   *)
(*                                                                         *)
(* Definitions whose comment starts with "Wrong:" are faulty variants of   *)
(* the definition they precede; they show that the properties can fail.    *)
(***************************************************************************)
EXTENDS Integers, Sequences, FiniteSets

CONSTANTS
    User,
    Instance,       \* the servers
    Stream,         \* subscriptions, each made once
    Owner,          \* the user of a stream
    Host,           \* the server it is connected to
    Buffer,         \* capacity of a channel of PubSub.Subscribe
    Interval,       \* accessRecheckInterval
    MaxPublished,   \* bound: values
    MaxClock,       \* bound: time
    MaxChanges      \* bound: times users leave or join

ASSUME SubscriptionsAssumption ==
    /\ IsFiniteSet(Stream)
    /\ Owner \in [Stream -> User]
    /\ Host \in [Stream -> Instance]
    /\ Buffer \in Nat \ {0}
    /\ Interval \in Nat \ {0}
    /\ MaxPublished \in Nat
    /\ MaxClock \in Nat
    /\ MaxChanges \in Nat

VARIABLES
    clock,
    member,     \* users who may read the room
    owed,       \* users whose change of access is still to be signalled
    changes,    \* number of changes of access
    published,  \* number of values published
    sentAt,     \* history variable: when each of them was
    wanted,     \* the channels that each server's go-redis connection keeps
    active,     \* those that Redis knows it to listen to
    wire,       \* what Redis has sent to each server
    handing,    \* what PubSub.Publish is handing out on each server, and to whom
    refs,       \* Bus.refs
    joined,     \* topics for which a stream's channel is in PubSub.subs
    counted,    \* topics for which a stream is in Bus.refs
    chan,       \* the channels
    stage,      \* the place of each stream's loop
    held,       \* the value it has taken, 0 for none
    out,        \* its output, with room for one value
    done,       \* is its context done
    lastChecked,
    got,        \* what its client has received
    startedAt,  \* history variable: when the loop began
    lostAt,     \* history variable: when each user last lost access
    warned,     \* history variable: a signal of the owner's loss was put into its channel
    barred      \* history variable: values put into its channel after that

redisVars  == <<wanted, active, wire, handing>>
streamVars == <<refs, joined, counted, chan, stage, held, out, done, lastChecked, got, startedAt>>
accessVars == <<member, owed, changes, lostAt>>
vars == <<clock, accessVars, published, sentAt, redisVars, streamVars, warned, barred>>

Topic  == {"value", "access"}
Number == 1..MaxPublished
Item   == [topic : {"value"}, n : Number] \cup [topic : {"access"}, user : User]
Nobody == [item |-> <<>>, to |-> {}]
Stages == {"new", "starting", "listen", "hold", "send", "ending", "ended"}

TypeOK ==
    /\ clock \in 0..MaxClock
    /\ member \subseteq User /\ owed \subseteq User /\ changes \in 0..MaxChanges
    /\ lostAt \in [User -> 0..MaxClock]
    /\ published \in 0..MaxPublished
    /\ sentAt \in [Number -> 0..MaxClock]
    /\ wanted \in [Instance -> SUBSET Topic] /\ active \in [Instance -> SUBSET Topic]
    /\ wire \in [Instance -> Seq(Item)]
    /\ handing \in [Instance -> {Nobody} \cup [item : Item, to : SUBSET Stream]]
    /\ refs \in [Instance -> [Topic -> Nat]]
    /\ joined \in [Stream -> SUBSET Topic] /\ counted \in [Stream -> SUBSET Topic]
    /\ chan \in [Stream -> [Topic -> Seq(Item)]]
    /\ \A s \in Stream : \A t \in Topic : Len(chan[s][t]) <= Buffer
    /\ stage \in [Stream -> Stages]
    /\ held \in [Stream -> 0..MaxPublished]
    /\ out \in [Stream -> Seq(Number)]
    /\ done \in [Stream -> BOOLEAN]
    /\ lastChecked \in [Stream -> 0..MaxClock] /\ startedAt \in [Stream -> 0..MaxClock]
    /\ got \in [Stream -> Seq(Number)]
    /\ warned \in [Stream -> BOOLEAN]
    /\ barred \in [Stream -> SUBSET Number]

Init ==
    /\ clock = 0
    /\ member = User /\ owed = {} /\ changes = 0
    /\ lostAt = [u \in User |-> 0]
    /\ published = 0
    /\ sentAt = [n \in Number |-> 0]
    /\ wanted = [i \in Instance |-> {}] /\ active = [i \in Instance |-> {}]
    /\ wire = [i \in Instance |-> <<>>]
    /\ handing = [i \in Instance |-> Nobody]
    /\ refs = [i \in Instance |-> [t \in Topic |-> 0]]
    /\ joined = [s \in Stream |-> {}] /\ counted = [s \in Stream |-> {}]
    /\ chan = [s \in Stream |-> [t \in Topic |-> <<>>]]
    /\ stage = [s \in Stream |-> "new"]
    /\ held = [s \in Stream |-> 0]
    /\ out = [s \in Stream |-> <<>>]
    /\ done = [s \in Stream |-> FALSE]
    /\ lastChecked = [s \in Stream |-> 0] /\ startedAt = [s \in Stream |-> 0]
    /\ got = [s \in Stream |-> <<>>]
    /\ warned = [s \in Stream |-> FALSE]
    /\ barred = [s \in Stream |-> {}]

Tick ==
    /\ clock < MaxClock
    /\ clock' = clock + 1
    /\ UNCHANGED <<accessVars, published, sentAt, redisVars, streamVars, warned, barred>>
-----------------------------------------------------------------------------
(* Access and publications. *)

\* The user leaves or is removed; the transaction has committed.
LoseAccess(u) ==
    /\ changes < MaxChanges /\ u \in member
    /\ member' = member \ {u}
    /\ owed' = owed \cup {u}
    /\ changes' = changes + 1
    /\ lostAt' = [lostAt EXCEPT ![u] = clock]
    /\ UNCHANGED <<clock, published, sentAt, redisVars, streamVars, warned, barred>>

GainAccess(u) ==
    /\ changes < MaxChanges /\ u \notin member
    /\ member' = member \cup {u}
    /\ changes' = changes + 1
    /\ warned' = [s \in Stream |-> warned[s] /\ Owner[s] # u]
    /\ barred' = [s \in Stream |-> IF Owner[s] = u THEN {} ELSE barred[s]]
    /\ UNCHANGED <<clock, owed, lostAt, published, sentAt, redisVars, streamVars>>

\* Redis PUBLISH.
ToRedis(item) == wire' = [i \in Instance |-> IF item.topic \in active[i] THEN Append(wire[i], item) ELSE wire[i]]

\* Wrong: the server that publishes also hands the value to its own streams.
PublishAndHand ==
    /\ published < MaxPublished
    /\ published' = published + 1
    /\ sentAt' = [sentAt EXCEPT ![published + 1] = clock]
    /\ ToRedis([topic |-> "value", n |-> published + 1])
    /\ \E i \in Instance :
          /\ handing[i] = Nobody
          /\ handing' = [handing EXCEPT ![i] = [item |-> [topic |-> "value", n |-> published + 1],
                                                 to |-> {s \in Stream : Host[s] = i /\ "value" \in joined[s]}]]
    /\ UNCHANGED <<clock, accessVars, wanted, active, streamVars, warned, barred>>

\* Bus.Publish of a value: through Redis only.
Publish ==
    /\ published < MaxPublished
    /\ published' = published + 1
    /\ sentAt' = [sentAt EXCEPT ![published + 1] = clock]
    /\ ToRedis([topic |-> "value", n |-> published + 1])
    /\ UNCHANGED <<clock, accessVars, wanted, active, handing, streamVars, warned, barred>>

\* publishRoomAccessChanged, after the commit.
PublishRoomAccessChanged(u) ==
    /\ u \in owed
    /\ owed' = owed \ {u}
    /\ ToRedis([topic |-> "access", user |-> u])
    /\ UNCHANGED <<clock, member, changes, lostAt, published, sentAt, wanted, active, handing, streamVars, warned, barred>>

\* Redis cannot be reached: the signal is not published, and nobody is told.
PublishFails(u) ==
    /\ u \in owed
    /\ owed' = owed \ {u}
    /\ UNCHANGED <<clock, member, changes, lostAt, published, sentAt, redisVars, streamVars, warned, barred>>
-----------------------------------------------------------------------------
(* The bus. *)

\* Redis executes the SUBSCRIBE and UNSUBSCRIBE commands of a server, or a new
\* connection repeats the list.
RedisListens(i) ==
    /\ active[i] # wanted[i]
    /\ active' = [active EXCEPT ![i] = wanted[i]]
    /\ UNCHANGED <<clock, accessVars, published, sentAt, wanted, wire, handing, streamVars, warned, barred>>

LoseConnection(i) ==
    /\ active[i] # {} \/ wire[i] # <<>>
    /\ active' = [active EXCEPT ![i] = {}]
    /\ wire' = [wire EXCEPT ![i] = <<>>]
    /\ UNCHANGED <<clock, accessVars, published, sentAt, wanted, handing, streamVars, warned, barred>>

\* Bus.receive takes the next item, and PubSub.Publish copies the list of channels.
Receive(i) ==
    LET item == Head(wire[i]) IN
    /\ wire[i] # <<>> /\ handing[i] = Nobody
    /\ wire' = [wire EXCEPT ![i] = Tail(@)]
    /\ LET to == {s \in Stream : Host[s] = i /\ item.topic \in joined[s]} IN
       handing' = [handing EXCEPT ![i] = IF to = {} THEN Nobody ELSE [item |-> item, to |-> to]]
    /\ UNCHANGED <<clock, accessVars, published, sentAt, wanted, active, streamVars, warned, barred>>

\* Wrong: a full channel takes more.
FitsAlways(q) == TRUE

\* A full channel takes nothing more.
Fits(q) == Len(q) < Buffer

\* One channel of the copied list.  A channel that was closed meanwhile makes the
\* send panic, which is recovered; a full one loses the item.
Hand(i, s) ==
    LET item == handing[i].item
        t == item.topic
        put == t \in joined[s] /\ Fits(chan[s][t])
    IN
    /\ s \in handing[i].to
    /\ handing' = [handing EXCEPT ![i] = IF @.to = {s} THEN Nobody ELSE [item |-> item, to |-> @.to \ {s}]]
    /\ chan' = IF put THEN [chan EXCEPT ![s][t] = Append(@, item)] ELSE chan
    /\ warned' = [warned EXCEPT ![s] = @ \/ /\ put /\ t = "access"
                                            /\ item.user = Owner[s] /\ Owner[s] \notin member]
    /\ barred' = IF put /\ t = "value" /\ warned[s] THEN [barred EXCEPT ![s] = @ \cup {item.n}] ELSE barred
    /\ UNCHANGED <<clock, accessVars, published, sentAt, wanted, active, wire,
                   refs, joined, counted, stage, held, out, done, lastChecked, got, startedAt>>
-----------------------------------------------------------------------------
(* A stream begins: access, then for each topic the channel and the count. *)

\* requireRoomReadAccess before the loop.
Authorize(s) ==
    /\ stage[s] = "new" /\ Owner[s] \in member
    /\ stage' = [stage EXCEPT ![s] = "starting"]
    /\ UNCHANGED <<clock, accessVars, published, sentAt, redisVars, refs, joined, counted, chan,
                   held, out, done, lastChecked, got, startedAt, warned, barred>>

\* PubSub.Subscribe.
SubscribeLocal(s, t) ==
    /\ stage[s] = "starting" /\ joined[s] = counted[s]
    /\ t = IF joined[s] = {} THEN "value" ELSE "access"
    /\ joined' = [joined EXCEPT ![s] = @ \cup {t}]
    /\ UNCHANGED <<clock, accessVars, published, sentAt, redisVars, refs, counted, chan, stage,
                   held, out, done, lastChecked, got, startedAt, warned, barred>>

\* The rest of Bus.Subscribe, with the lock.  After the second topic the loop begins.
SubscribeBus(s, t) ==
    /\ stage[s] = "starting" /\ t \in joined[s] \ counted[s]
    /\ counted' = [counted EXCEPT ![s] = @ \cup {t}]
    /\ refs' = [refs EXCEPT ![Host[s]][t] = @ + 1]
    /\ wanted' = IF refs[Host[s]][t] = 0 THEN [wanted EXCEPT ![Host[s]] = @ \cup {t}] ELSE wanted
    /\ IF t = "access"
       THEN /\ stage' = [stage EXCEPT ![s] = "listen"]
            /\ lastChecked' = [lastChecked EXCEPT ![s] = clock]
            /\ startedAt' = [startedAt EXCEPT ![s] = clock]
       ELSE UNCHANGED <<stage, lastChecked, startedAt>>
    /\ UNCHANGED <<clock, accessVars, published, sentAt, active, wire, handing, joined, chan,
                   held, out, done, got, warned, barred>>
-----------------------------------------------------------------------------
(* The loop. *)

\* The client disconnects.
Cancel(s) ==
    /\ stage[s] # "new" /\ ~done[s]
    /\ done' = [done EXCEPT ![s] = TRUE]
    /\ UNCHANGED <<clock, accessVars, published, sentAt, redisVars, refs, joined, counted, chan, stage,
                   held, out, lastChecked, got, startedAt, warned, barred>>

\* Wrong: only the wait for input ends with the context.
StopWaitingOnly(s) ==
    /\ stage[s] = "listen" /\ done[s]
    /\ stage' = [stage EXCEPT ![s] = "ending"]
    /\ held' = [held EXCEPT ![s] = 0]
    /\ UNCHANGED <<clock, accessVars, published, sentAt, redisVars, refs, joined, counted, chan,
                   out, done, lastChecked, got, startedAt, warned, barred>>

\* <-ctx.Done() where the loop waits for input or for room in its output.
Stop(s) ==
    /\ stage[s] = "listen" \/ (stage[s] = "send" /\ out[s] # <<>>)
    /\ done[s]
    /\ stage' = [stage EXCEPT ![s] = "ending"]
    /\ held' = [held EXCEPT ![s] = 0]
    /\ UNCHANGED <<clock, accessVars, published, sentAt, redisVars, refs, joined, counted, chan,
                   out, done, lastChecked, got, startedAt, warned, barred>>

\* recheck: authorize fails for a removed user, on a context that is done and on any
\* error of the database; lastChecked is the time of the last one that did not.
Recheck(s) ==
    \/ /\ Owner[s] \in member /\ ~done[s]
       /\ lastChecked' = [lastChecked EXCEPT ![s] = clock]
       /\ UNCHANGED <<stage, held>>
    \/ /\ stage' = [stage EXCEPT ![s] = "ending"]
       /\ held' = [held EXCEPT ![s] = 0]
       /\ UNCHANGED lastChecked

\* affects.
Affects(sig, u) == sig.user = u

\* Wrong: signals are only looked at when there is a value to send.
HandleSignalWithValue(s) ==
    /\ stage[s] = "hold"
    /\ chan[s]["access"] # <<>>
    /\ chan' = [chan EXCEPT ![s]["access"] = Tail(@)]
    /\ IF Affects(Head(chan[s]["access"]), Owner[s]) THEN Recheck(s) ELSE UNCHANGED <<stage, held, lastChecked>>
    /\ UNCHANGED <<clock, accessVars, published, sentAt, redisVars, refs, joined, counted,
                   out, done, got, startedAt, warned, barred>>

\* handleSignal, from the wait for input or from drainSignals.
HandleSignal(s) ==
    /\ stage[s] \in {"listen", "hold"}
    /\ chan[s]["access"] # <<>>
    /\ chan' = [chan EXCEPT ![s]["access"] = Tail(@)]
    /\ IF Affects(Head(chan[s]["access"]), Owner[s]) THEN Recheck(s) ELSE UNCHANGED <<stage, held, lastChecked>>
    /\ UNCHANGED <<clock, accessVars, published, sentAt, redisVars, refs, joined, counted,
                   out, done, got, startedAt, warned, barred>>

TakeValue(s) ==
    /\ stage[s] = "listen"
    /\ chan[s]["value"] # <<>>
    /\ chan' = [chan EXCEPT ![s]["value"] = Tail(@)]
    /\ held' = [held EXCEPT ![s] = Head(chan[s]["value"]).n]
    /\ stage' = [stage EXCEPT ![s] = "hold"]
    /\ UNCHANGED <<clock, accessVars, published, sentAt, redisVars, refs, joined, counted,
                   out, done, lastChecked, got, startedAt, warned, barred>>

\* Wrong: signals that wait are not looked at before a value is sent.
NotDrained(s) == TRUE

\* drainSignals has found the channel empty.
Drained(s) == chan[s]["access"] = <<>>

\* Wrong: a check counts for one interval too many.
DueLate(s) == clock - lastChecked[s] > Interval

\* time.Since(lastChecked) >= accessRecheckInterval
Due(s) == clock - lastChecked[s] >= Interval

\* Signals are drained, and the last check is recent enough.
Pass(s) ==
    /\ stage[s] = "hold" /\ Drained(s) /\ ~Due(s)
    /\ stage' = [stage EXCEPT ![s] = "send"]
    /\ UNCHANGED <<clock, accessVars, published, sentAt, redisVars, refs, joined, counted, chan,
                   held, out, done, lastChecked, got, startedAt, warned, barred>>

\* After an interval access is checked without a signal.
RecheckDue(s) ==
    /\ stage[s] = "hold" /\ Drained(s) /\ Due(s)
    /\ \/ /\ Owner[s] \in member /\ ~done[s]
          /\ lastChecked' = [lastChecked EXCEPT ![s] = clock]
          /\ stage' = [stage EXCEPT ![s] = "send"]
          /\ UNCHANGED held
       \/ /\ stage' = [stage EXCEPT ![s] = "ending"]
          /\ held' = [held EXCEPT ![s] = 0]
          /\ UNCHANGED lastChecked
    /\ UNCHANGED <<clock, accessVars, published, sentAt, redisVars, refs, joined, counted, chan,
                   out, done, got, startedAt, warned, barred>>

\* Wrong: a value that finds the output full is forgotten.
SendOutOrForget(s) ==
    /\ stage[s] = "send"
    /\ out' = [out EXCEPT ![s] = IF @ = <<>> THEN <<held[s]>> ELSE @]
    /\ held' = [held EXCEPT ![s] = 0]
    /\ stage' = [stage EXCEPT ![s] = "listen"]
    /\ UNCHANGED <<clock, accessVars, published, sentAt, redisVars, refs, joined, counted, chan,
                   done, lastChecked, got, startedAt, warned, barred>>

\* out <- converted
SendOut(s) ==
    /\ stage[s] = "send" /\ out[s] = <<>>
    /\ out' = [out EXCEPT ![s] = <<held[s]>>]
    /\ held' = [held EXCEPT ![s] = 0]
    /\ stage' = [stage EXCEPT ![s] = "listen"]
    /\ UNCHANGED <<clock, accessVars, published, sentAt, redisVars, refs, joined, counted, chan,
                   done, lastChecked, got, startedAt, warned, barred>>

\* The client reads.
ClientReads(s) ==
    /\ out[s] # <<>> /\ ~done[s]
    /\ got' = [got EXCEPT ![s] = @ \o out[s]]
    /\ out' = [out EXCEPT ![s] = <<>>]
    /\ UNCHANGED <<clock, accessVars, published, sentAt, redisVars, refs, joined, counted, chan, stage,
                   held, done, lastChecked, startedAt, warned, barred>>
-----------------------------------------------------------------------------
(* A stream ends: the deferred Unsubscribe calls. *)

\* PubSub.Unsubscribe closes the channel.
UnsubscribeLocal(s, t) ==
    /\ stage[s] = "ending" /\ joined[s] = counted[s]
    /\ t = IF "value" \in joined[s] THEN "value" ELSE "access"
    /\ t \in joined[s]
    /\ joined' = [joined EXCEPT ![s] = @ \ {t}]
    /\ chan' = [chan EXCEPT ![s][t] = <<>>]
    /\ UNCHANGED <<clock, accessVars, published, sentAt, redisVars, refs, counted, stage,
                   held, out, done, lastChecked, got, startedAt, warned, barred>>

\* Wrong: the first stream that leaves takes the topic with it.
LastLeavesAny(i, t) == TRUE

\* refs is 0 without this stream.
LastLeaves(i, t) == refs[i][t] = 1

\* The rest of Bus.Unsubscribe, with the lock.
UnsubscribeBus(s, t) ==
    /\ stage[s] = "ending" /\ t \in counted[s] \ joined[s]
    /\ counted' = [counted EXCEPT ![s] = @ \ {t}]
    /\ refs' = [refs EXCEPT ![Host[s]][t] = @ - 1]
    /\ wanted' = IF LastLeaves(Host[s], t) THEN [wanted EXCEPT ![Host[s]] = @ \ {t}] ELSE wanted
    /\ stage' = IF counted[s] = {t} THEN [stage EXCEPT ![s] = "ended"] ELSE stage
    /\ UNCHANGED <<clock, accessVars, published, sentAt, active, wire, handing, joined, chan,
                   held, out, done, lastChecked, got, startedAt, warned, barred>>
-----------------------------------------------------------------------------
Loop(s) ==
    \/ \E t \in Topic : SubscribeLocal(s, t) \/ SubscribeBus(s, t)
    \/ Stop(s) \/ HandleSignal(s) \/ TakeValue(s) \/ Pass(s) \/ RecheckDue(s) \/ SendOut(s)
    \/ \E t \in Topic : UnsubscribeLocal(s, t) \/ UnsubscribeBus(s, t)

Next ==
    \/ Tick
    \/ \E u \in User : LoseAccess(u) \/ GainAccess(u) \/ PublishRoomAccessChanged(u) \/ PublishFails(u)
    \/ Publish
    \/ \E i \in Instance : \/ RedisListens(i) \/ LoseConnection(i) \/ Receive(i)
                           \/ \E s \in Stream : Hand(i, s)
    \/ \E s \in Stream : Authorize(s) \/ Cancel(s) \/ Loop(s) \/ ClientReads(s)

Spec == Init /\ [][Next]_vars

\* Each stream has a goroutine of its own, each server one that receives; a client
\* that does not disconnect reads.
Fairness ==
    /\ \A s \in Stream : WF_vars(Loop(s)) /\ WF_vars(ClientReads(s))
    /\ \A i \in Instance : WF_vars(Receive(i)) /\ \A s \in Stream : WF_vars(Hand(i, s))

FairSpec == Spec /\ Fairness
-----------------------------------------------------------------------------
(* Properties. *)

Values(q) == {q[k] : k \in DOMAIN q}

\* A server's list holds exactly the topics that its streams count on, whatever order
\* they begin and end in (Bus.mu guards refs together with the list): no stream is
\* left without deliveries, and no topic nobody reads is received for ever.
BusFollowsStreams ==
    \A i \in Instance : wanted[i] = UNION {counted[s] : s \in {x \in Stream : Host[x] = i}}

\* A value reaches a client at most once and never before an older one of its topic,
\* although it takes the way through Redis on its own server too.
InOrder ==
    \A s \in Stream : \A j, k \in DOMAIN (got[s] \o out[s]) :
        j < k => (got[s] \o out[s])[j] < (got[s] \o out[s])[k]

\* Once the signal of a user's removal is in the channel of a stream of theirs, no
\* value that is put into its channel after it is sent (drainSignals).
SignalComesFirst == \A s \in Stream : Values(got[s] \o out[s]) \cap barred[s] = {}

\* Without any signal, nothing is sent to a removed user that was published an
\* interval after the removal, or after the stream began (accessRecheckInterval).
RecheckBounds ==
    \A s \in Stream : stage[s] = "send" /\ Owner[s] \notin member =>
        \/ sentAt[held[s]] < lostAt[Owner[s]] + Interval
        \/ sentAt[held[s]] < startedAt[s] + Interval

\* A stream whose client has gone ends, also when its output is full.
CancelledEnds == \A s \in Stream : done[s] ~> stage[s] = "ended"

\* A stream that was signalled the removal of its user ends, unless the user comes back.
WarnedEnds == \A s \in Stream : warned[s] ~> (stage[s] = "ended" \/ Owner[s] \in member)

\* What is in the channel of a stream reaches its client, or the stream ends.
HandedArrives ==
    \A s \in Stream : \A n \in Number :
        (\E k \in DOMAIN chan[s]["value"] : chan[s]["value"][k].n = n)
            ~> (n \in Values(got[s]) \/ stage[s] \in {"ending", "ended"} \/ done[s])
=============================================================================
