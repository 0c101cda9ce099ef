-------------------------------- MODULE SSE --------------------------------
(***************************************************************************)
(* Notification delivery over Server-Sent Events.                          *)
(*                                                                         *)
(* Several server instances share one Redis.  Redis numbers the events of  *)
(* a user and keeps the most recent ones (sse_store.go); a Pub/Sub channel *)
(* carries every event to every instance (sse_fanout.go); each instance    *)
(* hands it to the tabs connected to it without ever blocking (broker.go); *)
(* the HTTP handler writes first what the tab missed, then what arrives    *)
(* live (ssehttp/handler.go).  A tab that comes back names only the id it  *)
(* received last.                                                          *)
(*                                                                         *)
(* The payload of an event is the serial number of the publish call.       *)
(*                                                                         *)
(* Definitions whose comment starts with "Wrong:" are faulty variants of   *)
(* the definition they precede; they show that the properties can fail.    *)
(***************************************************************************)
EXTENDS Integers, Sequences, FiniteSets

CONSTANTS
    User,           \* users who own tabs
    Tab,            \* browser tabs
    Owner,          \* Owner[t] is the user whose tab t is
    Instance,       \* server processes
    Publisher,      \* goroutines inside a publish call of some broker
    HistorySize,    \* sseHistorySize (100 in the code)
    BufferSize,     \* capacity of Client.ch (32 in the code)
    MaxConnections, \* maxSSEConnectionsPerUser (5 in the code)
    MaxPublished,   \* bound: publish calls
    MaxFaults,      \* bound: lost messages, failed Redis calls, flushes
    NoUser          \* the envelope's UserID 0: everybody

ASSUME SSEAssumption ==
    /\ Owner \in [Tab -> User]
    /\ HistorySize \in Nat \ {0}
    /\ BufferSize \in Nat \ {0}
    /\ MaxConnections \in Nat \ {0}
    /\ MaxPublished \in Nat
    /\ MaxFaults \in Nat
    /\ NoUser \notin User
    /\ Instance # {}

VARIABLES
    counter,    \* Redis: sse:seq:<user>, absent = 0
    history,    \* Redis: sse:history:<user>
    pending,    \* envelope a publisher holds between Append and PUBLISH
    wire,       \* envelopes on the way from Redis to each instance
    clients,    \* Broker.clients of each instance
    stage,      \* where the handler of each tab's connection is
    server,     \* instance the tab's connection sticks to
    ch,         \* Client.ch
    missed,     \* what Replay selected and the handler has not written yet
    last,       \* the event whose id the tab received last
    published,  \* publish calls so far
    faults,     \* faults so far
    from,       \* history variable: id this connection resumed after, -1 if none
    since,      \* history variable: publish calls before this connection registered
    skipped,    \* history variable: events lost on the way to this connection
    received    \* history variable: payloads the tab has received

storeVars == <<counter, history>>
connVars  == <<clients, stage, server, ch, missed, last, from, since, received>>
vars == <<counter, history, pending, wire, clients, stage, server, ch, missed, last,
          published, faults, from, since, skipped, received>>

Event    == [id : Nat, data : Nat]
Envelope == [user : User \cup {NoUser}, event : Event]
Idle     == "idle"          \* no connection
Registered == "registered"  \* in Broker.clients, Replay not answered yet
Open     == "open"          \* the handler writes events

\* The envelope of a publisher that has none.
Nothing == [user |-> NoUser, event |-> [id |-> 0, data |-> 0]]
\* What a tab that has received no numbered event names: lastEventIDFrom is -1.
NoEvent == [id |-> -1, data |-> 0]

InSeq(x, s) == \E k \in 1..Len(s) : s[k] = x

TypeOK ==
    /\ counter \in [User -> Nat]
    /\ history \in [User -> Seq(Event)]
    /\ pending \in [Publisher -> Envelope]
    /\ wire \in [Instance -> Seq(Envelope)]
    /\ clients \in [Instance -> [User -> SUBSET Tab]]
    /\ stage \in [Tab -> {Idle, Registered, Open}]
    /\ server \in [Tab -> Instance]
    /\ ch \in [Tab -> Seq(Event)]
    /\ missed \in [Tab -> SUBSET (Nat \X Event)]
    /\ last \in [Tab -> Event \cup {NoEvent}]
    /\ published \in Nat
    /\ faults \in Nat
    /\ from \in [Tab -> Nat \cup {-1}]
    /\ since \in [Tab -> Nat]
    /\ skipped \in [Tab -> SUBSET Event]
    /\ received \in [Tab -> SUBSET Nat]

Init ==
    /\ counter = [u \in User |-> 0]
    /\ history = [u \in User |-> <<>>]
    /\ pending = [p \in Publisher |-> Nothing]
    /\ wire = [i \in Instance |-> <<>>]
    /\ clients = [i \in Instance |-> [u \in User |-> {}]]
    /\ stage = [t \in Tab |-> Idle]
    /\ server \in [Tab -> Instance]
    /\ ch = [t \in Tab |-> <<>>]
    /\ missed = [t \in Tab |-> {}]
    /\ last = [t \in Tab |-> NoEvent]
    /\ published = 0
    /\ faults = 0
    /\ from = [t \in Tab |-> -1]
    /\ since = [t \in Tab |-> 0]
    /\ skipped = [t \in Tab |-> {}]
    /\ received = [t \in Tab |-> {}]
-----------------------------------------------------------------------------
(* Publishing. *)

\* Wrong: keeps one entry too many.
TrimOneTooMany(s) == IF Len(s) > HistorySize THEN SubSeq(s, Len(s) - HistorySize, Len(s)) ELSE s

\* LTRIM key -HistorySize -1: the newest HistorySize entries stay.
Trim(s) == IF Len(s) > HistorySize THEN SubSeq(s, Len(s) - HistorySize + 1, Len(s)) ELSE s

\* sseAppendScript: INCR, RPUSH and LTRIM run as one Redis script.
StoreAppend(u, data) ==
    /\ counter' = [counter EXCEPT ![u] = @ + 1]
    /\ history' = [history EXCEPT ![u] =
                       Trim(Append(@, [id |-> counter[u] + 1, data |-> data]))]

\* Broker.PublishToUser up to the return of store.Append.  (When Append fails
\* nothing was written and nothing is delivered: no step.)
PublishToUser(p, u) ==
    /\ pending[p] = Nothing
    /\ published < MaxPublished
    /\ published' = published + 1
    /\ StoreAppend(u, published')
    /\ pending' = [pending EXCEPT ![p] =
           [user |-> u, event |-> [id |-> counter'[u], data |-> published']]]
    /\ UNCHANGED <<wire, connVars, faults, skipped>>

\* Broker.PublishNotificationsChangedToUser (to = a user) and Broker.Broadcast
\* (to = NoUser): neither numbered nor kept.
PublishEphemeral(p, to) ==
    /\ pending[p] = Nothing
    /\ published < MaxPublished
    /\ published' = published + 1
    /\ pending' = [pending EXCEPT ![p] =
           [user |-> to, event |-> [id |-> 0, data |-> published']]]
    /\ UNCHANGED <<storeVars, wire, connVars, faults, skipped>>

\* Wrong: the publishing instance also hands the event to its own tabs.
FanoutPublishWithShortcut(p) ==
    /\ pending[p] # Nothing
    /\ wire' = [i \in Instance |-> Append(wire[i], pending[p])]
    /\ pending' = [pending EXCEPT ![p] = Nothing]
    /\ \E i \in Instance : ch' = [t \in Tab |->
           IF stage[t] # Idle /\ server[t] = i /\ Len(ch[t]) < BufferSize
           THEN Append(ch[t], pending[p].event) ELSE ch[t]]
    /\ UNCHANGED <<storeVars, clients, stage, server, missed, last, from, since, received,
                   published, faults, skipped>>

\* SSEFanout.Publish: Redis PUBLISH reaches every subscribed instance.
FanoutPublish(p) ==
    /\ pending[p] # Nothing
    /\ wire' = [i \in Instance |-> Append(wire[i], pending[p])]
    /\ pending' = [pending EXCEPT ![p] = Nothing]
    /\ UNCHANGED <<storeVars, connVars, published, faults, skipped>>

\* PUBLISH fails, or the publishing process dies before it: the event is kept
\* in the history and reaches nobody live (Broker.publish only logs).
FanoutFails(p) ==
    /\ pending[p] # Nothing
    /\ faults < MaxFaults
    /\ faults' = faults + 1
    /\ skipped' = [t \in Tab |-> IF stage[t] # Idle THEN skipped[t] \cup {pending[p].event}
                                 ELSE skipped[t]]
    /\ pending' = [pending EXCEPT ![p] = Nothing]
    /\ UNCHANGED <<storeVars, wire, connVars, published>>

\* Redis Pub/Sub keeps nothing for a subscriber that is reconnecting.
FanoutLoses(i) ==
    /\ wire[i] # <<>>
    /\ faults < MaxFaults
    /\ faults' = faults + 1
    /\ wire' = [wire EXCEPT ![i] = Tail(@)]
    /\ skipped' = [t \in Tab |-> IF stage[t] # Idle /\ server[t] = i
                                 THEN skipped[t] \cup {Head(wire[i]).event}
                                 ELSE skipped[t]]
    /\ UNCHANGED <<storeVars, pending, connVars, published>>
-----------------------------------------------------------------------------
(* Delivery on one instance. *)

\* Wrong: only broadcasts are delivered.
TargetsOfBroadcastOnly(i, env) ==
    IF env.user = NoUser THEN UNION {clients[i][u] : u \in User} ELSE {}

\* The tabs of instance i that envelope env is addressed to.
Targets(i, env) ==
    IF env.user = NoUser THEN UNION {clients[i][u] : u \in User}
                         ELSE clients[i][env.user]

\* Wrong: a blocking send; one full channel holds up the instance.
DeliverLocalBlocking(i) ==
    /\ wire[i] # <<>>
    /\ \A t \in Targets(i, Head(wire[i])) : Len(ch[t]) < BufferSize
    /\ ch' = [t \in Tab |-> IF t \in Targets(i, Head(wire[i]))
                            THEN Append(ch[t], Head(wire[i]).event) ELSE ch[t]]
    /\ wire' = [wire EXCEPT ![i] = Tail(@)]
    /\ UNCHANGED <<storeVars, pending, clients, stage, server, missed, last, published,
                   faults, from, since, skipped, received>>

\* Wrong: hands over the envelope, not the event in it.
DeliverLocalEnvelope(i) ==
    /\ wire[i] # <<>>
    /\ ch' = [t \in Tab |-> IF t \in Targets(i, Head(wire[i])) /\ Len(ch[t]) < BufferSize
                            THEN Append(ch[t], Head(wire[i])) ELSE ch[t]]
    /\ wire' = [wire EXCEPT ![i] = Tail(@)]
    /\ UNCHANGED <<storeVars, pending, clients, stage, server, missed, last, published,
                   faults, from, since, skipped, received>>

\* Broker.DeliverLocal: under b.mu, a non-blocking send to every target.
DeliverLocal(i) ==
    /\ wire[i] # <<>>
    /\ LET env == Head(wire[i])
           full(t) == Len(ch[t]) >= BufferSize
           to == Targets(i, env)
       IN /\ ch' = [t \in Tab |-> IF t \in to /\ ~full(t) THEN Append(ch[t], env.event)
                                  ELSE ch[t]]
          /\ skipped' = [t \in Tab |-> IF t \in to /\ full(t) THEN skipped[t] \cup {env.event}
                                       ELSE skipped[t]]
    /\ wire' = [wire EXCEPT ![i] = Tail(@)]
    /\ UNCHANGED <<storeVars, pending, clients, stage, server, missed, last, published,
                   faults, from, since, received>>
-----------------------------------------------------------------------------
(* A connection: Broker.Subscribe, the handler's loop, Broker.Unsubscribe. *)

\* The cap of Subscribe; a tab beyond it is refused (429).
HasRoom(i, u) == Cardinality(clients[i][u]) < MaxConnections

\* Subscribe, under b.mu: the tab is registered before Replay is called.
Subscribe(t, i) ==
    LET u == Owner[t] IN
    /\ stage[t] = Idle
    /\ HasRoom(i, u)
    /\ clients' = [clients EXCEPT ![i][u] = @ \cup {t}]
    /\ stage' = [stage EXCEPT ![t] = Registered]
    /\ server' = [server EXCEPT ![t] = i]
    /\ since' = [since EXCEPT ![t] = published]
    /\ UNCHANGED <<storeVars, pending, wire, ch, missed, last, published, faults, from, skipped, received>>

\* Wrong: skips the first event the tab missed.
SelectMissedOffByOne(lastId, hist) ==
    {<<k, hist[k]>> : k \in {j \in 1..Len(hist) : hist[j].id > lastId + 1}}

\* sse.SelectMissed: the entries newer than the named id, each with its position
\* in the history, which is the order they are written in.
SelectMissed(lastId, hist) ==
    {<<k, hist[k]>> : k \in {j \in 1..Len(hist) : hist[j].id > lastId}}

\* SSEStore.Replay gives up on a tab that names no id, and on one that names an
\* id the counter has not reached (the counter was lost).
CanResume(t) == last[t].id >= 0 /\ last[t].id <= counter[Owner[t]]

\* store.Replay answers and the handler starts to write.
Replay(t) ==
    /\ stage[t] = Registered
    /\ stage' = [stage EXCEPT ![t] = Open]
    /\ from' = [from EXCEPT ![t] = IF CanResume(t) THEN last[t].id ELSE -1]
    /\ missed' = [missed EXCEPT ![t] = IF CanResume(t)
                                       THEN SelectMissed(last[t].id, history[Owner[t]])
                                       ELSE {}]
    /\ UNCHANGED <<storeVars, pending, wire, clients, server, ch, last, published, faults,
                   since, skipped, received>>

\* store.Replay fails: the tab is connected without a replay.
ReplayFails(t) ==
    /\ stage[t] = Registered
    /\ faults < MaxFaults
    /\ faults' = faults + 1
    /\ stage' = [stage EXCEPT ![t] = Open]
    /\ missed' = [missed EXCEPT ![t] = {}]
    /\ UNCHANGED <<storeVars, pending, wire, clients, server, ch, last, published,
                   from, since, skipped, received>>

\* What the browser does with an event: writeSSE sends no id line for id 0, and
\* the browser remembers the id of the last event that had one.
Receive(t, ev) ==
    /\ last' = [last EXCEPT ![t] = IF ev.id # 0 THEN ev ELSE @]
    /\ received' = [received EXCEPT ![t] = @ \cup {ev.data}]

\* The handler's replay loop writes the next missed event.
WriteMissed(t) ==
    /\ stage[t] = Open
    /\ \E m \in missed[t] :
          /\ \A o \in missed[t] : m[1] <= o[1]
          /\ Receive(t, m[2])
          /\ missed' = [missed EXCEPT ![t] = @ \ {m}]
    /\ UNCHANGED <<storeVars, pending, wire, clients, stage, server, ch, published, faults,
                   from, since, skipped>>

\* The handler's select loop, entered when the replay is written: case cl.Events().
WriteLive(t) ==
    /\ stage[t] = Open
    /\ missed[t] = {}
    /\ ch[t] # <<>>
    /\ Receive(t, Head(ch[t]))
    /\ ch' = [ch EXCEPT ![t] = Tail(@)]
    /\ UNCHANGED <<storeVars, pending, wire, clients, stage, server, missed, published,
                   faults, from, since, skipped>>

\* Wrong: Unsubscribe leaves the client in the map.
CloseKeepsClient(gone) ==
    /\ stage' = [t \in Tab |-> IF t \in gone THEN Idle ELSE stage[t]]
    /\ ch' = [t \in Tab |-> IF t \in gone THEN <<>> ELSE ch[t]]
    /\ missed' = [t \in Tab |-> IF t \in gone THEN {} ELSE missed[t]]
    /\ from' = [t \in Tab |-> IF t \in gone THEN -1 ELSE from[t]]
    /\ since' = [t \in Tab |-> IF t \in gone THEN 0 ELSE since[t]]
    /\ skipped' = [t \in Tab |-> IF t \in gone THEN {} ELSE skipped[t]]
    /\ UNCHANGED clients

\* The connections of the tabs in gone end; what is still in their channels or
\* in the replay goes with them.
Close(gone) ==
    /\ clients' = [i \in Instance |-> [u \in User |-> clients[i][u] \ gone]]
    /\ stage' = [t \in Tab |-> IF t \in gone THEN Idle ELSE stage[t]]
    /\ ch' = [t \in Tab |-> IF t \in gone THEN <<>> ELSE ch[t]]
    /\ missed' = [t \in Tab |-> IF t \in gone THEN {} ELSE missed[t]]
    /\ from' = [t \in Tab |-> IF t \in gone THEN -1 ELSE from[t]]
    /\ since' = [t \in Tab |-> IF t \in gone THEN 0 ELSE since[t]]
    /\ skipped' = [t \in Tab |-> IF t \in gone THEN {} ELSE skipped[t]]

\* Broker.Unsubscribe: the request ended or a write failed (the handler's defer).
Unsubscribe(t) ==
    /\ stage[t] = Open
    /\ Close({t})
    /\ UNCHANGED <<storeVars, pending, wire, server, last, published, faults, received>>

\* An instance stops: its connections and its Redis subscription end.
Restart(i) ==
    /\ Close({t \in Tab : server[t] = i})
    /\ wire' = [wire EXCEPT ![i] = <<>>]
    /\ UNCHANGED <<storeVars, pending, server, last, published, faults, received>>
-----------------------------------------------------------------------------
(* Redis. *)

\* EXPIRE: the history goes after sseHistoryTTL without an append; the counter
\* has no expiry.
ExpireHistory(u) ==
    /\ history[u] # <<>>
    /\ history' = [history EXCEPT ![u] = <<>>]
    /\ UNCHANGED <<counter, pending, wire, connVars, published, faults, skipped>>

\* FLUSHALL, or a replacement Redis: counters and histories are gone.
Flush ==
    /\ faults < MaxFaults
    /\ faults' = faults + 1
    /\ counter' = [u \in User |-> 0]
    /\ history' = [u \in User |-> <<>>]
    /\ UNCHANGED <<pending, wire, connVars, published, skipped>>
-----------------------------------------------------------------------------
Next ==
    \/ \E p \in Publisher : \/ \E u \in User : PublishToUser(p, u)
                            \/ \E to \in User \cup {NoUser} : PublishEphemeral(p, to)
                            \/ FanoutPublish(p)
                            \/ FanoutFails(p)
    \/ \E i \in Instance : \/ FanoutLoses(i)
                           \/ DeliverLocal(i)
                           \/ Restart(i)
                           \/ \E t \in Tab : Subscribe(t, i)
    \/ \E t \in Tab : \/ Replay(t)
                      \/ ReplayFails(t)
                      \/ WriteMissed(t)
                      \/ WriteLive(t)
                      \/ Unsubscribe(t)
    \/ \E u \in User : ExpireHistory(u)
    \/ Flush

Spec == Init /\ [][Next]_vars

\* The publishing goroutines and each instance's receiving goroutine keep
\* running.  Nothing is assumed of the readers: a tab may stop reading.
DeliveryFairness ==
    /\ \A p \in Publisher : WF_vars(FanoutPublish(p))
    /\ \A i \in Instance : WF_vars(DeliverLocal(i))

\* The handler goroutines run too: they finish Subscribe and write what they have.
HandlerFairness ==
    \A t \in Tab : /\ WF_vars(Replay(t))
                   /\ WF_vars(WriteMissed(t))
                   /\ WF_vars(WriteLive(t))

DeliverySpec == Spec /\ DeliveryFairness
-----------------------------------------------------------------------------
(* Properties. *)

\* The entries of s are numbered consecutively up to n, and not too many.
IsRun(s, n) ==
    /\ Len(s) <= HistorySize
    /\ Len(s) <= n
    /\ \A k \in 1..Len(s) : s[k].id = n - Len(s) + k

\* The ids kept for a user are consecutive, end at the counter, and there are
\* never more than HistorySize: sseAppendScript numbers and records in one
\* script, so concurrent publishers cannot leave a hole or swap two entries,
\* and neither expiry nor a flush breaks the run.
HistoryIsRun == \A u \in User : IsRun(history[u], counter[u])

\* A tab is in Broker.clients of exactly the instance that serves it, under its
\* owner, exactly while its connection exists (so DeliverLocal never sends to
\* a channel Unsubscribe has closed).
ClientsMatchConnections ==
    \A i \in Instance, u \in User :
        clients[i][u] = {t \in Tab : stage[t] # Idle /\ server[t] = i /\ Owner[t] = u}

\* Event ev of tab t's owner is on its way to the current connection of t.
InFlight(t, ev) ==
    \/ \E m \in missed[t] : m[2] = ev
    \/ InSeq(ev, ch[t])
    \/ InSeq([user |-> Owner[t], event |-> ev], wire[server[t]])
    \/ \E p \in Publisher : pending[p] = [user |-> Owner[t], event |-> ev]

\* The events in the history that connection t must bring to its tab: the ones
\* published since it registered and, when it resumed, the ones after the id it
\* resumed from.
Owed(t, ev) == ev.data > since[t] \/ (from[t] >= 0 /\ ev.id > from[t])

\* The tab has ev, or ev is on its way, or it was lost on the way.
Accounted(t, ev) == ev.data \in received[t] \/ InFlight(t, ev) \/ ev \in skipped[t]

\* No event falls between replay and live delivery: while a connection exists,
\* each event it owes its tab is received, in flight to it, or recorded as lost
\* on the way (a full channel, a Pub/Sub loss).  Subscribe registers the tab
\* before it asks for the replay, and this is why.
NothingFallsBetween ==
    \A t \in Tab : stage[t] # Idle =>
        \A k \in 1..Len(history[Owner[t]]) :
            Owed(t, history[Owner[t]][k]) => Accounted(t, history[Owner[t]][k])

\* An event reaches a connection live at most once: it is never twice in the
\* tab's channel, nor in the channel and again on the wire to its instance
\* (an instance hands over what comes back from Redis and nothing else).
LiveAtMostOnce ==
    \A t \in Tab : stage[t] # Idle =>
        LET live == ch[t] \o [k \in 1..Len(wire[server[t]]) |-> wire[server[t]][k].event]
        IN \A j, k \in 1..Len(live) : live[j] = live[k] => j = k

\* Everything on its way to tab t has arrived.
Quiet(t) ==
    /\ stage[t] = Open
    /\ missed[t] = {}
    /\ ch[t] = <<>>
    /\ wire[server[t]] = <<>>
    /\ \A p \in Publisher : pending[p] = Nothing

\* After a reconnection that resumed and on which nothing was lost, once all has
\* arrived, the tab has every event in the history that is newer than one it
\* has: no event of the time it was away is missing.
ReconnectCatchesUp ==
    \A t \in Tab : (Quiet(t) /\ from[t] >= 0 /\ skipped[t] = {}) =>
        LET hist == history[Owner[t]] IN
        \A j, k \in 1..Len(hist) :
            (j < k /\ hist[j].data \in received[t]) => hist[k].data \in received[t]

\* A tab that stops reading holds up nobody: whatever reaches an instance is
\* handed out, because DeliverLocal drops rather than waits while it holds b.mu.
DeliveryNeverStalls == \A i \in Instance : wire[i] # <<>> ~> wire[i] = <<>>

\* While the handlers run and the publishers finish, an event a connection owes
\* its tab arrives, unless the connection ends, the event is lost on the way or it
\* has left the history.
OwedArrives ==
    HandlerFairness => \A t \in Tab, d \in 1..MaxPublished :
        (stage[t] # Idle /\ \E k \in 1..Len(history[Owner[t]]) :
             history[Owner[t]][k].data = d /\ Owed(t, history[Owner[t]][k]))
        ~> (\/ d \in received[t]
            \/ stage[t] = Idle
            \/ \E ev \in skipped[t] : ev.data = d)
=============================================================================
