-------------------------- MODULE ChatEventsProofs --------------------------
(***************************************************************************)
(* What chat events and notifications guarantee for any number of          *)
(* requests at once, of users, messages, slots of the runner and failures. *)
(*                                                                         *)
(* The argument: every reason to notify somebody, every stale card or list *)
(* and every message that a screen does not show as stored is in the hands *)
(* of a request or a task that will deal with it (Accounted, StaleIsTold,  *)
(* ScreensFollow), and the announcement of a thread is known to whoever    *)
(* changes the thread (OneCard, KnowsCard).                                *)
(***************************************************************************)
EXTENDS ChatEvents, FiniteSetTheorems, TLAPS

-----------------------------------------------------------------------------
(* The invariant. *)

\* What is announced: the message that SaveThread writes.
Card == {m \in DOMAIN messages : messages[m].content = Announcement}

\* Its message is deleted.
CardGone == \A m \in Card : messages[m].deleted

\* A request is about a message that is there, or, before it has saved one, about none.
Refers(r) ==
    /\ r.msg \in 0..Len(messages)
    /\ r.op \in {"send", "create"} => (r.msg = 0 <=> r.step = "save")
    /\ r.op = "send" => r.reply <= Len(messages)
    /\ r.op = "send" /\ r.room = Thread => thread # None

\* The requests on a thread know its announcement, and no other request touches it.
KnowsCard(r) ==
    /\ r.op \in {"edit", "delete"} => r.msg \notin Card
    /\ r.op = "card" => r.card \in Card
    /\ r.op = "react" /\ r.msg \in Card => r.content = Announcement
    /\ r.op = "create" => kind # "dm"
    /\ r.op = "create" /\ r.step = "save" => thread = None
    /\ r.op \in {"rename", "remove"} =>
          /\ thread # None
          /\ IF r.msg = 0 THEN CardGone ELSE r.msg \in Card
    /\ r.op = "remove" /\ r.step # "save" => CardGone

\* Every request, and what there is once each has saved.
RequestsFit ==
    /\ \A q \in Request : requests[q] # Idle => Refers(requests[q]) /\ KnowsCard(requests[q])
    /\ \A p, q \in Request : At(p, "create", "save") /\ At(q, "create", "save") => p = q
    /\ Numbered <= MaxMessages

\* There is one announcement once there was a thread, and it goes before the thread goes.
OneCard ==
    /\ \A m, n \in Card : m = n
    /\ \A m \in DOMAIN messages : messages[m].announces <=> m \in Card /\ thread # Gone
    /\ \A m \in Card : messages[m].room = Main
    /\ thread = None <=> Card = {}
    /\ thread = None => \A m \in DOMAIN messages : messages[m].room # Thread
    /\ thread = Gone => CardGone
    /\ RoomExists(Thread) /\ CardGone =>
          torn # {} \/ \E q \in Request : At(q, "remove", "room") /\ requests[q].msg # 0

\* A screen shows the announcement as such, or not at all.
CardShown == \A m \in Card : shown[m] \in {Hidden, Announcement}

\* Requests that will have the list of threads fetched again,
TellsList(r) ==
    \/ r.op = "send" /\ r.step = "publish" /\ r.room = Thread
    \/ r.op \in {"create", "remove"} /\ r.step = "publish"
    \/ r.op = "rename" /\ r.step = "publish" /\ RoomExists(Thread)

\* ... the card of the thread,
TellsCard(r) ==
    \/ r.op = "send" /\ r.step \in {"publish", "card"} /\ r.room = Thread
    \/ r.op = "delete" /\ r.step \in {"publish", "card"} /\ messages[r.msg].room = Thread
    \/ r.op = "card"
    \/ r.op = "create" /\ r.step = "publish"
    \/ r.op = "rename" /\ r.step = "publish" /\ r.msg # 0

\* ... the reactions of a message.
TellsReactions(r, m) == r.op = "react" /\ r.step = "publish" /\ r.msg = m

\* Whatever is stale is about to be told.
StaleIsTold ==
    /\ listStale /\ ~missed => \E q \in Request : requests[q] # Idle /\ TellsList(requests[q])
    /\ cardStale /\ ~missed /\ ~CardGone /\ RoomExists(Thread) =>
          \E q \in Request : requests[q] # Idle /\ TellsCard(requests[q])
    /\ \A m \in reactionsStale : \E q \in Request : requests[q] # Idle /\ TellsReactions(requests[q], m)

\* A message that two requests never shared is in the hands of one.
OneHand ==
    \A p, q \in Request :
        requests[p] # Idle /\ requests[q] # Idle /\ requests[p].msg = requests[q].msg
            => p = q \/ requests[p].msg \in overlapped \cup {0}

\* A screen shows s of a message g.
AsStored(g, s) == s = IF g.deleted THEN Hidden ELSE g.content

\* The requests that have something to publish.
Owing(r) ==
    \/ r.op \in {"send", "create", "edit", "delete"} /\ r.step = "publish"
    \/ r.op = "remove" /\ r.step # "save"

\* What request r leaves of its message g, shown as s, while no other request has it.
Leaves(r, g, s) ==
    /\ ~Owing(r) => AsStored(g, s)
    /\ r.op \in {"send", "create"} /\ r.step = "publish" => ~g.deleted
    /\ r.op = "edit" /\ r.step = "publish" =>
          IF g.deleted THEN s = Hidden ELSE s # Hidden /\ g.content = r.content
    /\ r.op = "delete" /\ r.step = "publish" => g.deleted
    /\ r.op = "remove" /\ r.step # "save" => g.deleted
    /\ r.op = "react" => g.deleted \/ g.content = r.content

\* Messages that no two requests shared, in a room that is there.
Clean(m) == m \in DOMAIN messages \ (overlapped \cup torn) /\ RoomExists(messages[m].room)

ScreensFollow ==
    \A m \in DOMAIN messages : Clean(m) =>
        /\ ~InFlight(m) => AsStored(messages[m], shown[m])
        /\ \A q \in Request : requests[q] # Idle /\ requests[q].msg = m
                => Leaves(requests[q], messages[m], shown[m])

\* Whom a request will have told, and how it knows whom to tell.
Tells(r) ==
    IF r.step # "publish" THEN {}
    ELSE IF r.op = "send" THEN r.mentions \cup Others(r.user, r.reply)
    ELSE IF r.op = "edit" /\ r.before.known THEN r.mentions \ r.before.users ELSE {}

Told(m) == {u \in User : \E q \in Request : requests[q] # Idle /\ requests[q].msg = m /\ u \in Tells(requests[q])}

Addresses(task) == task.mentions \cup task.others

\* Tasks that will tell user u of message m.
Waiting(ts, m, u) == {i \in DOMAIN ts : ts[i].msg = m /\ u \in Addresses(ts[i])}

\* A task of a new message addresses everybody it may reach.
TaskFits(task) ==
    /\ task.msg \in DOMAIN messages
    /\ task.sent => IF kind = "dm" THEN User \ {task.actor} \subseteq task.others
                                   ELSE Replied(task.msg) \subseteq task.others

\* What a request that notifies knows of its message.
KnowsMessage(r) ==
    /\ r.op = "send" /\ r.step = "publish" => messages[r.msg].author = r.user /\ messages[r.msg].reply = r.reply
    /\ r.op = "create" /\ r.step = "publish" => messages[r.msg].reply = 0
    /\ r.op = "edit" /\ r.step = "save" /\ r.msg \notin overlapped /\ r.before.known =>
          r.before.users = messages[r.msg].mentions

Due(m, u) == notes[m][u] + Cardinality(Waiting(tasks, m, u)) + IF u \in Told(m) THEN 1 ELSE 0

\* Every reason to notify somebody is a notification, a task or a request, or was lost.
Accounted ==
    /\ \A i \in DOMAIN tasks : TaskFits(tasks[i])
    /\ \A q \in Request : requests[q] # Idle => KnowsMessage(requests[q])
    /\ \A m \in MessageId \ DOMAIN messages : \A u \in User : notes[m][u] = 0 /\ calls[m][u] = 0
    /\ \A m \in DOMAIN messages \ overlapped : \A u \in User :
          /\ Due(m, u) <= calls[m][u]
          /\ m \notin lost => Due(m, u) = calls[m][u]

IInv == TypeOK /\ RequestsFit /\ OneCard /\ CardShown /\ StaleIsTold /\ OneHand /\ ScreensFollow /\ Accounted
-----------------------------------------------------------------------------
(* Types. *)

DbType ==
    /\ kind \in Kind
    /\ thread \in ThreadRecord \cup {None, Gone}
    /\ messages \in Seq(Message)
    /\ Len(messages) <= MaxMessages
    /\ \A m \in DOMAIN messages : messages[m].reply < m

RequestType == requests \in [Request -> Requests \cup {Idle}]

RunnerType ==
    /\ tasks \in Seq(Task)
    /\ Len(tasks) <= MaxConcurrent
    /\ notes \in [MessageId -> [User -> Nat]]
    /\ calls \in [MessageId -> [User -> Nat]]
    /\ lost \subseteq DOMAIN messages

ScreenType ==
    /\ shown \in [MessageId -> Content \cup {Announcement, Hidden}]
    /\ \A m \in MessageId : shown[m] # Hidden => m \in DOMAIN messages
    /\ cardStale \in BOOLEAN /\ listStale \in BOOLEAN /\ missed \in BOOLEAN
    /\ reactionsStale \subseteq DOMAIN messages

CountType == overlapped \subseteq DOMAIN messages /\ begun \in 0..MaxRequests /\ faults \in 0..MaxFaults

LEMMA TypeParts == TypeOK <=> DbType /\ RequestType /\ RunnerType /\ ScreenType /\ CountType
  BY DEF TypeOK, DbType, RequestType, RunnerType, ScreenType, CountType

LEMMA Bounds ==
    /\ MaxMessages \in Nat /\ MaxRequests \in Nat /\ MaxFaults \in Nat /\ MaxConcurrent \in Nat \ {0}
    /\ Hidden \notin Nat /\ Main # Thread /\ None # Gone /\ Idle \notin Requests
    /\ None \notin ThreadRecord /\ Gone \notin ThreadRecord /\ IsFiniteSet(Request)
    /\ Announcement = 0 /\ Announcement \notin Content
    /\ Content \subseteq Nat /\ MessageId \subseteq Nat
  BY ChatAssumption, ValueAssumption DEF Content, Announcement, MessageId

\* A request has the fields of its kind.
LEMMA Fields ==
    ASSUME NEW r \in Requests
    PROVE  /\ r.op \in {"send", "card", "edit", "delete", "react", "create", "rename", "remove"}
           /\ r.msg \in 0..MaxMessages
           /\ r.op = "send" <=> r \in SendRequest
           /\ r.op = "card" <=> r \in CardRequest
           /\ r.op = "edit" <=> r \in EditRequest
           /\ r.op = "delete" <=> r \in DeleteRequest
           /\ r.op = "react" <=> r \in ReactRequest
           /\ r.op = "create" <=> r \in CreateRequest
           /\ r.op = "rename" <=> r \in RenameRequest
           /\ r.op = "remove" <=> r \in RemoveRequest
           /\ r.op \in {"card", "edit", "delete", "react"} => r.msg \in MessageId
<1>1. CASE r \in SendRequest BY <1>1 DEF SendRequest, CardRequest, EditRequest, DeleteRequest, ReactRequest, CreateRequest, RenameRequest, RemoveRequest
<1>2. CASE r \in CardRequest BY <1>2, Bounds DEF MessageId, SendRequest, CardRequest, EditRequest, DeleteRequest, ReactRequest, CreateRequest, RenameRequest, RemoveRequest
<1>3. CASE r \in EditRequest BY <1>3, Bounds DEF MessageId, SendRequest, CardRequest, EditRequest, DeleteRequest, ReactRequest, CreateRequest, RenameRequest, RemoveRequest
<1>4. CASE r \in DeleteRequest BY <1>4, Bounds DEF MessageId, SendRequest, CardRequest, EditRequest, DeleteRequest, ReactRequest, CreateRequest, RenameRequest, RemoveRequest
<1>5. CASE r \in ReactRequest BY <1>5, Bounds DEF MessageId, SendRequest, CardRequest, EditRequest, DeleteRequest, ReactRequest, CreateRequest, RenameRequest, RemoveRequest
<1>6. CASE r \in CreateRequest BY <1>6 DEF SendRequest, CardRequest, EditRequest, DeleteRequest, ReactRequest, CreateRequest, RenameRequest, RemoveRequest
<1>7. CASE r \in RenameRequest BY <1>7 DEF SendRequest, CardRequest, EditRequest, DeleteRequest, ReactRequest, CreateRequest, RenameRequest, RemoveRequest
<1>8. CASE r \in RemoveRequest BY <1>8 DEF SendRequest, CardRequest, EditRequest, DeleteRequest, ReactRequest, CreateRequest, RenameRequest, RemoveRequest
<1>9. QED BY <1>1, <1>2, <1>3, <1>4, <1>5, <1>6, <1>7, <1>8 DEF Requests

\* A request of any kind is one.
LEMMA Kinds ==
    /\ SendRequest \subseteq Requests /\ CardRequest \subseteq Requests /\ EditRequest \subseteq Requests
    /\ DeleteRequest \subseteq Requests /\ ReactRequest \subseteq Requests /\ CreateRequest \subseteq Requests
    /\ RenameRequest \subseteq Requests /\ RemoveRequest \subseteq Requests
  BY DEF Requests

\* Request q becomes x.
Turns(q, x) == requests' = [requests EXCEPT ![q] = x]

LEMMA Turned ==
    ASSUME RequestType, NEW q \in Request, NEW x \in Requests \cup {Idle}, Turns(q, x)
    PROVE  /\ RequestType'
           /\ requests'[q] = x
           /\ \A p \in Request : p # q => requests'[p] = requests[p]
  BY DEF RequestType, Turns

\* What a change of the step leaves of a request.
LEMMA Stepped ==
    ASSUME NEW r \in Requests, NEW s
    PROVE  LET x == [r EXCEPT !.step = s] IN
           /\ x.step = s /\ x.op = r.op /\ x.msg = r.msg
           /\ r \in SendRequest /\ s \in {"publish", "card"} => x \in SendRequest /\ x.room = r.room /\ x.mentions = r.mentions /\ x.user = r.user /\ x.reply = r.reply
           /\ r \in EditRequest /\ s = "publish" => x \in EditRequest /\ x.content = r.content /\ x.mentions = r.mentions /\ x.before = r.before
           /\ r \in DeleteRequest /\ s \in {"publish", "card"} => x \in DeleteRequest
           /\ r \in ReactRequest /\ s = "publish" => x \in ReactRequest /\ x.content = r.content
           /\ r \in CreateRequest /\ s = "publish" => x \in CreateRequest
           /\ r \in RenameRequest /\ s = "publish" => x \in RenameRequest
           /\ r \in RemoveRequest /\ s \in {"room", "publish"} => x \in RemoveRequest
<1> DEFINE x == [r EXCEPT !.step = s]
<1>1. CASE r \in SendRequest BY <1>1, Fields DEF SendRequest
<1>2. CASE r \in CardRequest BY <1>2, Fields DEF CardRequest
<1>3. CASE r \in EditRequest BY <1>3, Fields DEF EditRequest
<1>4. CASE r \in DeleteRequest BY <1>4, Fields DEF DeleteRequest
<1>5. CASE r \in ReactRequest BY <1>5, Fields DEF ReactRequest
<1>6. CASE r \in CreateRequest BY <1>6, Fields DEF CreateRequest
<1>7. CASE r \in RenameRequest BY <1>7, Fields DEF RenameRequest
<1>8. CASE r \in RemoveRequest BY <1>8, Fields DEF RemoveRequest
<1>9. QED BY <1>1, <1>2, <1>3, <1>4, <1>5, <1>6, <1>7, <1>8, Fields DEF Requests

\* Saving gives a request the number of its message.
LEMMA Named ==
    ASSUME NEW r \in Requests, NEW m \in MessageId
    PROVE  LET x == [r EXCEPT !.step = "publish", !.msg = m] IN
           /\ r \in SendRequest => x \in SendRequest /\ x.room = r.room /\ x.mentions = r.mentions /\ x.user = r.user /\ x.reply = r.reply
           /\ r \in CreateRequest => x \in CreateRequest
           /\ r \in SendRequest \cup CreateRequest => x.step = "publish" /\ x.msg = m /\ x.op = r.op
<1>0. m \in 0..MaxMessages BY Bounds DEF MessageId
<1>1. CASE r \in SendRequest
  <2>1. r \notin CreateRequest BY <1>1, Fields
  <2>2. QED BY <1>0, <1>1, <2>1 DEF SendRequest
<1>2. CASE r \in CreateRequest
  <2>1. r \notin SendRequest BY <1>2, Fields
  <2>2. QED BY <1>0, <1>2, <2>1 DEF CreateRequest
<1>3. QED BY <1>1, <1>2, Fields
-----------------------------------------------------------------------------
(* The shapes of the steps. *)

\* A request that begins knows what it needs.
Starts(r) ==
    /\ r.step = "save"
    /\ Refers(r) /\ KnowsCard(r) /\ KnowsMessage(r)
    /\ r.op \in {"send", "create"} => Numbered < MaxMessages
    /\ r.op = "create" => ~\E p \in Request : At(p, "create", "save")
    /\ r.op = "react" => r.content = messages[r.msg].content

Begins(q) ==
    \E r \in Requests :
        /\ Starts(r)
        /\ Begin(q, r)
        /\ faults' \in 0..MaxFaults
        /\ UNCHANGED <<dbVars, screenVars, noteVars, torn, missed>>

\* A request ends and leaves nothing behind, or gives up on a card.
Ends(q) ==
    /\ requests[q] # Idle
    /\ Turns(q, Idle)
    /\ \/ requests[q].step = "save"
       \/ requests[q].step = "card" /\ (missed' \/ CardGone \/ thread = Gone)
    /\ missed' \in {missed, TRUE}
    /\ faults' \in 0..MaxFaults
    /\ UNCHANGED <<dbVars, screenVars, noteVars, begun, overlapped, torn>>

LEMMA MessageIds ==
    ASSUME DbType
    PROVE  /\ Len(messages) \in Nat
           /\ DOMAIN messages = 1..Len(messages)
           /\ DOMAIN messages \subseteq MessageId
           /\ \A m \in DOMAIN messages : messages[m] \in Message
  BY Bounds DEF DbType, MessageId

\* AnnouncementID is the announcement as long as it is there.
LEMMA AnnouncementIs ==
    ASSUME DbType, OneCard
    PROVE  /\ AnnouncementID \in 0..Len(messages)
           /\ AnnouncementID # 0 => AnnouncementID \in Card /\ ~messages[AnnouncementID].deleted /\ thread # Gone
           /\ AnnouncementID = 0 <=> CardGone \/ thread = Gone
<1> DEFINE announcing == {m \in DOMAIN messages : Live(m) /\ messages[m].announces}
<1>1. \A m \in announcing : m \in Card /\ ~messages[m].deleted /\ thread # Gone
  BY DEF OneCard, Live
<1>2. announcing = {} <=> CardGone \/ thread = Gone
  BY DEF OneCard, Live, CardGone, Card
<1>3. AnnouncementID = IF announcing = {} THEN 0 ELSE CHOOSE m \in announcing : \A n \in announcing : m <= n
  BY DEF AnnouncementID
<1>4. CASE announcing = {} BY <1>2, <1>3, <1>4, MessageIds
<1>5. CASE announcing # {}
  <2>1. PICK m \in announcing : TRUE BY <1>5
  <2>2. \A n \in announcing : n = m BY <1>1, <2>1 DEF OneCard
  <2>3. m \in Nat /\ m # 0 /\ m \in 1..Len(messages) BY <2>1, MessageIds
  <2>4. \E k \in announcing : \A n \in announcing : k <= n BY <2>1, <2>2, <2>3
  <2>5. (CHOOSE k \in announcing : \A n \in announcing : k <= n) \in announcing BY <2>4
  <2>6. AnnouncementID = m BY <1>3, <1>5, <2>2, <2>5
  <2>7. QED BY <1>1, <1>2, <1>5, <2>1, <2>3, <2>6
<1>6. QED BY <1>4, <1>5

LEMMA FailsEnds ==
    ASSUME TypeOK, NEW q \in Request, requests[q] # Idle, requests[q].step = "save", Fails(q)
    PROVE  Ends(q)
<1>1. faults' \in 0..MaxFaults BY Bounds DEF Fails, Fault, TypeOK
<1>2. QED BY <1>1 DEF Fails, End, Ends, Turns

LEMMA SendBegins ==
    ASSUME TypeOK, RequestsFit, OneCard, NEW q \in Request, SendMessage(q)
    PROVE  Begins(q)
<1>0. DbType /\ CountType BY TypeParts
<1>1. PICK u \in User, room \in {Main, Thread}, stamp \in BOOLEAN, wanted \in SUBSET User, reply \in 0..Len(messages) :
        /\ Numbered < MaxMessages
        /\ WriteAccess(room)
        /\ Begin(q, [op |-> "send", step |-> "save", user |-> u, room |-> room, msg |-> 0,
                     content |-> begun + 1, stamp |-> stamp,
                     mentions |-> ResolveMentions(u, wanted), reply |-> reply])
        /\ UNCHANGED <<dbVars, screenVars, noteVars, faults, torn, missed>>
  BY DEF SendMessage
<1> DEFINE r == [op |-> "send", step |-> "save", user |-> u, room |-> room, msg |-> 0,
                 content |-> begun + 1, stamp |-> stamp,
                 mentions |-> ResolveMentions(u, wanted), reply |-> reply]
<1>2. begun + 1 \in Content BY <1>0, <1>1, Bounds DEF Begin, CountType, Content
<1>3. ResolveMentions(u, wanted) \in SUBSET User BY DEF ResolveMentions
<1>4. reply \in 0..MaxMessages /\ 0 \in 0..MaxMessages /\ 0 \in 0..Len(messages) /\ reply <= Len(messages) BY <1>0, MessageIds, Bounds DEF DbType
<1>5. r \in SendRequest BY <1>2, <1>3, <1>4 DEF SendRequest
<1>6. room = Thread => thread # None BY <1>1, Bounds DEF WriteAccess, RoomExists
<1>7. Starts(r) BY <1>1, <1>4, <1>6 DEF Starts, Refers, KnowsCard, KnowsMessage
<1>8. r \in Requests BY <1>5, Kinds
<1>9. faults' \in 0..MaxFaults BY <1>0, <1>1 DEF CountType
<1> HIDE DEF r
<1>10. Begin(q, r) BY <1>1 DEF r
<1>11. QED BY <1>1, <1>7, <1>8, <1>9, <1>10 DEF Begins

LEMMA UpdateBegins ==
    ASSUME TypeOK, RequestsFit, OneCard, NEW q \in Request, UpdateMessage(q)
    PROVE  Begins(q)
<1>0. DbType /\ CountType BY TypeParts
<1>1. PICK u \in User, m \in DOMAIN messages, wanted \in SUBSET User : \E before \in MentionsBefore(m) :
        /\ CanBeEditedBy(u, m)
        /\ IF before = [known |-> TRUE, users |-> messages[m].mentions] THEN UNCHANGED faults ELSE Fault
        /\ Begin(q, [op |-> "edit", step |-> "save", user |-> messages[m].author, msg |-> m,
                     content |-> begun + 1,
                     mentions |-> ResolveMentions(messages[m].author, wanted),
                     before |-> before])
        /\ UNCHANGED <<dbVars, screenVars, noteVars, torn, missed>>
  BY DEF UpdateMessage
<1>2. PICK before \in MentionsBefore(m) :
        /\ CanBeEditedBy(u, m)
        /\ IF before = [known |-> TRUE, users |-> messages[m].mentions] THEN UNCHANGED faults ELSE Fault
        /\ Begin(q, [op |-> "edit", step |-> "save", user |-> messages[m].author, msg |-> m,
                     content |-> begun + 1,
                     mentions |-> ResolveMentions(messages[m].author, wanted),
                     before |-> before])
        /\ UNCHANGED <<dbVars, screenVars, noteVars, torn, missed>>
  BY <1>1
<1> DEFINE r == [op |-> "edit", step |-> "save", user |-> messages[m].author, msg |-> m,
                 content |-> begun + 1,
                 mentions |-> ResolveMentions(messages[m].author, wanted),
                 before |-> before]
<1>3. begun + 1 \in Content BY <1>0, <1>2, Bounds DEF Begin, CountType, Content
<1>4. ResolveMentions(messages[m].author, wanted) \in SUBSET User BY DEF ResolveMentions
<1>5. messages[m] \in Message /\ m \in MessageId /\ m \in 0..Len(messages) BY <1>0, MessageIds
<1>6. messages[m].author \in User /\ messages[m].mentions \in SUBSET User BY <1>5 DEF Message
<1>7. before \in [known : BOOLEAN, users : SUBSET User] /\ (before.known => before.users = messages[m].mentions)
  <2>1. \/ before = [known |-> TRUE, users |-> messages[m].mentions]
        \/ before = [known |-> FALSE, users |-> {}]
    BY <1>2 DEF MentionsBefore
  <2>2. CASE before = [known |-> TRUE, users |-> messages[m].mentions] BY <2>2, <1>6
  <2>3. CASE before = [known |-> FALSE, users |-> {}] BY <2>3
  <2>4. QED BY <2>1, <2>2, <2>3
<1>8. r \in EditRequest BY <1>3, <1>4, <1>5, <1>6, <1>7 DEF EditRequest
<1>9. m \notin Card BY <1>2 DEF CanBeEditedBy, Live, OneCard, CardGone
<1>10. Starts(r) BY <1>5, <1>7, <1>9 DEF Starts, Refers, KnowsCard, KnowsMessage
<1>11. r \in Requests BY <1>8, Kinds
<1>12. faults' \in 0..MaxFaults BY <1>0, <1>2, Bounds DEF CountType, Fault
<1> HIDE DEF r
<1>13. Begin(q, r) BY <1>2 DEF r
<1>14. QED BY <1>2, <1>10, <1>11, <1>12, <1>13 DEF Begins

LEMMA DeleteBegins ==
    ASSUME TypeOK, RequestsFit, OneCard, NEW q \in Request, DeleteMessage(q)
    PROVE  Begins(q)
<1>0. DbType /\ CountType BY TypeParts
<1>1. PICK u \in User, m \in DOMAIN messages :
        /\ CanBeDeletedBy(u, m)
        /\ Begin(q, [op |-> "delete", step |-> "save", msg |-> m])
        /\ UNCHANGED <<dbVars, screenVars, noteVars, faults, torn, missed>>
  BY DEF DeleteMessage
<1> DEFINE r == [op |-> "delete", step |-> "save", msg |-> m]
<1>5. messages[m] \in Message /\ m \in MessageId /\ m \in 0..Len(messages) BY <1>0, MessageIds
<1>8. r \in DeleteRequest BY <1>5 DEF DeleteRequest
<1>9. m \notin Card BY <1>1 DEF CanBeDeletedBy, CanBeEditedBy, Live, OneCard, CardGone
<1>10. Starts(r) BY <1>5, <1>9 DEF Starts, Refers, KnowsCard, KnowsMessage
<1>11. r \in Requests BY <1>8, Kinds
<1>12. faults' \in 0..MaxFaults BY <1>0, <1>1 DEF CountType
<1> HIDE DEF r
<1>13. Begin(q, r) BY <1>1 DEF r
<1>14. QED BY <1>1, <1>10, <1>11, <1>12, <1>13 DEF Begins

LEMMA ReactBegins ==
    ASSUME TypeOK, RequestsFit, OneCard, NEW q \in Request, ChangeReaction(q)
    PROVE  Begins(q)
<1>0. DbType /\ CountType BY TypeParts
<1>1. PICK m \in DOMAIN messages :
        /\ Begin(q, [op |-> "react", step |-> "save", msg |-> m, content |-> messages[m].content])
        /\ UNCHANGED <<dbVars, screenVars, noteVars, faults, torn, missed>>
  BY DEF ChangeReaction
<1> DEFINE r == [op |-> "react", step |-> "save", msg |-> m, content |-> messages[m].content]
<1>5. messages[m] \in Message /\ m \in MessageId /\ m \in 0..Len(messages) BY <1>0, MessageIds
<1>8. r \in ReactRequest BY <1>5 DEF ReactRequest, Message
<1>10. Starts(r) BY <1>5 DEF Starts, Refers, KnowsCard, KnowsMessage, Card
<1>11. r \in Requests BY <1>8, Kinds
<1>12. faults' \in 0..MaxFaults BY <1>0, <1>1 DEF CountType
<1> HIDE DEF r
<1>13. Begin(q, r) BY <1>1 DEF r
<1>14. QED BY <1>1, <1>10, <1>11, <1>12, <1>13 DEF Begins

LEMMA CreateBegins ==
    ASSUME TypeOK, RequestsFit, OneCard, NEW q \in Request, CreateThread(q)
    PROVE  Begins(q)
<1>0. DbType /\ CountType BY TypeParts
<1>1. PICK u \in User, name \in Title :
        /\ kind # "dm"
        /\ thread = None
        /\ ~\E p \in Request : At(p, "create", "save")
        /\ Numbered < MaxMessages
        /\ Begin(q, [op |-> "create", step |-> "save", user |-> u, name |-> name, msg |-> 0])
        /\ UNCHANGED <<dbVars, screenVars, noteVars, faults, torn, missed>>
  BY DEF CreateThread
<1> DEFINE r == [op |-> "create", step |-> "save", user |-> u, name |-> name, msg |-> 0]
<1>5. 0 \in 0..MaxMessages /\ 0 \in 0..Len(messages) BY <1>0, MessageIds, Bounds
<1>8. r \in CreateRequest BY <1>5 DEF CreateRequest
<1>10. Starts(r) BY <1>1, <1>5 DEF Starts, Refers, KnowsCard, KnowsMessage
<1>11. r \in Requests BY <1>8, Kinds
<1>12. faults' \in 0..MaxFaults BY <1>0, <1>1 DEF CountType
<1> HIDE DEF r
<1>13. Begin(q, r) BY <1>1 DEF r
<1>14. QED BY <1>1, <1>10, <1>11, <1>12, <1>13 DEF Begins

LEMMA RenameBegins ==
    ASSUME TypeOK, RequestsFit, OneCard, NEW q \in Request, UpdateThread(q)
    PROVE  Begins(q)
<1>0. DbType /\ CountType BY TypeParts
<1>1. PICK name \in Title, closed \in BOOLEAN :
        /\ RoomExists(Thread)
        /\ Begin(q, [op |-> "rename", step |-> "save", name |-> name, closed |-> closed, msg |-> AnnouncementID])
        /\ UNCHANGED <<dbVars, screenVars, noteVars, faults, torn, missed>>
  BY DEF UpdateThread
<1> DEFINE r == [op |-> "rename", step |-> "save", name |-> name, closed |-> closed, msg |-> AnnouncementID]
<1>5. AnnouncementID \in 0..MaxMessages BY <1>0, AnnouncementIs, MessageIds, Bounds DEF DbType
<1>8. r \in RenameRequest BY <1>5 DEF RenameRequest
<1>9. thread # None /\ thread # Gone BY <1>1, Bounds DEF RoomExists
<1>10. Starts(r) BY <1>0, <1>9, AnnouncementIs DEF Starts, Refers, KnowsCard, KnowsMessage
<1>11. r \in Requests BY <1>8, Kinds
<1>12. faults' \in 0..MaxFaults BY <1>0, <1>1 DEF CountType
<1> HIDE DEF r
<1>13. Begin(q, r) BY <1>1 DEF r
<1>14. QED BY <1>1, <1>10, <1>11, <1>12, <1>13 DEF Begins

LEMMA RemoveBegins ==
    ASSUME TypeOK, RequestsFit, OneCard, NEW q \in Request, DeleteThread(q)
    PROVE  Begins(q)
<1>0. DbType /\ CountType BY TypeParts
<1>1. /\ RoomExists(Thread)
      /\ Begin(q, [op |-> "remove", step |-> "save", msg |-> AnnouncementID])
      /\ UNCHANGED <<dbVars, screenVars, noteVars, faults, torn, missed>>
  BY DEF DeleteThread
<1> DEFINE r == [op |-> "remove", step |-> "save", msg |-> AnnouncementID]
<1>5. AnnouncementID \in 0..MaxMessages BY <1>0, AnnouncementIs, MessageIds, Bounds DEF DbType
<1>8. r \in RemoveRequest BY <1>5 DEF RemoveRequest
<1>9. thread # None /\ thread # Gone BY <1>1, Bounds DEF RoomExists
<1>10. Starts(r) BY <1>0, <1>9, AnnouncementIs DEF Starts, Refers, KnowsCard, KnowsMessage
<1>11. r \in Requests BY <1>8, Kinds
<1>12. faults' \in 0..MaxFaults BY <1>0, <1>1 DEF CountType
<1> HIDE DEF r
<1>13. Begin(q, r) BY <1>1 DEF r
<1>14. QED BY <1>1, <1>10, <1>11, <1>12, <1>13 DEF Begins
-----------------------------------------------------------------------------
(* Requests that save. *)

NewMessage(r) ==
    [room |-> r.room, author |-> r.user, content |-> r.content, stamp |-> r.stamp,
     mentions |-> r.mentions, reply |-> r.reply, announces |-> FALSE, deleted |-> FALSE]

SavesMessage(q) ==
    LET r == requests[q] m == Len(messages) + 1 IN
    /\ r \in SendRequest /\ r.step = "save" /\ RoomExists(r.room)
    /\ messages' = Append(messages, NewMessage(r))
    /\ Turns(q, [r EXCEPT !.step = "publish", !.msg = m])
    /\ calls' = [calls EXCEPT ![m] = [u \in User |->
          IF u \in r.mentions \cup Others(r.user, r.reply) THEN 1 ELSE 0]]
    /\ cardStale' = (cardStale \/ r.room = Thread)
    /\ listStale' = (listStale \/ r.room = Thread)
    /\ UNCHANGED <<kind, thread, shown, reactionsStale, tasks, notes, lost, begun, faults, overlapped, torn, missed>>

LEMMA SaveMessageIs ==
    ASSUME TypeOK, NEW q \in Request, SaveMessage(q)
    PROVE  Ends(q) \/ SavesMessage(q)
<1>1. RequestType BY TypeParts
<1>2. requests[q] # Idle /\ requests[q].op = "send" /\ requests[q].step = "save" BY DEF SaveMessage, At
<1>3. requests[q] \in Requests /\ requests[q] \in SendRequest BY <1>1, <1>2, Fields DEF RequestType
<1>4. CASE Fails(q) BY <1>2, <1>4, FailsEnds
<1>5. CASE End(q) /\ UNCHANGED <<dbVars, screenVars, noteVars, begun, faults, overlapped, torn, missed>>
  BY <1>2, <1>5 DEF Ends, Turns, End, TypeOK
<1>6. CASE ~Fails(q) /\ ~(End(q) /\ UNCHANGED <<dbVars, screenVars, noteVars, begun, faults, overlapped, torn, missed>>)
  <2>0. requests' = [requests EXCEPT ![q].step = "publish", ![q].msg = Len(messages) + 1] BY <1>6 DEF SaveMessage
  <2>1. Turns(q, [requests[q] EXCEPT !.step = "publish", !.msg = Len(messages) + 1]) BY <1>1, <2>0 DEF Turns, RequestType
  <2>2. QED BY <1>3, <1>2, <2>1, <1>6 DEF SaveMessage, SavesMessage, NewMessage
<1>7. QED BY <1>4, <1>5, <1>6

SavesThread(q) ==
    LET r == requests[q] IN
    /\ r \in CreateRequest /\ r.step = "save"
    /\ thread' = [name |-> r.name, closed |-> FALSE, creator |-> r.user]
    /\ messages' = Append(messages, Announces(r.user))
    /\ Turns(q, [r EXCEPT !.step = "publish", !.msg = Len(messages) + 1])
    /\ cardStale' = TRUE /\ listStale' = TRUE
    /\ UNCHANGED <<kind, shown, reactionsStale, noteVars, begun, faults, overlapped, torn, missed>>

LEMMA SaveThreadIs ==
    ASSUME TypeOK, NEW q \in Request, SaveThread(q)
    PROVE  Ends(q) \/ SavesThread(q)
<1>1. RequestType BY TypeParts
<1>2. requests[q] # Idle /\ requests[q].op = "create" /\ requests[q].step = "save" BY DEF SaveThread, At
<1>3. requests[q] \in Requests /\ requests[q] \in CreateRequest BY <1>1, <1>2, Fields DEF RequestType
<1>4. CASE Fails(q) BY <1>2, <1>4, FailsEnds
<1>6. CASE requests' = [requests EXCEPT ![q].step = "publish", ![q].msg = Len(messages) + 1] /\ ~Fails(q)
  <2>1. Turns(q, [requests[q] EXCEPT !.step = "publish", !.msg = Len(messages) + 1]) BY <1>1, <1>6 DEF Turns, RequestType
  <2>2. QED BY <1>3, <1>2, <2>1, <1>6 DEF SaveThread, SavesThread
<1>7. QED BY <1>4, <1>6 DEF SaveThread

SavesEdit(q) ==
    LET r == requests[q] g == messages[r.msg] IN
    /\ r \in EditRequest /\ r.step = "save"
    /\ messages' = [messages EXCEPT ![r.msg] =
          IF g.deleted THEN [g EXCEPT !.mentions = r.mentions]
                       ELSE [g EXCEPT !.content = r.content, !.mentions = r.mentions]]
    /\ Turns(q, [r EXCEPT !.step = "publish"])
    /\ calls' = [calls EXCEPT ![r.msg] = [u \in User |->
          calls[r.msg][u] + IF u \in r.mentions \ g.mentions THEN 1 ELSE 0]]
    /\ lost' = IF r.before.known THEN lost ELSE lost \cup {r.msg}
    /\ UNCHANGED <<kind, thread, screenVars, tasks, notes, begun, faults, overlapped, torn, missed>>

\* A request that is about a message is about one that is there.
LEMMA Addressed ==
    ASSUME TypeOK, RequestsFit, NEW q \in Request, requests[q] # Idle, requests[q].msg # 0
    PROVE  requests[q].msg \in DOMAIN messages
<1>1. Refers(requests[q]) BY DEF RequestsFit
<1>2. QED BY <1>1, TypeParts, MessageIds DEF Refers

LEMMA Busy ==
    ASSUME TypeOK, NEW q \in Request, requests[q] # Idle
    PROVE  requests[q] \in Requests
  BY DEF TypeOK

LEMMA SaveEditIs ==
    ASSUME TypeOK, RequestsFit, NEW q \in Request, SaveEdit(q)
    PROVE  Ends(q) \/ SavesEdit(q)
<1> DEFINE r == requests[q] g == messages[r.msg]
<1>1. RequestType /\ DbType BY TypeParts
<1>2. r # Idle /\ r.op = "edit" /\ r.step = "save" BY DEF SaveEdit, At
<1>3. r \in Requests /\ r \in EditRequest BY <1>2, Fields, Busy
<1>3a. r.msg \in MessageId BY <1>3 DEF EditRequest
<1>3b. r.msg \in DOMAIN messages BY <1>2, <1>3a, Addressed DEF MessageId
<1>3c. g \in Message BY <1>1, <1>3b, MessageIds
<1>4. CASE Fails(q) BY <1>2, <1>4, FailsEnds
<1>5. CASE End(q) /\ UNCHANGED <<dbVars, screenVars, noteVars, begun, faults, overlapped, torn, missed>>
  BY <1>2, <1>5 DEF Ends, Turns, End, TypeOK
<1>6. CASE ~Fails(q) /\ ~(End(q) /\ UNCHANGED <<dbVars, screenVars, noteVars, begun, faults, overlapped, torn, missed>>)
  <2>0. GoTo(q, "publish") BY <1>6 DEF SaveEdit
  <2>1. Turns(q, [requests[q] EXCEPT !.step = "publish"]) BY <2>0 DEF Turns, GoTo
  <2>2. /\ \/ Live(r.msg) /\ messages' = [messages EXCEPT ![r.msg].content = r.content, ![r.msg].mentions = r.mentions]
           \/ ~Live(r.msg) /\ messages' = [messages EXCEPT ![r.msg].mentions = r.mentions]
        /\ calls' = [calls EXCEPT ![r.msg] = [u \in User |->
              calls[r.msg][u] + IF u \in r.mentions \ messages[r.msg].mentions THEN 1 ELSE 0]]
        /\ lost' = IF r.before.known THEN lost ELSE lost \cup {r.msg}
        /\ UNCHANGED <<kind, thread, screenVars, tasks, notes, begun, faults, overlapped, torn, missed>>
    BY <1>6 DEF SaveEdit
  <2>3. messages' = [messages EXCEPT ![r.msg] =
          IF g.deleted THEN [g EXCEPT !.mentions = r.mentions]
                       ELSE [g EXCEPT !.content = r.content, !.mentions = r.mentions]]
    <3>1. g.deleted \in BOOLEAN BY <1>3c DEF Message
    <3>2. CASE g.deleted
      <4>1. ~Live(r.msg) BY <3>2 DEF Live
      <4>2. QED BY <2>2, <3>2, <4>1
    <3>3. CASE ~g.deleted
      <4>1. Live(r.msg) BY <3>3, <1>3b DEF Live
      <4>2. messages' = [messages EXCEPT ![r.msg].content = r.content, ![r.msg].mentions = r.mentions] BY <2>2, <4>1
      <4>3. QED BY <3>3, <4>2, <1>3b
    <3>4. QED BY <3>1, <3>2, <3>3
  <2>4. QED BY <1>3, <1>2, <2>1, <2>2, <2>3 DEF SavesEdit
<1>7. QED BY <1>4, <1>5, <1>6

SavesDeletion(q) ==
    LET r == requests[q] m == requests[q].msg IN
    /\ r \in DeleteRequest /\ r.step = "save"
    /\ Live(m)
    /\ messages' = [messages EXCEPT ![m] = [messages[m] EXCEPT !.deleted = TRUE]]
    /\ Turns(q, [r EXCEPT !.step = "publish"])
    /\ cardStale' = (cardStale \/ messages[m].room = Thread)
    /\ UNCHANGED <<kind, thread, shown, listStale, reactionsStale, noteVars, begun, faults, overlapped, torn, missed>>

LEMMA SaveDeletionIs ==
    ASSUME TypeOK, NEW q \in Request, SaveDeletion(q)
    PROVE  Ends(q) \/ SavesDeletion(q)
<1>2. requests[q] # Idle /\ requests[q].op = "delete" /\ requests[q].step = "save" BY DEF SaveDeletion, At
<1>3. requests[q] \in DeleteRequest BY <1>2, Fields, Busy
<1>4. CASE Fails(q) BY <1>2, <1>4, FailsEnds
<1>5. CASE End(q) /\ UNCHANGED <<dbVars, screenVars, noteVars, begun, faults, overlapped, torn, missed>>
  BY <1>2, <1>5 DEF Ends, Turns, End, TypeOK
<1>6. CASE ~Fails(q) /\ ~(End(q) /\ UNCHANGED <<dbVars, screenVars, noteVars, begun, faults, overlapped, torn, missed>>)
  <2>0. GoTo(q, "publish") BY <1>6 DEF SaveDeletion
  <2>1. Turns(q, [requests[q] EXCEPT !.step = "publish"]) BY <2>0 DEF Turns, GoTo
  <2>2. QED BY <1>3, <1>2, <2>1, <1>6 DEF SaveDeletion, SavesDeletion
<1>7. QED BY <1>4, <1>5, <1>6

SavesReaction(q) ==
    LET r == requests[q] IN
    /\ r \in ReactRequest /\ r.step = "save"
    /\ reactionsStale' = reactionsStale \cup {r.msg}
    /\ Turns(q, [r EXCEPT !.step = "publish"])
    /\ UNCHANGED <<dbVars, shown, cardStale, listStale, noteVars, begun, faults, overlapped, torn, missed>>

LEMMA SaveReactionIs ==
    ASSUME TypeOK, NEW q \in Request, SaveReaction(q)
    PROVE  Ends(q) \/ SavesReaction(q)
<1>2. requests[q] # Idle /\ requests[q].op = "react" /\ requests[q].step = "save" BY DEF SaveReaction, At
<1>3. requests[q] \in ReactRequest BY <1>2, Fields, Busy
<1>4. CASE Fails(q) BY <1>2, <1>4, FailsEnds
<1>6. CASE GoTo(q, "publish") /\ ~Fails(q)
  <2>1. Turns(q, [requests[q] EXCEPT !.step = "publish"]) BY <1>6 DEF Turns, GoTo
  <2>2. QED BY <1>3, <1>2, <2>1, <1>6 DEF SaveReaction, SavesReaction
<1>7. QED BY <1>4, <1>6 DEF SaveReaction

SavesUpdate(q) ==
    LET r == requests[q] IN
    /\ r \in RenameRequest /\ r.step = "save"
    /\ thread' = IF RoomExists(Thread) THEN [thread EXCEPT !.name = r.name, !.closed = r.closed] ELSE thread
    /\ cardStale' = (cardStale \/ RoomExists(Thread))
    /\ listStale' = (listStale \/ RoomExists(Thread))
    /\ Turns(q, [r EXCEPT !.step = "publish"])
    /\ UNCHANGED <<kind, messages, shown, reactionsStale, noteVars, begun, faults, overlapped, torn, missed>>

LEMMA SaveUpdateIs ==
    ASSUME TypeOK, NEW q \in Request, SaveThreadUpdate(q)
    PROVE  Ends(q) \/ SavesUpdate(q)
<1>2. requests[q] # Idle /\ requests[q].op = "rename" /\ requests[q].step = "save" BY DEF SaveThreadUpdate, At
<1>3. requests[q] \in RenameRequest BY <1>2, Fields, Busy
<1>4. CASE Fails(q) BY <1>2, <1>4, FailsEnds
<1>6. CASE GoTo(q, "publish") /\ ~Fails(q)
  <2>1. Turns(q, [requests[q] EXCEPT !.step = "publish"]) BY <1>6 DEF Turns, GoTo
  <2>2. QED BY <1>3, <1>2, <2>1, <1>6 DEF SaveThreadUpdate, SavesUpdate
<1>7. QED BY <1>4, <1>6 DEF SaveThreadUpdate

RemovesCard(q) ==
    LET r == requests[q] m == requests[q].msg IN
    /\ r \in RemoveRequest /\ r.step = "save"
    /\ messages' = IF m = 0 THEN messages ELSE [messages EXCEPT ![m] = [messages[m] EXCEPT !.deleted = TRUE]]
    /\ Turns(q, [r EXCEPT !.step = "room"])
    /\ UNCHANGED <<kind, thread, screenVars, noteVars, begun, faults, overlapped, torn, missed>>

LEMMA RemoveCardIs ==
    ASSUME TypeOK, NEW q \in Request, SaveAnnouncementDeletion(q)
    PROVE  Ends(q) \/ RemovesCard(q)
<1>2. requests[q] # Idle /\ requests[q].op = "remove" /\ requests[q].step = "save" BY DEF SaveAnnouncementDeletion, At
<1>3. requests[q] \in RemoveRequest BY <1>2, Fields, Busy
<1>4. CASE Fails(q) BY <1>2, <1>4, FailsEnds
<1>6. CASE GoTo(q, "room") /\ ~Fails(q)
  <2>1. Turns(q, [requests[q] EXCEPT !.step = "room"]) BY <1>6 DEF Turns, GoTo
  <2>2. QED BY <1>3, <1>2, <2>1, <1>6 DEF SaveAnnouncementDeletion, RemovesCard
<1>7. QED BY <1>4, <1>6 DEF SaveAnnouncementDeletion

RemovesRoom(q) ==
    LET r == requests[q] IN
    /\ r \in RemoveRequest /\ r.step = "room"
    /\ thread' = Gone
    /\ messages' = [n \in DOMAIN messages |->
          [messages[n] EXCEPT !.deleted = @ \/ messages[n].room = Thread, !.announces = FALSE]]
    /\ listStale' = TRUE
    /\ Turns(q, [r EXCEPT !.step = "publish"])
    /\ UNCHANGED <<kind, shown, cardStale, reactionsStale, noteVars, begun, faults, overlapped, torn, missed>>

\* The deletion of a thread fails half way.
Tears(q) ==
    LET r == requests[q] IN
    /\ r \in RemoveRequest /\ r.step = "room"
    /\ torn' = torn \cup ({r.msg} \ {0})
    /\ Turns(q, Idle)
    /\ faults' \in 0..MaxFaults
    /\ UNCHANGED <<dbVars, screenVars, noteVars, begun, overlapped, missed>>

LEMMA DeleteRoomIs ==
    ASSUME TypeOK, NEW q \in Request, DeleteRoom(q)
    PROVE  RemovesRoom(q) \/ Tears(q)
<1>2. requests[q] # Idle /\ requests[q].op = "remove" /\ requests[q].step = "room" BY DEF DeleteRoom, At
<1>3. requests[q] \in RemoveRequest BY <1>2, Fields, Busy
<1>4. CASE Fault /\ End(q)
  <2>1. faults' \in 0..MaxFaults BY <1>4, Bounds DEF Fault, TypeOK
  <2>2. Turns(q, Idle) BY <1>4 DEF End, Turns
  <2>3. CASE thread' = Gone /\ GoTo(q, "publish")
    <3>1. Turns(q, [requests[q] EXCEPT !.step = "publish"]) BY <2>3 DEF Turns, GoTo
    <3>2. ~UNCHANGED faults BY <1>4, Bounds DEF Fault, TypeOK
    <3>3. QED BY <1>2, <1>3, <2>1, <2>2, <3>2 DEF DeleteRoom, Tears
  <2>4. QED BY <1>2, <1>3, <2>1, <2>2, <2>3, <1>4 DEF DeleteRoom, Tears
<1>6. CASE GoTo(q, "publish") /\ ~(Fault /\ End(q))
  <2>1. Turns(q, [requests[q] EXCEPT !.step = "publish"]) BY <1>6 DEF Turns, GoTo
  <2>2. QED BY <1>3, <1>2, <2>1, <1>6 DEF DeleteRoom, RemovesRoom
<1>7. QED BY <1>4, <1>6 DEF DeleteRoom
-----------------------------------------------------------------------------
(* Requests that publish. *)

\* Request q goes on as x, or ends, and the tables stay as they are.
Moves(q, x) ==
    /\ requests[q] # Idle
    /\ ~At(q, "remove", "room")
    /\ x \in Requests \cup {Idle}
    /\ x # Idle => /\ x.msg = requests[q].msg
                   /\ x.step # "save"
                   /\ ~At(q, "create", "save")
                   /\ x.op # "remove"
                   /\ Refers(x) /\ KnowsCard(x)
    /\ Turns(q, x)
    /\ UNCHANGED <<dbVars, overlapped, torn>>

LEMMA EndMoves ==
    ASSUME NEW q \in Request, Ends(q)
    PROVE  Moves(q, Idle)
  BY DEF Ends, Moves, At, dbVars

\* After its message a request may have a card to refresh.
AfterPublishing(q, room) == IF room = Thread THEN [requests[q] EXCEPT !.step = "card"] ELSE Idle

LEMMA CardIsNext ==
    ASSUME NEW q \in Request, NEW room, RefreshThreadCard(q, room)
    PROVE  Turns(q, AfterPublishing(q, room))
  BY DEF RefreshThreadCard, AfterPublishing, GoTo, End, Turns

LEMMA SentMoves ==
    ASSUME TypeOK, RequestsFit, NEW q \in Request, PublishSent(q)
    PROVE  /\ requests[q] \in SendRequest /\ requests[q].step = "publish"
           /\ requests[q].msg \in DOMAIN messages
           /\ Moves(q, AfterPublishing(q, requests[q].room))
<1> DEFINE r == requests[q] x == AfterPublishing(q, r.room)
<1>1. r # Idle /\ r.op = "send" /\ r.step = "publish" BY DEF PublishSent, At
<1>2. r \in Requests /\ r \in SendRequest BY <1>1, Busy, Fields
<1>3. Refers(r) /\ KnowsCard(r) BY <1>1 DEF RequestsFit
<1>4. r.msg # 0 BY <1>1, <1>3 DEF Refers
<1>5. x # Idle => x = [r EXCEPT !.step = "card"] BY DEF AfterPublishing
<1> DEFINE y == [r EXCEPT !.step = "card"]
<1>5a. y \in SendRequest /\ y.op = "send" /\ y.msg = r.msg /\ y.step = "card" /\ y.room = r.room /\ y.reply = r.reply
  BY <1>1, <1>2, Stepped
<1>6. x # Idle => x \in SendRequest /\ x.op = "send" /\ x.msg = r.msg /\ x.step = "card" /\ x.room = r.room /\ x.reply = r.reply
  BY <1>5, <1>5a
<1>7. x # Idle => Refers(x) /\ KnowsCard(x) BY <1>1, <1>3, <1>4, <1>6 DEF Refers, KnowsCard
<1>8. Turns(q, x) BY CardIsNext DEF PublishSent
<1>9. UNCHANGED <<dbVars, overlapped, torn>> BY DEF PublishSent
<1>10. ~At(q, "remove", "room") /\ ~At(q, "create", "save") BY <1>1 DEF At
<1>11. x \in Requests \cup {Idle} BY <1>6, Kinds
<1>12. Moves(q, x) BY <1>1, <1>6, <1>7, <1>8, <1>9, <1>10, <1>11 DEF Moves
<1>13. QED BY <1>1, <1>2, <1>4, <1>12, Addressed

LEMMA DeletedMoves ==
    ASSUME TypeOK, RequestsFit, NEW q \in Request, PublishDeleted(q)
    PROVE  /\ requests[q] \in DeleteRequest /\ requests[q].step = "publish"
           /\ requests[q].msg \in DOMAIN messages
           /\ Moves(q, AfterPublishing(q, messages[requests[q].msg].room))
<1> DEFINE r == requests[q] x == AfterPublishing(q, messages[r.msg].room)
<1>1. r # Idle /\ r.op = "delete" /\ r.step = "publish" BY DEF PublishDeleted, At
<1>2. r \in Requests /\ r \in DeleteRequest BY <1>1, Busy, Fields
<1>3. Refers(r) /\ KnowsCard(r) BY <1>1 DEF RequestsFit
<1>4. r.msg # 0 BY <1>2 DEF DeleteRequest, MessageId
<1>5. x # Idle => x = [r EXCEPT !.step = "card"] BY DEF AfterPublishing
<1> DEFINE y == [r EXCEPT !.step = "card"]
<1>5a. y \in DeleteRequest /\ y.op = "delete" /\ y.msg = r.msg /\ y.step = "card"
  BY <1>1, <1>2, Stepped
<1>6. x # Idle => x \in DeleteRequest /\ x.op = "delete" /\ x.msg = r.msg /\ x.step = "card"
  BY <1>5, <1>5a
<1>7. x # Idle => Refers(x) /\ KnowsCard(x) BY <1>1, <1>3, <1>4, <1>6 DEF Refers, KnowsCard
<1>8. Turns(q, x) BY CardIsNext DEF PublishDeleted
<1>9. UNCHANGED <<dbVars, overlapped, torn>> BY DEF PublishDeleted
<1>10. ~At(q, "remove", "room") /\ ~At(q, "create", "save") BY <1>1 DEF At
<1>11. x \in Requests \cup {Idle} BY <1>6, Kinds
<1>12. Moves(q, x) BY <1>1, <1>6, <1>7, <1>8, <1>9, <1>10, <1>11 DEF Moves
<1>13. QED BY <1>1, <1>2, <1>4, <1>12, Addressed

LEMMA ReactionMoves ==
    ASSUME TypeOK, RequestsFit, NEW q \in Request, SavesReaction(q)
    PROVE  Moves(q, [requests[q] EXCEPT !.step = "publish"])
<1> DEFINE r == requests[q] x == [requests[q] EXCEPT !.step = "publish"]
<1>0. r \in ReactRequest /\ r.step = "save" /\ Turns(q, x) BY DEF SavesReaction
<1>1. r \in Requests /\ r # Idle /\ r.op = "react" BY <1>0, Kinds, Bounds DEF ReactRequest
<1>3. Refers(r) /\ KnowsCard(r) BY <1>1 DEF RequestsFit
<1>6. x \in ReactRequest /\ x.op = "react" /\ x.msg = r.msg /\ x.step = "publish" /\ x.content = r.content
  BY <1>0, <1>1, Stepped
<1>7. Refers(x) /\ KnowsCard(x) BY <1>1, <1>3, <1>6 DEF Refers, KnowsCard
<1>9. UNCHANGED <<dbVars, overlapped, torn>> BY DEF SavesReaction
<1>10. ~At(q, "remove", "room") /\ ~At(q, "create", "save") BY <1>1 DEF At
<1>11. x \in Requests \cup {Idle} BY <1>6, Kinds
<1>12. QED BY <1>0, <1>1, <1>6, <1>7, <1>9, <1>10, <1>11 DEF Moves

\* The last step of a request.
LastStep(q) ==
    \/ PublishThreadCard(q) \/ PublishEdited(q) \/ PublishReaction(q)
    \/ PublishThread(q) \/ PublishThreadUpdate(q) \/ PublishThreadDeleted(q)

LEMMA LastMoves ==
    ASSUME NEW q \in Request, LastStep(q)
    PROVE  Moves(q, Idle) /\ requests[q].step = "publish"
<1>1. CASE PublishThreadCard(q) BY <1>1 DEF PublishThreadCard, At, End, Turns, Moves
<1>2. CASE PublishEdited(q) BY <1>2 DEF PublishEdited, At, End, Turns, Moves
<1>3. CASE PublishReaction(q) BY <1>3 DEF PublishReaction, At, End, Turns, Moves
<1>4. CASE PublishThread(q) BY <1>4 DEF PublishThread, At, End, Turns, Moves
<1>5. CASE PublishThreadUpdate(q) BY <1>5 DEF PublishThreadUpdate, At, End, Turns, Moves
<1>6. CASE PublishThreadDeleted(q) BY <1>6 DEF PublishThreadDeleted, At, End, Turns, Moves
<1>7. QED BY <1>1, <1>2, <1>3, <1>4, <1>5, <1>6 DEF LastStep

\* A request goes on to publish the card.
TakesCard(q) ==
    LET r == requests[q] IN
    /\ r # Idle /\ r.op \in {"send", "delete"} /\ r.step = "card" /\ r.msg \in DOMAIN messages
    /\ \E c \in Card :
          LET x == [op |-> "card", step |-> "publish", msg |-> r.msg, card |-> c]
          IN  x \in CardRequest /\ Moves(q, x)
    /\ UNCHANGED <<dbVars, screenVars, noteVars, begun, faults, overlapped, torn, missed>>

LEMMA ReadCardIs ==
    ASSUME TypeOK, RequestsFit, OneCard, NEW q \in Request, ReadThreadCard(q)
    PROVE  Ends(q) \/ TakesCard(q)
<1> DEFINE r == requests[q]
<1>0. DbType BY TypeParts
<1>1. r # Idle /\ r.op \in {"send", "delete"} /\ r.step = "card" BY DEF ReadThreadCard, At
<1>2. Refers(r) /\ KnowsCard(r) BY <1>1 DEF RequestsFit
<1>3. r \in Requests BY <1>1, Busy
<1>4. r.op = "delete" => r.msg \in MessageId BY <1>3, Fields
<1>4a. r.msg # 0 BY <1>1, <1>2, <1>4 DEF Refers, MessageId
<1>5. r.msg \in DOMAIN messages BY <1>1, <1>4a, Addressed
<1>6. CASE AnnouncementID = 0 /\ End(q) /\ UNCHANGED <<dbVars, screenVars, noteVars, begun, faults, overlapped, torn, missed>>
  <2>1. CardGone \/ thread = Gone BY <1>0, <1>6, AnnouncementIs
  <2>2. faults' \in 0..MaxFaults /\ missed' \in {missed, TRUE} BY <1>6, TypeParts DEF CountType
  <2>3. QED BY <1>1, <1>6, <2>1, <2>2 DEF Ends, End, Turns
<1>7. CASE Fault /\ End(q) /\ missed' = TRUE /\ UNCHANGED <<dbVars, screenVars, noteVars, begun, overlapped, torn>>
  <2>1. faults' \in 0..MaxFaults BY <1>7, TypeParts, Bounds DEF Fault, CountType
  <2>2. QED BY <1>1, <1>7, <2>1 DEF Ends, End, Turns
<1>8. CASE ~(AnnouncementID = 0 /\ End(q) /\ UNCHANGED <<dbVars, screenVars, noteVars, begun, faults, overlapped, torn, missed>>)
           /\ ~(Fault /\ End(q) /\ missed' = TRUE /\ UNCHANGED <<dbVars, screenVars, noteVars, begun, overlapped, torn>>)
  <2> DEFINE x == [op |-> "card", step |-> "publish", msg |-> r.msg, card |-> AnnouncementID]
  <2>1. /\ AnnouncementID # 0
        /\ requests' = [requests EXCEPT ![q] = x]
        /\ UNCHANGED <<dbVars, screenVars, noteVars, begun, faults, overlapped, torn, missed>>
    BY <1>8 DEF ReadThreadCard
  <2>2. AnnouncementID \in Card BY <1>0, <2>1, AnnouncementIs
  <2>3. AnnouncementID \in MessageId /\ r.msg \in MessageId /\ r.msg \in 0..Len(messages) BY <1>0, <1>5, <2>2, MessageIds DEF Card
  <2>4. x \in CardRequest BY <2>3 DEF CardRequest
  <2>5. Refers(x) /\ KnowsCard(x) BY <2>2, <2>3 DEF Refers, KnowsCard
  <2>6. Moves(q, x) BY <1>1, <2>1, <2>4, <2>5, Kinds DEF Moves, At, Turns
  <2>7. \E c \in Card : LET y == [op |-> "card", step |-> "publish", msg |-> r.msg, card |-> c]
                        IN  y \in CardRequest /\ Moves(q, y)
    BY <2>2, <2>4, <2>6
  <2>8. QED BY <1>1, <1>5, <2>1, <2>7 DEF TakesCard
<1>9. QED BY <1>6, <1>7, <1>8

\* Every step has one of these shapes.
LEMMA Shapes ==
    ASSUME TypeOK, RequestsFit, OneCard, [Next]_vars
    PROVE  \/ \E q \in Request :
                \/ Begins(q) \/ Ends(q) \/ Tears(q)
                \/ SavesMessage(q) \/ SavesThread(q) \/ SavesEdit(q) \/ SavesDeletion(q)
                \/ SavesReaction(q) \/ SavesUpdate(q) \/ RemovesCard(q) \/ RemovesRoom(q)
                \/ PublishSent(q) \/ PublishDeleted(q) \/ TakesCard(q) \/ LastStep(q)
           \/ \E i \in DOMAIN tasks : RunTask(i)
           \/ UNCHANGED vars
<1>1. CASE UNCHANGED vars BY <1>1
<1>2. CASE \E i \in DOMAIN tasks : RunTask(i) BY <1>2
<1>3. ASSUME NEW q \in Request,
             \/ SendMessage(q) \/ UpdateMessage(q) \/ DeleteMessage(q) \/ ChangeReaction(q)
             \/ CreateThread(q) \/ UpdateThread(q) \/ DeleteThread(q)
      PROVE  Begins(q)
  BY <1>3, SendBegins, UpdateBegins, DeleteBegins, ReactBegins, CreateBegins, RenameBegins, RemoveBegins
<1>4. ASSUME NEW q \in Request,
             SaveMessage(q) \/ SaveThread(q) \/ SaveEdit(q) \/ SaveDeletion(q)
      PROVE  Ends(q) \/ SavesMessage(q) \/ SavesThread(q) \/ SavesEdit(q) \/ SavesDeletion(q)
  BY <1>4, SaveMessageIs, SaveThreadIs, SaveEditIs, SaveDeletionIs
<1>5. ASSUME NEW q \in Request,
             SaveReaction(q) \/ SaveThreadUpdate(q) \/ SaveAnnouncementDeletion(q) \/ DeleteRoom(q)
      PROVE  Ends(q) \/ SavesReaction(q) \/ SavesUpdate(q) \/ RemovesCard(q) \/ RemovesRoom(q) \/ Tears(q)
  BY <1>5, SaveReactionIs, SaveUpdateIs, RemoveCardIs, DeleteRoomIs
<1>6. ASSUME NEW q \in Request, ReadThreadCard(q)
      PROVE  Ends(q) \/ TakesCard(q)
  BY <1>6, ReadCardIs
<1>7. QED BY <1>1, <1>2, <1>3, <1>4, <1>5, <1>6 DEF Next, LastStep
-----------------------------------------------------------------------------
(* Type correctness. *)

\* Removing the element at i.
LEMMA Removed ==
    ASSUME NEW S, NEW ts \in Seq(S), NEW i \in DOMAIN ts
    PROVE  LET rest == RemoveAt(ts, i) IN
           /\ rest \in Seq(S)
           /\ Len(ts) >= 1
           /\ Len(rest) = Len(ts) - 1
           /\ DOMAIN rest = 1..(Len(ts) - 1)
           /\ \A j \in 1..(Len(ts) - 1) : rest[j] = IF j < i THEN ts[j] ELSE ts[j + 1]
<1>1. i \in 1..Len(ts) /\ Len(ts) \in Nat OBVIOUS
<1> DEFINE a == SubSeq(ts, 1, i - 1) b == SubSeq(ts, i + 1, Len(ts))
<1>2. a \in Seq(S) /\ Len(a) = i - 1 /\ \A j \in 1..(i - 1) : a[j] = ts[j] BY <1>1
<1>3. b \in Seq(S) /\ Len(b) = Len(ts) - i /\ \A j \in 1..(Len(ts) - i) : b[j] = ts[i + j] BY <1>1
<1>4. RemoveAt(ts, i) = a \o b BY DEF RemoveAt
<1> HIDE DEF a, b
<1>5. a \o b \in Seq(S) /\ Len(a \o b) = Len(ts) - 1 BY <1>1, <1>2, <1>3
<1>6. \A j \in 1..(Len(ts) - 1) : (a \o b)[j] = IF j < i THEN ts[j] ELSE ts[j + 1]
  <2> SUFFICES ASSUME NEW j \in 1..(Len(ts) - 1) PROVE (a \o b)[j] = IF j < i THEN ts[j] ELSE ts[j + 1]
    OBVIOUS
  <2>1. (a \o b)[j] = IF j <= Len(a) THEN a[j] ELSE b[j - Len(a)] BY <1>1, <1>2, <1>3
  <2>2. CASE j < i BY <1>1, <1>2, <2>1, <2>2
  <2>3. CASE ~(j < i)
    <3>1. j - (i - 1) \in 1..(Len(ts) - i) /\ i + (j - (i - 1)) = j + 1 BY <1>1, <2>3
    <3>2. QED BY <1>1, <1>2, <1>3, <2>1, <2>3, <3>1
  <2>4. QED BY <2>2, <2>3
<1>7. QED BY <1>1, <1>4, <1>5, <1>6

\* There is room for the message of a request that is about to save one.
LEMMA RoomLeft ==
    ASSUME TypeOK, RequestsFit, NEW q \in Request, requests[q] # Idle,
           requests[q].op \in {"send", "create"}, requests[q].step = "save"
    PROVE  Len(messages) + 1 \in MessageId /\ Len(messages) + 1 \notin DOMAIN messages
<1> DEFINE P == {p \in Request : At(p, "send", "save") \/ At(p, "create", "save")}
<1>1. q \in P BY DEF At
<1>2. IsFiniteSet(P) BY Bounds, FS_Subset
<1>3. Cardinality(P) \in Nat /\ Cardinality(P) # 0 BY <1>1, <1>2, FS_CardinalityType, FS_EmptySet
<1>4. Len(messages) + Cardinality(P) <= MaxMessages BY DEF RequestsFit, Numbered
<1> HIDE DEF P
<1>5. QED BY <1>3, <1>4, TypeParts, MessageIds, Bounds DEF MessageId

\* The number of messages that there are or will be.
Saving == {q \in Request : At(q, "send", "save") \/ At(q, "create", "save")}

LEMMA NumberedIs == Numbered = Len(messages) + Cardinality(Saving) BY DEF Numbered, Saving

LEMMA SavingFinite == IsFiniteSet(Saving) /\ Cardinality(Saving) \in Nat
<1>1. IsFiniteSet(Saving) BY Bounds, FS_Subset DEF Saving
<1>2. QED BY <1>1, FS_CardinalityType

\* The types of what may be appended to the messages.
LEMMA NewMessageType ==
    ASSUME NEW r \in SendRequest
    PROVE  NewMessage(r) \in Message
  BY DEF SendRequest, NewMessage, Message

LEMMA AnnouncesType ==
    ASSUME NEW u \in User
    PROVE  Announces(u) \in Message
  BY Bounds DEF Announces, Message

\* Appending a message, and changing one.
LEMMA Appended ==
    ASSUME DbType, NEW g \in Message, messages' = Append(messages, g)
    PROVE  LET n == Len(messages) + 1 IN
           /\ messages' \in Seq(Message)
           /\ Len(messages') = n
           /\ DOMAIN messages' = DOMAIN messages \cup {n}
           /\ n \notin DOMAIN messages
           /\ messages'[n] = g
           /\ \A m \in DOMAIN messages : messages'[m] = messages[m]
  BY MessageIds DEF DbType

LEMMA Changed ==
    ASSUME DbType, NEW k \in DOMAIN messages, NEW g \in Message, messages' = [messages EXCEPT ![k] = g]
    PROVE  /\ messages' \in Seq(Message)
           /\ Len(messages') = Len(messages)
           /\ DOMAIN messages' = DOMAIN messages
           /\ messages'[k] = g
           /\ \A m \in DOMAIN messages : m # k => messages'[m] = messages[m]
  BY MessageIds DEF DbType

\* What a deletion and an edit make of a message.
LEMMA DeletedMessage ==
    ASSUME NEW g \in Message
    PROVE  LET d == [g EXCEPT !.deleted = TRUE] IN
           d \in Message /\ d.deleted /\ d.room = g.room /\ d.content = g.content /\ d.announces = g.announces
           /\ d.author = g.author /\ d.reply = g.reply /\ d.mentions = g.mentions
  BY DEF Message

Edited(g, r) == IF g.deleted THEN [g EXCEPT !.mentions = r.mentions]
                             ELSE [g EXCEPT !.content = r.content, !.mentions = r.mentions]

LEMMA EditedMessage ==
    ASSUME NEW g \in Message, NEW r \in EditRequest
    PROVE  LET d == Edited(g, r) IN
           d \in Message /\ d.deleted = g.deleted /\ d.room = g.room /\ d.announces = g.announces
           /\ d.author = g.author /\ d.reply = g.reply /\ d.mentions = r.mentions
           /\ d.content = IF g.deleted THEN g.content ELSE r.content
<1>1. r.mentions \in SUBSET User /\ r.content \in Content BY DEF EditRequest
<1>2. CASE g.deleted BY <1>1, <1>2 DEF Edited, Message
<1>3. CASE ~g.deleted
  <2> DEFINE d == [g EXCEPT !.content = r.content, !.mentions = r.mentions]
  <2>1. Edited(g, r) = d BY <1>3 DEF Edited
  <2>2. d \in Message /\ d.deleted = g.deleted /\ d.room = g.room /\ d.announces = g.announces
        /\ d.author = g.author /\ d.reply = g.reply /\ d.mentions = r.mentions /\ d.content = r.content
    BY <1>1 DEF Message
  <2> HIDE DEF d
  <2>3. QED BY <1>3, <2>1, <2>2
<1>4. QED BY <1>2, <1>3

Emptied(g) == [g EXCEPT !.deleted = @ \/ g.room = Thread, !.announces = FALSE]

LEMMA EmptiedMessage ==
    ASSUME NEW g \in Message
    PROVE  LET d == Emptied(g) IN
           d \in Message /\ d.deleted = (g.deleted \/ g.room = Thread) /\ d.room = g.room /\ d.announces = FALSE
           /\ d.author = g.author /\ d.reply = g.reply /\ d.mentions = g.mentions /\ d.content = g.content
  BY DEF Emptied, Message

LEMMA AllEmptied ==
    ASSUME DbType, messages' = [n \in DOMAIN messages |-> Emptied(messages[n])]
    PROVE  /\ messages' \in Seq(Message)
           /\ Len(messages') = Len(messages)
           /\ DOMAIN messages' = DOMAIN messages
           /\ \A m \in DOMAIN messages : messages'[m] = Emptied(messages[m])
<1>1. Len(messages) \in Nat /\ DOMAIN messages = 1..Len(messages) BY MessageIds
<1>2. \A m \in 1..Len(messages) : Emptied(messages[m]) \in Message BY <1>1, MessageIds, EmptiedMessage
<1>3. messages' = [n \in 1..Len(messages) |-> Emptied(messages[n])] BY <1>1
<1>4. messages' \in [1..Len(messages) -> Message] BY <1>2, <1>3
<1>5. messages' \in Seq(Message) /\ DOMAIN messages' = 1..Len(messages) BY <1>1, <1>4
<1>6. Len(messages') = Len(messages) BY <1>1, <1>5
<1>7. QED BY <1>1, <1>3, <1>5, <1>6

\* A step that leaves the screens or the runner alone and loses no message keeps their types.
LEMMA SameScreen ==
    ASSUME ScreenType, DOMAIN messages \subseteq DOMAIN messages', UNCHANGED shown,
           cardStale' \in BOOLEAN, listStale' \in BOOLEAN, missed' \in BOOLEAN,
           reactionsStale' \subseteq DOMAIN messages'
    PROVE  ScreenType'
  BY DEF ScreenType

LEMMA SameRunner ==
    ASSUME RunnerType, DOMAIN messages \subseteq DOMAIN messages', UNCHANGED noteVars
    PROVE  RunnerType'
<1>1. UNCHANGED tasks /\ UNCHANGED notes /\ UNCHANGED calls /\ UNCHANGED lost BY DEF noteVars
<1>2. QED BY <1>1 DEF RunnerType

LEMMA SameCount ==
    ASSUME CountType, DOMAIN messages \subseteq DOMAIN messages', UNCHANGED <<overlapped, begun>>, faults' \in 0..MaxFaults
    PROVE  CountType'
  BY DEF CountType

LEMMA SameDb ==
    ASSUME DbType, UNCHANGED dbVars
    PROVE  DbType' /\ DOMAIN messages' = DOMAIN messages
  BY DEF DbType, dbVars

LEMMA BeginsType ==
    ASSUME TypeOK, NEW q \in Request, Begins(q)
    PROVE  TypeOK'
<1>0. DbType /\ RequestType /\ RunnerType /\ ScreenType /\ CountType BY TypeParts
<1>1. PICK r \in Requests :
        /\ Starts(r)
        /\ Begin(q, r)
        /\ faults' \in 0..MaxFaults
        /\ UNCHANGED <<dbVars, screenVars, noteVars, torn, missed>>
  BY DEF Begins
<1>2. DbType' /\ DOMAIN messages' = DOMAIN messages BY <1>0, <1>1, SameDb
<1>3. RequestType' BY <1>0, <1>1, Turned DEF Begin, Turns
<1>4. RunnerType' BY <1>0, <1>1, <1>2, SameRunner
<1>5. ScreenType' BY <1>0, <1>1, <1>2, SameScreen DEF screenVars, ScreenType
<1>6. r.msg \in 0..Len(messages) BY <1>1 DEF Starts, Refers
<1>7. {r.msg} \ {0} \subseteq DOMAIN messages BY <1>0, <1>6, MessageIds
<1>8. begun' \in 0..MaxRequests BY <1>0, <1>1, Bounds DEF Begin, CountType
<1>9. overlapped' \subseteq DOMAIN messages BY <1>0, <1>1, <1>7 DEF Begin, CountType
<1>10. CountType' BY <1>1, <1>2, <1>8, <1>9 DEF CountType
<1>11. QED BY <1>2, <1>3, <1>4, <1>5, <1>10, TypeParts DEF TypeOK, DbType, RequestType, RunnerType, ScreenType, CountType

LEMMA MovesType ==
    ASSUME TypeOK, NEW q \in Request, NEW x, Moves(q, x)
    PROVE  DbType' /\ RequestType' /\ DOMAIN messages' = DOMAIN messages
<1>1. DbType /\ RequestType /\ UNCHANGED dbVars BY TypeParts DEF Moves
<1>2. x \in Requests \cup {Idle} /\ Turns(q, x) BY DEF Moves
<1>3. QED BY <1>1, <1>2, SameDb, Turned

LEMMA EndsType ==
    ASSUME TypeOK, NEW q \in Request, Ends(q)
    PROVE  TypeOK'
<1>0. DbType /\ RequestType /\ RunnerType /\ ScreenType /\ CountType BY TypeParts
<1>2. DbType' /\ RequestType' /\ DOMAIN messages' = DOMAIN messages BY EndMoves, MovesType
<1>3. missed' \in BOOLEAN BY <1>0 DEF Ends, ScreenType
<1>4. RunnerType' BY <1>0, <1>2, SameRunner DEF Ends
<1>5. UNCHANGED shown /\ UNCHANGED cardStale /\ UNCHANGED listStale /\ UNCHANGED reactionsStale BY DEF Ends, screenVars
<1>6. ScreenType' BY <1>0, <1>2, <1>3, <1>5, SameScreen DEF ScreenType
<1>7. CountType' BY <1>0, <1>2, SameCount DEF Ends
<1>8. QED BY <1>2, <1>4, <1>6, <1>7, TypeParts DEF TypeOK, DbType, RequestType, RunnerType, ScreenType, CountType

LEMMA TearsType ==
    ASSUME TypeOK, NEW q \in Request, Tears(q)
    PROVE  TypeOK'
<1>0. DbType /\ RequestType /\ RunnerType /\ ScreenType /\ CountType BY TypeParts
<1>2. DbType' /\ RequestType' /\ DOMAIN messages' = DOMAIN messages BY <1>0, SameDb, Turned DEF Tears
<1>4. RunnerType' BY <1>0, <1>2, SameRunner DEF Tears
<1>5. UNCHANGED shown /\ UNCHANGED cardStale /\ UNCHANGED listStale /\ UNCHANGED reactionsStale /\ UNCHANGED missed BY DEF Tears, screenVars
<1>6. ScreenType' BY <1>0, <1>2, <1>5, SameScreen DEF ScreenType
<1>7. CountType' BY <1>0, <1>2, SameCount DEF Tears
<1>8. QED BY <1>2, <1>4, <1>6, <1>7, TypeParts DEF TypeOK, DbType, RequestType, RunnerType, ScreenType, CountType

LEMMA SavesMessageType ==
    ASSUME TypeOK, RequestsFit, NEW q \in Request, SavesMessage(q)
    PROVE  TypeOK'
<1> DEFINE r == requests[q] n == Len(messages) + 1 x == [r EXCEPT !.step = "publish", !.msg = n]
<1>0. DbType /\ RequestType /\ RunnerType /\ ScreenType /\ CountType BY TypeParts
<1>1. r \in SendRequest /\ r.step = "save" /\ messages' = Append(messages, NewMessage(r)) /\ Turns(q, x) BY DEF SavesMessage
<1>2. r \in Requests /\ r # Idle /\ r.op = "send" BY <1>1, Kinds, Bounds DEF SendRequest
<1>3. n \in MessageId BY <1>1, <1>2, RoomLeft
<1>4. Refers(r) BY <1>2 DEF RequestsFit
<1>5. NewMessage(r) \in Message BY <1>1, NewMessageType
<1>6. /\ messages' \in Seq(Message) /\ Len(messages') = n /\ DOMAIN messages' = DOMAIN messages \cup {n}
      /\ messages'[n] = NewMessage(r) /\ \A m \in DOMAIN messages : messages'[m] = messages[m]
  BY <1>0, <1>1, <1>5, Appended
<1>7. NewMessage(r).reply < n
  <2>1. r.reply \in Nat /\ r.reply <= Len(messages) BY <1>1, <1>2, <1>4 DEF Refers, SendRequest
  <2>2. QED BY <1>0, <2>1, MessageIds DEF NewMessage
<1>8. DbType'
  <2>1. \A m \in DOMAIN messages' : messages'[m].reply < m BY <1>0, <1>6, <1>7 DEF DbType
  <2>2. Len(messages') <= MaxMessages BY <1>3, <1>6 DEF MessageId
  <2>3. UNCHANGED <<kind, thread>> BY DEF SavesMessage
  <2>4. QED BY <1>0, <1>6, <2>1, <2>2, <2>3 DEF DbType
<1>9. x \in Requests BY <1>1, <1>2, <1>3, Named, Kinds
<1> HIDE DEF x
<1>10. RequestType' BY <1>0, <1>1, <1>9, Turned
<1>11. RunnerType'
  <2>1. /\ calls' = [calls EXCEPT ![n] = [u \in User |-> IF u \in r.mentions \cup Others(r.user, r.reply) THEN 1 ELSE 0]]
        /\ UNCHANGED <<tasks, notes, lost>>
    BY DEF SavesMessage
  <2>2. [u \in User |-> IF u \in r.mentions \cup Others(r.user, r.reply) THEN 1 ELSE 0] \in [User -> Nat] OBVIOUS
  <2>3. calls' \in [MessageId -> [User -> Nat]] BY <1>0, <1>3, <2>1, <2>2 DEF RunnerType
  <2>4. QED BY <1>0, <1>6, <2>1, <2>3 DEF RunnerType
<1>12. ScreenType'
  <2>1. /\ cardStale' = (cardStale \/ r.room = Thread) /\ listStale' = (listStale \/ r.room = Thread)
        /\ UNCHANGED <<shown, reactionsStale, missed>>
    BY DEF SavesMessage
  <2>2. QED BY <1>0, <1>6, <2>1, SameScreen DEF ScreenType
<1>13. CountType'
  <2>1. UNCHANGED <<overlapped, begun, faults>> BY DEF SavesMessage
  <2>2. QED BY <1>0, <1>6, <2>1 DEF CountType
<1>14. QED BY <1>8, <1>10, <1>11, <1>12, <1>13, TypeParts DEF TypeOK, DbType, RequestType, RunnerType, ScreenType, CountType

LEMMA SavesThreadType ==
    ASSUME TypeOK, RequestsFit, NEW q \in Request, SavesThread(q)
    PROVE  TypeOK'
<1> DEFINE r == requests[q] n == Len(messages) + 1 x == [r EXCEPT !.step = "publish", !.msg = n]
<1>0. DbType /\ RequestType /\ RunnerType /\ ScreenType /\ CountType BY TypeParts
<1>1. r \in CreateRequest /\ r.step = "save" /\ messages' = Append(messages, Announces(r.user)) /\ Turns(q, x) BY DEF SavesThread
<1>2. r \in Requests /\ r # Idle /\ r.op = "create" BY <1>1, Kinds, Bounds DEF CreateRequest
<1>3. n \in MessageId BY <1>1, <1>2, RoomLeft
<1>4. r.user \in User /\ r.name \in Title BY <1>1 DEF CreateRequest
<1>5. Announces(r.user) \in Message BY <1>4, AnnouncesType
<1>6. /\ messages' \in Seq(Message) /\ Len(messages') = n /\ DOMAIN messages' = DOMAIN messages \cup {n}
      /\ messages'[n] = Announces(r.user) /\ \A m \in DOMAIN messages : messages'[m] = messages[m]
  BY <1>0, <1>1, <1>5, Appended
<1>7. Announces(r.user).reply < n BY <1>0, MessageIds DEF Announces
<1>8. DbType'
  <2>1. \A m \in DOMAIN messages' : messages'[m].reply < m BY <1>0, <1>6, <1>7 DEF DbType
  <2>2. Len(messages') <= MaxMessages BY <1>3, <1>6 DEF MessageId
  <2>3. kind' = kind /\ thread' = [name |-> r.name, closed |-> FALSE, creator |-> r.user] BY DEF SavesThread
  <2>4. thread' \in ThreadRecord BY <1>4, <2>3 DEF ThreadRecord
  <2>5. QED BY <1>0, <1>6, <2>1, <2>2, <2>3, <2>4 DEF DbType
<1>9. x \in Requests BY <1>1, <1>2, <1>3, Named, Kinds
<1> HIDE DEF x
<1>10. RequestType' BY <1>0, <1>1, <1>9, Turned
<1>11. RunnerType' BY <1>0, <1>6, SameRunner DEF SavesThread
<1>12. ScreenType'
  <2>1. cardStale' = TRUE /\ listStale' = TRUE /\ UNCHANGED <<shown, reactionsStale, missed>> BY DEF SavesThread
  <2>2. QED BY <1>0, <1>6, <2>1, SameScreen DEF ScreenType
<1>13. CountType'
  <2>1. UNCHANGED <<overlapped, begun, faults>> BY DEF SavesThread
  <2>2. QED BY <1>0, <1>6, <2>1 DEF CountType
<1>14. QED BY <1>8, <1>10, <1>11, <1>12, <1>13, TypeParts DEF TypeOK, DbType, RequestType, RunnerType, ScreenType, CountType

\* A message that is changed keeps its place.
LEMMA ChangedDb ==
    ASSUME DbType, NEW k \in DOMAIN messages, NEW g \in Message, g.reply = messages[k].reply,
           messages' = [messages EXCEPT ![k] = g], UNCHANGED <<kind, thread>>
    PROVE  DbType' /\ DOMAIN messages' = DOMAIN messages
<1>1. /\ messages' \in Seq(Message) /\ Len(messages') = Len(messages) /\ DOMAIN messages' = DOMAIN messages
      /\ messages'[k] = g /\ \A m \in DOMAIN messages : m # k => messages'[m] = messages[m]
  BY Changed
<1>2. QED BY <1>1 DEF DbType

LEMMA SavesEditType ==
    ASSUME TypeOK, RequestsFit, NEW q \in Request, SavesEdit(q)
    PROVE  TypeOK'
<1> DEFINE r == requests[q] g == messages[r.msg] x == [r EXCEPT !.step = "publish"]
<1>0. DbType /\ RequestType /\ RunnerType /\ ScreenType /\ CountType BY TypeParts
<1>1. r \in EditRequest /\ messages' = [messages EXCEPT ![r.msg] = Edited(g, r)] /\ Turns(q, x) BY DEF SavesEdit, Edited
<1>2. r \in Requests /\ r # Idle /\ r.msg \in MessageId BY <1>1, Kinds, Bounds DEF EditRequest
<1>3. r.msg \in DOMAIN messages BY <1>2, Addressed DEF MessageId
<1>4. g \in Message BY <1>0, <1>3, MessageIds
<1>5. Edited(g, r) \in Message /\ Edited(g, r).reply = g.reply BY <1>1, <1>4, EditedMessage
<1>6. UNCHANGED <<kind, thread>> BY DEF SavesEdit
<1>7. DbType' /\ DOMAIN messages' = DOMAIN messages BY <1>0, <1>1, <1>3, <1>5, <1>6, ChangedDb
<1>8. x \in Requests BY <1>1, <1>2, Stepped, Kinds
<1> HIDE DEF x
<1>9. RequestType' BY <1>0, <1>1, <1>8, Turned
<1>10. RunnerType'
  <2>1. /\ calls' = [calls EXCEPT ![r.msg] = [u \in User |-> calls[r.msg][u] + IF u \in r.mentions \ g.mentions THEN 1 ELSE 0]]
        /\ lost' = IF r.before.known THEN lost ELSE lost \cup {r.msg}
        /\ UNCHANGED <<tasks, notes>>
    BY DEF SavesEdit
  <2>2. \A u \in User : calls[r.msg][u] \in Nat BY <1>0, <1>2 DEF RunnerType
  <2>3. [u \in User |-> calls[r.msg][u] + IF u \in r.mentions \ g.mentions THEN 1 ELSE 0] \in [User -> Nat] BY <2>2
  <2>4. calls' \in [MessageId -> [User -> Nat]] BY <1>0, <1>2, <2>1, <2>3 DEF RunnerType
  <2>5. lost' \subseteq DOMAIN messages BY <1>0, <1>3, <2>1 DEF RunnerType
  <2>6. QED BY <1>0, <1>7, <2>1, <2>4, <2>5 DEF RunnerType
<1>11. ScreenType' BY <1>0, <1>7, SameScreen DEF SavesEdit, ScreenType, screenVars
<1>12. CountType' BY <1>0, <1>7 DEF CountType, SavesEdit
<1>13. QED BY <1>7, <1>9, <1>10, <1>11, <1>12, TypeParts DEF TypeOK, DbType, RequestType, RunnerType, ScreenType, CountType

LEMMA SavesDeletionType ==
    ASSUME TypeOK, RequestsFit, NEW q \in Request, SavesDeletion(q)
    PROVE  TypeOK'
<1> DEFINE r == requests[q] g == messages[r.msg] d == [g EXCEPT !.deleted = TRUE] x == [r EXCEPT !.step = "publish"]
<1>0. DbType /\ RequestType /\ RunnerType /\ ScreenType /\ CountType BY TypeParts
<1>1. r \in DeleteRequest /\ Live(r.msg) /\ messages' = [messages EXCEPT ![r.msg] = d] /\ Turns(q, x) BY DEF SavesDeletion
<1>2. r \in Requests BY <1>1, Kinds
<1>3. r.msg \in DOMAIN messages BY <1>1 DEF Live
<1>4. g \in Message BY <1>0, <1>3, MessageIds
<1>5. d \in Message /\ d.reply = g.reply BY <1>4, DeletedMessage
<1>6. UNCHANGED <<kind, thread>> BY DEF SavesDeletion
<1>7. DbType' /\ DOMAIN messages' = DOMAIN messages BY <1>0, <1>1, <1>3, <1>5, <1>6, ChangedDb
<1>8. x \in Requests BY <1>1, <1>2, Stepped, Kinds
<1> HIDE DEF x, d
<1>9. RequestType' BY <1>0, <1>1, <1>8, Turned
<1>10. RunnerType' BY <1>0, <1>7, SameRunner DEF SavesDeletion
<1>11. ScreenType'
  <2>1. cardStale' = (cardStale \/ messages[r.msg].room = Thread) /\ UNCHANGED <<shown, listStale, reactionsStale, missed>>
    BY DEF SavesDeletion
  <2>2. QED BY <1>0, <1>7, <2>1, SameScreen DEF ScreenType
<1>12. CountType' BY <1>0, <1>7 DEF CountType, SavesDeletion
<1>13. QED BY <1>7, <1>9, <1>10, <1>11, <1>12, TypeParts DEF TypeOK, DbType, RequestType, RunnerType, ScreenType, CountType

LEMMA SavesReactionType ==
    ASSUME TypeOK, RequestsFit, NEW q \in Request, SavesReaction(q)
    PROVE  TypeOK'
<1> DEFINE r == requests[q]
<1>0. DbType /\ RequestType /\ RunnerType /\ ScreenType /\ CountType BY TypeParts
<1>1. r \in ReactRequest BY DEF SavesReaction
<1>2. r \in Requests /\ r # Idle /\ r.msg \in MessageId BY <1>1, Kinds, Bounds DEF ReactRequest
<1>3. r.msg \in DOMAIN messages BY <1>2, Addressed DEF MessageId
<1>7. DbType' /\ RequestType' /\ DOMAIN messages' = DOMAIN messages BY ReactionMoves, MovesType
<1>10. RunnerType' BY <1>0, <1>7, SameRunner DEF SavesReaction
<1>11. ScreenType'
  <2>1. reactionsStale' = reactionsStale \cup {r.msg} /\ UNCHANGED <<shown, cardStale, listStale, missed>>
    BY DEF SavesReaction
  <2>2. QED BY <1>0, <1>3, <1>7, <2>1, SameScreen DEF ScreenType
<1>12. CountType' BY <1>0, <1>7 DEF CountType, SavesReaction
<1>13. QED BY <1>7, <1>10, <1>11, <1>12, TypeParts DEF TypeOK, DbType, RequestType, RunnerType, ScreenType, CountType

LEMMA SavesUpdateType ==
    ASSUME TypeOK, RequestsFit, NEW q \in Request, SavesUpdate(q)
    PROVE  TypeOK'
<1> DEFINE r == requests[q] x == [r EXCEPT !.step = "publish"]
<1>0. DbType /\ RequestType /\ RunnerType /\ ScreenType /\ CountType BY TypeParts
<1>1. /\ r \in RenameRequest /\ Turns(q, x)
      /\ thread' = IF RoomExists(Thread) THEN [thread EXCEPT !.name = r.name, !.closed = r.closed] ELSE thread
      /\ cardStale' = (cardStale \/ RoomExists(Thread)) /\ listStale' = (listStale \/ RoomExists(Thread))
      /\ UNCHANGED <<kind, messages, shown, reactionsStale, missed>>
  BY DEF SavesUpdate
<1>2. r \in Requests BY <1>1, Kinds
<1>3. thread' \in ThreadRecord \cup {None, Gone}
  <2>1. r.name \in Title /\ r.closed \in BOOLEAN BY <1>1 DEF RenameRequest
  <2>2. CASE RoomExists(Thread)
    <3>1. thread \in ThreadRecord BY <1>0, <2>2, Bounds DEF RoomExists, DbType
    <3>2. QED BY <1>1, <2>1, <2>2, <3>1 DEF ThreadRecord
  <2>3. CASE ~RoomExists(Thread) BY <1>0, <1>1, <2>3 DEF DbType
  <2>4. QED BY <2>2, <2>3
<1>7. DbType' /\ DOMAIN messages' = DOMAIN messages BY <1>0, <1>1, <1>3 DEF DbType
<1>8. x \in Requests BY <1>1, <1>2, Stepped, Kinds
<1> HIDE DEF x
<1>9. RequestType' BY <1>0, <1>1, <1>8, Turned
<1>10. RunnerType' BY <1>0, <1>7, SameRunner DEF SavesUpdate
<1>11. ScreenType' BY <1>0, <1>1, <1>7, SameScreen DEF ScreenType, RoomExists
<1>12. CountType' BY <1>0, <1>7 DEF CountType, SavesUpdate
<1>13. QED BY <1>7, <1>9, <1>10, <1>11, <1>12, TypeParts DEF TypeOK, DbType, RequestType, RunnerType, ScreenType, CountType

LEMMA RemovesCardType ==
    ASSUME TypeOK, RequestsFit, NEW q \in Request, RemovesCard(q)
    PROVE  TypeOK'
<1> DEFINE r == requests[q] g == messages[r.msg] d == [g EXCEPT !.deleted = TRUE] x == [r EXCEPT !.step = "room"]
<1>0. DbType /\ RequestType /\ RunnerType /\ ScreenType /\ CountType BY TypeParts
<1>1. r \in RemoveRequest /\ messages' = (IF r.msg = 0 THEN messages ELSE [messages EXCEPT ![r.msg] = d]) /\ Turns(q, x) BY DEF RemovesCard
<1>2. r \in Requests /\ r # Idle BY <1>1, Kinds, Bounds
<1>6. UNCHANGED <<kind, thread>> BY DEF RemovesCard
<1>7. DbType' /\ DOMAIN messages' = DOMAIN messages
  <2>1. CASE r.msg = 0 BY <1>0, <1>1, <1>6, <2>1 DEF DbType
  <2>2. CASE r.msg # 0
    <3>1. r.msg \in DOMAIN messages BY <1>2, <2>2, Addressed
    <3>2. g \in Message BY <1>0, <3>1, MessageIds
    <3>3. d \in Message /\ d.reply = g.reply BY <3>2, DeletedMessage
    <3> HIDE DEF d
    <3>4. QED BY <1>0, <1>1, <2>2, <3>1, <3>3, <1>6, ChangedDb
  <2>3. QED BY <2>1, <2>2
<1>8. x \in Requests BY <1>1, <1>2, Stepped, Kinds
<1> HIDE DEF x, d
<1>9. RequestType' BY <1>0, <1>1, <1>8, Turned
<1>10. RunnerType' BY <1>0, <1>7, SameRunner DEF RemovesCard
<1>11. ScreenType' BY <1>0, <1>7, SameScreen DEF RemovesCard, ScreenType, screenVars
<1>12. CountType' BY <1>0, <1>7 DEF CountType, RemovesCard
<1>13. QED BY <1>7, <1>9, <1>10, <1>11, <1>12, TypeParts DEF TypeOK, DbType, RequestType, RunnerType, ScreenType, CountType

LEMMA RemovesRoomType ==
    ASSUME TypeOK, RequestsFit, NEW q \in Request, RemovesRoom(q)
    PROVE  TypeOK'
<1> DEFINE r == requests[q] x == [r EXCEPT !.step = "publish"]
<1>0. DbType /\ RequestType /\ RunnerType /\ ScreenType /\ CountType BY TypeParts
<1>1. r \in RemoveRequest /\ messages' = [n \in DOMAIN messages |-> Emptied(messages[n])] /\ thread' = Gone /\ Turns(q, x) BY DEF RemovesRoom, Emptied
<1>2. r \in Requests BY <1>1, Kinds
<1>3. /\ messages' \in Seq(Message) /\ Len(messages') = Len(messages) /\ DOMAIN messages' = DOMAIN messages
      /\ \A m \in DOMAIN messages : messages'[m] = Emptied(messages[m])
  BY <1>0, <1>1, AllEmptied
<1>4. \A m \in DOMAIN messages : messages'[m].reply = messages[m].reply BY <1>0, <1>3, MessageIds, EmptiedMessage
<1>5. kind' = kind BY DEF RemovesRoom
<1>7. DbType' /\ DOMAIN messages' = DOMAIN messages BY <1>0, <1>1, <1>3, <1>4, <1>5 DEF DbType
<1>8. x \in Requests BY <1>1, <1>2, Stepped, Kinds
<1> HIDE DEF x
<1>9. RequestType' BY <1>0, <1>1, <1>8, Turned
<1>10. RunnerType' BY <1>0, <1>7, SameRunner DEF RemovesRoom
<1>11. ScreenType' BY <1>0, <1>7, SameScreen DEF RemovesRoom, ScreenType
<1>12. CountType' BY <1>0, <1>7 DEF CountType, RemovesRoom
<1>13. QED BY <1>7, <1>9, <1>10, <1>11, <1>12, TypeParts DEF TypeOK, DbType, RequestType, RunnerType, ScreenType, CountType

\* What a screen may be made to show.
LEMMA ShowsType ==
    ASSUME ScreenType, NEW m \in MessageId, m \in DOMAIN messages, NEW c \in Content \cup {Announcement, Hidden},
           \/ shown' = [shown EXCEPT ![m] = c]
           \/ shown' = [shown EXCEPT ![m] = IF @ = Hidden THEN Hidden ELSE c]
           \/ UNCHANGED shown,
           DOMAIN messages' = DOMAIN messages, missed' \in BOOLEAN,
           cardStale' \in BOOLEAN, listStale' \in BOOLEAN, reactionsStale' \subseteq reactionsStale
    PROVE  ScreenType'
  BY DEF ScreenType

\* The runner accepts or refuses.
LEMMA TryGoType ==
    ASSUME RunnerType, NEW task \in Task, task.msg \in DOMAIN messages,
           TryGo(task) \/ UNCHANGED <<tasks, lost>>,
           DOMAIN messages' = DOMAIN messages, UNCHANGED <<notes, calls>>
    PROVE  RunnerType'
<1>1. CASE UNCHANGED <<tasks, lost>> BY <1>1 DEF RunnerType
<1>2. CASE TryGo(task) /\ Len(tasks) < MaxConcurrent
  <2>1. tasks' = Append(tasks, task) /\ UNCHANGED lost BY <1>2 DEF TryGo
  <2>2. tasks' \in Seq(Task) /\ Len(tasks') <= MaxConcurrent BY <1>2, <2>1, Bounds DEF RunnerType
  <2>3. QED BY <2>1, <2>2 DEF RunnerType
<1>3. CASE TryGo(task) /\ ~(Len(tasks) < MaxConcurrent)
  <2>1. lost' = lost \cup {task.msg} /\ UNCHANGED tasks BY <1>3 DEF TryGo
  <2>2. QED BY <2>1 DEF RunnerType
<1>4. QED BY <1>1, <1>2, <1>3

LEMMA ContentType ==
    ASSUME DbType, NEW m \in DOMAIN messages
    PROVE  messages[m].content \in Content \cup {Announcement, Hidden}
  BY MessageIds DEF Message

LEMMA OthersType ==
    ASSUME DbType, NEW u \in User, NEW reply \in 0..Len(messages)
    PROVE  Others(u, reply) \in SUBSET User
<1>1. reply # 0 => reply \in DOMAIN messages BY MessageIds
<1>2. reply # 0 => messages[reply].author \in User BY <1>1, MessageIds DEF Message
<1>3. QED BY <1>2 DEF Others

\* The tasks that requests give to the runner.
LEMMA SentTask ==
    ASSUME TypeOK, RequestsFit, NEW q \in Request, requests[q] \in SendRequest, requests[q].msg \in DOMAIN messages
    PROVE  [msg |-> requests[q].msg, actor |-> requests[q].user, sent |-> TRUE, mentions |-> requests[q].mentions,
            others |-> Others(requests[q].user, requests[q].reply)] \in Task
<1> DEFINE r == requests[q]
<1>0. DbType BY TypeParts
<1>1. r # Idle /\ r.op = "send" BY Kinds, Bounds DEF SendRequest
<1>2. r.user \in User /\ r.mentions \in SUBSET User /\ r.reply \in Nat BY DEF SendRequest
<1>3. r.reply \in 0..Len(messages) BY <1>0, <1>1, <1>2, MessageIds DEF RequestsFit, Refers
<1>4. Others(r.user, r.reply) \in SUBSET User BY <1>0, <1>2, <1>3, OthersType
<1>5. r.msg \in MessageId BY <1>0, MessageIds
<1>6. QED BY <1>2, <1>4, <1>5 DEF Task

LEMMA PublishSentType ==
    ASSUME TypeOK, RequestsFit, NEW q \in Request, PublishSent(q)
    PROVE  TypeOK'
<1> DEFINE r == requests[q]
<1>0. DbType /\ RequestType /\ RunnerType /\ ScreenType /\ CountType BY TypeParts
<1>1. r \in SendRequest /\ r.msg \in DOMAIN messages /\ r.msg \in MessageId BY <1>0, SentMoves, MessageIds
<1>2. DbType' /\ RequestType' /\ DOMAIN messages' = DOMAIN messages BY SentMoves, MovesType
<1>3. RunnerType'
  <2> DEFINE task == [msg |-> r.msg, actor |-> r.user, sent |-> TRUE, mentions |-> r.mentions, others |-> Others(r.user, r.reply)]
  <2>1. task \in Task /\ task.msg = r.msg BY <1>1, SentTask
  <2>2. TryGo(task) /\ UNCHANGED <<notes, calls>> BY DEF PublishSent
  <2> HIDE DEF task
  <2>3. QED BY <1>0, <1>1, <1>2, <2>1, <2>2, TryGoType
<1>4. ScreenType'
  <2>1. shown' = [shown EXCEPT ![r.msg] = messages[r.msg].content] /\ listStale' = (listStale /\ r.room # Thread)
        /\ UNCHANGED <<cardStale, reactionsStale, missed>>
    BY DEF PublishSent, ShowAdded
  <2>2. listStale' \in BOOLEAN BY <1>0, <2>1 DEF ScreenType
  <2>3. QED BY <1>0, <1>1, <1>2, <2>1, <2>2, ContentType, ShowsType DEF ScreenType
<1>5. CountType' BY <1>0, <1>2 DEF CountType, PublishSent
<1>6. QED BY <1>2, <1>3, <1>4, <1>5, TypeParts DEF TypeOK, DbType, RequestType, RunnerType, ScreenType, CountType

LEMMA PublishDeletedType ==
    ASSUME TypeOK, RequestsFit, NEW q \in Request, PublishDeleted(q)
    PROVE  TypeOK'
<1> DEFINE r == requests[q]
<1>0. DbType /\ RequestType /\ RunnerType /\ ScreenType /\ CountType BY TypeParts
<1>1. r.msg \in DOMAIN messages /\ r.msg \in MessageId BY <1>0, DeletedMoves, MessageIds
<1>2. DbType' /\ RequestType' /\ DOMAIN messages' = DOMAIN messages BY DeletedMoves, MovesType
<1>3. RunnerType' BY <1>0, <1>2, SameRunner DEF PublishDeleted
<1>4. ScreenType'
  <2>1. shown' = [shown EXCEPT ![r.msg] = Hidden] /\ UNCHANGED <<cardStale, listStale, reactionsStale, missed>>
    BY DEF PublishDeleted, ShowDeleted
  <2>2. QED BY <1>0, <1>1, <1>2, <2>1, ShowsType DEF ScreenType
<1>5. CountType' BY <1>0, <1>2 DEF CountType, PublishDeleted
<1>6. QED BY <1>2, <1>3, <1>4, <1>5, TypeParts DEF TypeOK, DbType, RequestType, RunnerType, ScreenType, CountType

LEMMA TakesCardType ==
    ASSUME TypeOK, RequestsFit, NEW q \in Request, TakesCard(q)
    PROVE  TypeOK'
<1>0. DbType /\ RequestType /\ RunnerType /\ ScreenType /\ CountType BY TypeParts
<1>1. \E x : Moves(q, x) BY DEF TakesCard
<1>2. DbType' /\ RequestType' /\ DOMAIN messages' = DOMAIN messages BY <1>1, MovesType
<1>3. RunnerType' BY <1>0, <1>2, SameRunner DEF TakesCard
<1>4. ScreenType' BY <1>0, <1>2, SameScreen DEF TakesCard, ScreenType, screenVars
<1>5. CountType' BY <1>0, <1>2 DEF CountType, TakesCard
<1>6. QED BY <1>2, <1>3, <1>4, <1>5, TypeParts DEF TypeOK, DbType, RequestType, RunnerType, ScreenType, CountType

\* The requests that take their last step.
LEMMA CardFacts ==
    ASSUME TypeOK, RequestsFit, NEW q \in Request, PublishThreadCard(q)
    PROVE  requests[q] \in CardRequest /\ requests[q].card \in DOMAIN messages /\ requests[q].card \in Card
<1> DEFINE r == requests[q]
<1>1. r # Idle /\ r.op = "card" BY DEF PublishThreadCard, At
<1>2. r \in CardRequest BY <1>1, Busy, Fields
<1>3. KnowsCard(r) BY <1>1 DEF RequestsFit
<1>4. QED BY <1>1, <1>2, <1>3 DEF KnowsCard, Card

LEMMA EditFacts ==
    ASSUME TypeOK, RequestsFit, NEW q \in Request, PublishEdited(q)
    PROVE  requests[q] \in EditRequest /\ requests[q].step = "publish" /\ requests[q].msg \in DOMAIN messages /\ requests[q].msg \notin Card
<1> DEFINE r == requests[q]
<1>1. r # Idle /\ r.op = "edit" /\ r.step = "publish" BY DEF PublishEdited, At
<1>2. r \in EditRequest BY <1>1, Busy, Fields
<1>3. KnowsCard(r) BY <1>1 DEF RequestsFit
<1>4. r.msg # 0 BY <1>2 DEF EditRequest, MessageId
<1>5. QED BY <1>1, <1>2, <1>3, <1>4, Addressed DEF KnowsCard

LEMMA ReactFacts ==
    ASSUME TypeOK, RequestsFit, NEW q \in Request, PublishReaction(q)
    PROVE  requests[q] \in ReactRequest /\ requests[q].step = "publish" /\ requests[q].msg \in DOMAIN messages
           /\ (requests[q].msg \in Card => requests[q].content = Announcement)
<1> DEFINE r == requests[q]
<1>1. r # Idle /\ r.op = "react" /\ r.step = "publish" BY DEF PublishReaction, At
<1>2. r \in ReactRequest BY <1>1, Busy, Fields
<1>3. KnowsCard(r) BY <1>1 DEF RequestsFit
<1>4. r.msg # 0 BY <1>2 DEF ReactRequest, MessageId
<1>5. QED BY <1>1, <1>2, <1>3, <1>4, Addressed DEF KnowsCard

LEMMA CreateFacts ==
    ASSUME TypeOK, RequestsFit, NEW q \in Request, PublishThread(q)
    PROVE  requests[q] \in CreateRequest /\ requests[q].step = "publish" /\ requests[q].msg \in DOMAIN messages /\ kind # "dm"
<1> DEFINE r == requests[q]
<1>1. r # Idle /\ r.op = "create" /\ r.step = "publish" BY DEF PublishThread, At
<1>2. r \in CreateRequest BY <1>1, Busy, Fields
<1>3. Refers(r) /\ KnowsCard(r) BY <1>1 DEF RequestsFit
<1>4. r.msg # 0 BY <1>1, <1>3 DEF Refers
<1>5. QED BY <1>1, <1>2, <1>3, <1>4, Addressed DEF KnowsCard

LEMMA RenameFacts ==
    ASSUME TypeOK, RequestsFit, NEW q \in Request, PublishThreadUpdate(q)
    PROVE  requests[q] \in RenameRequest /\ requests[q].step = "publish" /\ thread # None
           /\ IF requests[q].msg = 0 THEN CardGone ELSE requests[q].msg \in Card
<1> DEFINE r == requests[q]
<1>1. r # Idle /\ r.op = "rename" /\ r.step = "publish" BY DEF PublishThreadUpdate, At
<1>2. r \in RenameRequest BY <1>1, Busy, Fields
<1>3. KnowsCard(r) BY <1>1 DEF RequestsFit
<1>4. QED BY <1>1, <1>2, <1>3 DEF KnowsCard

LEMMA RemoveFacts ==
    ASSUME TypeOK, RequestsFit, NEW q \in Request, PublishThreadDeleted(q)
    PROVE  requests[q] \in RemoveRequest /\ requests[q].step = "publish" /\ CardGone
           /\ (requests[q].msg # 0 => requests[q].msg \in Card)
<1> DEFINE r == requests[q]
<1>1. r # Idle /\ r.op = "remove" /\ r.step = "publish" BY DEF PublishThreadDeleted, At
<1>2. r \in RemoveRequest BY <1>1, Busy, Fields
<1>3. KnowsCard(r) BY <1>1 DEF RequestsFit
<1>4. QED BY <1>1, <1>2, <1>3 DEF KnowsCard

LEMMA LastType ==
    ASSUME TypeOK, RequestsFit, NEW q \in Request, LastStep(q)
    PROVE  TypeOK'
<1> DEFINE r == requests[q]
<1>0. DbType /\ RequestType /\ RunnerType /\ ScreenType /\ CountType BY TypeParts
<1>2. DbType' /\ RequestType' /\ DOMAIN messages' = DOMAIN messages BY LastMoves, MovesType
<1>3. DOMAIN messages \subseteq MessageId BY <1>0, MessageIds
<1>4. Announcement \in Content \cup {Announcement, Hidden} /\ Hidden \in Content \cup {Announcement, Hidden} OBVIOUS
<1>5. RunnerType' /\ ScreenType' /\ CountType'
  <2>1. CASE PublishThreadCard(q)
    <3>1. r.card \in DOMAIN messages BY <2>1, CardFacts
    <3>2. shown' = [shown EXCEPT ![r.card] = IF @ = Hidden THEN Hidden ELSE Announcement] /\ cardStale' = FALSE
          /\ UNCHANGED <<listStale, reactionsStale, missed>>
      BY <2>1 DEF PublishThreadCard, ShowUpdated
    <3>3. ScreenType' BY <1>0, <1>2, <1>3, <1>4, <3>1, <3>2, ShowsType DEF ScreenType
    <3>4. RunnerType' BY <2>1, <1>0, <1>2, SameRunner DEF PublishThreadCard
    <3>5. CountType' BY <2>1, <1>0, <1>2 DEF CountType, PublishThreadCard
    <3>6. QED BY <3>3, <3>4, <3>5
  <2>2. CASE PublishEdited(q)
    <3> DEFINE added == IF r.before.known THEN r.mentions \ r.before.users ELSE {}
               task == [msg |-> r.msg, actor |-> r.user, sent |-> FALSE, mentions |-> added, others |-> {}]
    <3>1. r \in EditRequest /\ r.msg \in DOMAIN messages BY <2>2, EditFacts
    <3>2. r.user \in User /\ r.mentions \in SUBSET User /\ r.content \in Content BY <3>1 DEF EditRequest
    <3>3. shown' = [shown EXCEPT ![r.msg] = IF @ = Hidden THEN Hidden ELSE r.content] /\ reactionsStale' = reactionsStale \ {r.msg}
          /\ UNCHANGED <<cardStale, listStale, missed>>
      BY <2>2 DEF PublishEdited, ShowUpdated
    <3>4. ScreenType' BY <1>0, <1>2, <1>3, <3>1, <3>2, <3>3, ShowsType DEF ScreenType
    <3>5. added \in SUBSET User BY <3>2
    <3>6. (TryGo(task) \/ UNCHANGED <<tasks, lost>>) /\ UNCHANGED <<notes, calls>> BY <2>2 DEF PublishEdited
    <3> HIDE DEF added
    <3>7. task \in Task /\ task.msg = r.msg BY <1>3, <3>1, <3>2, <3>5 DEF Task
    <3> HIDE DEF task
    <3>8. RunnerType' BY <1>0, <1>2, <3>1, <3>6, <3>7, TryGoType
    <3>9. CountType' BY <2>2, <1>0, <1>2 DEF CountType, PublishEdited
    <3>10. QED BY <3>4, <3>8, <3>9
  <2>3. CASE PublishReaction(q)
    <3>1. r \in ReactRequest /\ r.msg \in DOMAIN messages BY <2>3, ReactFacts
    <3>2. r.content \in Content \cup {Announcement} BY <3>1 DEF ReactRequest
    <3>3. shown' = [shown EXCEPT ![r.msg] = IF @ = Hidden THEN Hidden ELSE r.content] /\ reactionsStale' = reactionsStale \ {r.msg}
          /\ UNCHANGED <<cardStale, listStale, missed>>
      BY <2>3 DEF PublishReaction, ShowUpdated
    <3>4. ScreenType' BY <1>0, <1>2, <1>3, <3>1, <3>2, <3>3, ShowsType DEF ScreenType
    <3>5. RunnerType' BY <2>3, <1>0, <1>2, SameRunner DEF PublishReaction
    <3>6. CountType' BY <2>3, <1>0, <1>2 DEF CountType, PublishReaction
    <3>7. QED BY <3>4, <3>5, <3>6
  <2>4. CASE PublishThread(q)
    <3> DEFINE task == [msg |-> r.msg, actor |-> r.user, sent |-> TRUE, mentions |-> {}, others |-> {}]
    <3>1. r \in CreateRequest /\ r.msg \in DOMAIN messages BY <2>4, CreateFacts
    <3>2. r.user \in User BY <3>1 DEF CreateRequest
    <3>3. shown' = [shown EXCEPT ![r.msg] = messages[r.msg].content] /\ cardStale' = FALSE /\ listStale' = FALSE
          /\ UNCHANGED <<reactionsStale, missed>>
      BY <2>4 DEF PublishThread, ShowAdded
    <3>4. ScreenType' BY <1>0, <1>2, <1>3, <3>1, <3>3, ContentType, ShowsType DEF ScreenType
    <3>5. TryGo(task) /\ UNCHANGED <<notes, calls>> BY <2>4 DEF PublishThread
    <3>6. task \in Task /\ task.msg = r.msg BY <1>3, <3>1, <3>2 DEF Task
    <3> HIDE DEF task
    <3>7. RunnerType' BY <1>0, <1>2, <3>1, <3>5, <3>6, TryGoType
    <3>8. CountType' BY <2>4, <1>0, <1>2 DEF CountType, PublishThread
    <3>9. QED BY <3>4, <3>7, <3>8
  <2>5. CASE PublishThreadUpdate(q)
    <3>1. r.msg # 0 => r.msg \in DOMAIN messages BY <2>5, RenameFacts DEF Card
    <3>2. \/ UNCHANGED <<shown, cardStale>> /\ r.msg = 0
          \/ r.msg # 0 /\ shown' = [shown EXCEPT ![r.msg] = IF @ = Hidden THEN Hidden ELSE Announcement] /\ cardStale' = FALSE
      BY <2>5 DEF PublishThreadUpdate, ShowUpdated
    <3>3. UNCHANGED reactionsStale BY <2>5 DEF PublishThreadUpdate
    <3>4. faults' \in 0..MaxFaults BY <2>5, <1>0, Bounds DEF PublishThreadUpdate, Fault, CountType
    <3>4a. missed' \in BOOLEAN BY <2>5, <1>0 DEF PublishThreadUpdate, ScreenType
    <3>4b. listStale' \in BOOLEAN BY <2>5, <1>0 DEF PublishThreadUpdate, ScreenType, RoomExists
    <3>4c. cardStale' \in BOOLEAN BY <1>0, <3>2 DEF ScreenType
    <3>5. CASE r.msg = 0 BY <1>0, <1>2, <3>2, <3>3, <3>4, <3>4a, <3>4b, <3>4c, <3>5, SameScreen, <2>5, SameRunner, SameCount DEF ScreenType, PublishThreadUpdate
    <3>6. CASE r.msg # 0
      <4>1. ScreenType' BY <1>0, <1>2, <1>3, <1>4, <3>1, <3>2, <3>3, <3>4a, <3>4b, <3>4c, <3>6, ShowsType DEF ScreenType
      <4>2. QED BY <4>1, <1>0, <1>2, <3>4, <2>5, SameRunner, SameCount DEF PublishThreadUpdate
    <3>7. QED BY <3>5, <3>6
  <2>6. CASE PublishThreadDeleted(q)
    <3>1. r.msg # 0 => r.msg \in DOMAIN messages BY <2>6, RemoveFacts DEF Card
    <3>2. IF r.msg = 0 THEN UNCHANGED shown ELSE shown' = [shown EXCEPT ![r.msg] = Hidden]
      BY <2>6 DEF PublishThreadDeleted, ShowDeleted
    <3>3. listStale' = FALSE /\ UNCHANGED <<cardStale, reactionsStale, missed>> BY <2>6 DEF PublishThreadDeleted
    <3>4. RunnerType' /\ CountType' BY <1>0, <1>2, <2>6, SameRunner DEF PublishThreadDeleted, CountType
    <3>5. CASE r.msg = 0
      <4>1. ScreenType' BY <1>0, <1>2, <3>2, <3>3, <3>5, SameScreen DEF ScreenType
      <4>2. QED BY <4>1, <3>4
    <3>6. CASE r.msg # 0
      <4>1. ScreenType' BY <1>0, <1>2, <1>3, <1>4, <3>1, <3>2, <3>3, <3>6, ShowsType DEF ScreenType
      <4>2. QED BY <4>1, <3>4
    <3>7. QED BY <3>5, <3>6
  <2>7. QED BY <2>1, <2>2, <2>3, <2>4, <2>5, <2>6 DEF LastStep
<1>6. QED BY <1>2, <1>5, TypeParts DEF TypeOK, DbType, RequestType, RunnerType, ScreenType, CountType

\* A task tells some of those it addresses, all of them unless something is lost.
Delivers(i) ==
    LET task == tasks[i] IN
    \E told \in SUBSET User :
        /\ told \subseteq Addresses(task)
        /\ tasks' = RemoveAt(tasks, i)
        /\ notes' = [notes EXCEPT ![task.msg] = [u \in User |->
              notes[task.msg][u] + IF u \in told THEN 1 ELSE 0]]
        /\ \/ lost' = lost /\ told = Addresses(task)
           \/ lost' = lost \cup {task.msg}
        /\ faults' \in 0..MaxFaults
        /\ UNCHANGED <<dbVars, requests, screenVars, calls, begun, overlapped, torn, missed>>

LEMMA RunTaskIs ==
    ASSUME TypeOK, NEW i \in DOMAIN tasks, TaskFits(tasks[i]), RunTask(i)
    PROVE  Delivers(i)
<1> DEFINE task == tasks[i]
           replied == IF task.sent THEN RepliedNow(task) ELSE {}
           others == IF task.sent /\ kind = "dm" THEN User \ {task.actor} ELSE {}
<1>0. task \in Task BY DEF TypeOK
<1>1. PICK reached \in SUBSET (replied \cup others) :
        \E batch \in {{}, Skips(task.mentions, replied, reached)} :
            /\ tasks' = RemoveAt(tasks, i)
            /\ \/ reached = replied \cup others /\ batch = Skips(task.mentions, replied, reached) /\ UNCHANGED faults
               \/ (reached # replied \cup others \/ batch # Skips(task.mentions, replied, reached)) /\ Fault
            /\ notes' = [notes EXCEPT ![task.msg] = [u \in User |->
                    notes[task.msg][u] + (IF u \in reached THEN 1 ELSE 0) + (IF u \in batch THEN 1 ELSE 0)]]
            /\ lost' = IF batch = Skips(task.mentions, replied, reached) /\ (task.others \ task.mentions) \subseteq reached
                       THEN lost ELSE lost \cup {task.msg}
            /\ UNCHANGED <<dbVars, requests, screenVars, calls, begun, overlapped, torn, missed>>
  BY DEF RunTask
<1>2. PICK batch \in {{}, task.mentions \ reached} :
            /\ tasks' = RemoveAt(tasks, i)
            /\ UNCHANGED faults \/ Fault
            /\ notes' = [notes EXCEPT ![task.msg] = [u \in User |->
                    notes[task.msg][u] + (IF u \in reached THEN 1 ELSE 0) + (IF u \in batch THEN 1 ELSE 0)]]
            /\ lost' = IF batch = task.mentions \ reached /\ (task.others \ task.mentions) \subseteq reached
                       THEN lost ELSE lost \cup {task.msg}
            /\ UNCHANGED <<dbVars, requests, screenVars, calls, begun, overlapped, torn, missed>>
  BY <1>1 DEF Skips
<1>3. replied \cup others \subseteq task.others
  <2>1. task.sent => RepliedNow(task) \subseteq task.others
    BY DEF TaskFits, RepliedNow
  <2>2. task.sent /\ kind = "dm" => User \ {task.actor} \subseteq task.others BY DEF TaskFits
  <2>3. QED BY <2>1, <2>2
<1>4. task.mentions \in SUBSET User /\ task.others \in SUBSET User /\ task.msg \in MessageId BY <1>0 DEF Task
<1> DEFINE told == reached \cup batch
<1>5. told \in SUBSET User /\ told \subseteq Addresses(task) BY <1>3, <1>4, <1>2 DEF Addresses
<1>6. reached \cap batch = {} BY <1>2
<1>7. \A u \in User : notes[task.msg][u] \in Nat BY <1>4 DEF TypeOK
<1>8. notes' = [notes EXCEPT ![task.msg] = [u \in User |-> notes[task.msg][u] + IF u \in told THEN 1 ELSE 0]]
  <2>1. \A u \in User : notes[task.msg][u] + (IF u \in reached THEN 1 ELSE 0) + (IF u \in batch THEN 1 ELSE 0)
                        = notes[task.msg][u] + IF u \in told THEN 1 ELSE 0
    BY <1>6, <1>7
  <2>2. [u \in User |-> notes[task.msg][u] + (IF u \in reached THEN 1 ELSE 0) + (IF u \in batch THEN 1 ELSE 0)]
        = [u \in User |-> notes[task.msg][u] + IF u \in told THEN 1 ELSE 0]
    BY <2>1
  <2>3. QED BY <1>2, <2>2
<1>9. \/ lost' = lost /\ told = Addresses(task)
      \/ lost' = lost \cup {task.msg}
  BY <1>2, <1>5 DEF Addresses
<1>10. faults' \in 0..MaxFaults BY <1>2, Bounds DEF Fault, TypeOK
<1> HIDE DEF told, replied, others
<1>11. QED BY <1>2, <1>5, <1>8, <1>9, <1>10 DEF Delivers

LEMMA DeliversType ==
    ASSUME TypeOK, NEW i \in DOMAIN tasks, TaskFits(tasks[i]), Delivers(i)
    PROVE  TypeOK'
<1> DEFINE task == tasks[i] m == tasks[i].msg
<1>0. DbType /\ RequestType /\ RunnerType /\ ScreenType /\ CountType BY TypeParts
<1>1. PICK told \in SUBSET User :
        /\ tasks' = RemoveAt(tasks, i)
        /\ notes' = [notes EXCEPT ![m] = [u \in User |-> notes[m][u] + IF u \in told THEN 1 ELSE 0]]
        /\ lost' \subseteq lost \cup {m}
        /\ faults' \in 0..MaxFaults
        /\ UNCHANGED <<dbVars, requests, screenVars, calls, begun, overlapped, torn, missed>>
  BY DEF Delivers
<1>2. tasks \in Seq(Task) /\ task \in Task /\ m \in MessageId /\ m \in DOMAIN messages
  <2>1. tasks \in Seq(Task) BY <1>0 DEF RunnerType
  <2>2. task \in Task BY <2>1
  <2>3. m \in DOMAIN messages BY DEF TaskFits
  <2>4. QED BY <2>1, <2>2, <2>3 DEF Task
<1>3. DbType' /\ DOMAIN messages' = DOMAIN messages BY <1>0, <1>1, SameDb
<1>4. tasks' \in Seq(Task) /\ Len(tasks') <= MaxConcurrent
  <2>1. RemoveAt(tasks, i) \in Seq(Task) /\ Len(RemoveAt(tasks, i)) = Len(tasks) - 1 BY <1>2, Removed
  <2>2. QED BY <1>0, <1>1, <2>1, Bounds DEF RunnerType
<1>5. notes' \in [MessageId -> [User -> Nat]]
  <2>1. \A u \in User : notes[m][u] \in Nat BY <1>0, <1>2 DEF RunnerType
  <2>2. [u \in User |-> notes[m][u] + IF u \in told THEN 1 ELSE 0] \in [User -> Nat] BY <2>1
  <2>3. QED BY <1>0, <1>1, <1>2, <2>2 DEF RunnerType
<1>6. RunnerType'
  <2>1. calls' = calls BY <1>1
  <2>2. QED BY <1>0, <1>1, <1>2, <1>3, <1>4, <1>5, <2>1 DEF RunnerType
<1>7. ScreenType' BY <1>0, <1>1, <1>3, SameScreen DEF screenVars, ScreenType
<1>8. CountType' BY <1>0, <1>1, <1>3, SameCount
<1>9. RequestType' BY <1>0, <1>1 DEF RequestType
<1>10. QED BY <1>3, <1>6, <1>7, <1>8, <1>9, TypeParts DEF TypeOK, DbType, RequestType, RunnerType, ScreenType, CountType

LEMMA NextType ==
    ASSUME TypeOK, RequestsFit, OneCard, Accounted, [Next]_vars
    PROVE  TypeOK'
<1>1. CASE UNCHANGED vars
  BY <1>1 DEF vars, dbVars, screenVars, noteVars, TypeOK
<1>2. ASSUME NEW i \in DOMAIN tasks, RunTask(i) PROVE TypeOK'
  <2>1. TaskFits(tasks[i]) BY DEF Accounted
  <2>2. QED BY <1>2, <2>1, RunTaskIs, DeliversType
<1>3. ASSUME NEW q \in Request,
             \/ Begins(q) \/ Ends(q) \/ Tears(q)
             \/ SavesMessage(q) \/ SavesThread(q) \/ SavesEdit(q) \/ SavesDeletion(q)
             \/ SavesReaction(q) \/ SavesUpdate(q) \/ RemovesCard(q) \/ RemovesRoom(q)
             \/ PublishSent(q) \/ PublishDeleted(q) \/ TakesCard(q) \/ LastStep(q)
      PROVE  TypeOK'
  BY <1>3, BeginsType, EndsType, TearsType, SavesMessageType, SavesThreadType, SavesEditType, SavesDeletionType,
     SavesReactionType, SavesUpdateType, RemovesCardType, RemovesRoomType,
     PublishSentType, PublishDeletedType, TakesCardType, LastType
<1>4. QED BY <1>1, <1>2, <1>3, Shapes
-----------------------------------------------------------------------------
(* Requests and the announcement. *)

\* What a step leaves to the requests that do not take it.
Keeps ==
    /\ Len(messages) <= Len(messages')
    /\ kind' = kind
    /\ thread # None => thread' # None
    /\ \A m \in DOMAIN messages : m \in Card <=> m \in Card'
    /\ thread # None /\ CardGone => CardGone'

LEMMA FitKeeps ==
    ASSUME DbType, DbType', Keeps, NEW r \in Requests, Refers(r), KnowsCard(r),
           thread' = None \/ thread # None \/ ~(r.op = "create" /\ r.step = "save")
    PROVE  Refers(r)' /\ KnowsCard(r)'
<1>1. Len(messages) \in Nat /\ Len(messages') \in Nat BY MessageIds DEF DbType
<1>2. \A m \in 0..Len(messages) : m \in 0..Len(messages') BY <1>1 DEF Keeps
<1>3. Refers(r)'
  <2>1. r.op = "send" => r.reply \in Nat BY Fields DEF SendRequest
  <2>2. QED BY <1>1, <1>2, <2>1 DEF Keeps, Refers
<1>4. \A m \in Card : m \in Card' BY DEF Keeps, Card
<1>5. r.msg # 0 => r.msg \in DOMAIN messages BY MessageIds DEF Refers
<1>6. r.op \in {"edit", "delete", "react"} => r.msg # 0 BY Fields DEF MessageId
<1>7. KnowsCard(r)'
  BY <1>4, <1>5, <1>6 DEF Keeps, KnowsCard
<1>8. QED BY <1>3, <1>7

LEMMA FitStep ==
    ASSUME TypeOK, TypeOK', RequestsFit, Keeps, NEW q \in Request, requests[q] # Idle,
           NEW x \in Requests \cup {Idle}, Turns(q, x),
           x # Idle => x.step # "save" /\ Refers(x)' /\ KnowsCard(x)',
           thread' = None \/ thread # None \/ At(q, "create", "save"),
           \/ Len(messages') = Len(messages)
           \/ Len(messages') = Len(messages) + 1 /\ q \in Saving
    PROVE  RequestsFit'
<1>0. DbType /\ RequestType BY TypeParts
<1>0a. DbType' BY DEF TypeOK, DbType
<1>1. requests'[q] = x /\ \A p \in Request : p # q => requests'[p] = requests[p] BY <1>0, Turned
<1>2. \A p \in Request : (requests[p] # Idle => Refers(requests[p]) /\ KnowsCard(requests[p]))'
  <2> SUFFICES ASSUME NEW p \in Request, requests'[p] # Idle PROVE (Refers(requests[p]) /\ KnowsCard(requests[p]))'
    OBVIOUS
  <2>1. PICK y : y = requests'[p] OBVIOUS
  <2>2. CASE p = q
    <3>1. y = x BY <1>1, <2>1, <2>2
    <3>2. Refers(y)' /\ KnowsCard(y)' BY <2>1, <3>1
    <3>3. QED BY <2>1, <3>2 DEF Refers, KnowsCard
  <2>3. CASE p # q
    <3>1. y = requests[p] /\ y # Idle BY <1>1, <2>1, <2>3
    <3>2. y \in Requests /\ Refers(y) /\ KnowsCard(y) BY <3>1, Busy DEF RequestsFit
    <3>3. thread' = None \/ thread # None \/ ~(y.op = "create" /\ y.step = "save")
      BY <2>3, <3>1 DEF RequestsFit, At
    <3>4. Refers(y)' /\ KnowsCard(y)' BY <1>0, <1>0a, <3>2, <3>3, FitKeeps
    <3>5. QED BY <2>1, <3>4 DEF Refers, KnowsCard
  <2>4. QED BY <2>2, <2>3
<1>3. \A p, o \in Request : At(p, "create", "save")' /\ At(o, "create", "save")' => p = o
  BY <1>1 DEF RequestsFit, At
<1>4. Numbered' <= MaxMessages
  <2>1. Saving' \subseteq Saving \ {q} BY <1>1 DEF Saving, At
  <2>2. PICK S, T : S = Saving /\ T = Saving' OBVIOUS
  <2>3. IsFiniteSet(S) /\ Cardinality(S) \in Nat BY <2>2, SavingFinite
  <2>4. /\ IsFiniteSet(S \ {q})
        /\ Cardinality(S \ {q}) = IF q \in S THEN Cardinality(S) - 1 ELSE Cardinality(S)
    BY <2>3, FS_RemoveElement
  <2>5. Cardinality(T) <= Cardinality(S \ {q}) /\ Cardinality(T) \in Nat BY <2>1, <2>2, <2>4, FS_Subset, FS_CardinalityType
  <2>5a. Cardinality(S \ {q}) \in Nat BY <2>4, FS_CardinalityType
  <2>6. Len(messages) + Cardinality(S) <= MaxMessages BY <2>2, NumberedIs DEF RequestsFit
  <2>7. Numbered' = Len(messages') + Cardinality(T) BY <2>2 DEF Numbered, Saving
  <2>8. Len(messages) \in Nat /\ Len(messages') \in Nat BY <1>0, <1>0a, MessageIds DEF DbType
  <2>9. QED BY <2>2, <2>3, <2>4, <2>5, <2>5a, <2>6, <2>7, <2>8, Bounds
<1>5. QED BY <1>2, <1>3, <1>4 DEF RequestsFit

LEMMA HandStep ==
    ASSUME RequestType, OneHand, NEW q \in Request, NEW x \in Requests \cup {Idle}, Turns(q, x),
           overlapped \subseteq overlapped',
           x # Idle => \/ requests[q] # Idle /\ x.msg = requests[q].msg
                       \/ x.msg \in overlapped' \cup {0}
                       \/ \A p \in Request : requests[p] # Idle => requests[p].msg # x.msg
    PROVE  OneHand'
<1>1. requests'[q] = x /\ \A p \in Request : p # q => requests'[p] = requests[p] BY Turned
<1>2. QED BY <1>1 DEF OneHand

\* Only the announcement's own requests change what is said of it.
LEMMA CardStep ==
    ASSUME TypeOK, OneCard, Keeps, DOMAIN messages' = DOMAIN messages, NEW q \in Request, NEW x \in Requests \cup {Idle}, Turns(q, x),
           \A m \in DOMAIN messages : /\ messages'[m].announces = messages[m].announces
                                      /\ messages'[m].room = messages[m].room
                                      /\ m \in Card => messages'[m].deleted = messages[m].deleted,
           ~At(q, "remove", "room"), torn' = torn,
           thread' = None <=> thread = None, thread' = Gone <=> thread = Gone
    PROVE  OneCard'
<1>1. Card' = Card BY DEF Keeps, Card
<1>2. CardGone' <=> CardGone BY <1>1 DEF CardGone, Card
<1>3. requests'[q] = x /\ \A p \in Request : p # q => requests'[p] = requests[p] BY Turned, TypeParts
<1>4. RoomExists(Thread)' <=> RoomExists(Thread) BY Bounds DEF RoomExists
<1>5. \A p \in Request : At(p, "remove", "room") => At(p, "remove", "room")' /\ requests'[p] = requests[p] BY <1>3 DEF At
<1>6. (RoomExists(Thread) /\ CardGone =>
          torn # {} \/ \E p \in Request : At(p, "remove", "room") /\ requests[p].msg # 0)'
  BY <1>2, <1>4, <1>5 DEF OneCard
<1>7. (/\ \A m, n \in Card : m = n
       /\ \A m \in DOMAIN messages : messages[m].announces <=> m \in Card /\ thread # Gone
       /\ \A m \in Card : messages[m].room = Main
       /\ thread = None <=> Card = {}
       /\ thread = None => \A m \in DOMAIN messages : messages[m].room # Thread
       /\ thread = Gone => CardGone)'
  <2>1. Card \subseteq DOMAIN messages BY DEF Card
  <2>2. QED BY <1>1, <1>2, <2>1 DEF OneCard
<1>8. QED BY <1>6, <1>7 DEF OneCard

LEMMA SameKeeps ==
    ASSUME UNCHANGED dbVars, DbType
    PROVE  Keeps /\ Card' = Card /\ (CardGone' <=> CardGone)
<1>1. messages' = messages /\ thread' = thread /\ kind' = kind BY DEF dbVars
<1>2. Card' = Card BY <1>1 DEF Card
<1>3. CardGone' <=> CardGone BY <1>1, <1>2 DEF CardGone
<1>4. QED BY <1>1, <1>2, <1>3, MessageIds DEF Keeps

LEMMA MovesFit ==
    ASSUME TypeOK, TypeOK', RequestsFit, OneCard, OneHand, NEW q \in Request, NEW x, Moves(q, x)
    PROVE  RequestsFit' /\ OneCard' /\ OneHand' /\ Keeps
<1>0. DbType /\ RequestType BY TypeParts
<1>1. /\ requests[q] # Idle /\ ~At(q, "remove", "room") /\ x \in Requests \cup {Idle} /\ Turns(q, x)
      /\ UNCHANGED dbVars /\ UNCHANGED overlapped /\ UNCHANGED torn
  BY DEF Moves
<1>2. messages' = messages /\ thread' = thread /\ kind' = kind BY <1>1 DEF dbVars
<1>3. Keeps BY <1>0, <1>1, SameKeeps
<1>4. x # Idle => x.step # "save" /\ Refers(x)' /\ KnowsCard(x)'
  <2>1. x # Idle => Refers(x) /\ KnowsCard(x) /\ x.step # "save" BY DEF Moves
  <2>2. QED BY <1>0, <1>1, <2>1, <1>2 DEF Refers, KnowsCard, Card, CardGone
<1>5. RequestsFit' BY <1>1, <1>2, <1>3, <1>4, FitStep
<1>6. OneCard' BY <1>1, <1>2, <1>3, CardStep
<1>7. OneHand' BY <1>0, <1>1, HandStep DEF Moves
<1>8. QED BY <1>5, <1>6, <1>7, <1>3

LEMMA BeginsFit ==
    ASSUME TypeOK, TypeOK', RequestsFit, OneCard, OneHand, NEW q \in Request, Begins(q)
    PROVE  RequestsFit' /\ OneCard' /\ OneHand' /\ Keeps
<1>0. DbType /\ RequestType BY TypeParts
<1>1. PICK r \in Requests : Starts(r) /\ Begin(q, r) /\ UNCHANGED <<dbVars, screenVars, noteVars, torn, missed>>
  BY DEF Begins
<1>2. messages' = messages /\ thread' = thread /\ kind' = kind /\ UNCHANGED dbVars /\ torn' = torn BY <1>1 DEF dbVars
<1>3. Keeps BY <1>0, <1>2, SameKeeps
<1>4. requests[q] = Idle /\ Turns(q, r) BY <1>1 DEF Begin, Turns
<1>5. requests'[q] = r /\ \A p \in Request : p # q => requests'[p] = requests[p] BY <1>0, <1>4, Turned
<1>6. OneCard'
  <2>1. ~At(q, "remove", "room") BY <1>4 DEF At
  <2>2. QED BY <1>2, <1>3, <1>4, <2>1, CardStep
<1>7. OneHand'
  <2>1. overlapped' = IF InFlight(r.msg) THEN overlapped \cup ({r.msg} \ {0}) ELSE overlapped BY <1>1 DEF Begin
  <2>2. overlapped \subseteq overlapped' BY <2>1
  <2>3. CASE InFlight(r.msg)
    <3>1. r.msg \in overlapped' \cup {0} BY <2>1, <2>3
    <3>2. QED BY <1>0, <1>4, <2>2, <3>1, HandStep
  <2>4. CASE ~InFlight(r.msg)
    <3>1. \A p \in Request : requests[p] # Idle => requests[p].msg # r.msg BY <2>4 DEF InFlight
    <3>2. QED BY <1>0, <1>4, <2>2, <3>1, HandStep
  <2>5. QED BY <2>3, <2>4
<1>8. \A p \in Request : (requests[p] # Idle => Refers(requests[p]) /\ KnowsCard(requests[p]))'
  <2> SUFFICES ASSUME NEW p \in Request, requests'[p] # Idle PROVE (Refers(requests[p]) /\ KnowsCard(requests[p]))'
    OBVIOUS
  <2>1. PICK y : y = requests'[p] OBVIOUS
  <2>2. Refers(y) /\ KnowsCard(y) BY <1>1, <1>5, <2>1 DEF RequestsFit, Starts
  <2>3. Refers(y)' /\ KnowsCard(y)' BY <1>2, <2>2 DEF Refers, KnowsCard, Card, CardGone
  <2>4. QED BY <2>1, <2>3 DEF Refers, KnowsCard
<1>9. \A p, o \in Request : At(p, "create", "save")' /\ At(o, "create", "save")' => p = o
  <2>1. r.op = "create" => ~\E p \in Request : At(p, "create", "save") BY <1>1 DEF Starts
  <2>2. QED BY <1>5, <2>1 DEF RequestsFit, At
<1>10. Numbered' <= MaxMessages
  <2>1. PICK S, T : S = Saving /\ T = Saving' OBVIOUS
  <2>2. IsFiniteSet(S) /\ Cardinality(S) \in Nat BY <2>1, SavingFinite
  <2>3. Numbered = Len(messages) + Cardinality(S) /\ Numbered' = Len(messages) + Cardinality(T)
    BY <1>2, <2>1 DEF Numbered, Saving
  <2>4. CASE r.op \in {"send", "create"}
    <3>1. T = S \cup {q} /\ q \notin S BY <1>1, <1>4, <1>5, <2>1, <2>4, Bounds DEF Saving, At, Starts
    <3>2. Cardinality(T) = Cardinality(S) + 1 BY <2>2, <3>1, FS_AddElement
    <3>3. Numbered < MaxMessages BY <1>1, <2>4 DEF Starts
    <3>4. QED BY <2>2, <2>3, <3>2, <3>3, <1>0, MessageIds, Bounds
  <2>5. CASE r.op \notin {"send", "create"}
    <3>1. T = S BY <1>4, <1>5, <2>1, <2>5 DEF Saving, At
    <3>2. QED BY <2>3, <3>1 DEF RequestsFit
  <2>6. QED BY <2>4, <2>5
<1>11. RequestsFit' BY <1>8, <1>9, <1>10 DEF RequestsFit
<1>12. QED BY <1>6, <1>7, <1>11, <1>3

LEMMA TearsFit ==
    ASSUME TypeOK, TypeOK', RequestsFit, OneCard, OneHand, NEW q \in Request, Tears(q)
    PROVE  RequestsFit' /\ OneCard' /\ OneHand' /\ Keeps
<1> DEFINE r == requests[q]
<1>0. DbType /\ RequestType BY TypeParts
<1>1. /\ r \in RemoveRequest /\ r.step = "room" /\ Turns(q, Idle) /\ torn' = torn \cup ({r.msg} \ {0})
      /\ UNCHANGED dbVars /\ overlapped' = overlapped
  BY DEF Tears
<1>1a. r # Idle BY <1>1, Kinds, Bounds
<1>2. messages' = messages /\ thread' = thread /\ kind' = kind BY <1>1 DEF dbVars
<1>3. Keeps /\ Card' = Card /\ (CardGone' <=> CardGone) BY <1>0, <1>1, SameKeeps
<1>4. RequestsFit' BY <1>1, <1>1a, <1>2, <1>3, FitStep
<1>5. OneHand' BY <1>0, <1>1, HandStep
<1>6. OneCard'
  <2>1. requests'[q] = Idle /\ \A p \in Request : p # q => requests'[p] = requests[p] BY <1>0, <1>1, Turned
  <2>2. (RoomExists(Thread) /\ CardGone =>
            torn # {} \/ \E p \in Request : At(p, "remove", "room") /\ requests[p].msg # 0)'
    <3>1. RoomExists(Thread)' <=> RoomExists(Thread) BY <1>2 DEF RoomExists
    <3>2. CASE r.msg = 0
      <4>1. \A p \in Request : At(p, "remove", "room") /\ requests[p].msg # 0 => At(p, "remove", "room")' /\ requests'[p] = requests[p]
        BY <2>1, <3>2 DEF At
      <4>2. torn # {} => torn' # {} BY <1>1
      <4>3. QED BY <1>3, <3>1, <4>1, <4>2 DEF OneCard
    <3>3. CASE r.msg # 0 BY <1>1, <3>3
    <3>4. QED BY <3>2, <3>3
  <2>3. (/\ \A m, n \in Card : m = n
         /\ \A m \in DOMAIN messages : messages[m].announces <=> m \in Card /\ thread # Gone
         /\ \A m \in Card : messages[m].room = Main
         /\ thread = None <=> Card = {}
         /\ thread = None => \A m \in DOMAIN messages : messages[m].room # Thread
         /\ thread = Gone => CardGone)'
    BY <1>2, <1>3 DEF OneCard
  <2>4. QED BY <2>2, <2>3 DEF OneCard
<1>7. QED BY <1>4, <1>5, <1>6, <1>3

\* No request has the number of a message that is not there yet.
LEMMA Unused ==
    ASSUME TypeOK, RequestsFit
    PROVE  \A p \in Request : requests[p] # Idle => requests[p].msg # Len(messages) + 1
<1>1. Len(messages) \in Nat BY TypeParts, MessageIds
<1>2. \A p \in Request : requests[p] # Idle => requests[p].msg \in 0..Len(messages) BY DEF RequestsFit, Refers
<1>3. QED BY <1>1, <1>2

LEMMA SavesMessageFit ==
    ASSUME TypeOK, TypeOK', RequestsFit, OneCard, OneHand, NEW q \in Request, SavesMessage(q)
    PROVE  RequestsFit' /\ OneCard' /\ OneHand' /\ Keeps
<1> DEFINE r == requests[q] n == Len(messages) + 1
<1>0. DbType /\ RequestType BY TypeParts
<1>1. /\ r \in SendRequest /\ r.step = "save" /\ messages' = Append(messages, NewMessage(r)) /\ RoomExists(r.room)
      /\ Turns(q, [r EXCEPT !.step = "publish", !.msg = n]) /\ thread' = thread /\ kind' = kind /\ overlapped' = overlapped /\ torn' = torn
  BY DEF SavesMessage
<1>2. r \in Requests /\ r # Idle /\ r.op = "send" /\ r.content \in Content BY <1>1, Kinds, Bounds DEF SendRequest
<1>3. n \in MessageId BY <1>1, <1>2, RoomLeft
<1>4. Refers(r) /\ KnowsCard(r) BY <1>2 DEF RequestsFit
<1>5. NewMessage(r) \in Message BY <1>1, NewMessageType
<1>6. /\ Len(messages') = n /\ DOMAIN messages' = DOMAIN messages \cup {n} /\ n \notin DOMAIN messages
      /\ messages'[n] = NewMessage(r) /\ \A m \in DOMAIN messages : messages'[m] = messages[m]
  BY <1>0, <1>1, <1>5, Appended
<1>7. NewMessage(r).content # Announcement /\ NewMessage(r).announces = FALSE /\ NewMessage(r).room = r.room
  BY <1>2, Bounds DEF NewMessage
<1>8. Card' = Card BY <1>6, <1>7 DEF Card
<1>9. CardGone' <=> CardGone BY <1>6, <1>8 DEF CardGone, Card
<1>10. Keeps BY <1>0, <1>1, <1>6, <1>8, <1>9, MessageIds DEF Keeps
<1>11. PICK x : x = [r EXCEPT !.step = "publish", !.msg = n] OBVIOUS
<1>12. x \in SendRequest /\ x.room = r.room /\ x.reply = r.reply /\ x.step = "publish" /\ x.msg = n /\ x.op = "send"
  BY <1>1, <1>2, <1>3, <1>11, Named
<1>13. Turns(q, x) /\ x \in Requests BY <1>1, <1>11, <1>12, Kinds
<1>14. Refers(x)' /\ KnowsCard(x)'
  <2>1. n \in 0..Len(messages') /\ n # 0 BY <1>0, <1>6, MessageIds
  <2>2. r.reply <= Len(messages') BY <1>0, <1>1, <1>2, <1>4, <1>6, MessageIds DEF Refers, SendRequest
  <2>3. x.room = Thread => thread' # None BY <1>1, <1>12, <1>2, <1>4 DEF Refers
  <2>4. QED BY <1>12, <2>1, <2>2, <2>3 DEF Refers, KnowsCard
<1>15. q \in Saving BY <1>1, <1>2 DEF Saving, At
<1>16. RequestsFit' BY <1>1, <1>2, <1>6, <1>10, <1>12, <1>13, <1>14, <1>15, FitStep
<1>17. OneHand' BY <1>0, <1>1, <1>12, <1>13, Unused, HandStep
<1>18. requests'[q] = x /\ \A p \in Request : p # q => requests'[p] = requests[p] BY <1>0, <1>13, Turned
<1>19. OneCard'
  <2>1. (RoomExists(Thread) /\ CardGone =>
            torn # {} \/ \E p \in Request : At(p, "remove", "room") /\ requests[p].msg # 0)'
    <3>1. RoomExists(Thread)' <=> RoomExists(Thread) BY <1>1 DEF RoomExists
    <3>2. \A p \in Request : At(p, "remove", "room") => At(p, "remove", "room")' /\ requests'[p] = requests[p] BY <1>2, <1>18 DEF At
    <3>3. QED BY <1>1, <1>9, <3>1, <3>2 DEF OneCard
  <2>2. r.room = Thread => thread # None BY <1>2, <1>4 DEF Refers
  <2>3. Card \subseteq DOMAIN messages BY DEF Card
  <2>4. (/\ \A m, k \in Card : m = k
         /\ \A m \in DOMAIN messages : messages[m].announces <=> m \in Card /\ thread # Gone
         /\ \A m \in Card : messages[m].room = Main
         /\ thread = None <=> Card = {}
         /\ thread = None => \A m \in DOMAIN messages : messages[m].room # Thread
         /\ thread = Gone => CardGone)'
    BY <1>1, <1>6, <1>7, <1>8, <1>9, <2>2, <2>3 DEF OneCard
  <2>5. QED BY <2>1, <2>4 DEF OneCard
<1>20. QED BY <1>16, <1>17, <1>19, <1>10

LEMMA SavesThreadFit ==
    ASSUME TypeOK, TypeOK', RequestsFit, OneCard, OneHand, NEW q \in Request, SavesThread(q)
    PROVE  RequestsFit' /\ OneCard' /\ OneHand' /\ Keeps
<1> DEFINE r == requests[q] n == Len(messages) + 1
<1>0. DbType /\ RequestType BY TypeParts
<1>1. /\ r \in CreateRequest /\ r.step = "save" /\ messages' = Append(messages, Announces(r.user))
      /\ thread' = [name |-> r.name, closed |-> FALSE, creator |-> r.user]
      /\ Turns(q, [r EXCEPT !.step = "publish", !.msg = n]) /\ kind' = kind /\ overlapped' = overlapped /\ torn' = torn
  BY DEF SavesThread
<1>2. r \in Requests /\ r # Idle /\ r.op = "create" /\ r.user \in User /\ r.name \in Title BY <1>1, Kinds, Bounds DEF CreateRequest
<1>3. n \in MessageId BY <1>1, <1>2, RoomLeft
<1>4. Refers(r) /\ KnowsCard(r) BY <1>2 DEF RequestsFit
<1>4a. thread = None /\ kind # "dm" BY <1>1, <1>2, <1>4 DEF KnowsCard
<1>4b. thread' # None /\ thread' # Gone
  <2>1. thread' \in ThreadRecord BY <1>1, <1>2 DEF ThreadRecord
  <2>2. QED BY <2>1, Bounds
<1>5. Announces(r.user) \in Message BY <1>2, AnnouncesType
<1>6. /\ Len(messages') = n /\ DOMAIN messages' = DOMAIN messages \cup {n} /\ n \notin DOMAIN messages
      /\ messages'[n] = Announces(r.user) /\ \A m \in DOMAIN messages : messages'[m] = messages[m]
  BY <1>0, <1>1, <1>5, Appended
<1>7. Announces(r.user).content = Announcement /\ Announces(r.user).announces = TRUE /\ Announces(r.user).room = Main /\ Announces(r.user).deleted = FALSE
  BY DEF Announces
<1>8. Card = {} /\ Card' = {n} BY <1>4a, <1>6, <1>7 DEF Card, OneCard
<1>9. ~CardGone' BY <1>6, <1>7, <1>8 DEF CardGone
<1>10. Keeps BY <1>0, <1>1, <1>4a, <1>4b, <1>6, <1>8, MessageIds DEF Keeps
<1>11. PICK x : x = [r EXCEPT !.step = "publish", !.msg = n] OBVIOUS
<1>12. x \in CreateRequest /\ x.step = "publish" /\ x.msg = n /\ x.op = "create"
  BY <1>1, <1>2, <1>3, <1>11, Named
<1>13. Turns(q, x) /\ x \in Requests BY <1>1, <1>11, <1>12, Kinds
<1>14. Refers(x)' /\ KnowsCard(x)'
  <2>1. n \in 0..Len(messages') /\ n # 0 BY <1>0, <1>6, MessageIds
  <2>2. QED BY <1>1, <1>4a, <1>12, <2>1 DEF Refers, KnowsCard
<1>15. q \in Saving /\ At(q, "create", "save") BY <1>1, <1>2 DEF Saving, At
<1>16. RequestsFit' BY <1>1, <1>2, <1>6, <1>10, <1>12, <1>13, <1>14, <1>15, FitStep
<1>17. OneHand' BY <1>0, <1>1, <1>12, <1>13, Unused, HandStep
<1>19. OneCard'
  <2>4. (/\ \A m, k \in Card : m = k
         /\ \A m \in DOMAIN messages : messages[m].announces <=> m \in Card /\ thread # Gone
         /\ \A m \in Card : messages[m].room = Main
         /\ thread = None <=> Card = {}
         /\ thread = None => \A m \in DOMAIN messages : messages[m].room # Thread
         /\ thread = Gone => CardGone)'
    <3>1. \A m \in DOMAIN messages : messages[m].announces = FALSE
      <4>1. \A m \in DOMAIN messages : messages[m].announces \in BOOLEAN BY <1>0, MessageIds DEF Message
      <4>2. QED BY <1>8, <4>1 DEF OneCard
    <3>2. QED BY <1>4b, <1>6, <1>7, <1>8, <3>1
  <2>5. QED BY <1>9, <2>4 DEF OneCard
<1>20. QED BY <1>16, <1>17, <1>19, <1>10

\* A change of one message that leaves its room, its content in the way of an announcement and
\* its being one as they are.
LEMMA ChangeFit ==
    ASSUME TypeOK, TypeOK', RequestsFit, OneCard, OneHand, NEW q \in Request, NEW x \in Requests, Turns(q, x),
           NEW k \in DOMAIN messages, NEW g \in Message, messages' = [messages EXCEPT ![k] = g],
           k \notin Card, g.content # Announcement, g.room = messages[k].room, g.announces = messages[k].announces,
           requests[q] # Idle, requests[q].op # "remove", x.op = requests[q].op, x.msg = requests[q].msg, x.step # "save",
           x.op \in {"edit", "delete"}, x.msg = k,
           UNCHANGED <<kind, thread, overlapped, torn>>
    PROVE  RequestsFit' /\ OneCard' /\ OneHand' /\ Keeps
<1>0. DbType /\ RequestType BY TypeParts
<1>1. /\ Len(messages') = Len(messages) /\ DOMAIN messages' = DOMAIN messages
      /\ messages'[k] = g /\ \A m \in DOMAIN messages : m # k => messages'[m] = messages[m]
  BY <1>0, Changed
<1>2. Card' = Card BY <1>1 DEF Card
<1>3. CardGone' <=> CardGone BY <1>1, <1>2 DEF CardGone, Card
<1>4. Keeps BY <1>0, <1>1, <1>2, <1>3, MessageIds DEF Keeps
<1>5. Refers(x)' /\ KnowsCard(x)' BY <1>0, <1>1, <1>2, MessageIds DEF Refers, KnowsCard
<1>6. RequestsFit' BY <1>1, <1>4, <1>5, FitStep
<1>7. OneHand' BY <1>0, HandStep
<1>8. ~At(q, "remove", "room") BY DEF At
<1>9. OneCard' BY <1>1, <1>4, <1>8, CardStep
<1>10. QED BY <1>6, <1>7, <1>9, <1>4

LEMMA SavesEditFit ==
    ASSUME TypeOK, TypeOK', RequestsFit, OneCard, OneHand, NEW q \in Request, SavesEdit(q)
    PROVE  RequestsFit' /\ OneCard' /\ OneHand' /\ Keeps
<1> DEFINE r == requests[q] g == messages[r.msg]
<1>0. DbType /\ RequestType BY TypeParts
<1>1. /\ r \in EditRequest /\ messages' = [messages EXCEPT ![r.msg] = Edited(g, r)] /\ Turns(q, [r EXCEPT !.step = "publish"])
      /\ UNCHANGED <<kind, thread, overlapped, torn>>
  BY DEF SavesEdit, Edited
<1>2. r \in Requests /\ r # Idle /\ r.op = "edit" /\ r.msg \in MessageId /\ r.content \in Content BY <1>1, Kinds, Bounds DEF EditRequest
<1>3. r.msg \in DOMAIN messages BY <1>2, Addressed DEF MessageId
<1>4. g \in Message BY <1>0, <1>3, MessageIds
<1>5. r.msg \notin Card BY <1>2 DEF RequestsFit, KnowsCard
<1>6. PICK d : d = Edited(g, r) OBVIOUS
<1>7. /\ d \in Message /\ d.room = g.room /\ d.announces = g.announces
      /\ d.content = IF g.deleted THEN g.content ELSE r.content
  BY <1>1, <1>4, <1>6, EditedMessage
<1>8. d.content # Announcement BY <1>2, <1>3, <1>5, <1>7, Bounds DEF Card
<1>9. PICK x : x = [r EXCEPT !.step = "publish"] OBVIOUS
<1>10. x \in Requests /\ x.op = "edit" /\ x.msg = r.msg /\ x.step = "publish" BY <1>1, <1>2, <1>9, Stepped, Kinds
<1>11. Turns(q, x) /\ messages' = [messages EXCEPT ![r.msg] = d] BY <1>1, <1>6, <1>9
<1>12. PICK k : k = r.msg OBVIOUS
<1>13. /\ k \in DOMAIN messages /\ k \notin Card /\ messages' = [messages EXCEPT ![k] = d]
       /\ d.room = messages[k].room /\ d.announces = messages[k].announces /\ x.msg = k
  BY <1>3, <1>5, <1>7, <1>10, <1>11, <1>12
<1>14. /\ requests[q] # Idle /\ requests[q].op # "remove" /\ x.op = requests[q].op /\ x.msg = requests[q].msg
       /\ x \in Requests /\ x.step # "save" /\ x.op \in {"edit", "delete"} /\ d \in Message /\ d.content # Announcement
  BY <1>2, <1>7, <1>8, <1>10
<1>15. Turns(q, x) /\ UNCHANGED <<kind, thread, overlapped, torn>> BY <1>1, <1>11
<1> HIDE DEF r, g
<1>16. QED BY <1>13, <1>14, <1>15, ChangeFit

LEMMA SavesDeletionFit ==
    ASSUME TypeOK, TypeOK', RequestsFit, OneCard, OneHand, NEW q \in Request, SavesDeletion(q)
    PROVE  RequestsFit' /\ OneCard' /\ OneHand' /\ Keeps
<1> DEFINE r == requests[q] g == messages[r.msg]
<1>0. DbType /\ RequestType BY TypeParts
<1>1. /\ r \in DeleteRequest /\ messages' = [messages EXCEPT ![r.msg] = [g EXCEPT !.deleted = TRUE]] /\ Turns(q, [r EXCEPT !.step = "publish"])
      /\ UNCHANGED <<kind, thread, overlapped, torn>>
  BY DEF SavesDeletion
<1>2. r \in Requests /\ r # Idle /\ r.op = "delete" /\ r.msg \in MessageId BY <1>1, Kinds, Bounds DEF DeleteRequest
<1>3. r.msg \in DOMAIN messages BY <1>2, Addressed DEF MessageId
<1>4. g \in Message BY <1>0, <1>3, MessageIds
<1>5. r.msg \notin Card BY <1>2 DEF RequestsFit, KnowsCard
<1>6. PICK d : d = [g EXCEPT !.deleted = TRUE] OBVIOUS
<1>7. d \in Message /\ d.room = g.room /\ d.announces = g.announces /\ d.content = g.content
  BY <1>4, <1>6, DeletedMessage
<1>8. d.content # Announcement BY <1>3, <1>5, <1>7 DEF Card
<1>9. PICK x : x = [r EXCEPT !.step = "publish"] OBVIOUS
<1>10. x \in Requests /\ x.op = "delete" /\ x.msg = r.msg /\ x.step = "publish" BY <1>1, <1>2, <1>9, Stepped, Kinds
<1>11. Turns(q, x) /\ messages' = [messages EXCEPT ![r.msg] = d] BY <1>1, <1>6, <1>9
<1>12. PICK k : k = r.msg OBVIOUS
<1>13. /\ k \in DOMAIN messages /\ k \notin Card /\ messages' = [messages EXCEPT ![k] = d]
       /\ d.room = messages[k].room /\ d.announces = messages[k].announces /\ x.msg = k
  BY <1>3, <1>5, <1>7, <1>10, <1>11, <1>12
<1>14. /\ requests[q] # Idle /\ requests[q].op # "remove" /\ x.op = requests[q].op /\ x.msg = requests[q].msg
       /\ x \in Requests /\ x.step # "save" /\ x.op \in {"edit", "delete"} /\ d \in Message /\ d.content # Announcement
  BY <1>2, <1>7, <1>8, <1>10
<1>15. Turns(q, x) /\ UNCHANGED <<kind, thread, overlapped, torn>> BY <1>1, <1>11
<1> HIDE DEF r, g
<1>16. QED BY <1>13, <1>14, <1>15, ChangeFit

LEMMA SavesUpdateFit ==
    ASSUME TypeOK, TypeOK', RequestsFit, OneCard, OneHand, NEW q \in Request, SavesUpdate(q)
    PROVE  RequestsFit' /\ OneCard' /\ OneHand' /\ Keeps
<1> DEFINE r == requests[q]
<1>0. DbType /\ RequestType BY TypeParts
<1>1. /\ r \in RenameRequest /\ Turns(q, [r EXCEPT !.step = "publish"]) /\ UNCHANGED <<kind, messages, overlapped, torn>>
      /\ thread' = IF RoomExists(Thread) THEN [thread EXCEPT !.name = r.name, !.closed = r.closed] ELSE thread
  BY DEF SavesUpdate
<1>2. r \in Requests /\ r # Idle /\ r.op = "rename" BY <1>1, Kinds, Bounds DEF RenameRequest
<1>3. (thread' = None <=> thread = None) /\ (thread' = Gone <=> thread = Gone)
  <2>1. r.name \in Title /\ r.closed \in BOOLEAN BY <1>1 DEF RenameRequest
  <2>2. CASE RoomExists(Thread)
    <3>1. thread \in ThreadRecord BY <1>0, <2>2, Bounds DEF RoomExists, DbType
    <3>2. thread' \in ThreadRecord BY <1>1, <2>1, <2>2, <3>1 DEF ThreadRecord
    <3>3. QED BY <3>1, <3>2, Bounds
  <2>3. CASE ~RoomExists(Thread) BY <1>1, <2>3
  <2>4. QED BY <2>2, <2>3
<1>4. Card' = Card BY <1>1 DEF Card
<1>5. CardGone' <=> CardGone BY <1>1, <1>4 DEF CardGone
<1>6. Keeps BY <1>0, <1>1, <1>3, <1>4, <1>5, MessageIds DEF Keeps
<1>7. Refers(r) /\ KnowsCard(r) BY <1>2 DEF RequestsFit
<1>9. PICK x : x = [r EXCEPT !.step = "publish"] OBVIOUS
<1>10. x \in Requests /\ x.op = "rename" /\ x.msg = r.msg /\ x.step = "publish" BY <1>1, <1>2, <1>9, Stepped, Kinds
<1>11. Turns(q, x) BY <1>1, <1>9
<1>12. Refers(x)' /\ KnowsCard(x)' BY <1>1, <1>2, <1>3, <1>4, <1>5, <1>7, <1>10 DEF Refers, KnowsCard
<1>13. RequestsFit' BY <1>1, <1>2, <1>3, <1>6, <1>10, <1>11, <1>12, FitStep
<1>14. OneHand' BY <1>0, <1>1, <1>2, <1>10, <1>11, HandStep
<1>15. ~At(q, "remove", "room") BY <1>2 DEF At
<1>16. OneCard' BY <1>1, <1>3, <1>6, <1>10, <1>11, <1>15, CardStep
<1>17. QED BY <1>13, <1>14, <1>16, <1>6

LEMMA RemovesCardFit ==
    ASSUME TypeOK, TypeOK', RequestsFit, OneCard, OneHand, NEW q \in Request, RemovesCard(q)
    PROVE  RequestsFit' /\ OneCard' /\ OneHand' /\ Keeps
<1> DEFINE r == requests[q] g == messages[r.msg]
<1>0. DbType /\ RequestType BY TypeParts
<1>1. /\ r \in RemoveRequest /\ r.step = "save" /\ Turns(q, [r EXCEPT !.step = "room"]) /\ UNCHANGED <<kind, thread, overlapped, torn>>
      /\ messages' = IF r.msg = 0 THEN messages ELSE [messages EXCEPT ![r.msg] = [g EXCEPT !.deleted = TRUE]]
  BY DEF RemovesCard
<1>2. r \in Requests /\ r # Idle /\ r.op = "remove" BY <1>1, Kinds, Bounds DEF RemoveRequest
<1>3. Refers(r) /\ KnowsCard(r) BY <1>2 DEF RequestsFit
<1>4. thread # None BY <1>2, <1>3 DEF KnowsCard
<1>5. /\ Len(messages') = Len(messages) /\ DOMAIN messages' = DOMAIN messages /\ CardGone' /\ Card' = Card
      /\ \A m \in DOMAIN messages : messages'[m].announces = messages[m].announces /\ messages'[m].room = messages[m].room
  <2>1. CASE r.msg = 0
    <3>1. messages' = messages /\ CardGone BY <1>1, <1>2, <1>3, <2>1 DEF KnowsCard
    <3>2. QED BY <3>1 DEF Card, CardGone
  <2>2. CASE r.msg # 0
    <3>1. r.msg \in Card /\ r.msg \in DOMAIN messages BY <1>2, <1>3, <2>2 DEF KnowsCard, Card
    <3>2. g \in Message BY <1>0, <3>1, MessageIds
    <3>3. PICK d : d = [g EXCEPT !.deleted = TRUE] OBVIOUS
    <3>4. d \in Message /\ d.deleted /\ d.room = g.room /\ d.announces = g.announces /\ d.content = g.content
      BY <3>2, <3>3, DeletedMessage
    <3>5. messages' = [messages EXCEPT ![r.msg] = d] BY <1>1, <2>2, <3>3
    <3>6. /\ Len(messages') = Len(messages) /\ DOMAIN messages' = DOMAIN messages
          /\ messages'[r.msg] = d /\ \A m \in DOMAIN messages : m # r.msg => messages'[m] = messages[m]
      BY <1>0, <3>1, <3>4, <3>5, Changed
    <3>7. Card' = Card BY <3>1, <3>4, <3>6 DEF Card
    <3>8. \A m \in Card : m = r.msg BY <3>1 DEF OneCard
    <3>9. CardGone' BY <3>4, <3>6, <3>7, <3>8 DEF CardGone
    <3>10. QED BY <3>4, <3>6, <3>7, <3>9
  <2>3. QED BY <2>1, <2>2
<1>6. Keeps BY <1>0, <1>1, <1>4, <1>5, MessageIds DEF Keeps
<1>9. PICK x : x = [r EXCEPT !.step = "room"] OBVIOUS
<1>10. x \in Requests /\ x.op = "remove" /\ x.msg = r.msg /\ x.step = "room" BY <1>1, <1>2, <1>9, Stepped, Kinds
<1>11. Turns(q, x) BY <1>1, <1>9
<1>12. Refers(x)' /\ KnowsCard(x)' BY <1>1, <1>2, <1>3, <1>4, <1>5, <1>10 DEF Refers, KnowsCard
<1>13. RequestsFit' BY <1>1, <1>2, <1>4, <1>5, <1>6, <1>10, <1>11, <1>12, FitStep
<1>14. OneHand' BY <1>0, <1>1, <1>2, <1>10, <1>11, HandStep
<1>15. requests'[q] = x /\ \A p \in Request : p # q => requests'[p] = requests[p] BY <1>0, <1>10, <1>11, Turned
<1>16. OneCard'
  <2>1. (RoomExists(Thread) /\ CardGone =>
            torn # {} \/ \E p \in Request : At(p, "remove", "room") /\ requests[p].msg # 0)'
    <3>1. RoomExists(Thread)' <=> RoomExists(Thread) BY <1>1 DEF RoomExists
    <3>2. CASE r.msg = 0
      <4>1. CardGone BY <1>2, <1>3, <3>2 DEF KnowsCard
      <4>2. \A p \in Request : At(p, "remove", "room") => At(p, "remove", "room")' /\ requests'[p] = requests[p] BY <1>1, <1>15 DEF At
      <4>3. QED BY <1>1, <3>1, <4>1, <4>2 DEF OneCard
    <3>3. CASE r.msg # 0
      <4>1. At(q, "remove", "room")' /\ requests'[q].msg # 0 BY <1>10, <1>15, <3>3, Bounds DEF At
      <4>2. QED BY <4>1
    <3>4. QED BY <3>2, <3>3
  <2>3. Card \subseteq DOMAIN messages BY DEF Card
  <2>4. (/\ \A m, k \in Card : m = k
         /\ \A m \in DOMAIN messages : messages[m].announces <=> m \in Card /\ thread # Gone
         /\ \A m \in Card : messages[m].room = Main
         /\ thread = None <=> Card = {}
         /\ thread = None => \A m \in DOMAIN messages : messages[m].room # Thread
         /\ thread = Gone => CardGone)'
    BY <1>1, <1>5, <2>3 DEF OneCard
  <2>5. QED BY <2>1, <2>4 DEF OneCard
<1>17. QED BY <1>13, <1>14, <1>16, <1>6

LEMMA RemovesRoomFit ==
    ASSUME TypeOK, TypeOK', RequestsFit, OneCard, OneHand, NEW q \in Request, RemovesRoom(q)
    PROVE  RequestsFit' /\ OneCard' /\ OneHand' /\ Keeps
<1> DEFINE r == requests[q]
<1>0. DbType /\ RequestType BY TypeParts
<1>1. /\ r \in RemoveRequest /\ r.step = "room" /\ Turns(q, [r EXCEPT !.step = "publish"]) /\ UNCHANGED <<kind, overlapped, torn>>
      /\ thread' = Gone /\ messages' = [n \in DOMAIN messages |-> Emptied(messages[n])]
  BY DEF RemovesRoom, Emptied
<1>2. r \in Requests /\ r # Idle /\ r.op = "remove" BY <1>1, Kinds, Bounds DEF RemoveRequest
<1>3. Refers(r) /\ KnowsCard(r) BY <1>2 DEF RequestsFit
<1>4. thread # None /\ CardGone BY <1>1, <1>2, <1>3 DEF KnowsCard
<1>5. /\ Len(messages') = Len(messages) /\ DOMAIN messages' = DOMAIN messages
      /\ \A m \in DOMAIN messages : messages'[m] = Emptied(messages[m])
  BY <1>0, <1>1, AllEmptied
<1>6. \A m \in DOMAIN messages : /\ messages'[m].content = messages[m].content /\ messages'[m].room = messages[m].room
                                 /\ messages'[m].announces = FALSE /\ (messages[m].deleted => messages'[m].deleted)
  <2> TAKE m \in DOMAIN messages
  <2>1. messages'[m] = Emptied(messages[m]) BY <1>5
  <2>2. PICK g : g = messages[m] OBVIOUS
  <2>3. g \in Message BY <1>0, <2>2, MessageIds
  <2>4. PICK d : d = Emptied(g) OBVIOUS
  <2>5. d.content = g.content /\ d.room = g.room /\ d.announces = FALSE /\ d.deleted = (g.deleted \/ g.room = Thread)
    BY <2>3, <2>4, EmptiedMessage
  <2>6. QED BY <2>1, <2>2, <2>4, <2>5
<1>7. Card' = Card BY <1>5, <1>6 DEF Card
<1>8. CardGone' BY <1>4, <1>6, <1>7 DEF CardGone, Card
<1>9. Keeps BY <1>0, <1>1, <1>5, <1>7, <1>8, MessageIds, Bounds DEF Keeps
<1>10. PICK x : x = [r EXCEPT !.step = "publish"] OBVIOUS
<1>11. x \in Requests /\ x.op = "remove" /\ x.msg = r.msg /\ x.step = "publish" BY <1>1, <1>2, <1>10, Stepped, Kinds
<1>12. Turns(q, x) BY <1>1, <1>10
<1>13. Refers(x)' /\ KnowsCard(x)' BY <1>1, <1>2, <1>3, <1>5, <1>7, <1>8, <1>11, Bounds DEF Refers, KnowsCard
<1>14. RequestsFit' BY <1>1, <1>2, <1>4, <1>5, <1>9, <1>11, <1>12, <1>13, FitStep
<1>15. OneHand' BY <1>0, <1>1, <1>2, <1>11, <1>12, HandStep
<1>16. OneCard'
  <2>1. ~RoomExists(Thread)' BY <1>1, Bounds DEF RoomExists
  <2>3. Card \subseteq DOMAIN messages BY DEF Card
  <2>4. (/\ \A m, k \in Card : m = k
         /\ \A m \in DOMAIN messages : messages[m].announces <=> m \in Card /\ thread # Gone
         /\ \A m \in Card : messages[m].room = Main
         /\ thread = None <=> Card = {}
         /\ thread = None => \A m \in DOMAIN messages : messages[m].room # Thread
         /\ thread = Gone => CardGone)'
    BY <1>1, <1>4, <1>5, <1>6, <1>7, <1>8, <2>3, Bounds DEF OneCard
  <2>5. QED BY <2>1, <2>4 DEF OneCard
<1>17. QED BY <1>14, <1>15, <1>16, <1>9

\* A step of the runner, or none, changes nothing of this.
LEMMA SameFit ==
    ASSUME TypeOK, RequestsFit, OneCard, OneHand, UNCHANGED <<dbVars, requests, overlapped, torn>>
    PROVE  RequestsFit' /\ OneCard' /\ OneHand' /\ Keeps
<1>0. DbType BY TypeParts
<1>1. messages' = messages /\ thread' = thread /\ kind' = kind /\ requests' = requests /\ overlapped' = overlapped /\ torn' = torn
  BY DEF dbVars
<1>2. Keeps BY <1>0, <1>1, SameKeeps DEF dbVars
<1>3. RequestsFit' BY <1>1 DEF RequestsFit, Refers, KnowsCard, Card, CardGone, At, Numbered
<1>4. OneCard' BY <1>1 DEF OneCard, Card, CardGone, RoomExists, At
<1>5. OneHand' BY <1>1 DEF OneHand
<1>6. QED BY <1>2, <1>3, <1>4, <1>5

LEMMA NextFit ==
    ASSUME TypeOK, RequestsFit, OneCard, OneHand, Accounted, [Next]_vars
    PROVE  TypeOK' /\ RequestsFit' /\ OneCard' /\ OneHand' /\ Keeps
<1>0. TypeOK' BY NextType
<1>1. CASE UNCHANGED vars
  <2>1. UNCHANGED <<dbVars, requests, overlapped, torn>> BY <1>1 DEF vars
  <2>2. QED BY <1>0, <2>1, SameFit
<1>2. ASSUME NEW i \in DOMAIN tasks, RunTask(i) PROVE RequestsFit' /\ OneCard' /\ OneHand' /\ Keeps
  <2>1. UNCHANGED <<dbVars, requests, overlapped, torn>> BY <1>2 DEF RunTask
  <2>2. QED BY <2>1, SameFit
<1>3. ASSUME NEW q \in Request,
             \/ Begins(q) \/ Tears(q)
             \/ SavesMessage(q) \/ SavesThread(q) \/ SavesEdit(q) \/ SavesDeletion(q)
             \/ SavesUpdate(q) \/ RemovesCard(q) \/ RemovesRoom(q)
      PROVE  RequestsFit' /\ OneCard' /\ OneHand' /\ Keeps
  BY <1>0, <1>3, BeginsFit, TearsFit, SavesMessageFit, SavesThreadFit, SavesEditFit, SavesDeletionFit,
     SavesUpdateFit, RemovesCardFit, RemovesRoomFit
<1>4. ASSUME NEW q \in Request,
             Ends(q) \/ SavesReaction(q) \/ PublishSent(q) \/ PublishDeleted(q) \/ TakesCard(q) \/ LastStep(q)
      PROVE  RequestsFit' /\ OneCard' /\ OneHand' /\ Keeps
  <2>1. \E x : Moves(q, x)
    BY <1>4, EndMoves, ReactionMoves, SentMoves, DeletedMoves, LastMoves DEF TakesCard
  <2>2. QED BY <1>0, <2>1, MovesFit
<1>5. QED BY <1>0, <1>1, <1>2, <1>3, <1>4, Shapes
-----------------------------------------------------------------------------
(* What is stale, and what screens show: the parts that steps have in common. *)

LEMMA ShownStep ==
    ASSUME TypeOK, TypeOK', CardShown, Keeps, UNCHANGED shown
    PROVE  CardShown'
<1>1. ASSUME NEW m \in Card' PROVE shown'[m] \in {Hidden, Announcement}
  <2>1. CASE m \in DOMAIN messages BY <1>1, <2>1 DEF CardShown, Keeps
  <2>2. CASE m \notin DOMAIN messages
    <3>1. m \notin MessageId \/ shown[m] = Hidden BY <2>2 DEF TypeOK
    <3>2. m \in DOMAIN messages' /\ messages' \in Seq(Message) /\ Len(messages') <= MaxMessages BY DEF Card, TypeOK
    <3>3. m \in MessageId BY <3>2, Bounds DEF MessageId
    <3>4. QED BY <3>1, <3>3
  <2>3. QED BY <2>1, <2>2
<1>2. QED BY <1>1 DEF CardShown

\* An event about message k.
LEMMA ShownOne ==
    ASSUME TypeOK, CardShown, UNCHANGED dbVars, NEW k \in DOMAIN messages, NEW c,
           shown' = [shown EXCEPT ![k] = c],
           k \in Card => c \in {Hidden, Announcement}
    PROVE  CardShown'
<1>0. messages' = messages BY DEF dbVars
<1>1. Card' = Card /\ Card \subseteq MessageId BY <1>0, TypeParts, MessageIds DEF Card
<1>2. \A m \in Card : shown'[m] \in {Hidden, Announcement} BY <1>1 DEF CardShown, TypeOK
<1>3. QED BY <1>1, <1>2 DEF CardShown

\* An event about the announcement leaves it as it is shown.
LEMMA ShownSame ==
    ASSUME TypeOK, CardShown, NEW k \in Card, ShowUpdated(k, Announcement)
    PROVE  UNCHANGED shown
<1>1. shown[k] \in {Hidden, Announcement} BY DEF CardShown
<1>2. k \in MessageId BY TypeParts, MessageIds DEF Card
<1>3. shown' = [shown EXCEPT ![k] = shown[k]] BY <1>1 DEF ShowUpdated
<1>4. QED BY <1>2, <1>3 DEF TypeOK

\* Requests that do not take a step still tell what they would have told.
LEMMA StaleStep ==
    ASSUME TypeOK, TypeOK', RequestsFit, StaleIsTold, NEW q \in Request, NEW x \in Requests \cup {Idle}, Turns(q, x),
           \A m \in DOMAIN messages : messages'[m].room = messages[m].room,
           listStale' /\ ~missed' =>
              \/ x # Idle /\ TellsList(x)'
              \/ /\ listStale /\ ~missed
                 /\ requests[q] # Idle => ~TellsList(requests[q])
                 /\ RoomExists(Thread)' <=> RoomExists(Thread),
           cardStale' /\ ~missed' /\ ~CardGone' /\ RoomExists(Thread)' =>
              \/ x # Idle /\ TellsCard(x)'
              \/ /\ cardStale /\ ~missed /\ ~CardGone /\ RoomExists(Thread)
                 /\ requests[q] # Idle => ~TellsCard(requests[q]),
           \A m \in reactionsStale' :
              \/ x # Idle /\ TellsReactions(x, m)
              \/ m \in reactionsStale /\ (requests[q] # Idle => ~TellsReactions(requests[q], m))
    PROVE  StaleIsTold'
<1>0. RequestType BY TypeParts
<1>1. requests'[q] = x /\ \A p \in Request : p # q => requests'[p] = requests[p] BY <1>0, Turned
<1>2. (listStale /\ ~missed => \E p \in Request : requests[p] # Idle /\ TellsList(requests[p]))'
  <2> SUFFICES ASSUME listStale', ~missed' PROVE \E p \in Request : requests'[p] # Idle /\ (TellsList(requests[p]))'
    OBVIOUS
  <2>1. CASE x # Idle /\ TellsList(x)' BY <1>1, <2>1 DEF TellsList
  <2>2. CASE ~(x # Idle /\ TellsList(x)')
    <3>1. /\ listStale /\ ~missed
          /\ requests[q] # Idle => ~TellsList(requests[q])
          /\ RoomExists(Thread)' <=> RoomExists(Thread)
      BY <2>2
    <3>2. PICK p \in Request : requests[p] # Idle /\ TellsList(requests[p]) BY <3>1 DEF StaleIsTold
    <3>3. p # q /\ requests'[p] = requests[p] BY <1>1, <3>1, <3>2
    <3>4. (TellsList(requests[p]))' BY <3>1, <3>2, <3>3 DEF TellsList
    <3>5. QED BY <3>2, <3>3, <3>4
  <2>3. QED BY <2>1, <2>2
<1>3. (cardStale /\ ~missed /\ ~CardGone /\ RoomExists(Thread) =>
          \E p \in Request : requests[p] # Idle /\ TellsCard(requests[p]))'
  <2> SUFFICES ASSUME cardStale', ~missed', ~CardGone', RoomExists(Thread)'
               PROVE  \E p \in Request : requests'[p] # Idle /\ (TellsCard(requests[p]))'
    OBVIOUS
  <2>1. CASE x # Idle /\ TellsCard(x)' BY <1>1, <2>1 DEF TellsCard
  <2>2. CASE ~(x # Idle /\ TellsCard(x)')
    <3>1. /\ cardStale /\ ~missed /\ ~CardGone /\ RoomExists(Thread)
          /\ requests[q] # Idle => ~TellsCard(requests[q])
      BY <2>2
    <3>2. PICK p \in Request : requests[p] # Idle /\ TellsCard(requests[p]) BY <3>1 DEF StaleIsTold
    <3>3. p # q /\ requests'[p] = requests[p] BY <1>1, <3>1, <3>2
    <3>4. requests[p].op = "delete" => requests[p].msg \in DOMAIN messages
      BY <3>2, Busy, Fields, Addressed DEF MessageId
    <3>5. (TellsCard(requests[p]))' BY <3>2, <3>3, <3>4 DEF TellsCard
    <3>6. QED BY <3>2, <3>3, <3>5
  <2>3. QED BY <2>1, <2>2
<1>4. (\A m \in reactionsStale : \E p \in Request : requests[p] # Idle /\ TellsReactions(requests[p], m))'
  BY <1>1 DEF StaleIsTold, TellsReactions
<1>5. QED BY <1>2, <1>3, <1>4 DEF StaleIsTold

LEMMA StaleSame ==
    ASSUME StaleIsTold, UNCHANGED <<dbVars, requests, screenVars, missed>>
    PROVE  StaleIsTold'
<1>1. messages' = messages /\ thread' = thread /\ requests' = requests /\ missed' = missed /\ cardStale' = cardStale
      /\ listStale' = listStale /\ reactionsStale' = reactionsStale
  BY DEF dbVars, screenVars
<1>2. QED BY <1>1 DEF StaleIsTold, TellsList, TellsCard, TellsReactions, CardGone, Card, RoomExists

\* A step of request q about message k.
LEMMA ScreenStep ==
    ASSUME TypeOK, OneHand, ScreensFollow, NEW q \in Request, requests[q] # Idle,
           NEW x \in Requests \cup {Idle}, Turns(q, x),
           NEW k, k = requests[q].msg, x # Idle => x.msg = k,
           \A m \in DOMAIN messages' : Clean(m)' => Clean(m),
           \A m \in DOMAIN messages : m # k /\ Clean(m)' =>
              messages'[m].deleted = messages[m].deleted /\ messages'[m].content = messages[m].content /\ shown'[m] = shown[m],
           Clean(k)' /\ Clean(k) /\ Leaves(requests[q], messages[k], shown[k]) =>
              IF x = Idle THEN AsStored(messages'[k], shown'[k]) ELSE Leaves(x, messages'[k], shown'[k])
    PROVE  ScreensFollow'
<1>0. RequestType BY TypeParts
<1>1. requests'[q] = x /\ \A p \in Request : p # q => requests'[p] = requests[p] BY <1>0, Turned
<1> SUFFICES ASSUME NEW m \in DOMAIN messages', Clean(m)'
             PROVE  /\ ~InFlight(m)' => AsStored(messages'[m], shown'[m])
                    /\ \A p \in Request : requests'[p] # Idle /\ requests'[p].msg = m
                            => Leaves(requests'[p], messages'[m], shown'[m])
  BY DEF ScreensFollow, AsStored, Leaves, Owing
<1>2. Clean(m) /\ m \in DOMAIN messages /\ m \notin overlapped /\ m # 0
  <2>1. Clean(m) OBVIOUS
  <2>2. QED BY <2>1, TypeParts, MessageIds DEF Clean
<1>3. CASE m # k
  <2>1. /\ messages'[m].deleted = messages[m].deleted /\ messages'[m].content = messages[m].content /\ shown'[m] = shown[m]
    BY <1>2, <1>3
  <2>2. \A p \in Request : requests'[p] # Idle /\ requests'[p].msg = m => requests[p] = requests'[p] BY <1>1, <1>3
  <2>3. InFlight(m) => InFlight(m)' BY <1>1, <1>3 DEF InFlight
  <2>4. ~InFlight(m) => AsStored(messages[m], shown[m]) BY <1>2 DEF ScreensFollow
  <2>5. \A p \in Request : requests[p] # Idle /\ requests[p].msg = m => Leaves(requests[p], messages[m], shown[m])
    BY <1>2 DEF ScreensFollow
  <2>6. AsStored(messages[m], shown[m]) => AsStored(messages'[m], shown'[m]) BY <2>1 DEF AsStored
  <2>7. \A r : Leaves(r, messages[m], shown[m]) => Leaves(r, messages'[m], shown'[m]) BY <2>1 DEF Leaves, AsStored
  <2>8. ASSUME NEW p \in Request, requests'[p] # Idle, requests'[p].msg = m PROVE Leaves(requests'[p], messages'[m], shown'[m])
    BY <2>2, <2>5, <2>7, <2>8
  <2>9. QED BY <2>3, <2>4, <2>6, <2>8
<1>4. CASE m = k
  <2>1. Leaves(requests[q], messages[k], shown[k]) BY <1>2, <1>4 DEF ScreensFollow
  <2>2. IF x = Idle THEN AsStored(messages'[k], shown'[k]) ELSE Leaves(x, messages'[k], shown'[k]) BY <1>2, <1>4, <2>1
  <2>3. \A p \in Request : requests'[p] # Idle /\ requests'[p].msg = m => p = q BY <1>1, <1>2, <1>4 DEF OneHand
  <2>4. x # Idle => InFlight(m)' BY <1>1, <1>4 DEF InFlight
  <2>5. QED BY <1>1, <1>4, <2>2, <2>3, <2>4
<1>5. QED BY <1>3, <1>4

LEMMA ScreenSame ==
    ASSUME ScreensFollow, UNCHANGED <<dbVars, requests, shown, overlapped, torn>>
    PROVE  ScreensFollow'
<1>1. messages' = messages /\ thread' = thread /\ requests' = requests /\ shown' = shown /\ overlapped' = overlapped /\ torn' = torn
  BY DEF dbVars
<1>2. QED BY <1>1 DEF ScreensFollow, Clean, RoomExists, InFlight, AsStored, Leaves, Owing

\* A message that request q has just saved.
LEMMA ScreenAppend ==
    ASSUME TypeOK, RequestsFit, OneCard, ScreensFollow, NEW q \in Request, requests[q] # Idle, requests[q].msg = 0,
           NEW x \in Requests, Turns(q, x), x.op \in {"send", "create"}, x.step = "publish",
           NEW n, n = Len(messages) + 1, x.msg = n, n \notin DOMAIN messages,
           DOMAIN messages' = DOMAIN messages \cup {n},
           \A m \in DOMAIN messages : messages'[m] = messages[m],
           ~messages'[n].deleted, thread' = thread \/ thread = None,
           UNCHANGED <<shown, overlapped, torn>>
    PROVE  ScreensFollow'
<1>0. RequestType BY TypeParts
<1>1. requests'[q] = x /\ \A p \in Request : p # q => requests'[p] = requests[p] BY <1>0, Turned
<1> SUFFICES ASSUME NEW m \in DOMAIN messages', Clean(m)'
             PROVE  /\ ~InFlight(m)' => AsStored(messages'[m], shown'[m])
                    /\ \A p \in Request : requests'[p] # Idle /\ requests'[p].msg = m
                            => Leaves(requests'[p], messages'[m], shown'[m])
  BY DEF ScreensFollow, AsStored, Leaves, Owing
<1>2. CASE m = n
  <2>1. InFlight(m)' BY <1>1, <1>2, Bounds DEF InFlight
  <2>2. \A p \in Request : requests'[p] # Idle /\ requests'[p].msg = m => p = q BY <1>1, <1>2, Unused
  <2>3. Leaves(x, messages'[m], shown'[m]) BY <1>2 DEF Leaves, Owing
  <2>4. QED BY <1>1, <2>1, <2>2, <2>3
<1>3. CASE m # n
  <2>1. m \in DOMAIN messages /\ messages'[m] = messages[m] /\ shown'[m] = shown[m] BY <1>3
  <2>2. Clean(m)
    <3>1. messages[m].room \in {Main, Thread} BY <2>1, TypeParts, MessageIds DEF Message
    <3>2. thread = None => messages[m].room = Main BY <2>1, <3>1 DEF OneCard
    <3>3. m \notin overlapped \cup torn BY DEF Clean
    <3>4. RoomExists(messages[m].room) BY <2>1, <3>1, <3>2 DEF Clean, RoomExists
    <3>5. QED BY <2>1, <3>3, <3>4 DEF Clean
  <2>3. m # 0 BY <2>1, TypeParts, MessageIds
  <2>4. \A p \in Request : requests'[p] # Idle /\ requests'[p].msg = m => requests[p] = requests'[p] BY <1>1, <1>3
  <2>5. InFlight(m) => InFlight(m)' BY <1>1, <2>3 DEF InFlight
  <2>6. ~InFlight(m) => AsStored(messages[m], shown[m]) BY <2>1, <2>2 DEF ScreensFollow
  <2>7. \A p \in Request : requests[p] # Idle /\ requests[p].msg = m => Leaves(requests[p], messages[m], shown[m])
    BY <2>1, <2>2 DEF ScreensFollow
  <2>8. QED BY <2>1, <2>4, <2>5, <2>6, <2>7
<1>4. QED BY <1>2, <1>3
-----------------------------------------------------------------------------
(* Who is told: the parts that steps have in common. *)

\* What no step changes of a message.
Lasting ==
    /\ kind' = kind
    /\ DOMAIN messages \subseteq DOMAIN messages'
    /\ \A m \in DOMAIN messages : messages'[m].author = messages[m].author /\ messages'[m].reply = messages[m].reply

LEMMA SameLasting ==
    ASSUME UNCHANGED dbVars
    PROVE  Lasting
  BY DEF dbVars, Lasting

LEMMA TaskLasts ==
    ASSUME DbType, Lasting, NEW task, TaskFits(task)
    PROVE  TaskFits(task)'
<1> DEFINE m == task.msg
<1>1. m \in DOMAIN messages BY DEF TaskFits
<1>2. messages[m] \in Message /\ messages[m].reply < m /\ m \in 1..Len(messages) /\ Len(messages) \in Nat BY <1>1, MessageIds DEF DbType
<1>3. messages[m].reply \in Nat BY <1>2 DEF Message
<1>4. messages[m].reply # 0 => messages[m].reply \in DOMAIN messages BY <1>2, <1>3, MessageIds
<1>5. Replied(m)' = Replied(m) BY <1>1, <1>4 DEF Lasting, Replied
<1>6. QED BY <1>1, <1>5 DEF TaskFits, Lasting

LEMMA OthersLast ==
    ASSUME DbType, Lasting, NEW u, NEW reply \in 0..Len(messages)
    PROVE  Others(u, reply)' = Others(u, reply)
<1>1. reply # 0 => reply \in DOMAIN messages BY MessageIds
<1>2. QED BY <1>1 DEF Others, Lasting

LEMMA TellsLasts ==
    ASSUME DbType, Lasting, NEW r \in Requests, Refers(r)
    PROVE  Tells(r)' = Tells(r)
<1>1. CASE r.op = "send"
  <2>1. r \in SendRequest BY <1>1, Fields
  <2>2. r.reply \in 0..Len(messages) BY <1>1, <2>1, MessageIds DEF SendRequest, Refers
  <2>3. Others(r.user, r.reply)' = Others(r.user, r.reply) BY <2>2, OthersLast
  <2>4. QED BY <1>1, <2>3 DEF Tells
<1>2. CASE r.op # "send" BY <1>2 DEF Tells
<1>3. QED BY <1>1, <1>2

LEMMA KnowsLasts ==
    ASSUME DbType, Lasting, NEW r \in Requests, Refers(r), KnowsMessage(r), overlapped \subseteq overlapped',
           r.msg \in DOMAIN messages => messages'[r.msg].mentions = messages[r.msg].mentions \/ r.msg \in overlapped
    PROVE  KnowsMessage(r)'
<1>1. r.op = "edit" \/ (r.op \in {"send", "create"} /\ r.step = "publish") => r.msg # 0
  BY Fields DEF Refers, MessageId
<1>2. r.msg # 0 => r.msg \in DOMAIN messages BY MessageIds DEF Refers
<1>3. QED BY <1>1, <1>2 DEF KnowsMessage, Lasting

LEMMA KnowsStep ==
    ASSUME TypeOK, RequestsFit, OneHand, Accounted, Lasting, NEW q \in Request, NEW x \in Requests \cup {Idle}, Turns(q, x),
           overlapped \subseteq overlapped', x # Idle => KnowsMessage(x)',
           \A m \in DOMAIN messages : \/ messages'[m].mentions = messages[m].mentions
                                      \/ requests[q] # Idle /\ requests[q].msg = m
    PROVE  \A p \in Request : (requests[p] # Idle => KnowsMessage(requests[p]))'
<1>0. DbType /\ RequestType BY TypeParts
<1>1. requests'[q] = x /\ \A p \in Request : p # q => requests'[p] = requests[p] BY <1>0, Turned
<1> SUFFICES ASSUME NEW p \in Request, requests'[p] # Idle PROVE KnowsMessage(requests[p])'
  OBVIOUS
<1>2. PICK y : y = requests'[p] OBVIOUS
<1>3. CASE p = q
  <2>1. KnowsMessage(y)' BY <1>1, <1>2, <1>3
  <2>2. QED BY <1>2, <2>1 DEF KnowsMessage
<1>4. CASE p # q
  <2>1. y = requests[p] /\ y # Idle BY <1>1, <1>2, <1>4
  <2>2. y \in Requests /\ Refers(y) /\ KnowsMessage(y) BY <2>1, Busy DEF RequestsFit, Accounted
  <2>3. y.msg \in DOMAIN messages => messages'[y.msg].mentions = messages[y.msg].mentions \/ y.msg \in overlapped
    <3> SUFFICES ASSUME y.msg \in DOMAIN messages, messages'[y.msg].mentions # messages[y.msg].mentions PROVE y.msg \in overlapped
      OBVIOUS
    <3>1. requests[q] # Idle /\ requests[q].msg = y.msg OBVIOUS
    <3>2. y.msg # 0 BY <1>0, MessageIds
    <3>3. QED BY <1>4, <2>1, <3>1, <3>2 DEF OneHand
  <2>4. KnowsMessage(y)' BY <1>0, <2>2, <2>3, KnowsLasts
  <2>5. QED BY <1>2, <2>4 DEF KnowsMessage
<1>5. QED BY <1>3, <1>4

\* Whom the other requests tell does not change.
LEMMA ToldStep ==
    ASSUME TypeOK, RequestsFit, Lasting, NEW q \in Request, NEW x \in Requests \cup {Idle}, Turns(q, x), NEW m,
           requests[q] = Idle \/ requests[q].msg # m \/ Tells(requests[q]) = {},
           x = Idle \/ x.msg # m \/ Tells(x)' = {}
    PROVE  Told(m)' = Told(m)
<1>0. DbType /\ RequestType BY TypeParts
<1>1. requests'[q] = x /\ \A p \in Request : p # q => requests'[p] = requests[p] BY <1>0, Turned
<1>2. \A p \in Request : p # q /\ requests[p] # Idle => Tells(requests[p])' = Tells(requests[p])
  <2> SUFFICES ASSUME NEW p \in Request, p # q, requests[p] # Idle PROVE Tells(requests[p])' = Tells(requests[p])
    OBVIOUS
  <2>1. PICK y : y = requests[p] /\ y = requests'[p] BY <1>1
  <2>2. y \in Requests /\ Refers(y) BY <2>1, Busy DEF RequestsFit
  <2>3. Tells(y)' = Tells(y) BY <1>0, <2>2, TellsLasts
  <2>4. Tells(requests[p])' = Tells(y)' BY <2>1 DEF Tells, Others
  <2>5. QED BY <2>1, <2>3, <2>4
<1>3. requests'[q] # Idle /\ requests'[q].msg = m => Tells(requests[q])' = {}
  <2>1. Tells(requests[q])' = Tells(x)' BY <1>1 DEF Tells, Others
  <2>2. QED BY <1>1, <2>1
<1>4. ASSUME NEW u \in User PROVE u \in Told(m)' <=> u \in Told(m)
  <2>1. u \in Told(m) <=> \E p \in Request : requests[p] # Idle /\ requests[p].msg = m /\ u \in Tells(requests[p]) BY DEF Told
  <2>2. u \in Told(m)' <=> \E p \in Request : requests'[p] # Idle /\ requests'[p].msg = m /\ u \in Tells(requests[p])' BY DEF Told
  <2>3. ASSUME NEW p \in Request PROVE (requests'[p] # Idle /\ requests'[p].msg = m /\ u \in Tells(requests[p])')
                                       <=> (requests[p] # Idle /\ requests[p].msg = m /\ u \in Tells(requests[p]))
    <3>1. CASE p = q BY <1>3, <3>1
    <3>2. CASE p # q BY <1>1, <1>2, <3>2
    <3>3. QED BY <3>1, <3>2
  <2>4. QED BY <2>1, <2>2, <2>3
<1>5. Told(m) \subseteq User /\ Told(m)' \subseteq User BY DEF Told
<1>6. QED BY <1>4, <1>5

\* Whom the only request on a message tells.
LEMMA ToldOne ==
    ASSUME OneHand, NEW q \in Request, requests[q] # Idle, requests[q].msg \notin overlapped, requests[q].msg # 0
    PROVE  \A u \in User : u \in Told(requests[q].msg) <=> u \in Tells(requests[q])
  BY DEF OneHand, Told

LEMMA ToldNext ==
    ASSUME OneHand', NEW q \in Request, NEW x, requests'[q] = x, x # Idle, NEW m, x.msg = m, m \notin overlapped', m # 0
    PROVE  \A u \in User : u \in Told(m)' <=> u \in Tells(x)'
<1>1. Tells(requests[q])' = Tells(x)' BY DEF Tells, Others
<1>2. \A p \in Request : requests'[p] # Idle /\ requests'[p].msg = m => p = q BY DEF OneHand
<1>3. \A u \in User : u \in Told(m)' <=> \E p \in Request : requests'[p] # Idle /\ requests'[p].msg = m /\ u \in Tells(requests[p])'
  BY DEF Told
<1>4. QED BY <1>1, <1>2, <1>3

LEMMA ToldNone ==
    ASSUME NEW m, \A p \in Request : requests[p] # Idle => requests[p].msg # m
    PROVE  Told(m) = {}
  BY DEF Told

-----------------------------------------------------------------------------
(* How many tasks wait. *)

LEMMA WaitingFinite ==
    ASSUME NEW ts \in Seq(Task), NEW m, NEW u
    PROVE  IsFiniteSet(Waiting(ts, m, u)) /\ Cardinality(Waiting(ts, m, u)) \in Nat
<1>1. DOMAIN ts = 1..Len(ts) /\ Len(ts) \in Nat OBVIOUS
<1>2. IsFiniteSet(1..Len(ts)) BY <1>1, FS_Interval
<1>3. Waiting(ts, m, u) \subseteq 1..Len(ts) BY <1>1 DEF Waiting
<1>4. QED BY <1>2, <1>3, FS_Subset, FS_CardinalityType

LEMMA WaitingAppend ==
    ASSUME NEW ts \in Seq(Task), NEW t \in Task, NEW m, NEW u
    PROVE  Cardinality(Waiting(Append(ts, t), m, u)) =
             Cardinality(Waiting(ts, m, u)) + IF t.msg = m /\ u \in Addresses(t) THEN 1 ELSE 0
<1> DEFINE n == Len(ts) + 1 W == Waiting(ts, m, u) V == Waiting(Append(ts, t), m, u)
<1>1. /\ DOMAIN Append(ts, t) = DOMAIN ts \cup {n} /\ n \notin DOMAIN ts
      /\ Append(ts, t)[n] = t /\ \A i \in DOMAIN ts : Append(ts, t)[i] = ts[i]
  OBVIOUS
<1>2. IsFiniteSet(W) /\ Cardinality(W) \in Nat BY WaitingFinite
<1>3. CASE t.msg = m /\ u \in Addresses(t)
  <2>1. V = W \cup {n} /\ n \notin W BY <1>1, <1>3 DEF Waiting
  <2>2. Cardinality(V) = Cardinality(W) + 1 BY <1>2, <2>1, FS_AddElement
  <2>3. QED BY <1>3, <2>2
<1>4. CASE ~(t.msg = m /\ u \in Addresses(t))
  <2>1. V = W BY <1>1, <1>4 DEF Waiting
  <2>2. QED BY <1>2, <1>4, <2>1
<1>5. QED BY <1>3, <1>4

LEMMA WaitingRemove ==
    ASSUME NEW ts \in Seq(Task), NEW i \in DOMAIN ts, NEW m, NEW u
    PROVE  Cardinality(Waiting(ts, m, u)) =
             Cardinality(Waiting(RemoveAt(ts, i), m, u)) + IF ts[i].msg = m /\ u \in Addresses(ts[i]) THEN 1 ELSE 0
<1> DEFINE rest == RemoveAt(ts, i) W == Waiting(ts, m, u) V == Waiting(rest, m, u) U == W \ {i}
           f == [j \in U |-> IF j < i THEN j ELSE j - 1]
<1>1. /\ rest \in Seq(Task) /\ DOMAIN rest = 1..(Len(ts) - 1)
      /\ \A j \in 1..(Len(ts) - 1) : rest[j] = IF j < i THEN ts[j] ELSE ts[j + 1]
  BY Removed
<1>2. DOMAIN ts = 1..Len(ts) /\ Len(ts) \in Nat /\ i \in 1..Len(ts) OBVIOUS
<1>3. IsFiniteSet(W) /\ Cardinality(W) \in Nat BY WaitingFinite
<1> HIDE DEF rest
<1>4. U \subseteq 1..Len(ts) /\ i \notin U BY <1>2 DEF Waiting
<1>5. f \in [U -> V]
  <2>1. ASSUME NEW j \in U PROVE f[j] \in V
    <3>1. j \in 1..Len(ts) /\ j # i /\ ts[j].msg = m /\ u \in Addresses(ts[j]) BY <1>2 DEF Waiting
    <3>2. CASE j < i
      <4>1. f[j] = j /\ j \in 1..(Len(ts) - 1) BY <1>2, <3>1, <3>2
      <4>2. rest[j] = ts[j] BY <1>1, <3>2, <4>1
      <4>3. QED BY <1>1, <3>1, <4>1, <4>2 DEF Waiting
    <3>3. CASE ~(j < i)
      <4>1. f[j] = j - 1 /\ j - 1 \in 1..(Len(ts) - 1) /\ ~(j - 1 < i) /\ (j - 1) + 1 = j BY <1>2, <3>1, <3>3
      <4>2. rest[j - 1] = ts[j] BY <1>1, <4>1
      <4>3. QED BY <1>1, <3>1, <4>1, <4>2 DEF Waiting
    <3>4. QED BY <3>2, <3>3
  <2>2. QED BY <2>1
<1>6. \A j, k \in U : f[j] = f[k] => j = k
  <2>1. \A j \in U : j \in Int /\ j # i /\ i \in Int BY <1>2, <1>4
  <2>2. QED BY <2>1
<1>7. \A k \in V : \E j \in U : f[j] = k
  <2> SUFFICES ASSUME NEW k \in V PROVE \E j \in U : f[j] = k OBVIOUS
  <2>1. k \in 1..(Len(ts) - 1) /\ rest[k].msg = m /\ u \in Addresses(rest[k]) BY <1>1 DEF Waiting
  <2>2. CASE k < i
    <3>1. rest[k] = ts[k] /\ k \in 1..Len(ts) /\ k # i BY <1>1, <1>2, <2>1, <2>2
    <3>2. k \in U BY <1>2, <2>1, <3>1 DEF Waiting
    <3>3. f[k] = k BY <2>2, <3>2
    <3>4. QED BY <3>2, <3>3
  <2>3. CASE ~(k < i)
    <3>1. rest[k] = ts[k + 1] /\ k + 1 \in 1..Len(ts) /\ k + 1 # i /\ ~(k + 1 < i) /\ (k + 1) - 1 = k BY <1>1, <1>2, <2>1, <2>3
    <3>2. k + 1 \in U BY <1>2, <2>1, <3>1 DEF Waiting
    <3>3. f[k + 1] = k BY <3>1, <3>2
    <3>4. QED BY <3>2, <3>3
  <2>4. QED BY <2>2, <2>3
<1> HIDE DEF f, U, V
<1>8. f \in Bijection(U, V)
  <2>1. f \in Injection(U, V) BY <1>5, <1>6 DEF Injection, IsInjective
  <2>2. f \in Surjection(U, V) BY <1>5, <1>7 DEF Surjection
  <2>3. QED BY <2>1, <2>2 DEF Bijection
<1>9. IsFiniteSet(U) /\ Cardinality(U) = IF i \in W THEN Cardinality(W) - 1 ELSE Cardinality(W) BY <1>3, FS_RemoveElement DEF U
<1>10. Cardinality(V) = Cardinality(U)
  <2>1. ExistsBijection(U, V) BY <1>8 DEF ExistsBijection
  <2>2. QED BY <1>9, <2>1, FS_Bijection
<1>11. i \in W <=> ts[i].msg = m /\ u \in Addresses(ts[i]) BY DEF Waiting
<1> HIDE DEF W
<1>12. QED BY <1>3, <1>9, <1>10, <1>11 DEF W, V, rest

LEMMA DueType ==
    ASSUME TypeOK, NEW m \in MessageId, NEW u \in User
    PROVE  /\ notes[m][u] \in Nat /\ calls[m][u] \in Nat /\ Cardinality(Waiting(tasks, m, u)) \in Nat
           /\ Due(m, u) \in Nat
<1>1. notes[m][u] \in Nat /\ calls[m][u] \in Nat /\ tasks \in Seq(Task) BY DEF TypeOK
<1>2. Cardinality(Waiting(tasks, m, u)) \in Nat BY <1>1, WaitingFinite
<1>3. QED BY <1>1, <1>2 DEF Due

LEMMA DueNext ==
    ASSUME TypeOK', NEW m \in MessageId, NEW u \in User
    PROVE  /\ notes'[m][u] \in Nat /\ calls'[m][u] \in Nat /\ Cardinality(Waiting(tasks', m, u)) \in Nat
           /\ Due(m, u)' \in Nat
<1>1. notes'[m][u] \in Nat /\ calls'[m][u] \in Nat /\ tasks' \in Seq(Task) BY DEF TypeOK
<1>2. Cardinality(Waiting(tasks', m, u)) \in Nat BY <1>1, WaitingFinite
<1>3. PICK a, w, t : a = notes'[m][u] /\ w = Cardinality(Waiting(tasks', m, u)) /\ t = (IF u \in Told(m)' THEN 1 ELSE 0) OBVIOUS
<1>4. Due(m, u)' = a + w + t BY <1>3 DEF Due, Waiting, Addresses
<1>5. t \in Nat /\ a \in Nat /\ w \in Nat BY <1>1, <1>2, <1>3
<1>6. QED BY <1>1, <1>2, <1>4, <1>5

\* Of a message that is not there yet nothing is said.
LEMMA NothingDue ==
    ASSUME TypeOK, RequestsFit, Accounted, NEW m \in MessageId, m \notin DOMAIN messages, NEW u \in User
    PROVE  /\ notes[m][u] = 0 /\ calls[m][u] = 0
           /\ Waiting(tasks, m, u) = {} /\ Told(m) = {}
<1>1. notes[m][u] = 0 /\ calls[m][u] = 0 BY DEF Accounted
<1>2. Waiting(tasks, m, u) = {} BY DEF Accounted, TaskFits, Waiting
<1>3. \A p \in Request : requests[p] # Idle => requests[p].msg # m
  <2>1. m # 0 BY DEF MessageId
  <2>2. QED BY <2>1, Addressed
<1>4. QED BY <1>1, <1>2, <1>3, ToldNone

LEMMA TasksSame ==
    ASSUME TypeOK, Accounted, Lasting, UNCHANGED tasks
    PROVE  \A i \in DOMAIN tasks' : TaskFits(tasks[i])'
<1>1. DbType BY TypeParts
<1> SUFFICES ASSUME NEW i \in DOMAIN tasks' PROVE TaskFits(tasks[i])' OBVIOUS
<1>2. PICK t : t = tasks[i] /\ t = tasks'[i] OBVIOUS
<1>3. TaskFits(t) BY <1>2 DEF Accounted
<1>4. TaskFits(t)' BY <1>1, <1>3, TaskLasts
<1>5. QED BY <1>2, <1>4 DEF TaskFits, Replied

\* A step that neither takes anything on nor tells anybody.
LEMMA AccountSame ==
    ASSUME TypeOK, TypeOK', RequestsFit, OneHand, Accounted, Lasting,
           NEW q \in Request, NEW x \in Requests \cup {Idle}, Turns(q, x),
           requests[q] # Idle => Tells(requests[q]) = {},
           x # Idle => Tells(x)' = {} /\ KnowsMessage(x)',
           overlapped \subseteq overlapped', UNCHANGED noteVars,
           \A m \in DOMAIN messages : messages'[m].mentions = messages[m].mentions
    PROVE  Accounted'
<1>0. tasks' = tasks /\ notes' = notes /\ calls' = calls /\ lost' = lost BY DEF noteVars
<1>1. \A i \in DOMAIN tasks' : TaskFits(tasks[i])' BY <1>0, TasksSame
<1>2. \A p \in Request : (requests[p] # Idle => KnowsMessage(requests[p]))' BY KnowsStep
<1>3. \A m : Told(m)' = Told(m)
  <2> TAKE m
  <2>1. QED BY ToldStep
<1>4. \A m \in MessageId \ DOMAIN messages' : \A u \in User : notes'[m][u] = 0 /\ calls'[m][u] = 0
  BY <1>0 DEF Lasting, Accounted
<1>5. ASSUME NEW m \in DOMAIN messages', m \notin overlapped', NEW u \in User
      PROVE  Due(m, u)' <= calls'[m][u] /\ (m \notin lost' => Due(m, u)' = calls'[m][u])
  <2>1. Due(m, u)' = Due(m, u) BY <1>0, <1>3 DEF Due, Waiting, Addresses
  <2>2. CASE m \in DOMAIN messages
    <3>1. Due(m, u) <= calls[m][u] /\ (m \notin lost => Due(m, u) = calls[m][u]) BY <1>5, <2>2 DEF Accounted
    <3>2. QED BY <1>0, <2>1, <3>1
  <2>3. CASE m \notin DOMAIN messages
    <3>0. m \in MessageId
      <4>1. messages' \in Seq(Message) /\ Len(messages') <= MaxMessages BY DEF TypeOK
      <4>2. QED BY <4>1, Bounds DEF MessageId
    <3>1. notes[m][u] = 0 /\ calls[m][u] = 0 /\ Waiting(tasks, m, u) = {} /\ Told(m) = {} BY <2>3, <3>0, NothingDue
    <3>2. Due(m, u) = 0 BY <3>1, FS_EmptySet DEF Due
    <3>3. QED BY <1>0, <2>1, <3>1, <3>2
  <2>4. QED BY <2>2, <2>3
<1>6. QED BY <1>1, <1>2, <1>4, <1>5 DEF Accounted

\* Request q leaves what it has to tell to a task.
LEMMA AccountPublish ==
    ASSUME TypeOK, TypeOK', RequestsFit, OneHand, Accounted, UNCHANGED dbVars,
           NEW q \in Request, requests[q] # Idle, NEW k \in DOMAIN messages, k = requests[q].msg,
           NEW x \in Requests \cup {Idle}, Turns(q, x),
           x # Idle => x.msg = k /\ Tells(x)' = {} /\ KnowsMessage(x)',
           NEW task \in Task, task.msg = k, TaskFits(task), Addresses(task) = Tells(requests[q]),
           TryGo(task) \/ (Addresses(task) = {} /\ UNCHANGED <<tasks, lost>>),
           UNCHANGED <<notes, calls, overlapped>>
    PROVE  Accounted'
<1>0. messages' = messages /\ kind' = kind /\ notes' = notes /\ calls' = calls /\ overlapped' = overlapped BY DEF dbVars
<1>0a. DbType /\ RequestType /\ Lasting /\ tasks \in Seq(Task) BY TypeParts, SameLasting DEF RunnerType
<1>1. \/ tasks' = Append(tasks, task) /\ lost' = lost
      \/ tasks' = tasks /\ lost' = lost /\ Addresses(task) = {}
      \/ tasks' = tasks /\ lost' = lost \cup {k}
  BY DEF TryGo
<1>2. \A i \in DOMAIN tasks' : TaskFits(tasks[i])'
  <2>1. CASE tasks' = tasks BY <1>0a, <2>1, TasksSame
  <2>2. CASE tasks' = Append(tasks, task)
    <3> SUFFICES ASSUME NEW i \in DOMAIN tasks' PROVE TaskFits(tasks[i])' OBVIOUS
    <3>1. PICK t : t = tasks'[i] OBVIOUS
    <3>2. t = task \/ \E j \in DOMAIN tasks : t = tasks[j]
      <4>1. i = Len(tasks) + 1 \/ i \in DOMAIN tasks BY <1>0a, <2>2
      <4>2. QED BY <1>0a, <2>2, <3>1, <4>1
    <3>3. TaskFits(t) BY <3>2 DEF Accounted
    <3>4. TaskFits(t)' BY <1>0a, <3>3, TaskLasts
    <3>5. QED BY <3>1, <3>4 DEF TaskFits, Replied
  <2>3. QED BY <1>1, <2>1, <2>2
<1>3. \A p \in Request : (requests[p] # Idle => KnowsMessage(requests[p]))' BY <1>0, <1>0a, KnowsStep
<1>4. \A m \in MessageId \ DOMAIN messages' : \A u \in User : notes'[m][u] = 0 /\ calls'[m][u] = 0
  BY <1>0 DEF Accounted
<1>5. ASSUME NEW m \in DOMAIN messages', m \notin overlapped', NEW u \in User
      PROVE  Due(m, u)' <= calls'[m][u] /\ (m \notin lost' => Due(m, u)' = calls'[m][u])
  <2>0. m \in DOMAIN messages /\ m \in MessageId /\ m # 0 /\ m \notin overlapped BY <1>0, <1>0a, <1>5, MessageIds
  <2> DEFINE w == Cardinality(Waiting(tasks, m, u)) v == Cardinality(Waiting(tasks', m, u))
             new == m = k /\ u \in Addresses(task)
  <2>1. w \in Nat BY <2>0, DueType
  <2>2. \/ v = w + (IF new THEN 1 ELSE 0) /\ lost' = lost
        \/ v = w /\ lost' = lost /\ ~new
        \/ v = w /\ lost' = lost \cup {k}
    <3>1. CASE tasks' = Append(tasks, task) /\ lost' = lost
      <4>1. Cardinality(Waiting(Append(tasks, task), m, u)) = w + IF task.msg = m /\ u \in Addresses(task) THEN 1 ELSE 0
        BY <1>0a, WaitingAppend
      <4>2. v = w + IF new THEN 1 ELSE 0 BY <3>1, <4>1
      <4>3. QED BY <3>1, <4>2
    <3>2. CASE tasks' = tasks /\ lost' = lost /\ Addresses(task) = {} BY <3>2
    <3>3. CASE tasks' = tasks /\ lost' = lost \cup {k} BY <3>3
    <3>4. QED BY <1>1, <3>1, <3>2, <3>3
  <2>3. (u \in Told(m)') <=> (u \in Told(m) /\ ~new)
    <3>1. CASE m # k
      <4>1. Told(m)' = Told(m) BY <1>0a, <3>1, ToldStep
      <4>2. QED BY <3>1, <4>1
    <3>2. CASE m = k
      <4>1. u \in Told(m) <=> u \in Tells(requests[q]) BY <2>0, <3>2, ToldOne
      <4>2. requests'[q] = x /\ \A p \in Request : p # q => requests'[p] = requests[p] BY <1>0a, Turned
      <4>3. u \notin Told(m)'
        <5>1. \A p \in Request : requests'[p] # Idle /\ requests'[p].msg = m => p = q BY <2>0, <3>2, <4>2 DEF OneHand
        <5>2. Tells(requests[q])' = Tells(x)' BY <4>2 DEF Tells, Others
        <5>3. QED BY <4>2, <5>1, <5>2 DEF Told
      <4>4. QED BY <3>2, <4>1, <4>3
    <3>3. QED BY <3>1, <3>2
  <2>4. new => u \in Told(m) BY <2>0, ToldOne
  <2>5. PICK a : a = notes[m][u] OBVIOUS
  <2>6. a \in Nat BY <2>0, <2>5, DueType
  <2>7. Due(m, u) = a + w + IF u \in Told(m) THEN 1 ELSE 0 BY <2>5 DEF Due
  <2>8. Due(m, u)' = a + v + IF u \in Told(m)' THEN 1 ELSE 0 BY <1>0, <2>5 DEF Due, Waiting, Addresses
  <2>9. \/ Due(m, u)' = Due(m, u)
        \/ m \in lost' /\ Due(m, u)' <= Due(m, u)
    <3> HIDE DEF w, v, new
    <3>1. CASE v = w + (IF new THEN 1 ELSE 0) BY <2>1, <2>3, <2>4, <2>6, <2>7, <2>8, <3>1
    <3>2. CASE v = w /\ ~new BY <2>1, <2>3, <2>6, <2>7, <2>8, <3>2
    <3>3. CASE v = w /\ lost' = lost \cup {k} /\ new
      <4>1. m \in lost' BY <3>3 DEF new
      <4>2. QED BY <2>1, <2>3, <2>6, <2>7, <2>8, <3>3, <4>1
    <3>4. QED BY <2>2, <3>1, <3>2, <3>3
  <2>10. Due(m, u) <= calls[m][u] /\ (m \notin lost => Due(m, u) = calls[m][u]) BY <2>0 DEF Accounted
  <2>11. lost \subseteq lost' BY <1>1
  <2>12. PICK d, e, c : d = Due(m, u) /\ e = Due(m, u)' /\ c = calls[m][u] OBVIOUS
  <2>13. d \in Nat /\ c \in Nat /\ e \in Nat BY <2>0, <2>12, DueType, DueNext
  <2>14. e <= c /\ (m \notin lost' => e = c) BY <2>9, <2>10, <2>11, <2>12, <2>13
  <2>15. QED BY <1>0, <2>12, <2>14
<1>6. QED BY <1>2, <1>3, <1>4, <1>5 DEF Accounted

LEMMA DeliversAccount ==
    ASSUME TypeOK, TypeOK', Accounted, NEW i \in DOMAIN tasks, Delivers(i)
    PROVE  Accounted'
<1> DEFINE task == tasks[i] k == tasks[i].msg
<1>1. PICK told \in SUBSET User :
        /\ told \subseteq Addresses(task)
        /\ tasks' = RemoveAt(tasks, i)
        /\ notes' = [notes EXCEPT ![k] = [u \in User |-> notes[k][u] + IF u \in told THEN 1 ELSE 0]]
        /\ \/ lost' = lost /\ told = Addresses(task)
           \/ lost' = lost \cup {k}
        /\ UNCHANGED <<dbVars, requests, screenVars, calls, begun, overlapped, torn, missed>>
  BY DEF Delivers
<1>2. messages' = messages /\ kind' = kind /\ requests' = requests /\ calls' = calls /\ overlapped' = overlapped BY <1>1 DEF dbVars
<1>3. tasks \in Seq(Task) /\ task \in Task /\ k \in DOMAIN messages /\ k \in MessageId
  <2>1. tasks \in Seq(Task) BY DEF TypeOK
  <2>2. task \in Task BY <2>1
  <2>3. k \in DOMAIN messages BY DEF Accounted, TaskFits
  <2>4. QED BY <2>1, <2>2, <2>3 DEF Task
<1>4. \A j \in DOMAIN tasks' : TaskFits(tasks[j])'
  <2> SUFFICES ASSUME NEW j \in DOMAIN tasks' PROVE TaskFits(tasks[j])' OBVIOUS
  <2>1. PICK t : t = tasks'[j] OBVIOUS
  <2>2. /\ Len(tasks) \in Nat /\ DOMAIN tasks = 1..Len(tasks) /\ DOMAIN tasks' = 1..(Len(tasks) - 1)
        /\ tasks'[j] = IF j < i THEN tasks[j] ELSE tasks[j + 1]
    <3>1. PICK rest : rest = RemoveAt(tasks, i) OBVIOUS
    <3>2. /\ DOMAIN rest = 1..(Len(tasks) - 1)
          /\ \A l \in 1..(Len(tasks) - 1) : rest[l] = IF l < i THEN tasks[l] ELSE tasks[l + 1]
      BY <1>3, <3>1, Removed
    <3>3. tasks' = rest BY <1>1, <3>1
    <3>4. QED BY <1>3, <3>2, <3>3
  <2>3. j \in DOMAIN tasks /\ j + 1 \in DOMAIN tasks BY <2>2
  <2>4. TaskFits(t) BY <2>1, <2>2, <2>3 DEF Accounted
  <2>5. QED BY <1>2, <2>1, <2>4 DEF TaskFits, Replied
<1>5. \A p \in Request : (requests[p] # Idle => KnowsMessage(requests[p]))' BY <1>2 DEF Accounted, KnowsMessage
<1>6. \A m \in MessageId : m # k => notes'[m] = notes[m] BY <1>1, <1>3 DEF TypeOK
<1>7. \A u \in User : notes'[k][u] = notes[k][u] + IF u \in told THEN 1 ELSE 0
  <2>1. notes'[k] = [u \in User |-> notes[k][u] + IF u \in told THEN 1 ELSE 0] BY <1>1, <1>3 DEF TypeOK
  <2>2. QED BY <2>1
<1>8. \A m \in MessageId \ DOMAIN messages' : \A u \in User : notes'[m][u] = 0 /\ calls'[m][u] = 0
  BY <1>2, <1>3, <1>6 DEF Accounted
<1>9. ASSUME NEW m \in DOMAIN messages', m \notin overlapped', NEW u \in User
      PROVE  Due(m, u)' <= calls'[m][u] /\ (m \notin lost' => Due(m, u)' = calls'[m][u])
  <2>0. m \in DOMAIN messages /\ m \in MessageId /\ m \notin overlapped BY <1>2, <1>9, TypeParts, MessageIds
  <2>1. PICK w, v, a, b, h : /\ w = Cardinality(Waiting(tasks, m, u)) /\ v = Cardinality(Waiting(tasks', m, u))
                             /\ a = notes[m][u] /\ b = notes'[m][u] /\ h = (IF u \in Told(m) THEN 1 ELSE 0)
    OBVIOUS
  <2>2. w \in Nat /\ v \in Nat /\ a \in Nat /\ b \in Nat /\ h \in Nat
    BY <2>0, <2>1, DueType, DueNext
  <2>3. w = v + IF m = k /\ u \in Addresses(task) THEN 1 ELSE 0
    <3>1. w = Cardinality(Waiting(RemoveAt(tasks, i), m, u)) + IF k = m /\ u \in Addresses(task) THEN 1 ELSE 0
      BY <1>3, <2>1, WaitingRemove
    <3>2. QED BY <1>1, <2>1, <3>1
  <2>4. b = a + IF m = k /\ u \in told THEN 1 ELSE 0
    <3>1. CASE m = k BY <1>7, <2>1, <3>1
    <3>2. CASE m # k BY <1>6, <2>0, <2>1, <2>2, <3>2
    <3>3. QED BY <3>1, <3>2
  <2>5. Due(m, u) = a + w + h BY <2>1 DEF Due
  <2>6. Due(m, u)' = b + v + h
    <3>1. Told(m)' = Told(m) BY <1>2 DEF Told, Tells, Others
    <3>2. QED BY <2>1, <3>1 DEF Due, Waiting, Addresses
  <2>7. \/ Due(m, u)' = Due(m, u)
        \/ m \in lost' /\ Due(m, u)' <= Due(m, u)
    <3> HIDE DEF task, k
    <3>1. CASE m # k BY <2>2, <2>3, <2>4, <2>5, <2>6, <3>1
    <3>2. CASE m = k /\ told = Addresses(task) BY <2>2, <2>3, <2>4, <2>5, <2>6, <3>2
    <3>3. CASE m = k /\ lost' = lost \cup {k}
      <4>1. u \in told => u \in Addresses(task) BY <1>1
      <4>2. QED BY <2>2, <2>3, <2>4, <2>5, <2>6, <3>3, <4>1
    <3>4. QED BY <1>1, <3>1, <3>2, <3>3
  <2>10. Due(m, u) <= calls[m][u] /\ (m \notin lost => Due(m, u) = calls[m][u]) BY <2>0 DEF Accounted
  <2>11. lost \subseteq lost' BY <1>1
  <2>12. PICK d, e, c : d = Due(m, u) /\ e = Due(m, u)' /\ c = calls[m][u] OBVIOUS
  <2>13. d \in Nat /\ c \in Nat /\ e \in Nat BY <2>0, <2>12, DueType, DueNext
  <2>14. e <= c /\ (m \notin lost' => e = c) BY <2>7, <2>10, <2>11, <2>12, <2>13
  <2>15. QED BY <1>2, <2>12, <2>14
<1>10. QED BY <1>4, <1>5, <1>8, <1>9 DEF Accounted

LEMMA AppendLasting ==
    ASSUME kind' = kind, NEW n, DOMAIN messages' = DOMAIN messages \cup {n}, \A m \in DOMAIN messages : messages'[m] = messages[m]
    PROVE  Lasting /\ \A m \in DOMAIN messages : messages'[m].mentions = messages[m].mentions
  BY DEF Lasting

LEMMA SavesMessageAccount ==
    ASSUME TypeOK, TypeOK', RequestsFit, OneHand, OneHand', Accounted, NEW q \in Request, SavesMessage(q)
    PROVE  Accounted'
<1> DEFINE r == requests[q] n == Len(messages) + 1
<1>0. DbType /\ RequestType BY TypeParts
<1>1. /\ r \in SendRequest /\ r.step = "save" /\ messages' = Append(messages, NewMessage(r))
      /\ Turns(q, [r EXCEPT !.step = "publish", !.msg = n])
      /\ calls' = [calls EXCEPT ![n] = [u \in User |-> IF u \in r.mentions \cup Others(r.user, r.reply) THEN 1 ELSE 0]]
  BY DEF SavesMessage
<1>1a. kind' = kind /\ tasks' = tasks /\ notes' = notes /\ lost' = lost /\ overlapped' = overlapped BY DEF SavesMessage
<1>2. r \in Requests /\ r # Idle /\ r.op = "send" BY <1>1, Kinds, Bounds DEF SendRequest
<1>3. n \in MessageId /\ n # 0 BY <1>1, <1>2, RoomLeft DEF MessageId
<1>4. Refers(r) BY <1>2 DEF RequestsFit
<1>5. NewMessage(r) \in Message BY <1>1, NewMessageType
<1>6. /\ DOMAIN messages' = DOMAIN messages \cup {n} /\ n \notin DOMAIN messages
      /\ messages'[n] = NewMessage(r) /\ \A m \in DOMAIN messages : messages'[m] = messages[m]
  BY <1>0, <1>1, <1>5, Appended
<1>7. Lasting /\ \A m \in DOMAIN messages : messages'[m].mentions = messages[m].mentions BY <1>1a, <1>6, AppendLasting
<1>8. NewMessage(r).author = r.user /\ NewMessage(r).reply = r.reply BY DEF NewMessage
<1>9. PICK x : x = [r EXCEPT !.step = "publish", !.msg = n] OBVIOUS
<1>10. /\ x \in SendRequest /\ x.mentions = r.mentions /\ x.user = r.user /\ x.reply = r.reply
       /\ x.step = "publish" /\ x.msg = n /\ x.op = "send"
  BY <1>1, <1>2, <1>3, <1>9, Named
<1>11. Turns(q, x) /\ x \in Requests /\ x # Idle BY <1>1, <1>9, <1>10, Kinds, Bounds
<1>12. KnowsMessage(x)' BY <1>6, <1>8, <1>10 DEF KnowsMessage
<1>13. r.msg = 0 /\ Tells(r) = {} BY <1>1, <1>2, <1>4 DEF Refers, Tells
<1>14. Tells(x)' = r.mentions \cup Others(r.user, r.reply)
  <2>1. r.reply \in 0..Len(messages) BY <1>0, <1>1, <1>2, <1>4, MessageIds DEF SendRequest, Refers
  <2>2. PICK a, b : a = r.user /\ b = r.reply OBVIOUS
  <2>3. Others(a, b)' = Others(a, b) BY <1>0, <1>7, <2>1, <2>2, OthersLast
  <2>4. Tells(x)' = x.mentions \cup Others(x.user, x.reply)' BY <1>10 DEF Tells
  <2>5. x.user = a /\ x.reply = b BY <1>10, <2>2
  <2>6. Others(x.user, x.reply)' = Others(a, b)' BY <2>5
  <2>7. QED BY <1>10, <2>2, <2>3, <2>4, <2>6
<1>15. requests'[q] = x /\ \A p \in Request : p # q => requests'[p] = requests[p] BY <1>0, <1>11, Turned
<1>16. \A i \in DOMAIN tasks' : TaskFits(tasks[i])' BY <1>1a, <1>7, TasksSame
<1>17. \A p \in Request : (requests[p] # Idle => KnowsMessage(requests[p]))' BY <1>1a, <1>7, <1>11, <1>12, KnowsStep
<1>18. \A m \in MessageId : m # n => calls'[m] = calls[m] BY <1>1, <1>3 DEF TypeOK
<1>19. \A m \in MessageId \ DOMAIN messages' : \A u \in User : notes'[m][u] = 0 /\ calls'[m][u] = 0
  BY <1>1a, <1>6, <1>18 DEF Accounted
<1>20. ASSUME NEW m \in DOMAIN messages', m \notin overlapped', NEW u \in User
       PROVE  Due(m, u)' <= calls'[m][u] /\ (m \notin lost' => Due(m, u)' = calls'[m][u])
  <2>1. CASE m = n
    <3>1. notes[n][u] = 0 /\ Waiting(tasks, n, u) = {} BY <1>3, <1>6, NothingDue
    <3>2. calls'[n][u] = IF u \in r.mentions \cup Others(r.user, r.reply) THEN 1 ELSE 0 BY <1>1, <1>3 DEF TypeOK
    <3>3. n \notin overlapped' BY <1>20, <2>1
    <3>4. PICK k : k = n OBVIOUS
    <3>5. u \in Told(k)' <=> u \in Tells(x)' BY <1>3, <1>10, <1>11, <1>15, <3>3, <3>4, ToldNext
    <3>6. notes'[k][u] = 0 /\ Waiting(tasks', k, u) = {} BY <1>1a, <3>1, <3>4
    <3>7. Due(k, u)' = IF u \in Told(k)' THEN 1 ELSE 0 BY <3>6, FS_EmptySet DEF Due, Waiting, Addresses
    <3>8. Due(k, u)' = calls'[k][u] BY <1>14, <3>2, <3>4, <3>5, <3>7
    <3>9. calls'[k][u] \in Nat BY <3>2, <3>4
    <3>10. k = m BY <2>1, <3>4
    <3>11. Due(m, u)' = Due(k, u)' BY <3>10
    <3>12. QED BY <3>8, <3>9, <3>10, <3>11
  <2>2. CASE m # n
    <3>1. m \in DOMAIN messages /\ m \in MessageId /\ m # 0 BY <1>0, <1>6, <2>2, MessageIds DEF MessageId
    <3>2. Told(m)' = Told(m) BY <1>7, <1>10, <1>11, <1>13, <2>2, <3>1, ToldStep
    <3>3. Due(m, u)' = Due(m, u) BY <1>1a, <3>2 DEF Due, Waiting, Addresses
    <3>4. calls'[m][u] = calls[m][u] BY <1>18, <2>2, <3>1
    <3>5. Due(m, u) <= calls[m][u] /\ (m \notin lost => Due(m, u) = calls[m][u]) BY <1>1a, <1>20, <3>1 DEF Accounted
    <3>6. QED BY <1>1a, <3>3, <3>4, <3>5
  <2>3. QED BY <2>1, <2>2
<1>21. QED BY <1>16, <1>17, <1>19, <1>20 DEF Accounted

LEMMA SavesEditAccount ==
    ASSUME TypeOK, TypeOK', RequestsFit, OneHand, OneHand', Accounted, NEW q \in Request, SavesEdit(q)
    PROVE  Accounted'
<1> DEFINE r == requests[q] g == messages[r.msg]
<1>0. DbType /\ RequestType BY TypeParts
<1>1. /\ r \in EditRequest /\ r.step = "save" /\ messages' = [messages EXCEPT ![r.msg] = Edited(g, r)]
      /\ Turns(q, [r EXCEPT !.step = "publish"])
      /\ calls' = [calls EXCEPT ![r.msg] = [u \in User |-> calls[r.msg][u] + IF u \in r.mentions \ g.mentions THEN 1 ELSE 0]]
      /\ lost' = IF r.before.known THEN lost ELSE lost \cup {r.msg}
  BY DEF SavesEdit, Edited
<1>1a. kind' = kind /\ tasks' = tasks /\ notes' = notes /\ overlapped' = overlapped BY DEF SavesEdit
<1>2. r \in Requests /\ r # Idle /\ r.op = "edit" /\ r.msg \in MessageId BY <1>1, Kinds, Bounds DEF EditRequest
<1>3. PICK k : k = r.msg OBVIOUS
<1>3a. k \in DOMAIN messages /\ k # 0 /\ k \in MessageId BY <1>2, <1>3, Addressed DEF MessageId
<1>4. g \in Message BY <1>0, <1>3, <1>3a, MessageIds
<1>5. PICK d : d = Edited(g, r) OBVIOUS
<1>6. d \in Message /\ d.author = g.author /\ d.reply = g.reply /\ d.mentions = r.mentions
  BY <1>1, <1>4, <1>5, EditedMessage
<1>7. messages' = [messages EXCEPT ![k] = d] BY <1>1, <1>3, <1>5
<1>8. /\ DOMAIN messages' = DOMAIN messages /\ messages'[k] = d
      /\ \A m \in DOMAIN messages : m # k => messages'[m] = messages[m]
  BY <1>0, <1>3a, <1>6, <1>7, Changed
<1>9. Lasting BY <1>1a, <1>3, <1>6, <1>8 DEF Lasting
<1>10. PICK x : x = [r EXCEPT !.step = "publish"] OBVIOUS
<1>11. x \in EditRequest /\ x.op = "edit" /\ x.msg = k /\ x.step = "publish" /\ x.mentions = r.mentions /\ x.before = r.before
  BY <1>1, <1>2, <1>3, <1>10, Stepped
<1>12. Turns(q, x) /\ x \in Requests /\ x # Idle BY <1>1, <1>10, <1>11, Kinds, Bounds
<1>13. KnowsMessage(x)' BY <1>11 DEF KnowsMessage
<1>14. Tells(r) = {} BY <1>1, <1>2 DEF Tells
<1>15. Tells(x)' = IF r.before.known THEN r.mentions \ r.before.users ELSE {} BY <1>11 DEF Tells
<1>16. requests'[q] = x /\ \A p \in Request : p # q => requests'[p] = requests[p] BY <1>0, <1>12, Turned
<1>17. \A i \in DOMAIN tasks' : TaskFits(tasks[i])' BY <1>1a, <1>9, TasksSame
<1>18. \A p \in Request : (requests[p] # Idle => KnowsMessage(requests[p]))'
  <2>1. \A m \in DOMAIN messages : messages'[m].mentions = messages[m].mentions \/ (requests[q] # Idle /\ requests[q].msg = m)
    BY <1>2, <1>3, <1>8
  <2>2. QED BY <1>1a, <1>9, <1>12, <1>13, <2>1, KnowsStep
<1>19. \A m \in MessageId : m # k => calls'[m] = calls[m] BY <1>1, <1>3, <1>3a DEF TypeOK
<1>20. \A u \in User : calls'[k][u] = calls[k][u] + IF u \in r.mentions \ g.mentions THEN 1 ELSE 0
  <2>1. calls'[k] = [u \in User |-> calls[r.msg][u] + IF u \in r.mentions \ g.mentions THEN 1 ELSE 0] BY <1>1, <1>3, <1>3a DEF TypeOK
  <2>2. QED BY <1>3, <2>1
<1>21. \A m \in MessageId \ DOMAIN messages' : \A u \in User : notes'[m][u] = 0 /\ calls'[m][u] = 0
  BY <1>1a, <1>3a, <1>8, <1>19 DEF Accounted
<1>22. ASSUME NEW m \in DOMAIN messages', m \notin overlapped', NEW u \in User
       PROVE  Due(m, u)' <= calls'[m][u] /\ (m \notin lost' => Due(m, u)' = calls'[m][u])
  <2>0. m \in DOMAIN messages /\ m \in MessageId /\ m # 0 /\ m \notin overlapped BY <1>0, <1>1a, <1>8, <1>22, MessageIds
  <2>1. Due(m, u) <= calls[m][u] /\ (m \notin lost => Due(m, u) = calls[m][u]) BY <2>0 DEF Accounted
  <2>2. CASE m = k
    <3>1. u \notin Told(m) BY <1>2, <1>3, <1>14, <2>0, <2>2, ToldOne
    <3>2. u \in Told(m)' <=> u \in Tells(x)' BY <1>11, <1>12, <1>16, <1>22, <2>0, <2>2, ToldNext
    <3>3. PICK a, w, b : a = notes[m][u] /\ w = Cardinality(Waiting(tasks, m, u)) /\ b = calls[m][u] OBVIOUS
    <3>4. a \in Nat /\ w \in Nat /\ b \in Nat BY <2>0, <3>3, DueType
    <3>5. Due(m, u) = a + w BY <3>1, <3>3, <3>4 DEF Due
    <3>6. Due(m, u)' = a + w + IF u \in Tells(x)' THEN 1 ELSE 0 BY <1>1a, <3>2, <3>3 DEF Due, Waiting, Addresses
    <3>7. calls'[m][u] = b + IF u \in r.mentions \ g.mentions THEN 1 ELSE 0 BY <1>20, <2>2, <3>3
    <3>8. CASE r.before.known
      <4>1. KnowsMessage(r) BY <1>2 DEF Accounted
      <4>2. r.before.users = g.mentions BY <1>1, <1>2, <1>3, <2>0, <2>2, <3>8, <4>1 DEF KnowsMessage
      <4>3. u \in Tells(x)' <=> u \in r.mentions \ g.mentions BY <1>15, <3>8, <4>2
      <4>4. lost' = lost BY <1>1, <3>8
      <4>5. a + w <= b /\ (m \notin lost => a + w = b) BY <2>1, <3>3, <3>5
      <4>6. QED BY <3>4, <3>6, <3>7, <4>3, <4>4, <4>5
    <3>9. CASE ~r.before.known
      <4>1. u \notin Tells(x)' /\ m \in lost' BY <1>1, <1>3, <1>15, <2>2, <3>9
      <4>2. a + w <= b BY <2>1, <3>3, <3>5
      <4>3. QED BY <3>4, <3>6, <3>7, <4>1, <4>2
    <3>10. QED BY <3>8, <3>9
  <2>3. CASE m # k
    <3>1. Told(m)' = Told(m) BY <1>3, <1>9, <1>11, <1>12, <2>3, ToldStep
    <3>2. Due(m, u)' = Due(m, u) BY <1>1a, <3>1 DEF Due, Waiting, Addresses
    <3>3. calls'[m][u] = calls[m][u] BY <1>19, <2>0, <2>3
    <3>4. m \notin lost' => m \notin lost BY <1>1
    <3>5. QED BY <2>1, <3>2, <3>3, <3>4
  <2>4. QED BY <2>2, <2>3
<1>23. QED BY <1>17, <1>18, <1>21, <1>22 DEF Accounted
-----------------------------------------------------------------------------
(* The invariant, shape by shape. *)

\* What remains to be shown of a step.
Follows == CardShown /\ StaleIsTold /\ ScreensFollow /\ Accounted

LEMMA Parts == IInv <=> TypeOK /\ RequestsFit /\ OneCard /\ OneHand /\ Follows
  BY DEF IInv, Follows

LEMMA RequestsParts ==
    ASSUME IInv, NEW q \in Request, requests[q] # Idle
    PROVE  requests[q] \in Requests /\ Refers(requests[q]) /\ KnowsCard(requests[q]) /\ KnowsMessage(requests[q])
  BY Busy DEF IInv, RequestsFit, Accounted

LEMMA MoveStale ==
    ASSUME TypeOK, TypeOK', RequestsFit, StaleIsTold, NEW q \in Request, NEW x, Moves(q, x),
           listStale' /\ ~missed' =>
              \/ x # Idle /\ TellsList(x)
              \/ listStale /\ ~missed /\ ~TellsList(requests[q]),
           cardStale' /\ ~missed' /\ ~CardGone /\ RoomExists(Thread) =>
              \/ x # Idle /\ TellsCard(x)
              \/ cardStale /\ ~missed /\ ~TellsCard(requests[q]),
           \A m \in reactionsStale' :
              \/ x # Idle /\ TellsReactions(x, m)
              \/ m \in reactionsStale /\ ~TellsReactions(requests[q], m)
    PROVE  StaleIsTold'
<1>1. x \in Requests \cup {Idle} /\ Turns(q, x) /\ UNCHANGED dbVars /\ requests[q] # Idle BY DEF Moves
<1>2. messages' = messages /\ thread' = thread BY <1>1 DEF dbVars
<1>3. CardGone' <=> CardGone BY <1>1, SameKeeps, TypeParts
<1>4. RoomExists(Thread)' <=> RoomExists(Thread) BY <1>2 DEF RoomExists
<1>5. TellsList(x)' <=> TellsList(x) BY <1>4 DEF TellsList
<1>6. TellsCard(x)' <=> TellsCard(x) BY <1>2 DEF TellsCard
<1>7. QED BY <1>1, <1>2, <1>3, <1>4, <1>5, <1>6, StaleStep

LEMMA MoveScreen ==
    ASSUME TypeOK, OneHand, ScreensFollow, NEW q \in Request, NEW x, Moves(q, x), NEW k, k = requests[q].msg,
           \A m \in DOMAIN messages : m # k => shown'[m] = shown[m],
           k \in DOMAIN messages /\ Leaves(requests[q], messages[k], shown[k]) =>
              IF x = Idle THEN AsStored(messages[k], shown'[k]) ELSE Leaves(x, messages[k], shown'[k])
    PROVE  ScreensFollow'
<1>1. /\ x \in Requests \cup {Idle} /\ Turns(q, x) /\ requests[q] # Idle /\ (x # Idle => x.msg = k)
      /\ UNCHANGED <<dbVars, overlapped, torn>>
  BY DEF Moves
<1>2. messages' = messages /\ thread' = thread /\ overlapped' = overlapped /\ torn' = torn BY <1>1 DEF dbVars
<1>3. \A m : Clean(m)' <=> Clean(m) BY <1>2 DEF Clean, RoomExists
<1>4. Clean(k) => k \in DOMAIN messages BY DEF Clean
<1>5. Clean(k)' /\ Clean(k) /\ Leaves(requests[q], messages[k], shown[k]) =>
              IF x = Idle THEN AsStored(messages'[k], shown'[k]) ELSE Leaves(x, messages'[k], shown'[k])
  BY <1>2, <1>4
<1>6. \A m \in DOMAIN messages : m # k /\ Clean(m)' =>
         messages'[m].deleted = messages[m].deleted /\ messages'[m].content = messages[m].content /\ shown'[m] = shown[m]
  BY <1>2
<1>7. QED BY <1>1, <1>3, <1>5, <1>6, ScreenStep

LEMMA MoveAccount ==
    ASSUME TypeOK, TypeOK', RequestsFit, OneHand, Accounted, NEW q \in Request, NEW x, Moves(q, x),
           Tells(requests[q]) = {}, x # Idle => Tells(x) = {} /\ KnowsMessage(x), UNCHANGED noteVars
    PROVE  Accounted'
<1>1. x \in Requests \cup {Idle} /\ Turns(q, x) /\ UNCHANGED dbVars /\ UNCHANGED overlapped BY DEF Moves
<1>2. messages' = messages /\ kind' = kind /\ overlapped' = overlapped BY <1>1 DEF dbVars
<1>3. Tells(x)' = Tells(x) /\ (KnowsMessage(x)' <=> KnowsMessage(x)) BY <1>2 DEF Tells, Others, KnowsMessage
<1>4. Lasting BY <1>1, SameLasting
<1>5. QED BY <1>1, <1>2, <1>3, <1>4, AccountSame

\* Neither a request that has yet to save nor one with only a card to refresh has anything else to say.
LEMMA Silent ==
    ASSUME NEW r \in Requests, r.step \in {"save", "card", "room"}
    PROVE  /\ ~TellsList(r) /\ Tells(r) = {}
           /\ \A m : ~TellsReactions(r, m)
           /\ r.step # "room" => ~Owing(r)
           /\ r.step # "card" => ~TellsCard(r)
<1>1. r.op # "card" BY Fields DEF CardRequest
<1>2. r.step = "save" \/ r.step = "card" \/ r.step = "room" OBVIOUS
<1>3. r.step # "publish" BY <1>2
<1>4. ~TellsList(r) /\ Tells(r) = {} /\ \A m : ~TellsReactions(r, m)
  BY <1>3 DEF TellsList, Tells, TellsReactions
<1>5. r.step # "room" => ~Owing(r)
  <2>1. r.op = "remove" => r.step # "card" BY Fields DEF RemoveRequest
  <2>2. QED BY <1>2, <1>3, <2>1 DEF Owing
<1>6. r.step # "card" => ~TellsCard(r) BY <1>1, <1>3 DEF TellsCard
<1>7. QED BY <1>4, <1>5, <1>6

LEMMA BeginsFollow ==
    ASSUME IInv, TypeOK', Keeps, NEW q \in Request, Begins(q)
    PROVE  Follows'
<1>0. TypeOK /\ RequestsFit /\ OneCard /\ OneHand /\ CardShown /\ StaleIsTold /\ ScreensFollow /\ Accounted BY DEF IInv
<1>0a. DbType /\ RequestType BY <1>0, TypeParts
<1>1. PICK r \in Requests : Starts(r) /\ Begin(q, r) /\ UNCHANGED <<dbVars, screenVars, noteVars, torn, missed>>
  BY DEF Begins
<1>2. /\ messages' = messages /\ thread' = thread /\ kind' = kind /\ torn' = torn /\ missed' = missed /\ shown' = shown
      /\ cardStale' = cardStale /\ listStale' = listStale /\ reactionsStale' = reactionsStale
  BY <1>1 DEF dbVars, screenVars
<1>3. requests[q] = Idle /\ Turns(q, r) /\ r # Idle BY <1>1, Bounds DEF Begin, Turns
<1>4. requests'[q] = r /\ \A p \in Request : p # q => requests'[p] = requests[p] BY <1>0a, <1>3, Turned
<1>5. overlapped' = IF InFlight(r.msg) THEN overlapped \cup ({r.msg} \ {0}) ELSE overlapped BY <1>1 DEF Begin
<1>6. CardShown' BY <1>0, <1>2, ShownStep
<1>7. StaleIsTold'
  <2>1. CardGone' <=> CardGone BY <1>0a, <1>1, SameKeeps
  <2>2. RoomExists(Thread)' <=> RoomExists(Thread) BY <1>2 DEF RoomExists
  <2>3. QED BY <1>0, <1>2, <1>3, <2>1, <2>2, StaleStep
<1>8. ScreensFollow'
  <2> SUFFICES ASSUME NEW m \in DOMAIN messages', Clean(m)'
               PROVE  /\ ~InFlight(m)' => AsStored(messages'[m], shown'[m])
                      /\ \A p \in Request : requests'[p] # Idle /\ requests'[p].msg = m
                              => Leaves(requests'[p], messages'[m], shown'[m])
    BY DEF ScreensFollow, AsStored, Leaves, Owing
  <2>1. m \in DOMAIN messages /\ m # 0 /\ m \notin overlapped' /\ Clean(m)
    <3>1. m \in DOMAIN messages /\ m # 0 BY <1>0a, <1>2, MessageIds
    <3>2. QED BY <1>2, <1>5, <3>1 DEF Clean, RoomExists
  <2>2. InFlight(m) => InFlight(m)' BY <1>3, <1>4 DEF InFlight
  <2>3. ~InFlight(m) => AsStored(messages[m], shown[m]) BY <1>0, <2>1 DEF ScreensFollow
  <2>4. \A p \in Request : requests[p] # Idle /\ requests[p].msg = m => Leaves(requests[p], messages[m], shown[m])
    BY <1>0, <2>1 DEF ScreensFollow
  <2>5. r.msg = m => Leaves(r, messages[m], shown[m])
    <3> SUFFICES ASSUME r.msg = m PROVE Leaves(r, messages[m], shown[m]) OBVIOUS
    <3>1. ~InFlight(m) BY <1>5, <2>1
    <3>2. AsStored(messages[m], shown[m]) BY <2>3, <3>1
    <3>3. r.step = "save" /\ (r.op = "react" => r.content = messages[m].content) BY <1>1 DEF Starts
    <3>4. QED BY <3>2, <3>3 DEF Leaves
  <2>6. QED BY <1>2, <1>4, <2>2, <2>3, <2>4, <2>5
<1>9. Accounted'
  <2>1. Lasting BY <1>1, SameLasting
  <2>2. r.step = "save" /\ KnowsMessage(r) BY <1>1 DEF Starts
  <2>3. Tells(r)' = {} BY <2>2 DEF Tells
  <2>4. KnowsMessage(r)' BY <1>2, <1>5, <2>2 DEF KnowsMessage
  <2>5. overlapped \subseteq overlapped' BY <1>5
  <2>6. QED BY <1>0, <1>1, <1>2, <1>3, <2>1, <2>3, <2>4, <2>5, AccountSame
<1>10. QED BY <1>6, <1>7, <1>8, <1>9 DEF Follows

LEMMA EndsFollow ==
    ASSUME IInv, TypeOK', Keeps, NEW q \in Request, Ends(q)
    PROVE  Follows'
<1>0. TypeOK /\ RequestsFit /\ OneCard /\ OneHand /\ CardShown /\ StaleIsTold /\ ScreensFollow /\ Accounted BY DEF IInv
<1>1. Moves(q, Idle) BY EndMoves
<1>2. requests[q] # Idle /\ requests[q] \in Requests BY <1>0, Busy DEF Ends
<1>3. shown' = shown /\ cardStale' = cardStale /\ listStale' = listStale /\ reactionsStale' = reactionsStale BY DEF Ends, screenVars
<1>4. missed' \/ missed' = missed BY DEF Ends
<1>5. requests[q].step \in {"save", "card"} /\ (requests[q].step = "card" => missed' \/ CardGone \/ thread = Gone) BY DEF Ends
<1>6. ~TellsList(requests[q]) /\ Tells(requests[q]) = {} /\ ~Owing(requests[q]) /\ (requests[q].step # "card" => ~TellsCard(requests[q]))
      /\ \A m : ~TellsReactions(requests[q], m)
  BY <1>2, <1>5, Silent
<1>7. CardShown' BY <1>0, <1>3, ShownStep
<1>8. StaleIsTold'
  <2>1. missed \in BOOLEAN /\ missed' \in BOOLEAN BY <1>0 DEF TypeOK
  <2>2. cardStale' /\ ~missed' /\ ~CardGone /\ RoomExists(Thread) => cardStale /\ ~missed /\ ~TellsCard(requests[q])
    BY <1>3, <1>4, <1>5, <1>6, <2>1, Bounds DEF RoomExists
  <2>3. listStale' /\ ~missed' => listStale /\ ~missed /\ ~TellsList(requests[q]) BY <1>3, <1>4, <1>6, <2>1
  <2>4. QED BY <1>0, <1>1, <1>3, <1>6, <2>2, <2>3, MoveStale
<1>9. ScreensFollow'
  <2>1. PICK k : k = requests[q].msg OBVIOUS
  <2>2. Leaves(requests[q], messages[k], shown[k]) => AsStored(messages[k], shown'[k]) BY <1>3, <1>6 DEF Leaves
  <2>3. QED BY <1>0, <1>1, <1>3, <2>1, <2>2, MoveScreen
<1>10. Accounted' BY <1>0, <1>1, <1>6, MoveAccount DEF Ends
<1>11. QED BY <1>7, <1>8, <1>9, <1>10 DEF Follows

LEMMA TearsFollow ==
    ASSUME IInv, TypeOK', Keeps, NEW q \in Request, Tears(q)
    PROVE  Follows'
<1>0. TypeOK /\ RequestsFit /\ OneCard /\ OneHand /\ CardShown /\ StaleIsTold /\ ScreensFollow /\ Accounted BY DEF IInv
<1>0a. DbType BY <1>0, TypeParts
<1>1. /\ requests[q] \in RemoveRequest /\ requests[q].step = "room" /\ Turns(q, Idle)
      /\ torn' = torn \cup ({requests[q].msg} \ {0})
      /\ UNCHANGED dbVars /\ UNCHANGED screenVars /\ UNCHANGED noteVars /\ overlapped' = overlapped /\ missed' = missed
  BY DEF Tears
<1>2. /\ messages' = messages /\ thread' = thread /\ kind' = kind /\ shown' = shown
      /\ cardStale' = cardStale /\ listStale' = listStale /\ reactionsStale' = reactionsStale
  BY <1>1 DEF dbVars, screenVars
<1>3. requests[q] # Idle /\ requests[q] \in Requests BY <1>1, Kinds, Bounds
<1>4. ~TellsList(requests[q]) /\ Tells(requests[q]) = {} /\ ~TellsCard(requests[q]) /\ \A m : ~TellsReactions(requests[q], m)
  BY <1>1, <1>3, Silent
<1>5. CardShown' BY <1>0, <1>2, ShownStep
<1>6. StaleIsTold'
  <2>1. CardGone' <=> CardGone BY <1>0a, <1>1, SameKeeps
  <2>2. RoomExists(Thread)' <=> RoomExists(Thread) BY <1>2 DEF RoomExists
  <2>3. QED BY <1>0, <1>1, <1>2, <1>4, <2>1, <2>2, StaleStep
<1>7. ScreensFollow'
  <2>1. PICK k : k = requests[q].msg OBVIOUS
  <2>2. \A m \in DOMAIN messages' : Clean(m)' => Clean(m) BY <1>1, <1>2 DEF Clean, RoomExists
  <2>3. ~Clean(k)'
    <3>1. k \notin DOMAIN messages \/ k \in torn' BY <1>0a, <1>1, <2>1, MessageIds
    <3>2. QED BY <1>2, <3>1 DEF Clean
  <2>4. \A m \in DOMAIN messages : m # k /\ Clean(m)' =>
           messages'[m].deleted = messages[m].deleted /\ messages'[m].content = messages[m].content /\ shown'[m] = shown[m]
    BY <1>2
  <2>5. QED BY <1>0, <1>1, <1>3, <2>1, <2>2, <2>3, <2>4, ScreenStep
<1>8. Accounted'
  <2>1. Lasting BY <1>1, SameLasting
  <2>2. QED BY <1>0, <1>1, <1>2, <1>4, <2>1, AccountSame
<1>9. QED BY <1>5, <1>6, <1>7, <1>8 DEF Follows

LEMMA SavesMessageFollow ==
    ASSUME IInv, TypeOK', OneHand', Keeps, NEW q \in Request, SavesMessage(q)
    PROVE  Follows'
<1> DEFINE r == requests[q]
<1>0. TypeOK /\ RequestsFit /\ OneCard /\ OneHand /\ CardShown /\ StaleIsTold /\ ScreensFollow /\ Accounted BY DEF IInv
<1>0a. DbType BY <1>0, TypeParts
<1>1. /\ r \in SendRequest /\ r.step = "save" /\ messages' = Append(messages, NewMessage(r))
      /\ Turns(q, [r EXCEPT !.step = "publish", !.msg = Len(messages) + 1])
      /\ cardStale' = (cardStale \/ r.room = Thread) /\ listStale' = (listStale \/ r.room = Thread)
  BY DEF SavesMessage
<1>2. /\ thread' = thread /\ shown' = shown /\ reactionsStale' = reactionsStale /\ overlapped' = overlapped
      /\ torn' = torn /\ missed' = missed
  BY DEF SavesMessage
<1>3. r \in Requests /\ r # Idle /\ r.op = "send" /\ r.content \in Content BY <1>1, Kinds, Bounds DEF SendRequest
<1>4. Refers(r) BY <1>0, <1>3, RequestsParts
<1>5. r.msg = 0 BY <1>1, <1>3, <1>4 DEF Refers
<1>6. PICK n : n = Len(messages) + 1 OBVIOUS
<1>7. n \in MessageId BY <1>0, <1>1, <1>3, <1>6, RoomLeft
<1>8. NewMessage(r) \in Message BY <1>1, NewMessageType
<1>9. /\ DOMAIN messages' = DOMAIN messages \cup {n} /\ n \notin DOMAIN messages
      /\ messages'[n] = NewMessage(r) /\ \A m \in DOMAIN messages : messages'[m] = messages[m]
  BY <1>0a, <1>1, <1>6, <1>8, Appended
<1>10. NewMessage(r).deleted = FALSE BY DEF NewMessage
<1>11. PICK x : x = [r EXCEPT !.step = "publish", !.msg = n] OBVIOUS
<1>12. x \in SendRequest /\ x.room = r.room /\ x.step = "publish" /\ x.msg = n /\ x.op = "send"
  BY <1>1, <1>3, <1>7, <1>11, Named
<1>13. x \in Requests /\ x # Idle /\ Turns(q, x) BY <1>1, <1>6, <1>11, <1>12, Kinds, Bounds
<1>14. ~TellsList(r) /\ ~TellsCard(r) /\ \A m : ~TellsReactions(r, m) BY <1>1, <1>3, Silent
<1>15. CardShown' BY <1>0, <1>2, ShownStep
<1>16. StaleIsTold'
  <2>1. CardGone => thread = None \/ CardGone' BY DEF Keeps
  <2>2. RoomExists(Thread)' <=> RoomExists(Thread) BY <1>2 DEF RoomExists
  <2>3. r.room = Thread => TellsList(x)' /\ TellsCard(x)' BY <1>12 DEF TellsList, TellsCard
  <2>4. RoomExists(Thread) => thread # None BY Bounds DEF RoomExists
  <2>5. listStale' /\ ~missed' =>
              \/ x # Idle /\ TellsList(x)'
              \/ /\ listStale /\ ~missed
                 /\ requests[q] # Idle => ~TellsList(requests[q])
                 /\ RoomExists(Thread)' <=> RoomExists(Thread)
    BY <1>1, <1>2, <1>13, <1>14, <2>2, <2>3
  <2>6. cardStale' /\ ~missed' /\ ~CardGone' /\ RoomExists(Thread)' =>
              \/ x # Idle /\ TellsCard(x)'
              \/ /\ cardStale /\ ~missed /\ ~CardGone /\ RoomExists(Thread)
                 /\ requests[q] # Idle => ~TellsCard(requests[q])
    BY <1>1, <1>2, <1>13, <1>14, <2>1, <2>2, <2>3, <2>4
  <2>7. \A m \in reactionsStale' :
              \/ x # Idle /\ TellsReactions(x, m)
              \/ m \in reactionsStale /\ (requests[q] # Idle => ~TellsReactions(requests[q], m))
    BY <1>2, <1>14
  <2>8. \A m \in DOMAIN messages : messages'[m].room = messages[m].room BY <1>9
  <2>9. QED BY <1>0, <1>13, <2>5, <2>6, <2>7, <2>8, StaleStep
<1>17. ScreensFollow' BY <1>0, <1>2, <1>3, <1>5, <1>6, <1>9, <1>10, <1>12, <1>13, ScreenAppend
<1>18. Accounted' BY <1>0, SavesMessageAccount
<1>19. QED BY <1>15, <1>16, <1>17, <1>18 DEF Follows

LEMMA SavesThreadFollow ==
    ASSUME IInv, TypeOK', OneHand', Keeps, NEW q \in Request, SavesThread(q)
    PROVE  Follows'
<1> DEFINE r == requests[q]
<1>0. TypeOK /\ RequestsFit /\ OneCard /\ OneHand /\ CardShown /\ StaleIsTold /\ ScreensFollow /\ Accounted BY DEF IInv
<1>0a. DbType BY <1>0, TypeParts
<1>1. /\ r \in CreateRequest /\ r.step = "save" /\ messages' = Append(messages, Announces(r.user))
      /\ Turns(q, [r EXCEPT !.step = "publish", !.msg = Len(messages) + 1])
  BY DEF SavesThread
<1>2. /\ kind' = kind /\ shown' = shown /\ reactionsStale' = reactionsStale /\ overlapped' = overlapped
      /\ torn' = torn /\ UNCHANGED noteVars
  BY DEF SavesThread
<1>3. r \in Requests /\ r # Idle /\ r.op = "create" /\ r.user \in User BY <1>1, Kinds, Bounds DEF CreateRequest
<1>4. Refers(r) /\ KnowsCard(r) BY <1>0, <1>3, RequestsParts
<1>5. r.msg = 0 /\ thread = None BY <1>1, <1>3, <1>4 DEF Refers, KnowsCard
<1>6. PICK n : n = Len(messages) + 1 OBVIOUS
<1>7. n \in MessageId BY <1>0, <1>1, <1>3, <1>6, RoomLeft
<1>8. Announces(r.user) \in Message BY <1>3, AnnouncesType
<1>9. /\ DOMAIN messages' = DOMAIN messages \cup {n} /\ n \notin DOMAIN messages
      /\ messages'[n] = Announces(r.user) /\ \A m \in DOMAIN messages : messages'[m] = messages[m]
  BY <1>0a, <1>1, <1>6, <1>8, Appended
<1>10. Announces(r.user).deleted = FALSE /\ Announces(r.user).reply = 0 BY DEF Announces
<1>11. PICK x : x = [r EXCEPT !.step = "publish", !.msg = n] OBVIOUS
<1>12. x \in CreateRequest /\ x.step = "publish" /\ x.msg = n /\ x.op = "create"
  BY <1>1, <1>3, <1>7, <1>11, Named
<1>13. x \in Requests /\ x # Idle /\ Turns(q, x) BY <1>1, <1>6, <1>11, <1>12, Kinds, Bounds
<1>14. (\A m : ~TellsReactions(r, m)) /\ Tells(r) = {} BY <1>1, <1>3, Silent
<1>15. CardShown' BY <1>0, <1>2, ShownStep
<1>16. StaleIsTold'
  <2>1. TellsList(x)' /\ TellsCard(x)' BY <1>12 DEF TellsList, TellsCard
  <2>2. \A m \in reactionsStale' :
              \/ x # Idle /\ TellsReactions(x, m)
              \/ m \in reactionsStale /\ (requests[q] # Idle => ~TellsReactions(requests[q], m))
    BY <1>2, <1>14
  <2>3. \A m \in DOMAIN messages : messages'[m].room = messages[m].room BY <1>9
  <2>4. QED BY <1>0, <1>13, <2>1, <2>2, <2>3, StaleStep
<1>17. ScreensFollow' BY <1>0, <1>2, <1>3, <1>5, <1>6, <1>9, <1>10, <1>12, <1>13, ScreenAppend
<1>18. Accounted'
  <2>1. Lasting /\ \A m \in DOMAIN messages : messages'[m].mentions = messages[m].mentions BY <1>2, <1>9, AppendLasting
  <2>2. Tells(x)' = {} BY <1>12 DEF Tells
  <2>3. KnowsMessage(x)' BY <1>9, <1>10, <1>12 DEF KnowsMessage
  <2>4. QED BY <1>0, <1>2, <1>13, <1>14, <2>1, <2>2, <2>3, AccountSame
<1>19. QED BY <1>15, <1>16, <1>17, <1>18 DEF Follows

\* A change of one message of request q.
LEMMA ChangeStale ==
    ASSUME TypeOK, TypeOK', RequestsFit, StaleIsTold, Keeps, NEW q \in Request, NEW x \in Requests \cup {Idle}, Turns(q, x),
           \A m \in DOMAIN messages : messages'[m].room = messages[m].room,
           requests[q] \in Requests, requests[q].step = "save",
           thread' = thread, UNCHANGED <<listStale, reactionsStale, missed>>,
           cardStale' /\ ~CardGone' => cardStale \/ (x # Idle /\ TellsCard(x)')
    PROVE  StaleIsTold'
<1>1. ~TellsList(requests[q]) /\ ~TellsCard(requests[q]) /\ \A m : ~TellsReactions(requests[q], m) BY Silent
<1>2. RoomExists(Thread)' <=> RoomExists(Thread) BY DEF RoomExists
<1>3. RoomExists(Thread) /\ CardGone => CardGone' BY Bounds DEF Keeps, RoomExists
<1>4. QED BY <1>1, <1>2, <1>3, StaleStep

LEMMA BodyIsNumber ==
    ASSUME NEW g \in Message
    PROVE  g.content \in Nat
<1>1. g.content \in Content \cup {Announcement} BY DEF Message
<1>2. CASE g.content \in Content BY <1>2, Bounds
<1>3. CASE g.content = Announcement BY <1>3 DEF Announcement
<1>4. QED BY <1>1, <1>2, <1>3

LEMMA SavesEditFollow ==
    ASSUME IInv, TypeOK', OneHand', Keeps, NEW q \in Request, SavesEdit(q)
    PROVE  Follows'
<1> DEFINE r == requests[q] g == messages[r.msg]
<1>0. TypeOK /\ RequestsFit /\ OneCard /\ OneHand /\ CardShown /\ StaleIsTold /\ ScreensFollow /\ Accounted BY DEF IInv
<1>0a. DbType BY <1>0, TypeParts
<1>1. /\ r \in EditRequest /\ r.step = "save" /\ messages' = [messages EXCEPT ![r.msg] = Edited(g, r)]
      /\ Turns(q, [r EXCEPT !.step = "publish"])
  BY DEF SavesEdit, Edited
<1>2. /\ thread' = thread /\ shown' = shown /\ cardStale' = cardStale /\ listStale' = listStale
      /\ reactionsStale' = reactionsStale /\ overlapped' = overlapped /\ torn' = torn /\ missed' = missed
  BY DEF SavesEdit, screenVars
<1>3. r \in Requests /\ r # Idle /\ r.op = "edit" /\ r.msg \in MessageId /\ r.content \in Content BY <1>1, Kinds, Bounds DEF EditRequest
<1>4. PICK k : k = r.msg OBVIOUS
<1>5. k \in DOMAIN messages BY <1>0, <1>3, <1>4, Addressed DEF MessageId
<1>6. g \in Message BY <1>0a, <1>4, <1>5, MessageIds
<1>7. PICK d : d = Edited(g, r) OBVIOUS
<1>8. /\ d \in Message /\ d.room = g.room /\ d.deleted = g.deleted
      /\ d.content = IF g.deleted THEN g.content ELSE r.content
  BY <1>1, <1>6, <1>7, EditedMessage
<1>9. messages' = [messages EXCEPT ![k] = d] BY <1>1, <1>4, <1>7
<1>10. /\ DOMAIN messages' = DOMAIN messages /\ messages'[k] = d
       /\ \A m \in DOMAIN messages : m # k => messages'[m] = messages[m]
  BY <1>0a, <1>5, <1>8, <1>9, Changed
<1>11. \A m \in DOMAIN messages : messages'[m].room = messages[m].room BY <1>4, <1>8, <1>10
<1>12. PICK x : x = [r EXCEPT !.step = "publish"] OBVIOUS
<1>13. x \in EditRequest /\ x.op = "edit" /\ x.msg = k /\ x.step = "publish" /\ x.content = r.content
  BY <1>1, <1>3, <1>4, <1>12, Stepped
<1>14. Turns(q, x) /\ x \in Requests /\ x # Idle BY <1>1, <1>12, <1>13, Kinds, Bounds
<1>15. CardShown' BY <1>0, <1>2, ShownStep
<1>16. StaleIsTold'
  <2>1. UNCHANGED <<listStale, reactionsStale, missed>> BY <1>2
  <2>2. cardStale' /\ ~CardGone' => cardStale \/ (x # Idle /\ TellsCard(x)') BY <1>2
  <2>3. requests[q] \in Requests /\ requests[q].step = "save" BY <1>1, <1>3
  <2>4. thread' = thread BY <1>2
  <2> HIDE DEF r, g
  <2>5. QED BY <1>0, <1>11, <1>14, <2>1, <2>2, <2>3, <2>4, ChangeStale
<1>17. ScreensFollow'
  <2>1. \A m \in DOMAIN messages' : Clean(m)' => Clean(m) BY <1>2, <1>10, <1>11 DEF Clean, RoomExists
  <2>2. ~Owing(r) BY <1>1, <1>3 DEF Owing
  <2>3. Leaves(r, g, shown[k]) => Leaves(x, d, shown[k])
    <3> SUFFICES ASSUME Leaves(r, g, shown[k]) PROVE Leaves(x, d, shown[k]) OBVIOUS
    <3>1. shown[k] = IF g.deleted THEN Hidden ELSE g.content BY <2>2 DEF Leaves, AsStored
    <3>2. g.content # Hidden BY <1>6, BodyIsNumber, Bounds
    <3>3. IF d.deleted THEN shown[k] = Hidden ELSE shown[k] # Hidden /\ d.content = x.content BY <1>8, <1>13, <3>1, <3>2
    <3>4. Owing(x) BY <1>13 DEF Owing
    <3>5. QED BY <1>13, <3>3, <3>4 DEF Leaves
  <2>4. \A m \in DOMAIN messages : m # k /\ Clean(m)' =>
           messages'[m].deleted = messages[m].deleted /\ messages'[m].content = messages[m].content /\ shown'[m] = shown[m]
    BY <1>2, <1>10
  <2>5. Clean(k)' /\ Clean(k) /\ Leaves(requests[q], messages[k], shown[k]) =>
           IF x = Idle THEN AsStored(messages'[k], shown'[k]) ELSE Leaves(x, messages'[k], shown'[k])
    BY <1>2, <1>4, <1>10, <1>14, <2>3
  <2>6. QED BY <1>0, <1>3, <1>4, <1>13, <1>14, <2>1, <2>4, <2>5, ScreenStep
<1>18. Accounted' BY <1>0, SavesEditAccount
<1>19. QED BY <1>15, <1>16, <1>17, <1>18 DEF Follows

LEMMA SavesDeletionFollow ==
    ASSUME IInv, TypeOK', OneHand', Keeps, NEW q \in Request, SavesDeletion(q)
    PROVE  Follows'
<1> DEFINE r == requests[q] g == messages[r.msg]
<1>0. TypeOK /\ RequestsFit /\ OneCard /\ OneHand /\ CardShown /\ StaleIsTold /\ ScreensFollow /\ Accounted BY DEF IInv
<1>0a. DbType BY <1>0, TypeParts
<1>1. /\ r \in DeleteRequest /\ r.step = "save" /\ messages' = [messages EXCEPT ![r.msg] = [g EXCEPT !.deleted = TRUE]]
      /\ Turns(q, [r EXCEPT !.step = "publish"]) /\ cardStale' = (cardStale \/ g.room = Thread) /\ Live(r.msg)
  BY DEF SavesDeletion
<1>2. /\ thread' = thread /\ kind' = kind /\ shown' = shown /\ listStale' = listStale
      /\ reactionsStale' = reactionsStale /\ overlapped' = overlapped /\ torn' = torn /\ missed' = missed /\ UNCHANGED noteVars
  BY DEF SavesDeletion
<1>3. r \in Requests /\ r # Idle /\ r.op = "delete" /\ r.msg \in MessageId BY <1>1, Kinds, Bounds DEF DeleteRequest
<1>4. PICK k : k = r.msg OBVIOUS
<1>5. k \in DOMAIN messages BY <1>0, <1>3, <1>4, Addressed DEF MessageId
<1>6. g \in Message BY <1>0a, <1>4, <1>5, MessageIds
<1>7. PICK d : d = [g EXCEPT !.deleted = TRUE] OBVIOUS
<1>8. /\ d \in Message /\ d.room = g.room /\ d.deleted /\ d.content = g.content /\ d.author = g.author
      /\ d.reply = g.reply /\ d.mentions = g.mentions
  BY <1>6, <1>7, DeletedMessage
<1>9. messages' = [messages EXCEPT ![k] = d] BY <1>1, <1>4, <1>7
<1>10. /\ DOMAIN messages' = DOMAIN messages /\ messages'[k] = d
       /\ \A m \in DOMAIN messages : m # k => messages'[m] = messages[m]
  BY <1>0a, <1>5, <1>8, <1>9, Changed
<1>11. \A m \in DOMAIN messages : messages'[m].room = messages[m].room BY <1>4, <1>8, <1>10
<1>12. PICK x : x = [r EXCEPT !.step = "publish"] OBVIOUS
<1>13. x \in DeleteRequest /\ x.op = "delete" /\ x.msg = k /\ x.step = "publish"
  BY <1>1, <1>3, <1>4, <1>12, Stepped
<1>14. Turns(q, x) /\ x \in Requests /\ x # Idle BY <1>1, <1>12, <1>13, Kinds, Bounds
<1>15. CardShown' BY <1>0, <1>2, ShownStep
<1>16. StaleIsTold'
  <2>1. g.room = Thread => TellsCard(x)' BY <1>8, <1>10, <1>13 DEF TellsCard
  <2>2. cardStale' => cardStale \/ g.room = Thread BY <1>1
  <2>3. cardStale' /\ ~CardGone' => cardStale \/ (x # Idle /\ TellsCard(x)') BY <1>14, <2>1, <2>2
  <2>4. UNCHANGED <<listStale, reactionsStale, missed>> BY <1>2
  <2>5. requests[q] \in Requests /\ requests[q].step = "save" BY <1>1, <1>3
  <2>6. thread' = thread BY <1>2
  <2> HIDE DEF r, g
  <2>7. QED BY <1>0, <1>11, <1>14, <2>3, <2>4, <2>5, <2>6, ChangeStale
<1>17. ScreensFollow'
  <2>1. \A m \in DOMAIN messages' : Clean(m)' => Clean(m) BY <1>2, <1>10, <1>11 DEF Clean, RoomExists
  <2>3. \A s : Leaves(x, d, s) BY <1>8, <1>13 DEF Leaves, Owing
  <2>4. \A m \in DOMAIN messages : m # k /\ Clean(m)' =>
           messages'[m].deleted = messages[m].deleted /\ messages'[m].content = messages[m].content /\ shown'[m] = shown[m]
    BY <1>2, <1>10
  <2>5. Clean(k)' /\ Clean(k) /\ Leaves(requests[q], messages[k], shown[k]) =>
           IF x = Idle THEN AsStored(messages'[k], shown'[k]) ELSE Leaves(x, messages'[k], shown'[k])
    BY <1>2, <1>10, <1>14, <2>3
  <2>6. QED BY <1>0, <1>3, <1>4, <1>13, <1>14, <2>1, <2>4, <2>5, ScreenStep
<1>18. Accounted'
  <2>1. Lasting BY <1>2, <1>4, <1>8, <1>10 DEF Lasting
  <2>2. \A m \in DOMAIN messages : messages'[m].mentions = messages[m].mentions BY <1>4, <1>8, <1>10
  <2>3. Tells(r) = {} BY <1>1, <1>3, Silent
  <2>4. Tells(x)' = {} /\ KnowsMessage(x)' BY <1>13 DEF Tells, KnowsMessage
  <2>5. QED BY <1>0, <1>2, <1>14, <2>1, <2>2, <2>3, <2>4, AccountSame
<1>19. QED BY <1>15, <1>16, <1>17, <1>18 DEF Follows

LEMMA SavesReactionFollow ==
    ASSUME IInv, TypeOK', Keeps, NEW q \in Request, SavesReaction(q)
    PROVE  Follows'
<1>0. TypeOK /\ RequestsFit /\ OneCard /\ OneHand /\ CardShown /\ StaleIsTold /\ ScreensFollow /\ Accounted BY DEF IInv
<1>1. PICK r, x : r = requests[q] /\ x = [requests[q] EXCEPT !.step = "publish"] OBVIOUS
<1>2. r \in ReactRequest /\ r.step = "save" /\ reactionsStale' = reactionsStale \cup {r.msg} BY <1>1 DEF SavesReaction
<1>3. shown' = shown /\ cardStale' = cardStale /\ listStale' = listStale /\ missed' = missed BY DEF SavesReaction
<1>4. UNCHANGED noteVars BY DEF SavesReaction
<1>5. Moves(q, x) BY <1>0, <1>1, ReactionMoves
<1>6. r \in Requests /\ r # Idle /\ r.op = "react" BY <1>2, Kinds, Bounds DEF ReactRequest
<1>7. x \in ReactRequest /\ x.op = "react" /\ x.msg = r.msg /\ x.step = "publish" /\ x.content = r.content
  BY <1>1, <1>2, <1>6, Stepped
<1>8. x # Idle BY <1>7, Kinds, Bounds
<1>9. /\ ~TellsList(r) /\ ~TellsCard(r) /\ ~Owing(r) /\ Tells(r) = {}
      /\ \A m : ~TellsReactions(r, m)
  BY <1>2, <1>6, Silent
<1>10. CardShown' BY <1>0, <1>3, ShownStep
<1>11. StaleIsTold'
  <2>1. \A m \in reactionsStale' : \/ x # Idle /\ TellsReactions(x, m)
                                   \/ m \in reactionsStale /\ ~TellsReactions(requests[q], m)
    BY <1>1, <1>2, <1>7, <1>8, <1>9 DEF TellsReactions
  <2>2. QED BY <1>0, <1>1, <1>3, <1>5, <1>9, <2>1, MoveStale
<1>12. ScreensFollow'
  <2>1. PICK k : k = r.msg OBVIOUS
  <2>2. Leaves(r, messages[k], shown[k]) => Leaves(x, messages[k], shown[k])
    <3>1. ~Owing(x) BY <1>7 DEF Owing
    <3>2. QED BY <1>6, <1>7, <1>9, <3>1 DEF Leaves
  <2>3. QED BY <1>0, <1>1, <1>3, <1>5, <1>8, <2>1, <2>2, MoveScreen
<1>13. Accounted'
  <2>1. Tells(x) = {} /\ KnowsMessage(x) BY <1>7 DEF Tells, KnowsMessage
  <2>2. QED BY <1>0, <1>1, <1>4, <1>5, <1>9, <2>1, MoveAccount
<1>14. QED BY <1>10, <1>11, <1>12, <1>13 DEF Follows

LEMMA SavesUpdateFollow ==
    ASSUME IInv, TypeOK', Keeps, NEW q \in Request, SavesUpdate(q)
    PROVE  Follows'
<1>0. TypeOK /\ RequestsFit /\ OneCard /\ OneHand /\ CardShown /\ StaleIsTold /\ ScreensFollow /\ Accounted BY DEF IInv
<1>0a. DbType /\ DbType' BY <1>0, TypeParts DEF TypeOK, DbType
<1>1. PICK r, x : r = requests[q] /\ x = [requests[q] EXCEPT !.step = "publish"] OBVIOUS
<1>2. /\ r \in RenameRequest /\ r.step = "save" /\ Turns(q, x)
      /\ thread' = IF RoomExists(Thread) THEN [thread EXCEPT !.name = r.name, !.closed = r.closed] ELSE thread
      /\ cardStale' = (cardStale \/ RoomExists(Thread)) /\ listStale' = (listStale \/ RoomExists(Thread))
  BY <1>1 DEF SavesUpdate
<1>3. /\ kind' = kind /\ messages' = messages /\ shown' = shown /\ reactionsStale' = reactionsStale
      /\ overlapped' = overlapped /\ torn' = torn /\ missed' = missed
  BY DEF SavesUpdate
<1>4. UNCHANGED noteVars BY DEF SavesUpdate
<1>5. r \in Requests /\ r # Idle /\ r.op = "rename" BY <1>2, Kinds, Bounds DEF RenameRequest
<1>6. KnowsCard(r) BY <1>0, <1>1, <1>5, RequestsParts
<1>7. x \in RenameRequest /\ x.op = "rename" /\ x.msg = r.msg /\ x.step = "publish" BY <1>1, <1>2, <1>5, Stepped
<1>8. x # Idle /\ x \in Requests BY <1>7, Kinds, Bounds
<1>9. /\ ~TellsList(r) /\ ~TellsCard(r) /\ ~Owing(r) /\ Tells(r) = {}
      /\ \A m : ~TellsReactions(r, m)
  BY <1>2, <1>5, Silent
<1>10. RoomExists(Thread)' <=> RoomExists(Thread)
  <2>1. CASE RoomExists(Thread)
    <3>1. thread \in ThreadRecord BY <1>0, <2>1, Bounds DEF RoomExists, TypeOK
    <3>2. thread' \in ThreadRecord BY <1>2, <2>1, <3>1 DEF ThreadRecord, RenameRequest
    <3>3. QED BY <2>1, <3>2, Bounds DEF RoomExists
  <2>2. CASE ~RoomExists(Thread) BY <1>2, <2>2 DEF RoomExists
  <2>3. QED BY <2>1, <2>2
<1>11. CardShown' BY <1>0, <1>3, ShownStep
<1>12. CardGone' <=> CardGone BY <1>3 DEF CardGone, Card
<1>13. StaleIsTold'
  <2>1. RoomExists(Thread)' => TellsList(x)' BY <1>7 DEF TellsList
  <2>2. r.msg # 0 => TellsCard(x)' BY <1>7 DEF TellsCard
  <2>3. r.msg = 0 => CardGone BY <1>5, <1>6 DEF KnowsCard
  <2>4. listStale' => listStale \/ RoomExists(Thread) BY <1>2
  <2>5. listStale' /\ ~missed' =>
              \/ x # Idle /\ TellsList(x)'
              \/ /\ listStale /\ ~missed
                 /\ requests[q] # Idle => ~TellsList(requests[q])
                 /\ RoomExists(Thread)' <=> RoomExists(Thread)
    BY <1>1, <1>3, <1>8, <1>9, <1>10, <2>1, <2>4
  <2>6. cardStale' /\ ~missed' /\ ~CardGone' /\ RoomExists(Thread)' =>
              \/ x # Idle /\ TellsCard(x)'
              \/ /\ cardStale /\ ~missed /\ ~CardGone /\ RoomExists(Thread)
                 /\ requests[q] # Idle => ~TellsCard(requests[q])
    BY <1>8, <1>12, <2>2, <2>3
  <2>7. \A m \in reactionsStale' :
              \/ x # Idle /\ TellsReactions(x, m)
              \/ m \in reactionsStale /\ (requests[q] # Idle => ~TellsReactions(requests[q], m))
    BY <1>1, <1>3, <1>9
  <2>8. \A m \in DOMAIN messages : messages'[m].room = messages[m].room BY <1>3
  <2>9. QED BY <1>0, <1>2, <1>8, <2>5, <2>6, <2>7, <2>8, StaleStep
<1>14. ScreensFollow'
  <2>1. PICK k : k = r.msg OBVIOUS
  <2>2. \A m \in DOMAIN messages' : Clean(m)' => Clean(m)
    <3>1. \A room : room = Main \/ room = Thread => (RoomExists(room)' <=> RoomExists(room)) BY <1>10 DEF RoomExists
    <3>2. \A m \in DOMAIN messages : messages[m].room = Main \/ messages[m].room = Thread BY <1>0a, MessageIds DEF Message
    <3>3. QED BY <1>3, <3>1, <3>2 DEF Clean, RoomExists
  <2>3. Leaves(r, messages[k], shown[k]) => Leaves(x, messages'[k], shown'[k])
    <3>1. ~Owing(x) BY <1>7 DEF Owing
    <3>2. QED BY <1>3, <1>5, <1>7, <1>9, <3>1 DEF Leaves
  <2>4. \A m \in DOMAIN messages : m # k /\ Clean(m)' =>
           messages'[m].deleted = messages[m].deleted /\ messages'[m].content = messages[m].content /\ shown'[m] = shown[m]
    BY <1>3
  <2>8. requests[q] # Idle /\ k = requests[q].msg /\ x \in Requests \cup {Idle} /\ (x # Idle => x.msg = k) BY <1>1, <1>5, <1>7, <1>8, <2>1
  <2>9. Clean(k)' /\ Clean(k) /\ Leaves(requests[q], messages[k], shown[k]) =>
           IF x = Idle THEN AsStored(messages'[k], shown'[k]) ELSE Leaves(x, messages'[k], shown'[k])
    BY <1>1, <1>8, <2>3
  <2>10. QED BY <1>0, <1>2, <2>2, <2>4, <2>8, <2>9, ScreenStep
<1>15. Accounted'
  <2>1. Lasting BY <1>3 DEF Lasting
  <2>2. Tells(x)' = {} /\ KnowsMessage(x)' BY <1>7 DEF Tells, KnowsMessage
  <2>3. QED BY <1>0, <1>1, <1>2, <1>3, <1>4, <1>8, <1>9, <2>1, <2>2, AccountSame
<1>16. QED BY <1>11, <1>13, <1>14, <1>15 DEF Follows

LEMMA RemovesCardFollow ==
    ASSUME IInv, TypeOK', RequestsFit', Keeps, NEW q \in Request, RemovesCard(q)
    PROVE  Follows'
<1>0. TypeOK /\ RequestsFit /\ OneCard /\ OneHand /\ CardShown /\ StaleIsTold /\ ScreensFollow /\ Accounted BY DEF IInv
<1>0a. DbType /\ RequestType BY <1>0, TypeParts
<1>1. PICK r, x, k : r = requests[q] /\ x = [requests[q] EXCEPT !.step = "room"] /\ k = requests[q].msg OBVIOUS
<1>2. /\ r \in RemoveRequest /\ r.step = "save" /\ Turns(q, x)
      /\ messages' = IF k = 0 THEN messages ELSE [messages EXCEPT ![k] = [messages[k] EXCEPT !.deleted = TRUE]]
  BY <1>1 DEF RemovesCard
<1>3. /\ kind' = kind /\ thread' = thread /\ shown' = shown /\ reactionsStale' = reactionsStale /\ cardStale' = cardStale
      /\ listStale' = listStale /\ overlapped' = overlapped /\ torn' = torn /\ missed' = missed
  BY DEF RemovesCard, screenVars
<1>4. UNCHANGED noteVars BY DEF RemovesCard
<1>5. r \in Requests /\ r # Idle /\ r.op = "remove" BY <1>2, Kinds, Bounds DEF RemoveRequest
<1>6. KnowsCard(r) BY <1>0, <1>1, <1>5, RequestsParts
<1>7. x \in RemoveRequest /\ x.op = "remove" /\ x.msg = k /\ x.step = "room" BY <1>1, <1>2, <1>5, Stepped
<1>8. x # Idle /\ x \in Requests BY <1>7, Kinds, Bounds
<1>9. /\ DOMAIN messages' = DOMAIN messages
      /\ \A m \in DOMAIN messages : m # k => messages'[m] = messages[m]
      /\ k # 0 => k \in DOMAIN messages /\ messages'[k].deleted
      /\ \A m \in DOMAIN messages : /\ messages'[m].room = messages[m].room /\ messages'[m].author = messages[m].author
                                    /\ messages'[m].reply = messages[m].reply /\ messages'[m].mentions = messages[m].mentions
  <2>1. CASE k = 0
    <3>1. messages' = messages BY <1>2, <2>1
    <3>2. QED BY <2>1, <3>1
  <2>2. CASE k # 0
    <3>1. k \in DOMAIN messages BY <1>0, <1>1, <1>5, <2>2, Addressed
    <3>2. messages[k] \in Message BY <1>0a, <3>1, MessageIds
    <3>3. PICK d : d = [messages[k] EXCEPT !.deleted = TRUE] OBVIOUS
    <3>4. /\ d \in Message /\ d.deleted /\ d.room = messages[k].room /\ d.author = messages[k].author
          /\ d.reply = messages[k].reply /\ d.mentions = messages[k].mentions
      BY <3>2, <3>3, DeletedMessage
    <3>5. messages' = [messages EXCEPT ![k] = d] BY <1>2, <2>2, <3>3
    <3>6. /\ DOMAIN messages' = DOMAIN messages /\ messages'[k] = d
          /\ \A m \in DOMAIN messages : m # k => messages'[m] = messages[m]
      BY <1>0a, <3>1, <3>4, <3>5, Changed
    <3>7. QED BY <3>1, <3>4, <3>6
  <2>3. QED BY <2>1, <2>2
<1>10. CardShown' BY <1>0, <1>3, ShownStep
<1>11. CardGone'
  <2>1. requests'[q] = x BY <1>0a, <1>2, <1>8, Turned
  <2>2. KnowsCard(x)' BY <1>8, <2>1 DEF RequestsFit, KnowsCard
  <2>3. QED BY <1>7, <2>2 DEF KnowsCard
<1>12. StaleIsTold'
  <2>1. \A m \in DOMAIN messages : messages'[m].room = messages[m].room BY <1>9
  <2>2. UNCHANGED <<listStale, reactionsStale, missed>> BY <1>3
  <2>3. requests[q] \in Requests /\ requests[q].step = "save" BY <1>1, <1>2, <1>5
  <2>4. thread' = thread BY <1>3
  <2>5. QED BY <1>0, <1>2, <1>8, <1>11, <2>1, <2>2, <2>3, <2>4, ChangeStale
<1>13. ScreensFollow'
  <2>1. \A m \in DOMAIN messages' : Clean(m)' => Clean(m) BY <1>3, <1>9 DEF Clean, RoomExists
  <2>2. k \in DOMAIN messages => k # 0 BY <1>0a, MessageIds
  <2>3. Clean(k)' => k \in DOMAIN messages BY <1>9 DEF Clean
  <2>4. Clean(k)' => Leaves(x, messages'[k], shown'[k])
    <3> SUFFICES ASSUME Clean(k)' PROVE Leaves(x, messages'[k], shown'[k]) OBVIOUS
    <3>1. PICK g, s : g = messages'[k] /\ s = shown'[k] OBVIOUS
    <3>2. g.deleted BY <1>9, <2>2, <2>3, <3>1
    <3>3. Leaves(x, g, s) BY <1>7, <3>2 DEF Leaves, Owing
    <3>4. QED BY <3>1, <3>3
  <2>5. \A m \in DOMAIN messages : m # k /\ Clean(m)' =>
           messages'[m].deleted = messages[m].deleted /\ messages'[m].content = messages[m].content /\ shown'[m] = shown[m]
    BY <1>3, <1>9
  <2>8. requests[q] # Idle /\ k = requests[q].msg /\ x \in Requests \cup {Idle} /\ (x # Idle => x.msg = k) BY <1>1, <1>5, <1>7, <1>8
  <2>9. Clean(k)' /\ Clean(k) /\ Leaves(requests[q], messages[k], shown[k]) =>
           IF x = Idle THEN AsStored(messages'[k], shown'[k]) ELSE Leaves(x, messages'[k], shown'[k])
    BY <1>8, <2>4
  <2>10. Turns(q, x) BY <1>2
  <2>11. QED BY <1>0, <2>1, <2>5, <2>8, <2>9, <2>10, ScreenStep
<1>14. Accounted'
  <2>1. Lasting BY <1>3, <1>9 DEF Lasting
  <2>2. Tells(x)' = {} /\ KnowsMessage(x)' BY <1>7 DEF Tells, KnowsMessage
  <2>3. Tells(r) = {} BY <1>2, <1>5, Silent
  <2>4. QED BY <1>0, <1>1, <1>2, <1>3, <1>4, <1>8, <1>9, <2>1, <2>2, <2>3, AccountSame
<1>15. QED BY <1>10, <1>12, <1>13, <1>14 DEF Follows

LEMMA RemovesRoomFollow ==
    ASSUME IInv, TypeOK', OneCard', Keeps, NEW q \in Request, RemovesRoom(q)
    PROVE  Follows'
<1>0. TypeOK /\ RequestsFit /\ OneCard /\ OneHand /\ CardShown /\ StaleIsTold /\ ScreensFollow /\ Accounted BY DEF IInv
<1>0a. DbType /\ RequestType BY <1>0, TypeParts
<1>1. PICK r, x, k : r = requests[q] /\ x = [requests[q] EXCEPT !.step = "publish"] /\ k = requests[q].msg OBVIOUS
<1>2. /\ r \in RemoveRequest /\ r.step = "room" /\ Turns(q, x) /\ thread' = Gone
      /\ messages' = [n \in DOMAIN messages |-> Emptied(messages[n])]
  BY <1>1 DEF RemovesRoom, Emptied
<1>3. /\ kind' = kind /\ shown' = shown /\ reactionsStale' = reactionsStale /\ cardStale' = cardStale
      /\ overlapped' = overlapped /\ torn' = torn /\ missed' = missed
  BY DEF RemovesRoom
<1>4. UNCHANGED noteVars BY DEF RemovesRoom
<1>5. r \in Requests /\ r # Idle /\ r.op = "remove" BY <1>2, Kinds, Bounds DEF RemoveRequest
<1>7. x \in RemoveRequest /\ x.op = "remove" /\ x.msg = k /\ x.step = "publish" BY <1>1, <1>2, <1>5, Stepped
<1>8. x # Idle /\ x \in Requests BY <1>7, Kinds, Bounds
<1>9. /\ DOMAIN messages' = DOMAIN messages
      /\ \A m \in DOMAIN messages : messages'[m] = Emptied(messages[m])
  BY <1>0a, <1>2, AllEmptied
<1>9a. \A m \in DOMAIN messages :
           /\ messages'[m].deleted = (messages[m].deleted \/ messages[m].room = Thread)
           /\ messages'[m].content = messages[m].content
           /\ messages'[m].room = messages[m].room /\ messages'[m].author = messages[m].author
           /\ messages'[m].reply = messages[m].reply /\ messages'[m].mentions = messages[m].mentions
  <2> SUFFICES ASSUME NEW m \in DOMAIN messages
               PROVE  /\ messages'[m].deleted = (messages[m].deleted \/ messages[m].room = Thread)
                      /\ messages'[m].content = messages[m].content
                      /\ messages'[m].room = messages[m].room /\ messages'[m].author = messages[m].author
                      /\ messages'[m].reply = messages[m].reply /\ messages'[m].mentions = messages[m].mentions
    OBVIOUS
  <2>1. messages[m] \in Message BY <1>0a, MessageIds
  <2>2. PICK d : d = Emptied(messages[m]) OBVIOUS
  <2>3. /\ d.deleted = (messages[m].deleted \/ messages[m].room = Thread)
        /\ d.content = messages[m].content
        /\ d.room = messages[m].room /\ d.author = messages[m].author
        /\ d.reply = messages[m].reply /\ d.mentions = messages[m].mentions
    BY <2>1, <2>2, EmptiedMessage
  <2>4. messages'[m] = d BY <1>9, <2>2
  <2>5. QED BY <2>3, <2>4
<1>10. CardShown' BY <1>0, <1>3, ShownStep
<1>11. CardGone' /\ ~RoomExists(Thread)' BY <1>2, Bounds DEF OneCard, RoomExists
<1>11a. /\ ~TellsList(r) /\ ~TellsCard(r) /\ Tells(r) = {}
        /\ \A m : ~TellsReactions(r, m)
  BY <1>2, <1>5, Silent
<1>12. StaleIsTold'
  <2>1. \A m \in DOMAIN messages : messages'[m].room = messages[m].room BY <1>9a
  <2>2. TellsList(x)' BY <1>7 DEF TellsList
  <2>3. \A m \in reactionsStale' :
              \/ x # Idle /\ TellsReactions(x, m)
              \/ m \in reactionsStale /\ (requests[q] # Idle => ~TellsReactions(requests[q], m))
    BY <1>1, <1>3, <1>11a
  <2>4. QED BY <1>0, <1>2, <1>8, <1>11, <2>1, <2>2, <2>3, StaleStep
<1>13. ScreensFollow'
  <2>1. \A m \in DOMAIN messages' : Clean(m)' => Clean(m) /\ messages[m].room # Thread
    <3>1. \A m \in DOMAIN messages : Clean(m)' => messages[m].room = Main BY <1>2, <1>9, <1>9a DEF Clean, RoomExists
    <3>2. QED BY <1>3, <1>9, <3>1, Bounds DEF Clean, RoomExists
  <2>2. \A m \in DOMAIN messages : m # k /\ Clean(m)' =>
           messages'[m].deleted = messages[m].deleted /\ messages'[m].content = messages[m].content /\ shown'[m] = shown[m]
    <3> SUFFICES ASSUME NEW m \in DOMAIN messages, Clean(m)'
                 PROVE  messages'[m].deleted = messages[m].deleted /\ messages'[m].content = messages[m].content
      BY <1>3
    <3>1. messages[m].deleted \in BOOLEAN BY <1>0a, MessageIds DEF Message
    <3>2. messages[m].room # Thread BY <1>9, <2>1
    <3>3. QED BY <1>9a, <3>1, <3>2
  <2>3. Clean(k)' /\ Clean(k) /\ Leaves(requests[q], messages[k], shown[k]) => Leaves(x, messages'[k], shown'[k])
    <3> SUFFICES ASSUME Clean(k), Leaves(requests[q], messages[k], shown[k]) PROVE Leaves(x, messages'[k], shown'[k]) OBVIOUS
    <3>1. PICK g, s : g = messages'[k] /\ s = shown'[k] OBVIOUS
    <3>2. messages[k].deleted BY <1>1, <1>2, <1>5 DEF Leaves
    <3>3. k \in DOMAIN messages BY DEF Clean
    <3>4. g.deleted BY <1>9a, <3>1, <3>2, <3>3
    <3>5. Leaves(x, g, s) BY <1>7, <3>4 DEF Leaves, Owing
    <3>6. QED BY <3>1, <3>5
  <2>8. requests[q] # Idle /\ k = requests[q].msg /\ x \in Requests \cup {Idle} /\ (x # Idle => x.msg = k) BY <1>1, <1>5, <1>7, <1>8
  <2>9. Clean(k)' /\ Clean(k) /\ Leaves(requests[q], messages[k], shown[k]) =>
           IF x = Idle THEN AsStored(messages'[k], shown'[k]) ELSE Leaves(x, messages'[k], shown'[k])
    BY <1>8, <2>3
  <2>10. QED BY <1>0, <1>2, <2>1, <2>2, <2>8, <2>9, ScreenStep
<1>14. Accounted'
  <2>1. Lasting BY <1>3, <1>9, <1>9a DEF Lasting
  <2>2. Tells(x)' = {} /\ KnowsMessage(x)' BY <1>7 DEF Tells, KnowsMessage
  <2>3. QED BY <1>0, <1>1, <1>2, <1>3, <1>4, <1>8, <1>9a, <1>11a, <2>1, <2>2, AccountSame
<1>15. QED BY <1>10, <1>12, <1>13, <1>14 DEF Follows

LEMMA Shows ==
    ASSUME TypeOK, NEW k \in DOMAIN messages, NEW c, shown' = [shown EXCEPT ![k] = c]
    PROVE  shown'[k] = c /\ \A m \in DOMAIN messages : m # k => shown'[m] = shown[m]
<1>1. DOMAIN messages \subseteq MessageId BY TypeParts, MessageIds
<1>2. QED BY <1>1 DEF TypeOK

LEMMA PublishSentFollow ==
    ASSUME IInv, TypeOK', Keeps, NEW q \in Request, PublishSent(q)
    PROVE  Follows'
<1>0. TypeOK /\ RequestsFit /\ OneCard /\ OneHand /\ CardShown /\ StaleIsTold /\ ScreensFollow /\ Accounted BY DEF IInv
<1>0a. DbType BY <1>0, TypeParts
<1>1. PICK r, x, k : r = requests[q] /\ x = AfterPublishing(q, requests[q].room) /\ k = requests[q].msg OBVIOUS
<1>2. r \in SendRequest /\ r.step = "publish" /\ k \in DOMAIN messages /\ Moves(q, x) BY <1>0, <1>1, SentMoves
<1>3. /\ shown' = [shown EXCEPT ![k] = messages[k].content] /\ listStale' = (listStale /\ r.room # Thread)
      /\ TryGo([msg |-> k, actor |-> r.user, sent |-> TRUE, mentions |-> r.mentions, others |-> Others(r.user, r.reply)])
  BY <1>1 DEF PublishSent, ShowAdded
<1>4. UNCHANGED <<dbVars, cardStale, reactionsStale, notes, calls, overlapped, missed>> BY DEF PublishSent
<1>4a. cardStale' = cardStale /\ reactionsStale' = reactionsStale /\ missed' = missed BY <1>4
<1>5. r \in Requests /\ r # Idle /\ r.op = "send" BY <1>2, Kinds, Bounds DEF SendRequest
<1>6. KnowsMessage(r) BY <1>0, <1>1, <1>5, RequestsParts
<1>7. r.room = Thread => x \in SendRequest /\ x # Idle /\ x.op = "send" /\ x.msg = k /\ x.step = "card" /\ x.room = r.room
  <2> SUFFICES ASSUME r.room = Thread PROVE x \in SendRequest /\ x # Idle /\ x.op = "send" /\ x.msg = k /\ x.step = "card" /\ x.room = r.room
    OBVIOUS
  <2>1. x = [r EXCEPT !.step = "card"] BY <1>1 DEF AfterPublishing
  <2>2. x \in SendRequest /\ x.op = "send" /\ x.msg = k /\ x.step = "card" /\ x.room = r.room
    BY <1>1, <1>2, <1>5, <2>1, Stepped
  <2>3. QED BY <2>2, Kinds, Bounds
<1>8. r.room # Thread => x = Idle BY <1>1 DEF AfterPublishing
<1>9. messages[k] \in Message BY <1>0a, <1>2, MessageIds
<1>10. shown'[k] = messages[k].content /\ \A m \in DOMAIN messages : m # k => shown'[m] = shown[m] BY <1>0, <1>2, <1>3, Shows
<1>11. CardShown'
  <2>1. k \in Card => messages[k].content \in {Hidden, Announcement} BY DEF Card
  <2>2. UNCHANGED dbVars BY <1>4
  <2>3. QED BY <1>0, <1>2, <1>3, <2>1, <2>2, ShownOne
<1>12. StaleIsTold'
  <2>1. r.room # Thread => ~TellsList(r) /\ ~TellsCard(r) BY <1>5 DEF TellsList, TellsCard
  <2>2. r.room = Thread => x # Idle /\ TellsCard(x) BY <1>7 DEF TellsCard
  <2>3. \A m : ~TellsReactions(r, m) BY <1>5 DEF TellsReactions
  <2>4. listStale' => listStale /\ r.room # Thread BY <1>3
  <2>5. listStale' /\ ~missed' => listStale /\ ~missed /\ ~TellsList(requests[q]) BY <1>1, <1>4a, <2>1, <2>4
  <2>6. cardStale' /\ ~missed' /\ ~CardGone /\ RoomExists(Thread) =>
              \/ x # Idle /\ TellsCard(x)
              \/ cardStale /\ ~missed /\ ~TellsCard(requests[q])
    BY <1>1, <1>4a, <2>1, <2>2
  <2>7. \A m \in reactionsStale' : m \in reactionsStale /\ ~TellsReactions(requests[q], m) BY <1>1, <1>4a, <2>3
  <2>8. QED BY <1>0, <1>2, <2>5, <2>6, <2>7, MoveStale
<1>13. ScreensFollow'
  <2>1. Leaves(r, messages[k], shown[k]) => AsStored(messages[k], shown'[k]) BY <1>2, <1>5, <1>10 DEF Leaves, AsStored
  <2>2. AsStored(messages[k], shown'[k]) /\ x # Idle => Leaves(x, messages[k], shown'[k])
    <3>1. x # Idle => x.op = "send" /\ x.step = "card" BY <1>7, <1>8
    <3>2. QED BY <3>1 DEF Leaves
  <2>3. QED BY <1>0, <1>1, <1>2, <1>10, <2>1, <2>2, MoveScreen
<1>14. Accounted'
  <2>1. PICK task : task = [msg |-> k, actor |-> r.user, sent |-> TRUE, mentions |-> r.mentions, others |-> Others(r.user, r.reply)]
    OBVIOUS
  <2>2. task \in Task BY <1>0, <1>1, <1>2, <2>1, SentTask
  <2>3. Tells(r) = r.mentions \cup Others(r.user, r.reply) BY <1>2, <1>5 DEF Tells
  <2>4. Addresses(task) = Tells(r) BY <2>1, <2>3 DEF Addresses
  <2>5. TaskFits(task)
    <3>1. messages[k].author = r.user /\ messages[k].reply = r.reply BY <1>1, <1>2, <1>5, <1>6 DEF KnowsMessage
    <3>2. kind = "dm" => User \ {r.user} \subseteq Others(r.user, r.reply) BY DEF Others
    <3>3. kind # "dm" => Replied(k) \subseteq Others(r.user, r.reply) BY <3>1 DEF Others, Replied
    <3>4. QED BY <1>2, <2>1, <3>2, <3>3 DEF TaskFits
  <2>6. x # Idle => x.msg = k /\ Tells(x)' = {} /\ KnowsMessage(x)' BY <1>7, <1>8 DEF Tells, KnowsMessage
  <2>7. x \in Requests \cup {Idle} /\ Turns(q, x) BY <1>2 DEF Moves
  <2>8. requests[q] # Idle /\ k = requests[q].msg /\ Addresses(task) = Tells(requests[q]) /\ task.msg = k BY <1>1, <1>5, <2>1, <2>4
  <2>9. TryGo(task) BY <1>3, <2>1
  <2>10. UNCHANGED dbVars /\ UNCHANGED <<notes, calls, overlapped>> BY <1>4
  <2>11. QED BY <1>0, <1>2, <2>2, <2>5, <2>6, <2>7, <2>8, <2>9, <2>10, AccountPublish
<1>15. QED BY <1>11, <1>12, <1>13, <1>14 DEF Follows

LEMMA PublishDeletedFollow ==
    ASSUME IInv, TypeOK', Keeps, NEW q \in Request, PublishDeleted(q)
    PROVE  Follows'
<1>0. TypeOK /\ RequestsFit /\ OneCard /\ OneHand /\ CardShown /\ StaleIsTold /\ ScreensFollow /\ Accounted BY DEF IInv
<1>1. PICK r, x, k : r = requests[q] /\ x = AfterPublishing(q, messages[requests[q].msg].room) /\ k = requests[q].msg OBVIOUS
<1>2. r \in DeleteRequest /\ r.step = "publish" /\ k \in DOMAIN messages /\ Moves(q, x) BY <1>0, <1>1, DeletedMoves
<1>3. shown' = [shown EXCEPT ![k] = Hidden] BY <1>1 DEF PublishDeleted, ShowDeleted
<1>4. UNCHANGED dbVars /\ UNCHANGED noteVars BY DEF PublishDeleted
<1>4a. cardStale' = cardStale /\ listStale' = listStale /\ reactionsStale' = reactionsStale /\ missed' = missed BY DEF PublishDeleted
<1>5. r \in Requests /\ r # Idle /\ r.op = "delete" BY <1>2, Kinds, Bounds DEF DeleteRequest
<1>7. messages[k].room = Thread => x \in DeleteRequest /\ x # Idle /\ x.op = "delete" /\ x.msg = k /\ x.step = "card"
  <2> SUFFICES ASSUME messages[k].room = Thread PROVE x \in DeleteRequest /\ x # Idle /\ x.op = "delete" /\ x.msg = k /\ x.step = "card"
    OBVIOUS
  <2>1. x = [r EXCEPT !.step = "card"] BY <1>1 DEF AfterPublishing
  <2>2. x \in DeleteRequest /\ x.op = "delete" /\ x.msg = k /\ x.step = "card"
    BY <1>1, <1>2, <1>5, <2>1, Stepped
  <2>3. QED BY <2>2, Kinds, Bounds
<1>8. messages[k].room # Thread => x = Idle BY <1>1 DEF AfterPublishing
<1>10. shown'[k] = Hidden /\ \A m \in DOMAIN messages : m # k => shown'[m] = shown[m] BY <1>0, <1>2, <1>3, Shows
<1>11. CardShown' BY <1>0, <1>2, <1>3, <1>4, ShownOne
<1>12. StaleIsTold'
  <2>1. ~TellsList(r) /\ \A m : ~TellsReactions(r, m) BY <1>5 DEF TellsList, TellsReactions
  <2>2. messages[k].room = Thread => x # Idle /\ TellsCard(x) BY <1>7 DEF TellsCard
  <2>3. messages[k].room # Thread => ~TellsCard(r) BY <1>1, <1>5 DEF TellsCard
  <2>5. listStale' /\ ~missed' => listStale /\ ~missed /\ ~TellsList(requests[q]) BY <1>1, <1>4a, <2>1
  <2>6. cardStale' /\ ~missed' /\ ~CardGone /\ RoomExists(Thread) =>
              \/ x # Idle /\ TellsCard(x)
              \/ cardStale /\ ~missed /\ ~TellsCard(requests[q])
    BY <1>1, <1>4a, <2>2, <2>3
  <2>7. \A m \in reactionsStale' : m \in reactionsStale /\ ~TellsReactions(requests[q], m) BY <1>1, <1>4a, <2>1
  <2>8. QED BY <1>0, <1>2, <2>5, <2>6, <2>7, MoveStale
<1>13. ScreensFollow'
  <2>1. Leaves(r, messages[k], shown[k]) => AsStored(messages[k], shown'[k]) BY <1>2, <1>5, <1>10 DEF Leaves, AsStored
  <2>2. AsStored(messages[k], shown'[k]) /\ x # Idle => Leaves(x, messages[k], shown'[k])
    <3>1. x # Idle => x.op = "delete" /\ x.step = "card" BY <1>7, <1>8
    <3>2. QED BY <3>1 DEF Leaves
  <2>3. QED BY <1>0, <1>1, <1>2, <1>10, <2>1, <2>2, MoveScreen
<1>14. Accounted'
  <2>1. Tells(r) = {} BY <1>5 DEF Tells
  <2>2. x # Idle => Tells(x) = {} /\ KnowsMessage(x) BY <1>7, <1>8 DEF Tells, KnowsMessage
  <2>3. QED BY <1>0, <1>1, <1>2, <1>4, <2>1, <2>2, MoveAccount
<1>15. QED BY <1>11, <1>12, <1>13, <1>14 DEF Follows

LEMMA TakesCardFollow ==
    ASSUME IInv, TypeOK', Keeps, NEW q \in Request, TakesCard(q)
    PROVE  Follows'
<1>0. TypeOK /\ RequestsFit /\ OneCard /\ OneHand /\ CardShown /\ StaleIsTold /\ ScreensFollow /\ Accounted BY DEF IInv
<1>1. PICK r, k : r = requests[q] /\ k = requests[q].msg OBVIOUS
<1>2. r # Idle /\ r.op \in {"send", "delete"} /\ r.step = "card" BY <1>1 DEF TakesCard
<1>3. UNCHANGED dbVars /\ UNCHANGED noteVars /\ UNCHANGED screenVars /\ missed' = missed BY DEF TakesCard
<1>3a. shown' = shown /\ cardStale' = cardStale /\ listStale' = listStale /\ reactionsStale' = reactionsStale BY <1>3 DEF screenVars
<1>4. PICK c \in Card : LET y == [op |-> "card", step |-> "publish", msg |-> k, card |-> c] IN y \in CardRequest /\ Moves(q, y)
  BY <1>1 DEF TakesCard
<1>5. PICK x : x = [op |-> "card", step |-> "publish", msg |-> k, card |-> c] OBVIOUS
<1>6. x \in CardRequest /\ Moves(q, x) /\ x.op = "card" /\ x.step = "publish" /\ x.msg = k BY <1>4, <1>5
<1>7. x # Idle BY <1>6, Kinds, Bounds
<1>8. r \in Requests BY <1>0, <1>1, <1>2, Busy
<1>9. ~TellsList(r) /\ Tells(r) = {} /\ ~Owing(r) /\ \A m : ~TellsReactions(r, m) BY <1>2, <1>8, Silent
<1>11. CardShown' BY <1>0, <1>3a, ShownStep
<1>12. StaleIsTold'
  <2>1. TellsCard(x) BY <1>6 DEF TellsCard
  <2>2. listStale' /\ ~missed' => listStale /\ ~missed /\ ~TellsList(requests[q]) BY <1>1, <1>3, <1>3a, <1>9
  <2>3. \A m \in reactionsStale' : m \in reactionsStale /\ ~TellsReactions(requests[q], m) BY <1>1, <1>3a, <1>9
  <2>4. QED BY <1>0, <1>6, <1>7, <2>1, <2>2, <2>3, MoveStale
<1>13. ScreensFollow'
  <2>1. Leaves(r, messages[k], shown[k]) => Leaves(x, messages[k], shown[k])
    <3>1. ~Owing(x) BY <1>6 DEF Owing
    <3>2. QED BY <1>6, <1>9, <3>1 DEF Leaves
  <2>2. QED BY <1>0, <1>1, <1>3a, <1>6, <1>7, <2>1, MoveScreen
<1>14. Accounted'
  <2>1. Tells(x) = {} /\ KnowsMessage(x) BY <1>6 DEF Tells, KnowsMessage
  <2>2. QED BY <1>0, <1>1, <1>3, <1>6, <1>9, <2>1, MoveAccount
<1>15. QED BY <1>11, <1>12, <1>13, <1>14 DEF Follows

\* What an update shows.
LEMMA Updates ==
    ASSUME TypeOK, NEW k \in DOMAIN messages, NEW c, ShowUpdated(k, c)
    PROVE  shown' = [shown EXCEPT ![k] = IF shown[k] = Hidden THEN Hidden ELSE c]
<1>1. DOMAIN messages \subseteq MessageId BY TypeParts, MessageIds
<1>2. QED BY <1>1 DEF TypeOK, ShowUpdated

LEMMA PublishThreadCardFollow ==
    ASSUME IInv, TypeOK', Keeps, NEW q \in Request, PublishThreadCard(q)
    PROVE  Follows'
<1>0. TypeOK /\ RequestsFit /\ OneCard /\ OneHand /\ CardShown /\ StaleIsTold /\ ScreensFollow /\ Accounted BY DEF IInv
<1>1. PICK r, k : r = requests[q] /\ k = requests[q].msg OBVIOUS
<1>2. Moves(q, Idle) BY LastMoves DEF LastStep
<1>3. r \in CardRequest /\ r.card \in Card BY <1>0, <1>1, CardFacts
<1>4. r.op = "card" BY <1>3 DEF CardRequest
<1>5. ShowUpdated(r.card, Announcement) /\ cardStale' = FALSE BY <1>1 DEF PublishThreadCard
<1>6. shown' = shown BY <1>0, <1>3, <1>5, ShownSame
<1>7. UNCHANGED noteVars /\ listStale' = listStale /\ reactionsStale' = reactionsStale /\ missed' = missed BY DEF PublishThreadCard
<1>11. CardShown' BY <1>0, <1>6, ShownStep
<1>12. StaleIsTold'
  <2>1. ~TellsList(r) /\ \A m : ~TellsReactions(r, m) BY <1>4 DEF TellsList, TellsReactions
  <2>2. listStale' /\ ~missed' => listStale /\ ~missed /\ ~TellsList(requests[q]) BY <1>1, <1>7, <2>1
  <2>3. \A m \in reactionsStale' : m \in reactionsStale /\ ~TellsReactions(requests[q], m) BY <1>1, <1>7, <2>1
  <2>4. QED BY <1>0, <1>2, <1>5, <2>2, <2>3, MoveStale
<1>13. ScreensFollow'
  <2>1. Leaves(r, messages[k], shown[k]) => AsStored(messages[k], shown[k]) BY <1>4 DEF Leaves, Owing
  <2>2. QED BY <1>0, <1>1, <1>2, <1>6, <2>1, MoveScreen
<1>14. Accounted'
  <2>1. Tells(r) = {} BY <1>4 DEF Tells
  <2>2. QED BY <1>0, <1>1, <1>2, <1>7, <2>1, MoveAccount
<1>15. QED BY <1>11, <1>12, <1>13, <1>14 DEF Follows

LEMMA PublishEditedFollow ==
    ASSUME IInv, TypeOK', Keeps, NEW q \in Request, PublishEdited(q)
    PROVE  Follows'
<1>0. TypeOK /\ RequestsFit /\ OneCard /\ OneHand /\ CardShown /\ StaleIsTold /\ ScreensFollow /\ Accounted BY DEF IInv
<1>1. PICK r, k : r = requests[q] /\ k = requests[q].msg OBVIOUS
<1>2. Moves(q, Idle) BY LastMoves DEF LastStep
<1>3. r \in EditRequest /\ r.step = "publish" /\ k \in DOMAIN messages /\ k \notin Card BY <1>0, <1>1, EditFacts
<1>4. r.op = "edit" /\ r # Idle BY <1>3, Kinds, Bounds DEF EditRequest
<1>5. PICK c, added : /\ c = (IF shown[k] = Hidden THEN Hidden ELSE r.content)
                      /\ added = (IF r.before.known THEN r.mentions \ r.before.users ELSE {})
  OBVIOUS
<1>6. ShowUpdated(k, r.content) /\ reactionsStale' = reactionsStale \ {k} BY <1>1 DEF PublishEdited
<1>7. shown' = [shown EXCEPT ![k] = c] BY <1>0, <1>3, <1>5, <1>6, Updates
<1>8. UNCHANGED dbVars /\ listStale' = listStale /\ cardStale' = cardStale /\ missed' = missed BY DEF PublishEdited
<1>9. UNCHANGED <<notes, calls, overlapped>> BY DEF PublishEdited
<1>10. shown'[k] = c /\ \A m \in DOMAIN messages : m # k => shown'[m] = shown[m] BY <1>0, <1>3, <1>7, Shows
<1>11. CardShown' BY <1>0, <1>3, <1>7, <1>8, ShownOne
<1>12. StaleIsTold'
  <2>1. ~TellsList(r) /\ ~TellsCard(r) /\ \A m : ~TellsReactions(r, m) BY <1>4 DEF TellsList, TellsCard, TellsReactions
  <2>2. listStale' /\ ~missed' => listStale /\ ~missed /\ ~TellsList(requests[q]) BY <1>1, <1>8, <2>1
  <2>3. \A m \in reactionsStale' : m \in reactionsStale /\ ~TellsReactions(requests[q], m) BY <1>1, <1>6, <2>1
  <2>4. cardStale' /\ ~missed' => cardStale /\ ~missed /\ ~TellsCard(requests[q]) BY <1>1, <1>8, <2>1
  <2>5. QED BY <1>0, <1>2, <2>2, <2>3, <2>4, MoveStale
<1>13. ScreensFollow'
  <2>1. Leaves(r, messages[k], shown[k]) => AsStored(messages[k], c) BY <1>3, <1>4, <1>5 DEF Leaves, AsStored
  <2>2. QED BY <1>0, <1>1, <1>2, <1>10, <2>1, MoveScreen
<1>14. Accounted'
  <2>1. PICK task : task = [msg |-> k, actor |-> r.user, sent |-> FALSE, mentions |-> added, others |-> {}] OBVIOUS
  <2>2. added \in SUBSET User /\ r.user \in User /\ k \in MessageId BY <1>1, <1>3, <1>5 DEF EditRequest
  <2>3. task \in Task BY <2>1, <2>2 DEF Task
  <2>4. Tells(r) = added BY <1>3, <1>4, <1>5 DEF Tells
  <2>5. Addresses(task) = Tells(r) BY <2>1, <2>4 DEF Addresses
  <2>6. TaskFits(task) BY <1>3, <2>1 DEF TaskFits
  <2>7. TryGo(task) \/ (Addresses(task) = {} /\ UNCHANGED <<tasks, lost>>)
    <3>1. IF added = {} THEN UNCHANGED <<tasks, lost>> ELSE TryGo(task) BY <1>1, <1>5, <2>1 DEF PublishEdited
    <3>2. QED BY <2>4, <2>5, <3>1
  <2>8. requests[q] # Idle /\ k = requests[q].msg /\ Addresses(task) = Tells(requests[q]) /\ task.msg = k BY <1>1, <1>4, <2>1, <2>5
  <2>9. Turns(q, Idle) BY <1>2 DEF Moves
  <2>10. QED BY <1>0, <1>3, <1>8, <1>9, <2>3, <2>6, <2>7, <2>8, <2>9, AccountPublish
<1>15. QED BY <1>11, <1>12, <1>13, <1>14 DEF Follows

LEMMA PublishReactionFollow ==
    ASSUME IInv, TypeOK', Keeps, NEW q \in Request, PublishReaction(q)
    PROVE  Follows'
<1>0. TypeOK /\ RequestsFit /\ OneCard /\ OneHand /\ CardShown /\ StaleIsTold /\ ScreensFollow /\ Accounted BY DEF IInv
<1>1. PICK r, k : r = requests[q] /\ k = requests[q].msg OBVIOUS
<1>2. Moves(q, Idle) BY LastMoves DEF LastStep
<1>3. r \in ReactRequest /\ r.step = "publish" /\ k \in DOMAIN messages /\ (k \in Card => r.content = Announcement) BY <1>0, <1>1, ReactFacts
<1>4. r.op = "react" BY <1>3 DEF ReactRequest
<1>5. PICK c : c = (IF shown[k] = Hidden THEN Hidden ELSE r.content) OBVIOUS
<1>6. ShowUpdated(k, r.content) /\ reactionsStale' = reactionsStale \ {k} BY <1>1 DEF PublishReaction
<1>7. shown' = [shown EXCEPT ![k] = c] BY <1>0, <1>3, <1>5, <1>6, Updates
<1>8. UNCHANGED dbVars /\ listStale' = listStale /\ cardStale' = cardStale /\ missed' = missed BY DEF PublishReaction
<1>9. UNCHANGED noteVars BY DEF PublishReaction
<1>10. shown'[k] = c /\ \A m \in DOMAIN messages : m # k => shown'[m] = shown[m] BY <1>0, <1>3, <1>7, Shows
<1>11. CardShown'
  <2>1. k \in Card => c \in {Hidden, Announcement} BY <1>3, <1>5
  <2>2. QED BY <1>0, <1>3, <1>7, <1>8, <2>1, ShownOne
<1>12. StaleIsTold'
  <2>1. ~TellsList(r) /\ ~TellsCard(r) /\ \A m : m # k => ~TellsReactions(r, m) BY <1>1, <1>4 DEF TellsList, TellsCard, TellsReactions
  <2>2. listStale' /\ ~missed' => listStale /\ ~missed /\ ~TellsList(requests[q]) BY <1>1, <1>8, <2>1
  <2>3. \A m \in reactionsStale' : m \in reactionsStale /\ ~TellsReactions(requests[q], m) BY <1>1, <1>6, <2>1
  <2>4. cardStale' /\ ~missed' => cardStale /\ ~missed /\ ~TellsCard(requests[q]) BY <1>1, <1>8, <2>1
  <2>5. QED BY <1>0, <1>2, <2>2, <2>3, <2>4, MoveStale
<1>13. ScreensFollow'
  <2>1. ~Owing(r) BY <1>4 DEF Owing
  <2>2. messages[k].content # Hidden BY <1>0, <1>3, TypeParts, MessageIds, BodyIsNumber, Bounds
  <2>3. Leaves(r, messages[k], shown[k]) => AsStored(messages[k], c)
    <3> SUFFICES ASSUME Leaves(r, messages[k], shown[k]) PROVE AsStored(messages[k], c) OBVIOUS
    <3>1. AsStored(messages[k], shown[k]) /\ (messages[k].deleted \/ messages[k].content = r.content) BY <1>4, <2>1 DEF Leaves
    <3>2. QED BY <1>5, <2>2, <3>1 DEF AsStored
  <2>4. QED BY <1>0, <1>1, <1>2, <1>10, <2>3, MoveScreen
<1>14. Accounted'
  <2>1. Tells(r) = {} BY <1>4 DEF Tells
  <2>2. QED BY <1>0, <1>1, <1>2, <1>9, <2>1, MoveAccount
<1>15. QED BY <1>11, <1>12, <1>13, <1>14 DEF Follows

LEMMA PublishThreadFollow ==
    ASSUME IInv, TypeOK', Keeps, NEW q \in Request, PublishThread(q)
    PROVE  Follows'
<1>0. TypeOK /\ RequestsFit /\ OneCard /\ OneHand /\ CardShown /\ StaleIsTold /\ ScreensFollow /\ Accounted BY DEF IInv
<1>1. PICK r, k : r = requests[q] /\ k = requests[q].msg OBVIOUS
<1>2. Moves(q, Idle) BY LastMoves DEF LastStep
<1>3. r \in CreateRequest /\ r.step = "publish" /\ k \in DOMAIN messages /\ kind # "dm" BY <1>0, <1>1, CreateFacts
<1>4. r.op = "create" /\ r.user \in User /\ r # Idle BY <1>3, Kinds, Bounds DEF CreateRequest
<1>5. KnowsMessage(r) BY <1>0, <1>1, <1>4, RequestsParts
<1>6. /\ shown' = [shown EXCEPT ![k] = messages[k].content] /\ cardStale' = FALSE /\ listStale' = FALSE
      /\ TryGo([msg |-> k, actor |-> r.user, sent |-> TRUE, mentions |-> {}, others |-> {}])
  BY <1>1 DEF PublishThread, ShowAdded
<1>8. UNCHANGED dbVars /\ reactionsStale' = reactionsStale BY DEF PublishThread
<1>9. UNCHANGED <<notes, calls, overlapped>> BY DEF PublishThread
<1>10. shown'[k] = messages[k].content /\ \A m \in DOMAIN messages : m # k => shown'[m] = shown[m] BY <1>0, <1>3, <1>6, Shows
<1>11. CardShown'
  <2>1. k \in Card => messages[k].content \in {Hidden, Announcement} BY DEF Card
  <2>2. QED BY <1>0, <1>3, <1>6, <1>8, <2>1, ShownOne
<1>12. StaleIsTold'
  <2>1. \A m : ~TellsReactions(r, m) BY <1>4 DEF TellsReactions
  <2>2. \A m \in reactionsStale' : m \in reactionsStale /\ ~TellsReactions(requests[q], m) BY <1>1, <1>8, <2>1
  <2>3. ~cardStale' /\ ~listStale' BY <1>6
  <2>4. QED BY <1>0, <1>2, <2>2, <2>3, MoveStale
<1>13. ScreensFollow'
  <2>1. Leaves(r, messages[k], shown[k]) => AsStored(messages[k], shown'[k]) BY <1>3, <1>4, <1>10 DEF Leaves, AsStored
  <2>2. QED BY <1>0, <1>1, <1>2, <1>10, <2>1, MoveScreen
<1>14. Accounted'
  <2>1. PICK task : task = [msg |-> k, actor |-> r.user, sent |-> TRUE, mentions |-> {}, others |-> {}] OBVIOUS
  <2>2. k \in MessageId BY <1>0, <1>3, TypeParts, MessageIds
  <2>3. task \in Task BY <1>4, <2>1, <2>2 DEF Task
  <2>4. Tells(r) = {} BY <1>4 DEF Tells
  <2>5. Addresses(task) = {} BY <2>1 DEF Addresses
  <2>6. TaskFits(task)
    <3>1. messages[k].reply = 0 BY <1>1, <1>3, <1>4, <1>5 DEF KnowsMessage
    <3>2. Replied(k) = {} BY <3>1 DEF Replied
    <3>3. QED BY <1>3, <2>1, <3>2 DEF TaskFits
  <2>7. TryGo(task) BY <1>6, <2>1
  <2>8. requests[q] # Idle /\ k = requests[q].msg /\ Addresses(task) = Tells(requests[q]) /\ task.msg = k
    BY <1>1, <1>4, <2>1, <2>4, <2>5
  <2>9. Turns(q, Idle) BY <1>2 DEF Moves
  <2>10. QED BY <1>0, <1>3, <1>8, <1>9, <2>3, <2>6, <2>7, <2>8, <2>9, AccountPublish
<1>15. QED BY <1>11, <1>12, <1>13, <1>14 DEF Follows

LEMMA PublishThreadUpdateFollow ==
    ASSUME IInv, TypeOK', Keeps, NEW q \in Request, PublishThreadUpdate(q)
    PROVE  Follows'
<1>0. TypeOK /\ RequestsFit /\ OneCard /\ OneHand /\ CardShown /\ StaleIsTold /\ ScreensFollow /\ Accounted BY DEF IInv
<1>1. PICK r, k : r = requests[q] /\ k = requests[q].msg OBVIOUS
<1>2. Moves(q, Idle) BY LastMoves DEF LastStep
<1>3. r \in RenameRequest /\ r.step = "publish" /\ (k # 0 => k \in Card) BY <1>0, <1>1, RenameFacts
<1>4. r.op = "rename" BY <1>3 DEF RenameRequest
<1>5. IF k = 0 THEN UNCHANGED <<shown, cardStale>> ELSE ShowUpdated(k, Announcement) /\ cardStale' = FALSE
  BY <1>1 DEF PublishThreadUpdate
<1>6. shown' = shown
  <2>1. CASE k = 0 BY <1>5, <2>1
  <2>2. CASE k # 0 BY <1>0, <1>3, <1>5, <2>2, ShownSame
  <2>3. QED BY <2>1, <2>2
<1>7. \/ listStale' = (listStale /\ ~RoomExists(Thread)) /\ missed' = missed
      \/ missed' = TRUE
  BY DEF PublishThreadUpdate
<1>8. UNCHANGED noteVars /\ reactionsStale' = reactionsStale BY DEF PublishThreadUpdate
<1>8a. missed \in BOOLEAN /\ missed' \in BOOLEAN BY <1>0 DEF TypeOK
<1>8b. ~missed' => ~missed BY <1>7, <1>8a
<1>11. CardShown' BY <1>0, <1>6, ShownStep
<1>12. StaleIsTold'
  <2>1. \A m : ~TellsReactions(r, m) BY <1>4 DEF TellsReactions
  <2>2. \A m \in reactionsStale' : m \in reactionsStale /\ ~TellsReactions(requests[q], m) BY <1>1, <1>8, <2>1
  <2>3. ~RoomExists(Thread) => ~TellsList(r) BY <1>4 DEF TellsList
  <2>4. listStale' /\ ~missed' => listStale /\ ~RoomExists(Thread) BY <1>7
  <2>5. listStale' /\ ~missed' => listStale /\ ~missed /\ ~TellsList(requests[q]) BY <1>1, <1>8b, <2>3, <2>4
  <2>6. k = 0 => ~TellsCard(r) BY <1>1, <1>4 DEF TellsCard
  <2>7. cardStale' => k = 0 /\ cardStale BY <1>5
  <2>8. cardStale' /\ ~missed' => cardStale /\ ~missed /\ ~TellsCard(requests[q]) BY <1>1, <1>8b, <2>6, <2>7
  <2>9. QED BY <1>0, <1>2, <2>2, <2>5, <2>8, MoveStale
<1>13. ScreensFollow'
  <2>1. Leaves(r, messages[k], shown[k]) => AsStored(messages[k], shown[k]) BY <1>4 DEF Leaves, Owing
  <2>2. QED BY <1>0, <1>1, <1>2, <1>6, <2>1, MoveScreen
<1>14. Accounted'
  <2>1. Tells(r) = {} BY <1>4 DEF Tells
  <2>2. QED BY <1>0, <1>1, <1>2, <1>8, <2>1, MoveAccount
<1>15. QED BY <1>11, <1>12, <1>13, <1>14 DEF Follows

LEMMA PublishThreadDeletedFollow ==
    ASSUME IInv, TypeOK', Keeps, NEW q \in Request, PublishThreadDeleted(q)
    PROVE  Follows'
<1>0. TypeOK /\ RequestsFit /\ OneCard /\ OneHand /\ CardShown /\ StaleIsTold /\ ScreensFollow /\ Accounted BY DEF IInv
<1>1. PICK r, k : r = requests[q] /\ k = requests[q].msg OBVIOUS
<1>2. Moves(q, Idle) BY LastMoves DEF LastStep
<1>3. r \in RemoveRequest /\ r.step = "publish" /\ CardGone /\ (k # 0 => k \in Card) BY <1>0, <1>1, RemoveFacts
<1>4. r.op = "remove" BY <1>3 DEF RemoveRequest
<1>5. (IF k = 0 THEN UNCHANGED shown ELSE shown' = [shown EXCEPT ![k] = Hidden]) /\ listStale' = FALSE
  BY <1>1 DEF PublishThreadDeleted, ShowDeleted
<1>6. UNCHANGED dbVars /\ reactionsStale' = reactionsStale BY DEF PublishThreadDeleted
<1>7. UNCHANGED noteVars BY DEF PublishThreadDeleted
<1>8. k # 0 => k \in DOMAIN messages BY <1>3 DEF Card
<1>8a. k \in DOMAIN messages => k # 0 BY <1>0, TypeParts, MessageIds
<1>10. (k # 0 => shown'[k] = Hidden) /\ \A m \in DOMAIN messages : m # k => shown'[m] = shown[m]
  <2>1. CASE k = 0 BY <1>5, <2>1
  <2>2. CASE k # 0 BY <1>0, <1>5, <1>8, <2>2, Shows
  <2>3. QED BY <2>1, <2>2
<1>11. CardShown'
  <2>1. CASE k = 0 BY <1>0, <1>5, <2>1, ShownStep
  <2>2. CASE k # 0 BY <1>0, <1>5, <1>6, <1>8, <2>2, ShownOne
  <2>3. QED BY <2>1, <2>2
<1>12. StaleIsTold'
  <2>1. \A m : ~TellsReactions(r, m) BY <1>4 DEF TellsReactions
  <2>2. \A m \in reactionsStale' : m \in reactionsStale /\ ~TellsReactions(requests[q], m) BY <1>1, <1>6, <2>1
  <2>3. ~listStale' BY <1>5
  <2>4. QED BY <1>0, <1>2, <1>3, <2>2, <2>3, MoveStale
<1>13. ScreensFollow'
  <2>1. k \in DOMAIN messages /\ Leaves(r, messages[k], shown[k]) => AsStored(messages[k], shown'[k])
    BY <1>3, <1>4, <1>8a, <1>10 DEF Leaves, AsStored
  <2>2. QED BY <1>0, <1>1, <1>2, <1>10, <2>1, MoveScreen
<1>14. Accounted'
  <2>1. Tells(r) = {} BY <1>4 DEF Tells
  <2>2. QED BY <1>0, <1>1, <1>2, <1>7, <2>1, MoveAccount
<1>15. QED BY <1>11, <1>12, <1>13, <1>14 DEF Follows

LEMMA DeliversFollow ==
    ASSUME IInv, TypeOK', Keeps, NEW i \in DOMAIN tasks, Delivers(i)
    PROVE  Follows'
<1>0. TypeOK /\ RequestsFit /\ OneCard /\ OneHand /\ CardShown /\ StaleIsTold /\ ScreensFollow /\ Accounted BY DEF IInv
<1>1. UNCHANGED <<dbVars, requests, screenVars, calls, begun, overlapped, torn, missed>> BY DEF Delivers
<1>2. UNCHANGED shown BY <1>1 DEF screenVars
<1>3. CardShown' BY <1>0, <1>2, ShownStep
<1>4. StaleIsTold' BY <1>0, <1>1, StaleSame
<1>5. ScreensFollow' BY <1>0, <1>1, <1>2, ScreenSame
<1>6. Accounted' BY <1>0, DeliversAccount
<1>7. QED BY <1>3, <1>4, <1>5, <1>6 DEF Follows

LEMMA StutterFollow ==
    ASSUME IInv, TypeOK', Keeps, UNCHANGED vars
    PROVE  Follows'
<1>0. TypeOK /\ RequestsFit /\ OneCard /\ OneHand /\ CardShown /\ StaleIsTold /\ ScreensFollow /\ Accounted BY DEF IInv
<1>1. UNCHANGED <<dbVars, requests, screenVars, noteVars, overlapped, torn, missed>> BY DEF vars
<1>2. UNCHANGED <<kind, messages, requests, shown, tasks, notes, calls, lost, overlapped>>
  BY <1>1 DEF dbVars, screenVars, noteVars
<1>3. CardShown' BY <1>0, <1>2, ShownStep
<1>4. StaleIsTold' BY <1>0, <1>1, StaleSame
<1>5. ScreensFollow' BY <1>0, <1>1, <1>2, ScreenSame
<1>6. Accounted'
  BY <1>0, <1>2 DEF Accounted, TaskFits, Replied, KnowsMessage, Due, Waiting, Addresses, Told, Tells, Others
<1>7. QED BY <1>3, <1>4, <1>5, <1>6 DEF Follows

LEMMA LastFollow ==
    ASSUME IInv, TypeOK', Keeps, NEW q \in Request, LastStep(q)
    PROVE  Follows'
  BY PublishThreadCardFollow, PublishEditedFollow, PublishReactionFollow, PublishThreadFollow,
     PublishThreadUpdateFollow, PublishThreadDeletedFollow DEF LastStep

LEMMA NextInvariant ==
    ASSUME IInv, [Next]_vars
    PROVE  IInv'
<1>0. TypeOK /\ RequestsFit /\ OneCard /\ OneHand /\ Accounted BY DEF IInv
<1>1. TypeOK' /\ RequestsFit' /\ OneCard' /\ OneHand' /\ Keeps BY <1>0, NextFit
<1>2. Follows'
  <2>1. ASSUME NEW q \in Request,
               \/ Begins(q) \/ Ends(q) \/ Tears(q)
               \/ SavesMessage(q) \/ SavesThread(q) \/ SavesEdit(q) \/ SavesDeletion(q)
        PROVE  Follows'
    BY <1>1, <2>1, BeginsFollow, EndsFollow, TearsFollow, SavesMessageFollow, SavesThreadFollow, SavesEditFollow, SavesDeletionFollow
  <2>2. ASSUME NEW q \in Request, SavesReaction(q) \/ SavesUpdate(q) \/ RemovesCard(q) \/ RemovesRoom(q)
        PROVE  Follows'
    BY <1>1, <2>2, SavesReactionFollow, SavesUpdateFollow, RemovesCardFollow, RemovesRoomFollow
  <2>3. ASSUME NEW q \in Request, PublishSent(q) \/ PublishDeleted(q) \/ TakesCard(q) \/ LastStep(q)
        PROVE  Follows'
    BY <1>1, <2>3, PublishSentFollow, PublishDeletedFollow, TakesCardFollow, LastFollow
  <2>4. ASSUME NEW i \in DOMAIN tasks, RunTask(i)
        PROVE  Follows'
    <3>1. TaskFits(tasks[i]) BY <1>0 DEF Accounted
    <3>2. Delivers(i) BY <1>0, <2>4, <3>1, RunTaskIs
    <3>3. QED BY <1>1, <3>2, DeliversFollow
  <2>5. CASE UNCHANGED vars BY <1>1, <2>5, StutterFollow
  <2>6. QED BY <1>0, <2>1, <2>2, <2>3, <2>4, <2>5, Shapes
<1>3. QED BY <1>1, <1>2 DEF IInv, Follows

-----------------------------------------------------------------------------
(* The first state: an empty room, or one with a thread. *)

LEMMA InitCard ==
    ASSUME Init
    PROVE  /\ DbType
           /\ \/ messages = <<>> /\ DOMAIN messages = {} /\ thread = None /\ Card = {}
              \/ /\ messages = <<Announces(Owner)>> /\ DOMAIN messages = {1} /\ Card = {1}
                 /\ thread \in ThreadRecord /\ 1 \in MessageId /\ messages[1] = Announces(Owner)
<1>1. kind \in Kind BY DEF Init
<1>2. CASE thread = None /\ messages = <<>>
  <2>1. DOMAIN messages = {} /\ Len(messages) = 0 /\ messages \in Seq(Message) BY <1>2
  <2>2. QED BY <1>1, <1>2, <2>1, Bounds DEF DbType, Card
<1>3. CASE /\ MaxMessages > 0 /\ messages = <<Announces(Owner)>>
           /\ \E name \in Title : thread = [name |-> name, closed |-> FALSE, creator |-> Owner]
  <2>0. Owner \in User BY ChatAssumption
  <2>1. PICK g : g = Announces(Owner) OBVIOUS
  <2>2. g \in Message BY <2>0, <2>1, AnnouncesType
  <2>3. g.content = Announcement /\ g.reply = 0 BY <2>1 DEF Announces
  <2>4. messages = <<g>> BY <1>3, <2>1
  <2>5. messages \in Seq(Message) /\ Len(messages) = 1 /\ DOMAIN messages = {1} /\ messages[1] = g BY <2>2, <2>4
  <2>6. thread \in ThreadRecord BY <1>3, <2>0 DEF ThreadRecord
  <2>7. Card = {1} BY <2>3, <2>5 DEF Card
  <2>8. MaxMessages >= 1 /\ 1 \in MessageId BY <1>3, Bounds DEF MessageId
  <2>9. DbType BY <1>1, <2>3, <2>5, <2>6, <2>8 DEF DbType
  <2>10. QED BY <1>3, <2>1, <2>5, <2>6, <2>7, <2>8, <2>9
<1>4. QED BY <1>2, <1>3 DEF Init

LEMMA InitInvariant ==
    ASSUME Init
    PROVE  IInv
<1>0. /\ requests = [q \in Request |-> Idle] /\ tasks = <<>> /\ notes = [m \in MessageId |-> [u \in User |-> 0]]
      /\ calls = [m \in MessageId |-> [u \in User |-> 0]] /\ cardStale = FALSE /\ listStale = FALSE
      /\ reactionsStale = {} /\ overlapped = {} /\ lost = {} /\ missed = FALSE /\ begun = 0 /\ faults = 0
  BY DEF Init
<1>1. DbType BY InitCard
<1>2. \A q \in Request : requests[q] = Idle BY <1>0
<1>3. shown \in [MessageId -> {Announcement, Hidden}]
      /\ \A m \in MessageId : shown[m] = IF m \in DOMAIN messages THEN Announcement ELSE Hidden
  <2>1. CASE messages = <<>> /\ shown = [m \in MessageId |-> Hidden] BY <2>1
  <2>2. CASE messages = <<Announces(Owner)>> /\ shown = [m \in MessageId |-> IF m = 1 THEN Announcement ELSE Hidden] BY <2>2
  <2>3. QED BY <2>1, <2>2 DEF Init
<1>4. TypeOK
  <2>1. RequestType BY <1>0 DEF RequestType
  <2>2. RunnerType BY <1>0, Bounds DEF RunnerType
  <2>3. ScreenType BY <1>0, <1>3, Bounds DEF ScreenType
  <2>4. CountType BY <1>0, Bounds DEF CountType
  <2>5. QED BY <1>1, <2>1, <2>2, <2>3, <2>4, TypeParts
<1>5. RequestsFit
  <2>1. Saving = {} BY <1>2 DEF Saving, At
  <2>2. Numbered = Len(messages) BY <1>1, <2>1, NumberedIs, FS_EmptySet, MessageIds
  <2>3. Len(messages) <= MaxMessages BY <1>1 DEF DbType
  <2>4. QED BY <1>2, <2>2, <2>3 DEF RequestsFit, At
<1>6. OneCard
  <2>1. CASE DOMAIN messages = {} /\ thread = None /\ Card = {} BY <2>1, Bounds DEF OneCard, CardGone, RoomExists
  <2>2. CASE DOMAIN messages = {1} /\ Card = {1} /\ thread \in ThreadRecord /\ messages[1] = Announces(Owner)
    <3>1. messages[1].announces /\ messages[1].room = Main /\ messages[1].deleted = FALSE BY <2>2 DEF Announces
    <3>2. thread # None /\ thread # Gone BY <2>2, Bounds
    <3>3. ~CardGone BY <2>2, <3>1 DEF CardGone
    <3>4. QED BY <2>2, <3>1, <3>2, <3>3 DEF OneCard
  <2>3. QED BY <2>1, <2>2, InitCard
<1>7. CardShown
  <2>1. Card \subseteq MessageId BY <1>1, MessageIds DEF Card
  <2>2. QED BY <1>3, <2>1 DEF CardShown
<1>8. StaleIsTold BY <1>0 DEF StaleIsTold
<1>9. OneHand BY <1>2 DEF OneHand
<1>10. ScreensFollow
  <2>1. \A m \in DOMAIN messages : AsStored(messages[m], shown[m])
    <3> SUFFICES ASSUME NEW m \in DOMAIN messages PROVE AsStored(messages[m], shown[m]) OBVIOUS
    <3>1. messages[m] = Announces(Owner) BY InitCard
    <3>2. messages[m].deleted = FALSE /\ messages[m].content = Announcement BY <3>1 DEF Announces
    <3>3. shown[m] = Announcement BY <1>1, <1>3, MessageIds
    <3>4. QED BY <3>2, <3>3 DEF AsStored
  <2>2. QED BY <1>2, <2>1 DEF ScreensFollow
<1>11. Accounted
  <2>1. \A m \in MessageId, u \in User : notes[m][u] = 0 /\ calls[m][u] = 0 BY <1>0
  <2>2. DOMAIN tasks = {} BY <1>0
  <2>3. \A m \in MessageId, u \in User : Due(m, u) = 0
    <3> SUFFICES ASSUME NEW m \in MessageId, NEW u \in User PROVE Due(m, u) = 0 OBVIOUS
    <3>1. Waiting(tasks, m, u) = {} BY <2>2 DEF Waiting
    <3>2. Told(m) = {} BY <1>2 DEF Told
    <3>3. QED BY <2>1, <3>1, <3>2, FS_EmptySet DEF Due
  <2>4. QED BY <1>1, <1>2, <2>1, <2>2, <2>3, MessageIds DEF Accounted
<1>12. QED BY <1>4, <1>5, <1>6, <1>7, <1>8, <1>9, <1>10, <1>11 DEF IInv

-----------------------------------------------------------------------------
(* The theorems. *)

\* However the requests of any number of users, the failures of their statements
\* and the tasks of the runner interleave: every request knows the announcement
\* it works on, whatever is stale or not shown as stored is in the hands of a
\* request, and every reason to notify somebody is accounted for.
THEOREM Inductive == Spec => []IInv
<1>1. Init => IInv BY InitInvariant
<1>2. IInv /\ [Next]_vars => IInv' BY NextInvariant
<1>3. QED BY <1>1, <1>2, PTL DEF Spec

\* The tables, requests, slots and screens keep their types: a message quotes an
\* earlier one and the runner never runs more than its slots (runner.go).
THEOREM TypeCorrect == Spec => []TypeOK
<1>1. IInv => TypeOK BY DEF IInv
<1>2. QED BY <1>1, Inductive, PTL

\* The announcement never outlives its thread as an ordinary message, and a thread
\* is without it only while it is deleted or after a deletion that failed half way
\* (threads.go Delete), whatever the number of deletions at once.
THEOREM CardFollowsThread == Spec => []CardMatchesThread
<1>1. IInv => CardMatchesThread
  <2> SUFFICES ASSUME IInv PROVE CardMatchesThread OBVIOUS
  <2>1. TypeOK /\ OneCard /\ DbType BY TypeParts DEF IInv
  <2>2. ASSUME NEW m \in DOMAIN messages, Live(m), messages[m].content = Announcement
        PROVE  RoomExists(Thread)
    <3>1. m \in Card /\ ~messages[m].deleted BY <2>2 DEF Card, Live
    <3>2. thread # None /\ thread # Gone BY <2>1, <3>1 DEF OneCard, CardGone
    <3>3. QED BY <3>2 DEF RoomExists
  <2>3. RoomExists(Thread) => thread # Gone BY Bounds DEF RoomExists
  <2>4. RoomExists(Thread) /\ AnnouncementID = 0 => CardGone BY <2>1, <2>3, AnnouncementIs
  <2>5. RoomExists(Thread) /\ CardGone => torn # {} \/ \E q \in Request : At(q, "remove", "room") BY <2>1 DEF OneCard
  <2>6. QED BY <2>2, <2>4, <2>5 DEF CardMatchesThread
<1>2. QED BY <1>1, Inductive, PTL

\* Once all requests are over, the card and the list of threads are up to date
\* unless a refresh was given up, and the reactions of a message are unless a
\* request on it is in progress (refreshThreadCard, publishChatThreadChanged).
THEOREM LookedUpIsFresh == Spec => []LookedUpSettles
<1>1. IInv => LookedUpSettles
  <2> SUFFICES ASSUME IInv PROVE LookedUpSettles OBVIOUS
  <2>1. TypeOK /\ OneCard /\ StaleIsTold /\ DbType BY TypeParts DEF IInv
  <2>2. ASSUME \A q \in Request : requests[q] = Idle, ~missed
        PROVE  ~listStale /\ (RoomExists(Thread) /\ AnnouncementID # 0 => ~cardStale)
    <3>1. ~listStale BY <2>1, <2>2 DEF StaleIsTold
    <3>2. AnnouncementID # 0 => ~CardGone BY <2>1, AnnouncementIs
    <3>3. QED BY <2>1, <2>2, <3>1, <3>2 DEF StaleIsTold
  <2>3. ASSUME NEW m \in reactionsStale
        PROVE  InFlight(m)
    BY <2>1 DEF StaleIsTold, TellsReactions, InFlight
  <2>4. QED BY <2>2, <2>3 DEF LookedUpSettles
<1>2. QED BY <1>1, Inductive, PTL

\* Once the requests on a message are over and no two of them overlapped, a screen
\* shows exactly what is stored (chat_events.go), with any number of requests on
\* other messages, of failures and of tasks that the runner refused.
THEOREM ShownIsStored == Spec => []ShownSettles
<1>1. IInv => ShownSettles BY DEF IInv, ScreensFollow, Clean, AsStored, ShownSettles
<1>2. QED BY <1>1, Inductive, PTL

\* Nobody is told twice of a message whose requests do not overlap: the reply and
\* the mention are one notification, an edit tells only those it adds.
THEOREM ToldOnce == Spec => []NeverToldTwice
<1>1. IInv => NeverToldTwice
  <2> SUFFICES ASSUME IInv, NEW m \in DOMAIN messages \ overlapped, NEW u \in User
               PROVE  notes[m][u] <= calls[m][u]
    BY DEF NeverToldTwice
  <2>1. TypeOK /\ Accounted /\ m \in MessageId BY TypeParts, MessageIds DEF IInv
  <2>2. PICK a, w, h, c : /\ a = notes[m][u] /\ w = Cardinality(Waiting(tasks, m, u))
                          /\ h = (IF u \in Told(m) THEN 1 ELSE 0) /\ c = calls[m][u]
    OBVIOUS
  <2>3. a \in Nat /\ w \in Nat /\ h \in Nat /\ c \in Nat BY <2>1, <2>2, DueType
  <2>4. a + w + h <= c BY <2>1, <2>2 DEF Accounted, Due
  <2>5. a <= c BY <2>3, <2>4
  <2>6. QED BY <2>2, <2>5
<1>2. QED BY <1>1, Inductive, PTL

\* And once its requests and tasks are over everybody has been told as often as
\* there was a reason to, unless a notification was lost (TryGo, a failed statement).
THEOREM EverybodyIsTold == Spec => []MentionedAreTold
<1>1. IInv => MentionedAreTold
  <2> SUFFICES ASSUME IInv, NEW m \in DOMAIN messages \ (overlapped \cup lost), NEW u \in User, Settled(m)
               PROVE  notes[m][u] = calls[m][u]
    BY DEF MentionedAreTold
  <2>1. TypeOK /\ Accounted /\ m \in MessageId BY TypeParts, MessageIds DEF IInv
  <2>2. Waiting(tasks, m, u) = {} BY DEF Waiting, Settled
  <2>3. Told(m) = {} BY DEF Told, Settled, InFlight
  <2>4. notes[m][u] \in Nat BY <2>1, DueType
  <2>5. Due(m, u) = notes[m][u] BY <2>2, <2>3, <2>4, FS_EmptySet DEF Due
  <2>6. QED BY <2>1, <2>5 DEF Accounted
<1>2. QED BY <1>1, Inductive, PTL

=============================================================================
