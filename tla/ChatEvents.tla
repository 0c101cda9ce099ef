----------------------------- MODULE ChatEvents -----------------------------
(***************************************************************************)
(* Chat messages, reactions and threads, and what is published about them. *)
(*                                                                         *)
(* A request of usecase/chat reads and checks, then commits, then          *)
(* publishes: three steps that other requests come between.  What a screen *)
(* shows follows the published events (graph/chat_events.go) in their      *)
(* order; the rest, the notifications, runs outside the request in a       *)
(* bounded runner that refuses what does not fit (internal/async).  The    *)
(* body of a message travels in its events, while reactions and the card   *)
(* of a thread are read when an event reaches a screen, so for them an     *)
(* event only has to come after the change.                                *)
(*                                                                         *)
(* One room, of any of its three kinds, and one thread in it.  Everybody   *)
(* is a member, so the rules of membership, blocks and terms always let    *)
(* pass; NG words, media and encryption are left out.                      *)
(*                                                                         *)
(* Definitions whose comment starts with "Wrong:" are faulty variants of   *)
(* the definition they precede; they show that the properties can fail.    *)
(***************************************************************************)
EXTENDS Integers, Sequences, FiniteSets, SequencesExt

CONSTANTS
    User,           \* the members of the room
    Admin,          \* those among them who are administrators
    Owner,          \* the owner of the community
    Request,        \* requests that can be in progress at once
    Kind,           \* kinds of room: "community", "course", "dm"
    Title,          \* names of a thread
    Main, Thread,   \* the room and the thread's room
    None, Gone,     \* the thread before it is created and after its deletion
    Idle,           \* no request
    Hidden,         \* not on the screen
    MaxConcurrent,  \* slots of the runner
    MaxMessages,    \* bound: messages
    MaxRequests,    \* bound: requests
    MaxFaults       \* bound: statements that fail

ASSUME ChatAssumption ==
    /\ Admin \subseteq User
    /\ Owner \in User
    /\ IsFiniteSet(Request)
    /\ Kind \subseteq {"community", "course", "dm"}
    /\ Main # Thread
    /\ None # Gone
    /\ Hidden \notin Nat
    /\ MaxConcurrent \in Nat \ {0}
    /\ MaxMessages \in Nat
    /\ MaxRequests \in Nat
    /\ MaxFaults \in Nat

VARIABLES
    kind,           \* the kind of the room
    thread,         \* its thread: None, a record, Gone
    messages,       \* the messages table; an id is an index
    requests,       \* what each request is doing
    tasks,          \* what the runner is running
    notes,          \* notifications of each message to each user
    shown,          \* what a screen that is open shows of each message
    cardStale,      \* has the thread changed since its card was last refreshed
    listStale,      \* ... since screens were last told to fetch the list of threads
    reactionsStale, \* messages whose reactions changed since their last event
    begun,          \* requests so far
    faults,         \* failed statements so far
    calls,          \* history variable: reasons to notify each user of each message
    overlapped,     \* history variable: messages with two requests at once
    lost,           \* history variable: messages with a notification given up
    torn,           \* history variable: announcements of a deletion that failed half way
    missed          \* history variable: was a refresh of the card or the list given up

dbVars     == <<kind, thread, messages>>
screenVars == <<shown, cardStale, listStale, reactionsStale>>
noteVars   == <<tasks, notes, calls, lost>>
vars == <<dbVars, requests, screenVars, noteVars, begun, faults, overlapped, torn, missed>>

MessageId == 1..MaxMessages

\* A body stands for itself by the number of the request that wrote it.
Content == 1..MaxRequests
Announcement == 0

-----------------------------------------------------------------------------
(* What the tables, the requests and the runner hold.                      *)

ThreadRecord == [name : Title, closed : BOOLEAN, creator : User]

Message ==
    [room : {Main, Thread}, author : User, content : Content \cup {Announcement},
     stamp : BOOLEAN, mentions : SUBSET User, reply : 0..MaxMessages, announces : BOOLEAN, deleted : BOOLEAN]

SendRequest ==
    [op : {"send"}, step : {"save", "publish", "card"}, user : User, room : {Main, Thread},
     msg : 0..MaxMessages, content : Content, stamp : BOOLEAN, mentions : SUBSET User,
     reply : 0..MaxMessages]

CardRequest == [op : {"card"}, step : {"publish"}, msg : MessageId, card : MessageId]

EditRequest ==
    [op : {"edit"}, step : {"save", "publish"}, user : User, msg : MessageId, content : Content,
     mentions : SUBSET User, before : [known : BOOLEAN, users : SUBSET User]]

DeleteRequest == [op : {"delete"}, step : {"save", "publish", "card"}, msg : MessageId]

ReactRequest ==
    [op : {"react"}, step : {"save", "publish"}, msg : MessageId, content : Content \cup {Announcement}]

CreateRequest ==
    [op : {"create"}, step : {"save", "publish"}, user : User, name : Title, msg : 0..MaxMessages]

RenameRequest ==
    [op : {"rename"}, step : {"save", "publish"}, name : Title, closed : BOOLEAN, msg : 0..MaxMessages]

RemoveRequest == [op : {"remove"}, step : {"save", "room", "publish"}, msg : 0..MaxMessages]

Requests ==
    UNION {SendRequest, CardRequest, EditRequest, DeleteRequest, ReactRequest, CreateRequest,
           RenameRequest, RemoveRequest}

Task == [msg : MessageId, actor : User, sent : BOOLEAN, mentions : SUBSET User, others : SUBSET User]

ASSUME ValueAssumption == Idle \notin Requests /\ {None, Gone} \cap ThreadRecord = {}

-----------------------------------------------------------------------------
\* The announcement of a thread: ThreadRoomID is set.
Announces(u) ==
    [room |-> Main, author |-> u, content |-> Announcement, stamp |-> FALSE, mentions |-> {},
     reply |-> 0, announces |-> TRUE, deleted |-> FALSE]

\* The room is empty or has a thread, which its owner made, without messages.
Init ==
    /\ kind \in Kind
    /\ \/ /\ thread = None
          /\ messages = <<>>
          /\ shown = [m \in MessageId |-> Hidden]
       \/ /\ kind # "dm"
          /\ MaxMessages > 0
          /\ \E name \in Title : thread = [name |-> name, closed |-> FALSE, creator |-> Owner]
          /\ messages = <<Announces(Owner)>>
          /\ shown = [m \in MessageId |-> IF m = 1 THEN Announcement ELSE Hidden]
    /\ requests = [q \in Request |-> Idle]
    /\ tasks = <<>>
    /\ notes = [m \in MessageId |-> [u \in User |-> 0]]
    /\ cardStale = FALSE
    /\ listStale = FALSE
    /\ reactionsStale = {}
    /\ begun = 0
    /\ faults = 0
    /\ calls = [m \in MessageId |-> [u \in User |-> 0]]
    /\ overlapped = {}
    /\ lost = {}
    /\ torn = {}
    /\ missed = FALSE

-----------------------------------------------------------------------------
(* Reading the tables.                                                     *)

Live(m) == m \in DOMAIN messages /\ ~messages[m].deleted

\* GetRoomByID finds the room.
RoomExists(r) == r = Main \/ thread \notin {None, Gone}

Closed(r) == r = Thread /\ RoomExists(r) /\ thread.closed

\* ensureWriteAccessFor: no one writes in a closed thread.
WriteAccess(r) == RoomExists(r) /\ ~Closed(r)

\* ensureMutateAccess: but an administrator may change what is there.
MutateAccess(u, r) == RoomExists(r) /\ (Closed(r) => u \in Admin)

CanBeEditedBy(u, m) ==
    /\ Live(m)
    /\ ~messages[m].announces
    /\ u = messages[m].author \/ u \in Admin

\* DeleteMessage also lets the owner of a community.
CanBeDeletedBy(u, m) ==
    \/ CanBeEditedBy(u, m)
    \/ Live(m) /\ ~messages[m].announces /\ kind = "community" /\ u = Owner

\* CanManage
CanManage(u) == u \in Admin \/ u = thread.creator \/ (kind = "community" /\ u = Owner)

\* AnnouncementID, 0 when there is none.
AnnouncementID ==
    LET announcing == {m \in DOMAIN messages : Live(m) /\ messages[m].announces}
    IN  IF announcing = {} THEN 0 ELSE CHOOSE m \in announcing : \A n \in announcing : m <= n

\* ResolveMentions: only in communities and never the author.
ResolveMentions(author, wanted) == IF kind = "community" THEN wanted \ {author} ELSE {}

-----------------------------------------------------------------------------
(* Requests.                                                               *)

At(q, op, step) == requests[q] # Idle /\ requests[q].op = op /\ requests[q].step = step

InFlight(m) == \E q \in Request : requests[q] # Idle /\ requests[q].msg = m

Begin(q, request) ==
    /\ requests[q] = Idle
    /\ begun < MaxRequests
    /\ begun' = begun + 1
    /\ requests' = [requests EXCEPT ![q] = request]
    /\ overlapped' = IF InFlight(request.msg) THEN overlapped \cup ({request.msg} \ {0})
                                              ELSE overlapped

GoTo(q, step) == requests' = [requests EXCEPT ![q].step = step]
End(q) == requests' = [requests EXCEPT ![q] = Idle]

Fault == faults < MaxFaults /\ faults' = faults + 1

\* A statement fails and the request returns the error; a transaction rolls back.
Fails(q) ==
    /\ Fault
    /\ End(q)
    /\ UNCHANGED <<dbVars, screenVars, noteVars, begun, overlapped, torn, missed>>

\* Messages that are there or will be once the requests have saved.
Numbered ==
    Len(messages) + Cardinality({q \in Request : At(q, "send", "save") \/ At(q, "create", "save")})

-----------------------------------------------------------------------------
(* The runner.                                                             *)

\* TryGo: a full runner refuses the task, which is then lost.
TryGo(task) ==
    IF Len(tasks) < MaxConcurrent
    THEN tasks' = Append(tasks, task) /\ UNCHANGED lost
    ELSE lost' = lost \cup {task.msg} /\ UNCHANGED tasks

\* The author of the message that a message quotes, unless that is the sender.
Replied(m) ==
    IF messages[m].reply = 0 THEN {} ELSE {messages[messages[m].reply].author} \ {messages[m].author}

\* publishMessageReplyNotification: the quoted message may be gone by now.
RepliedNow(task) ==
    IF kind = "dm" \/ messages[task.msg].reply = 0 \/ ~Live(messages[task.msg].reply) THEN {}
    ELSE Replied(task.msg)

\* Wrong: someone whose reply notification failed is left out of the mentions.
SkipsReplied(mentions, replied, told) == mentions \ replied

\* publishMentionNotifications skips the one that the reply notification reached.
Skips(mentions, replied, told) == mentions \ told

\* publishSentNotifications, publishMentionNotifications: the reply, each
\* notification of a DM and the batch of mentions fail on their own; a deadline
\* or a panic makes the rest fail.
RunTask(i) ==
    LET task    == tasks[i]
        replied == IF task.sent THEN RepliedNow(task) ELSE {}
        others  == IF task.sent /\ kind = "dm" THEN User \ {task.actor} ELSE {}
    IN  \E reached \in SUBSET (replied \cup others) :
        LET mentioned == Skips(task.mentions, replied, reached)
        IN  \E batch \in {{}, mentioned} :
            /\ tasks' = RemoveAt(tasks, i)
            /\ \/ reached = replied \cup others /\ batch = mentioned /\ UNCHANGED faults
               \/ (reached # replied \cup others \/ batch # mentioned) /\ Fault
            /\ notes' = [notes EXCEPT ![task.msg] = [u \in User |->
                    notes[task.msg][u] + (IF u \in reached THEN 1 ELSE 0) + (IF u \in batch THEN 1 ELSE 0)]]
            /\ lost' = IF batch = mentioned /\ (task.others \ task.mentions) \subseteq reached
                       THEN lost ELSE lost \cup {task.msg}
            /\ UNCHANGED <<dbVars, requests, screenVars, calls, begun, overlapped, torn, missed>>

-----------------------------------------------------------------------------
(* What a screen does with the events of its room.                         *)

\* Wrong: the event is left to the runner too, and lost with the task.
ShowAddedIfAccepted(m) ==
    shown' = IF Len(tasks) < MaxConcurrent THEN [shown EXCEPT ![m] = messages[m].content] ELSE shown

ShowAdded(m) == shown' = [shown EXCEPT ![m] = messages[m].content]

\* An update of a message that is not shown shows nothing.
ShowUpdated(m, content) == shown' = [shown EXCEPT ![m] = IF @ = Hidden THEN Hidden ELSE content]

ShowDeleted(m) == shown' = [shown EXCEPT ![m] = Hidden]

-----------------------------------------------------------------------------
(* Sending: SendMessage.                                                   *)

\* Those to be notified of a new message whether or not it mentions them.
Others(u, reply) ==
    IF kind = "dm" THEN User \ {u}
    ELSE IF reply = 0 THEN {} ELSE {messages[reply].author} \ {u}

\* Access, stamp, mentions and the quoted message are checked.
SendMessage(q) ==
    \E u \in User, r \in {Main, Thread}, stamp \in BOOLEAN, wanted \in SUBSET User,
       reply \in 0..Len(messages) :
        /\ Numbered < MaxMessages
        /\ WriteAccess(r)
        /\ stamp => wanted = {}
        /\ reply # 0 => Live(reply) /\ messages[reply].room = r
        /\ Begin(q, [op |-> "send", step |-> "save", user |-> u, room |-> r, msg |-> 0,
                     content |-> begun + 1, stamp |-> stamp,
                     mentions |-> ResolveMentions(u, wanted), reply |-> reply])
        /\ UNCHANGED <<dbVars, screenVars, noteVars, faults, torn, missed>>

\* messagestore saves the message and its mentions; the room may be gone.
SaveMessage(q) ==
    LET r == requests[q]
        m == Len(messages) + 1
    IN  /\ At(q, "send", "save")
        /\ \/ /\ RoomExists(r.room)
              /\ messages' = Append(messages,
                    [room |-> r.room, author |-> r.user, content |-> r.content,
                     stamp |-> r.stamp, mentions |-> r.mentions, reply |-> r.reply,
                     announces |-> FALSE, deleted |-> FALSE])
              /\ requests' = [requests EXCEPT ![q].step = "publish", ![q].msg = m]
              /\ calls' = [calls EXCEPT ![m] = [u \in User |->
                    IF u \in r.mentions \cup Others(r.user, r.reply) THEN 1 ELSE 0]]
              /\ cardStale' = (cardStale \/ r.room = Thread)
              /\ listStale' = (listStale \/ r.room = Thread)
              /\ UNCHANGED <<kind, thread, shown, reactionsStale, tasks, notes, lost,
                             begun, faults, overlapped, torn, missed>>
           \/ /\ ~RoomExists(r.room)
              /\ End(q)
              /\ UNCHANGED <<dbVars, screenVars, noteVars, begun, faults, overlapped, torn, missed>>
           \/ Fails(q)

\* Wrong: nothing is refreshed for a closed thread.
RefreshOpenThreadCard(q, r) == IF r = Thread /\ WriteAccess(r) THEN GoTo(q, "card") ELSE End(q)

\* refreshThreadCard has something to do for the messages of a thread.
RefreshThreadCard(q, r) == IF r = Thread THEN GoTo(q, "card") ELSE End(q)

\* MessageSent: the event and threads:changed now, the rest in the runner.
PublishSent(q) ==
    LET r == requests[q] IN
    /\ At(q, "send", "publish")
    /\ ShowAdded(r.msg)
    /\ listStale' = (listStale /\ r.room # Thread)
    /\ TryGo([msg |-> r.msg, actor |-> r.user, sent |-> TRUE, mentions |-> r.mentions,
              others |-> Others(r.user, r.reply)])
    /\ RefreshThreadCard(q, r.room)
    /\ UNCHANGED <<dbVars, cardStale, reactionsStale, notes, calls, begun, faults,
                   overlapped, torn, missed>>

\* Its announcement is read; a failure is only logged.
ReadThreadCard(q) ==
    /\ \E op \in {"send", "delete"} : At(q, op, "card")
    /\ \/ /\ AnnouncementID # 0
          /\ requests' = [requests EXCEPT ![q] =
                [op |-> "card", step |-> "publish", msg |-> requests[q].msg, card |-> AnnouncementID]]
          /\ UNCHANGED <<dbVars, screenVars, noteVars, begun, faults, overlapped, torn, missed>>
       \/ /\ AnnouncementID = 0
          /\ End(q)
          /\ UNCHANGED <<dbVars, screenVars, noteVars, begun, faults, overlapped, torn, missed>>
       \/ /\ Fault
          /\ End(q)
          /\ missed' = TRUE
          /\ UNCHANGED <<dbVars, screenVars, noteVars, begun, overlapped, torn>>

\* publishThreadCard
PublishThreadCard(q) ==
    /\ At(q, "card", "publish")
    /\ ShowUpdated(requests[q].card, Announcement)
    /\ cardStale' = FALSE
    /\ End(q)
    /\ UNCHANGED <<dbVars, listStale, reactionsStale, noteVars, begun, faults, overlapped, torn, missed>>

-----------------------------------------------------------------------------
(* Editing: UpdateMessage.                                                 *)

\* Wrong: mentions that could not be read are taken for none.
MentionsBeforeOrNone(m) == {[known |-> TRUE, users |-> messages[m].mentions],
                            [known |-> TRUE, users |-> {}]}

\* ListMentions, which may fail: the edit goes on and notifies nobody.
MentionsBefore(m) == {[known |-> TRUE, users |-> messages[m].mentions],
                      [known |-> FALSE, users |-> {}]}

\* Loads and checks the message, resolves the new mentions, reads the old ones.
UpdateMessage(q) ==
    \E u \in User, m \in DOMAIN messages, wanted \in SUBSET User :
      \E before \in MentionsBefore(m) :
        /\ CanBeEditedBy(u, m)
        /\ MutateAccess(u, messages[m].room)
        /\ kind # "course"
        /\ ~messages[m].stamp
        /\ IF before = [known |-> TRUE, users |-> messages[m].mentions] THEN UNCHANGED faults ELSE Fault
        /\ Begin(q, [op |-> "edit", step |-> "save", user |-> messages[m].author, msg |-> m,
                     content |-> begun + 1,
                     mentions |-> ResolveMentions(messages[m].author, wanted),
                     before |-> before])
        /\ UNCHANGED <<dbVars, screenVars, noteVars, torn, missed>>

\* The message is read again and written if it is not deleted; whether a row was
\* written is not looked at, so an edit may still be published after a deletion.
SaveEdit(q) ==
    LET r == requests[q]
        new == r.mentions \ messages[r.msg].mentions
        more == [calls EXCEPT ![r.msg] = [u \in User |-> calls[r.msg][u] + IF u \in new THEN 1 ELSE 0]]
    IN  /\ At(q, "edit", "save")
        /\ \/ /\ Live(r.msg)
              /\ messages' = [messages EXCEPT ![r.msg].content = r.content,
                                              ![r.msg].mentions = r.mentions]
              /\ calls' = more
              /\ lost' = IF r.before.known THEN lost ELSE lost \cup {r.msg}
              /\ GoTo(q, "publish")
              /\ UNCHANGED <<kind, thread, screenVars, tasks, notes, begun, faults,
                             overlapped, torn, missed>>
           \/ /\ ~Live(r.msg)
              /\ messages' = [messages EXCEPT ![r.msg].mentions = r.mentions]
              /\ calls' = more
              /\ lost' = IF r.before.known THEN lost ELSE lost \cup {r.msg}
              /\ GoTo(q, "publish")
              /\ UNCHANGED <<kind, thread, screenVars, tasks, notes, begun, faults,
                             overlapped, torn, missed>>
           \/ /\ ~Live(r.msg)
              /\ End(q)
              /\ UNCHANGED <<dbVars, screenVars, noteVars, begun, faults, overlapped, torn, missed>>
           \/ Fails(q)

\* MessageUpdated: the event now, the added mentions in the runner.
PublishEdited(q) ==
    LET r == requests[q]
        added == IF r.before.known THEN r.mentions \ r.before.users ELSE {}
    IN  /\ At(q, "edit", "publish")
        /\ ShowUpdated(r.msg, r.content)
        /\ reactionsStale' = reactionsStale \ {r.msg}
        /\ IF added = {} THEN UNCHANGED <<tasks, lost>>
           ELSE TryGo([msg |-> r.msg, actor |-> r.user, sent |-> FALSE, mentions |-> added,
                       others |-> {}])
        /\ End(q)
        /\ UNCHANGED <<dbVars, cardStale, listStale, notes, calls, begun, faults, overlapped, torn, missed>>

-----------------------------------------------------------------------------
(* Deleting: DeleteMessage.                                                *)

DeleteMessage(q) ==
    \E u \in User, m \in DOMAIN messages :
        /\ CanBeDeletedBy(u, m)
        /\ MutateAccess(u, messages[m].room)
        /\ Begin(q, [op |-> "delete", step |-> "save", msg |-> m])
        /\ UNCHANGED <<dbVars, screenVars, noteVars, faults, torn, missed>>

\* SoftDeleteMessage says whether this call deleted; only then is it published.
SaveDeletion(q) ==
    LET m == requests[q].msg IN
    /\ At(q, "delete", "save")
    /\ \/ /\ Live(m)
          /\ messages' = [messages EXCEPT ![m].deleted = TRUE]
          /\ cardStale' = (cardStale \/ messages[m].room = Thread)
          /\ GoTo(q, "publish")
          /\ UNCHANGED <<kind, thread, shown, listStale, reactionsStale, noteVars,
                         begun, faults, overlapped, torn, missed>>
       \/ /\ ~Live(m)
          /\ End(q)
          /\ UNCHANGED <<dbVars, screenVars, noteVars, begun, faults, overlapped, torn, missed>>
       \/ Fails(q)

\* MessageDeleted, then the room is read again for its thread's card.
PublishDeleted(q) ==
    LET m == requests[q].msg IN
    /\ At(q, "delete", "publish")
    /\ ShowDeleted(m)
    /\ RefreshThreadCard(q, messages[m].room)
    /\ UNCHANGED <<dbVars, cardStale, listStale, reactionsStale, noteVars, begun, faults,
                   overlapped, torn, missed>>

-----------------------------------------------------------------------------
(* Reactions: change.                                                      *)

\* The message is read here, and published as it was here.
ChangeReaction(q) ==
    \E u \in User, m \in DOMAIN messages :
        /\ Live(m)
        /\ MutateAccess(u, messages[m].room)
        /\ Begin(q, [op |-> "react", step |-> "save", msg |-> m,
                     content |-> messages[m].content])
        /\ UNCHANGED <<dbVars, screenVars, noteVars, faults, torn, missed>>

\* AddMessageReaction, RemoveMessageReaction; a reaction to a message that is
\* gone with its thread is ignored by INSERT IGNORE and still published.
SaveReaction(q) ==
    /\ At(q, "react", "save")
    /\ \/ /\ reactionsStale' = reactionsStale \cup {requests[q].msg}
          /\ GoTo(q, "publish")
          /\ UNCHANGED <<dbVars, shown, cardStale, listStale, noteVars, begun, faults,
                         overlapped, torn, missed>>
       \/ Fails(q)

\* MessageUpdated with the message as it was read.
PublishReaction(q) ==
    LET r == requests[q] IN
    /\ At(q, "react", "publish")
    /\ ShowUpdated(r.msg, r.content)
    /\ reactionsStale' = reactionsStale \ {r.msg}
    /\ End(q)
    /\ UNCHANGED <<dbVars, cardStale, listStale, noteVars, begun, faults, overlapped, torn, missed>>

-----------------------------------------------------------------------------
(* Threads: ThreadService.                                                 *)

CreateThread(q) ==
    \E u \in User, name \in Title :
        /\ kind # "dm"
        /\ thread = None
        /\ ~\E p \in Request : At(p, "create", "save")
        /\ Numbered < MaxMessages
        /\ WriteAccess(Main)
        /\ Begin(q, [op |-> "create", step |-> "save", user |-> u, name |-> name, msg |-> 0])
        /\ UNCHANGED <<dbVars, screenVars, noteVars, faults, torn, missed>>

\* The room, its chat_threads row and the announcement, in one transaction.
SaveThread(q) ==
    LET r == requests[q] IN
    /\ At(q, "create", "save")
    /\ \/ /\ thread' = [name |-> r.name, closed |-> FALSE, creator |-> r.user]
          /\ messages' = Append(messages, Announces(r.user))
          /\ cardStale' = TRUE
          /\ listStale' = TRUE
          /\ requests' = [requests EXCEPT ![q].step = "publish", ![q].msg = Len(messages) + 1]
          /\ UNCHANGED <<kind, shown, reactionsStale, noteVars, begun, faults,
                         overlapped, torn, missed>>
       \/ Fails(q)

\* MessageSent in the room, then the resolver's threads:changed.
PublishThread(q) ==
    LET r == requests[q] IN
    /\ At(q, "create", "publish")
    /\ ShowAdded(r.msg)
    /\ cardStale' = FALSE
    /\ listStale' = FALSE
    /\ TryGo([msg |-> r.msg, actor |-> r.user, sent |-> TRUE, mentions |-> {}, others |-> {}])
    /\ End(q)
    /\ UNCHANGED <<dbVars, reactionsStale, notes, calls, begun, faults, overlapped, torn, missed>>

\* Update: what the caller does not give is taken from the thread as read here,
\* and the announcement is read here too.
UpdateThread(q) ==
    \E u \in User, name \in Title, closed \in BOOLEAN :
        /\ RoomExists(Thread)
        /\ WriteAccess(Main)
        /\ CanManage(u)
        /\ Begin(q, [op |-> "rename", step |-> "save", name |-> name, closed |-> closed,
                     msg |-> AnnouncementID])
        /\ UNCHANGED <<dbVars, screenVars, noteVars, faults, torn, missed>>

\* Two updates that need not find a row.
SaveThreadUpdate(q) ==
    LET r == requests[q] IN
    /\ At(q, "rename", "save")
    /\ \/ /\ thread' = IF RoomExists(Thread)
                       THEN [thread EXCEPT !.name = r.name, !.closed = r.closed] ELSE thread
          /\ cardStale' = (cardStale \/ RoomExists(Thread))
          /\ listStale' = (listStale \/ RoomExists(Thread))
          /\ GoTo(q, "publish")
          /\ UNCHANGED <<kind, messages, shown, reactionsStale, noteVars, begun, faults,
                         overlapped, torn, missed>>
       \/ Fails(q)

\* The announcement's event; threads:changed once the thread was read again.
PublishThreadUpdate(q) ==
    LET r == requests[q] IN
    /\ At(q, "rename", "publish")
    /\ IF r.msg = 0 THEN UNCHANGED <<shown, cardStale>>
       ELSE ShowUpdated(r.msg, Announcement) /\ cardStale' = FALSE
    /\ \/ listStale' = (listStale /\ ~RoomExists(Thread)) /\ UNCHANGED <<faults, missed>>
       \/ Fault /\ missed' = TRUE /\ UNCHANGED listStale
    /\ End(q)
    /\ UNCHANGED <<dbVars, reactionsStale, noteVars, begun, overlapped, torn>>

\* Wrong: the announcement is left as an ordinary message.
DeleteThreadOnly(q) ==
    \E u \in Admin :
        /\ RoomExists(Thread)
        /\ Begin(q, [op |-> "remove", step |-> "save", msg |-> 0])
        /\ UNCHANGED <<dbVars, screenVars, noteVars, faults, torn, missed>>

\* Delete: administrators only.
DeleteThread(q) ==
    \E u \in Admin :
        /\ RoomExists(Thread)
        /\ Begin(q, [op |-> "remove", step |-> "save", msg |-> AnnouncementID])
        /\ UNCHANGED <<dbVars, screenVars, noteVars, faults, torn, missed>>

\* SoftDeleteMessage does not join the transaction it is called in.
SaveAnnouncementDeletion(q) ==
    LET m == requests[q].msg IN
    /\ At(q, "remove", "save")
    /\ \/ /\ messages' = IF m = 0 THEN messages ELSE [messages EXCEPT ![m].deleted = TRUE]
          /\ GoTo(q, "room")
          /\ UNCHANGED <<kind, thread, screenVars, noteVars, begun, faults, overlapped, torn, missed>>
       \/ Fails(q)

\* DeleteRoom takes the thread's messages with it and empties thread_room_id.
DeleteRoom(q) ==
    LET m == requests[q].msg IN
    /\ At(q, "remove", "room")
    /\ \/ /\ thread' = Gone
          /\ messages' = [n \in DOMAIN messages |->
                [messages[n] EXCEPT !.deleted = @ \/ messages[n].room = Thread, !.announces = FALSE]]
          /\ listStale' = TRUE
          /\ GoTo(q, "publish")
          /\ UNCHANGED <<kind, shown, cardStale, reactionsStale, noteVars, begun, faults,
                         overlapped, torn, missed>>
       \/ /\ Fault
          /\ End(q)
          /\ torn' = torn \cup ({m} \ {0})
          /\ UNCHANGED <<dbVars, screenVars, noteVars, begun, overlapped, missed>>

\* MessageDeleted and the resolver's threads:changed.
PublishThreadDeleted(q) ==
    LET m == requests[q].msg IN
    /\ At(q, "remove", "publish")
    /\ IF m = 0 THEN UNCHANGED shown ELSE ShowDeleted(m)
    /\ listStale' = FALSE
    /\ End(q)
    /\ UNCHANGED <<dbVars, cardStale, reactionsStale, noteVars, begun, faults, overlapped, torn, missed>>

-----------------------------------------------------------------------------

Next ==
    \/ \E q \in Request :
        \/ SendMessage(q) \/ SaveMessage(q) \/ PublishSent(q)
        \/ ReadThreadCard(q) \/ PublishThreadCard(q)
        \/ UpdateMessage(q) \/ SaveEdit(q) \/ PublishEdited(q)
        \/ DeleteMessage(q) \/ SaveDeletion(q) \/ PublishDeleted(q)
        \/ ChangeReaction(q) \/ SaveReaction(q) \/ PublishReaction(q)
        \/ CreateThread(q) \/ SaveThread(q) \/ PublishThread(q)
        \/ UpdateThread(q) \/ SaveThreadUpdate(q) \/ PublishThreadUpdate(q)
        \/ DeleteThread(q) \/ SaveAnnouncementDeletion(q) \/ DeleteRoom(q) \/ PublishThreadDeleted(q)
    \/ \E i \in DOMAIN tasks : RunTask(i)

Spec == Init /\ [][Next]_vars

-----------------------------------------------------------------------------
(* Properties.                                                             *)

\* Types; the runner never runs more than its slots (runner.go).
TypeOK ==
    /\ kind \in Kind
    /\ thread \in ThreadRecord \cup {None, Gone}
    /\ messages \in Seq(Message)
    /\ Len(messages) <= MaxMessages
    /\ \A m \in DOMAIN messages : messages[m].reply < m
    /\ requests \in [Request -> Requests \cup {Idle}]
    /\ tasks \in Seq(Task)
    /\ Len(tasks) <= MaxConcurrent
    /\ notes \in [MessageId -> [User -> Nat]]
    /\ calls \in [MessageId -> [User -> Nat]]
    /\ shown \in [MessageId -> Content \cup {Announcement, Hidden}]
    /\ \A m \in MessageId : shown[m] # Hidden => m \in DOMAIN messages
    /\ cardStale \in BOOLEAN /\ listStale \in BOOLEAN /\ missed \in BOOLEAN
    /\ reactionsStale \subseteq DOMAIN messages
    /\ overlapped \subseteq DOMAIN messages /\ lost \subseteq DOMAIN messages
    /\ begun \in 0..MaxRequests /\ faults \in 0..MaxFaults

Settled(m) == ~InFlight(m) /\ \A i \in DOMAIN tasks : tasks[i].msg # m

\* Once the requests on a message are over, and if no two of them ran at the
\* same time, a screen shows the message exactly as it is stored, or nothing if
\* it is deleted: MessageSent, MessageUpdated and MessageDeleted publish within
\* the request (chat_events.go), whatever becomes of the runner.
ShownSettles ==
    \A m \in DOMAIN messages \ (overlapped \cup torn) :
        ~InFlight(m) /\ RoomExists(messages[m].room) =>
            shown[m] = IF messages[m].deleted THEN Hidden ELSE messages[m].content

\* What a screen reads anew at an event settles however requests run into each
\* other, because each publishes after its own change.  Once they are over the
\* card of the thread (refreshThreadCard, threads.go Update) and the list of
\* threads (publishChatThreadChanged) are up to date, unless a refresh was given
\* up, and so are the reactions of a message (reaction.go change).
LookedUpSettles ==
    /\ (\A q \in Request : requests[q] = Idle) /\ ~missed =>
            /\ ~listStale
            /\ RoomExists(Thread) /\ AnnouncementID # 0 => ~cardStale
    /\ \A m \in reactionsStale : Live(m) => InFlight(m)

\* Nobody is told twice of the same thing: a message that quotes and mentions
\* somebody is one notification, a message of a DM is one, and an edit notifies
\* only those it adds, as long as edits of a message do not overlap
\* (command.go UpdateMessage, chat_events.go publishSentNotifications).
NeverToldTwice ==
    \A m \in DOMAIN messages \ overlapped, u \in User : notes[m][u] <= calls[m][u]

\* And everybody who is to be told is told, unless the runner was full, a
\* statement failed or the quoted message is gone: a failed reply notification
\* leaves the mention, a full set of slots elsewhere loses nothing here.
MentionedAreTold ==
    \A m \in DOMAIN messages \ (overlapped \cup lost), u \in User :
        Settled(m) => notes[m][u] = calls[m][u]

\* The announcement of a thread never outlives it as an ordinary message, and a
\* thread is without it only while it is being deleted or after a deletion that
\* failed half way: threads.go Delete, with two deletions at once too.
CardMatchesThread ==
    /\ \A m \in DOMAIN messages :
            Live(m) /\ messages[m].content = Announcement => RoomExists(Thread)
    /\ RoomExists(Thread) => \/ AnnouncementID # 0
                             \/ \E q \in Request : At(q, "remove", "room")
                             \/ torn # {}

=============================================================================
