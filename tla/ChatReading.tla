---------------------------- MODULE ChatReading ----------------------------
(***************************************************************************)
(* Reading a chat: message numbers, read positions, unread counts, pages.  *)
(*                                                                         *)
(* A message gets its number when the sender's transaction inserts it and  *)
(* becomes visible when that transaction commits, so messages may become   *)
(* visible out of order.  Readers have several devices; each marks a room  *)
(* as read in several statements (usecase/chat/read.go, usecase/room,      *)
(* infra/mysql), and clients page through a room with the cursors of       *)
(* message_read_model.go.  Times are whole seconds; 0 stands for NULL.     *)
(*                                                                         *)
(* Definitions whose comment starts with "Wrong:" are faulty variants of   *)
(* the definition they precede; they show that the properties can fail.    *)
(***************************************************************************)
EXTENDS Integers, Sequences, FiniteSets

CONSTANTS
    User,           \* those whose positions are followed
    Author,         \* those who send, Users or not
    Room,           \* every room
    CourseRoom,     \* those with positions in course_room_reads, not room_users
    Device,         \* clients that mark rooms as read
    Owner,          \* the user of each device
    Pager,          \* clients that page through a room
    PagedRoom,      \* the room of each pager
    Limit,          \* messages of a page
    MaxMessages,    \* bound: messages
    MaxClock        \* bound: seconds

ASSUME ReadingAssumption ==
    /\ Room # {}
    /\ CourseRoom \subseteq Room
    /\ Owner \in [Device -> User]
    /\ PagedRoom \in [Pager -> Room]
    /\ Limit \in Nat \ {0}
    /\ MaxMessages \in Nat
    /\ MaxClock \in Nat \ {0}

VARIABLES
    clock,
    messages,   \* the messages table; an id is an index
    row,        \* is there a room_users / course_room_reads row
    lastId,     \* its last_read_message_id
    lastAt,     \* its last_read_at
    registered, \* timetables.created_at of the room's course
    dpc,        \* the next step of each device's markRoomAsRead
    target,     \* its room
    asked,      \* its lastReadMessageID, then what that resolved to
    readAt,     \* its time
    ppc,        \* the next step of each pager's messages query
    page,       \* the page that is being answered
    seen,       \* the messages the pager has received
    moreBefore, \* hasMoreBefore, as far as the pager knows
    moreAfter,  \* hasMoreAfter
    horizon,    \* history variable: ids issued when the request was resolved
    marked,     \* history variable: the largest horizon of the marks stored
    late,       \* history variable: messages that became visible below one the pager had
    new         \* history variable: messages that became visible after its newest page

readVars == <<row, lastId, lastAt, registered>>
markVars == <<dpc, target, asked, readAt, horizon>>
pageVars == <<ppc, page, seen, moreBefore, moreAfter>>
vars == <<clock, messages, readVars, markVars, marked, pageVars, late, new>>

Id     == 1..MaxMessages
Second == 1..MaxClock
Place  == Room \X User
State  == {"inserted", "live", "deleted", "rolledback"}
Message == [room : Room, author : Author, made : Second, state : State]

TypeOK ==
    /\ clock \in Second
    /\ messages \in Seq(Message) /\ Len(messages) <= MaxMessages
    /\ row \in [Place -> BOOLEAN]
    /\ lastId \in [Place -> 0..MaxMessages]
    /\ lastAt \in [Place -> 0..MaxClock]
    /\ registered \in [Place -> 0..MaxClock]
    /\ dpc \in [Device -> {"idle", "resolve", "store"}]
    /\ target \in [Device -> Room]
    /\ asked \in [Device -> 0..MaxMessages]
    /\ readAt \in [Device -> 0..MaxClock]
    /\ ppc \in [Pager -> {"new", "idle", "first", "before", "after"}]
    /\ page \in [Pager -> SUBSET Id]
    /\ seen \in [Pager -> SUBSET Id]
    /\ moreBefore \in [Pager -> BOOLEAN]
    /\ moreAfter \in [Pager -> BOOLEAN]
    /\ horizon \in [Device -> 0..MaxMessages]
    /\ marked \in [Place -> 0..MaxMessages]
    /\ late \in [Pager -> SUBSET Id]
    /\ new \in [Pager -> SUBSET Id]

NoRoom == CHOOSE r \in Room : TRUE

Init ==
    /\ clock = 1
    /\ messages = <<>>
    /\ row = [p \in Place |-> p[1] \notin CourseRoom]
    /\ lastId = [p \in Place |-> 0]
    /\ lastAt = [p \in Place |-> 0]
    /\ registered = [p \in Place |-> 0]
    /\ dpc = [d \in Device |-> "idle"]
    /\ target = [d \in Device |-> NoRoom]
    /\ asked = [d \in Device |-> 0]
    /\ readAt = [d \in Device |-> 0]
    /\ ppc = [g \in Pager |-> "new"]
    /\ page = [g \in Pager |-> {}]
    /\ seen = [g \in Pager |-> {}]
    /\ moreBefore = [g \in Pager |-> FALSE]
    /\ moreAfter = [g \in Pager |-> FALSE]
    /\ horizon = [d \in Device |-> 0]
    /\ marked = [p \in Place |-> 0]
    /\ late = [g \in Pager |-> {}]
    /\ new = [g \in Pager |-> {}]

MaxOf(a, b) == IF a >= b THEN a ELSE b

\* Rows of a room that a query sees, and the ones it does not filter out.
Visible(r) == {i \in DOMAIN messages : /\ messages[i].room = r
                                       /\ messages[i].state \in {"live", "deleted"}}
Live(r)    == {i \in Visible(r) : messages[i].state = "live"}
Foreign(r, u) == {i \in Live(r) : messages[i].author # u}
-----------------------------------------------------------------------------
(* Messages. *)

Tick ==
    /\ clock < MaxClock
    /\ clock' = clock + 1
    /\ UNCHANGED <<messages, readVars, markVars, marked, pageVars, late, new>>

\* SendMessage has checked the access, which may have changed since, and read the
\* time; its transaction inserts the row: the id is issued, nobody else sees the
\* message.
SaveMessage(r, u) ==
    /\ Len(messages) < MaxMessages
    /\ \E s \in {clock - 1, clock} \cap Second :
          messages' = Append(messages, [room |-> r, author |-> u, made |-> s, state |-> "inserted"])
    /\ UNCHANGED <<clock, readVars, markVars, marked, pageVars, late, new>>

\* The transaction, with mentions and attachments, commits.
Commit(i) ==
    /\ messages[i].state = "inserted"
    /\ messages' = [messages EXCEPT ![i].state = "live"]
    /\ late' = [g \in Pager |-> late[g] \cup
          {j \in {i} : messages[i].room = PagedRoom[g] /\ \E k \in seen[g] \cup page[g] : k > i}]
    /\ new' = [g \in Pager |-> new[g] \cup {i}]
    /\ UNCHANGED <<clock, readVars, markVars, marked, pageVars>>

\* It fails; the id is not used again.
Rollback(i) ==
    /\ messages[i].state = "inserted"
    /\ messages' = [messages EXCEPT ![i].state = "rolledback"]
    /\ UNCHANGED <<clock, readVars, markVars, marked, pageVars, late, new>>

SoftDeleteMessage(i) ==
    /\ messages[i].state = "live"
    /\ messages' = [messages EXCEPT ![i].state = "deleted"]
    /\ UNCHANGED <<clock, readVars, markVars, marked, pageVars, late, new>>
-----------------------------------------------------------------------------
(* Rows that hold positions. *)

\* AddUserToRoom: INSERT IGNORE.
AddUserToRoom(r, u) ==
    /\ r \notin CourseRoom /\ ~row[<<r, u>>]
    /\ row' = [row EXCEPT ![<<r, u>>] = TRUE]
    /\ UNCHANGED <<clock, messages, lastId, lastAt, registered, markVars, marked, pageVars, late, new>>

\* RemoveUserFromRoom: the position goes with the row.
RemoveUserFromRoom(r, u) ==
    /\ r \notin CourseRoom /\ row[<<r, u>>]
    /\ row' = [row EXCEPT ![<<r, u>>] = FALSE]
    /\ lastId' = [lastId EXCEPT ![<<r, u>>] = 0]
    /\ lastAt' = [lastAt EXCEPT ![<<r, u>>] = 0]
    /\ marked' = [marked EXCEPT ![<<r, u>>] = 0]
    /\ UNCHANGED <<clock, messages, registered, markVars, pageVars, late, new>>

\* The user adds the course to, or removes it from, the timetable.
Register(r, u) ==
    /\ r \in CourseRoom
    /\ registered' = [registered EXCEPT ![<<r, u>>] = IF @ = 0 THEN clock ELSE 0]
    /\ UNCHANGED <<clock, messages, row, lastId, lastAt, markVars, marked, pageVars, late, new>>
-----------------------------------------------------------------------------
(* markRoomAsRead. *)

\* The request ends; its local variables go.
Return(d) ==
    /\ dpc' = [dpc EXCEPT ![d] = "idle"]
    /\ target' = [target EXCEPT ![d] = NoRoom]
    /\ asked' = [asked EXCEPT ![d] = 0]
    /\ readAt' = [readAt EXCEPT ![d] = 0]
    /\ horizon' = [horizon EXCEPT ![d] = 0]

\* ReadReceiptService.MarkAsRead: membership, except in a course.  A client names
\* the last message it has shown, or (an old one) none.
MarkAsRead(d, r, i) ==
    /\ dpc[d] = "idle"
    /\ r \in CourseRoom \/ row[<<r, Owner[d]>>]
    /\ dpc' = [dpc EXCEPT ![d] = "resolve"]
    /\ target' = [target EXCEPT ![d] = r]
    /\ asked' = [asked EXCEPT ![d] = i]
    /\ UNCHANGED <<clock, messages, readVars, readAt, horizon, marked, pageVars, late, new>>

\* Wrong: MessageExistsInRoom does not look at the room.
BelongsAnywhere(i, r) == \E q \in Room : i \in Visible(q)

\* MessageExistsInRoom, deleted or not.
Belongs(i, r) == i \in Visible(r)

\* GetLatestMessageID: MAX(id), deleted or not, NULL for none.
IsLatest(i, r) ==
    \/ i = 0 /\ Visible(r) = {}
    \/ i \in Visible(r) /\ \A j \in Visible(r) : j <= i

\* resolveReadMessageID: an id of another room is refused.
ResolveReadMessageID(d) ==
    /\ dpc[d] = "resolve"
    /\ \/ \E i \in 0..Len(messages) :
             /\ \/ asked[d] = 0 /\ IsLatest(i, target[d])
                \/ asked[d] # 0 /\ i = asked[d] /\ Belongs(i, target[d])
             /\ asked' = [asked EXCEPT ![d] = i]
             /\ dpc' = [dpc EXCEPT ![d] = "store"]
             /\ readAt' = [readAt EXCEPT ![d] = clock]
             /\ horizon' = [horizon EXCEPT ![d] = Len(messages)]
             /\ UNCHANGED target
       \/ /\ asked[d] # 0 /\ ~Belongs(asked[d], target[d])
          /\ Return(d)
    /\ UNCHANGED <<clock, messages, readVars, marked, pageVars, late, new>>

\* Wrong: the position is set, not advanced.
AdvanceToIt(old, i) == i

\* Wrong: the id of the next message is stored.
AdvancePast(old, i) == MaxOf(old, i) + 1

\* advanceLastReadMessageIDSQL: NULL and 0 are the same.
Advance(old, i) == MaxOf(old, i)

\* UpdateLastRead, which changes no row when the user has left meanwhile, and
\* UpsertLastRead for a course.
StoreLastRead(d) ==
    LET p == <<target[d], Owner[d]>> IN
    /\ dpc[d] = "store"
    /\ \/ /\ row[p] \/ target[d] \in CourseRoom
          /\ row' = [row EXCEPT ![p] = TRUE]
          /\ lastId' = [lastId EXCEPT ![p] = Advance(@, asked[d])]
          /\ lastAt' = [lastAt EXCEPT ![p] = MaxOf(@, readAt[d])]
          /\ marked' = [marked EXCEPT ![p] = MaxOf(@, horizon[d])]
       \/ /\ ~row[p] /\ target[d] \notin CourseRoom
          /\ UNCHANGED <<row, lastId, lastAt, marked>>
    /\ Return(d)
    /\ UNCHANGED <<clock, messages, registered, pageVars, late, new>>

\* A statement of the request fails.
MarkFails(d) ==
    /\ dpc[d] # "idle"
    /\ Return(d)
    /\ UNCHANGED <<clock, messages, readVars, marked, pageVars, late, new>>
-----------------------------------------------------------------------------
(* Unread counts. *)

\* unreadAfterSQL: the lists, which join the position of the row.
UnreadInList(r, u) ==
    {i \in Foreign(r, u) :
        CASE lastId[<<r, u>>] # 0 -> i > lastId[<<r, u>>]
          [] lastId[<<r, u>>] = 0 /\ lastAt[<<r, u>>] # 0 -> messages[i].made > lastAt[<<r, u>>]
          [] OTHER -> messages[i].made > registered[<<r, u>>]}

\* Wrong: the time of registration is always looked up.
OriginAlwaysFallsBack(r, u) ==
    [id |-> lastId[<<r, u>>], at |-> IF lastId[<<r, u>>] = 0 THEN registered[<<r, u>>] ELSE 0]

\* Wrong: the position is the time, as it was before there were numbers.
OriginByTime(r, u) == [id |-> 0, at |-> lastAt[<<r, u>>]]

\* GetLastRead and NewUnreadOrigin: the time of registration is looked up only
\* when there is no position.
Origin(r, u) ==
    IF row[<<r, u>>] /\ (lastId[<<r, u>>] # 0 \/ lastAt[<<r, u>>] # 0)
    THEN [id |-> lastId[<<r, u>>], at |-> lastAt[<<r, u>>]]
    ELSE [id |-> 0, at |-> registered[<<r, u>>]]

\* CountUnreadMessages with unreadAfterCondition: the room itself.
UnreadInRoom(r, u) ==
    {i \in Foreign(r, u) : IF Origin(r, u).id # 0 THEN i > Origin(r, u).id
                           ELSE messages[i].made > Origin(r, u).at}
-----------------------------------------------------------------------------
(* messages(before, after): three queries, one for the page and two probes. *)

\* Wrong: a page after the cursor is sorted like the others.
LowestFromAbove(S) == {i \in S : Cardinality({j \in S : j > i}) < Limit}

\* ORDER BY id ASC for a page after the cursor, DESC for the others, with LIMIT.
Lowest(S)  == {i \in S : Cardinality({j \in S : j < i}) < Limit}
Highest(S) == {i \in S : Cardinality({j \in S : j > i}) < Limit}

\* buildMessagePageQuery: the newest messages, or those before the oldest or after
\* the newest that the pager has.
ListMessages(g, kind) ==
    LET live == Live(PagedRoom[g])
        older == {i \in live : \A k \in seen[g] : i < k}
        newer == {i \in live : \A k \in seen[g] : i > k}
    IN
    /\ \/ ppc[g] = "new" /\ kind = "first"
       \/ ppc[g] = "idle" /\ seen[g] # {} /\ kind \in {"before", "after"}
       \/ ppc[g] = "idle" /\ seen[g] = {} /\ kind = "first"
    /\ ppc' = [ppc EXCEPT ![g] = kind]
    /\ page' = [page EXCEPT ![g] = CASE kind = "first" -> Highest(live)
                                     [] kind = "before" -> Highest(older)
                                     [] kind = "after" -> Lowest(newer)]
    /\ new' = IF kind = "before" THEN new ELSE [new EXCEPT ![g] = {}]
    /\ UNCHANGED <<clock, messages, readVars, markVars, marked, seen, moreBefore, moreAfter, late>>

\* newerBoundary and olderBoundary: is there anything beyond the page?  Without a
\* page there is nothing on the side of the cursor.
Newer(g, live) == page[g] # {} /\ \E i \in live : \A k \in page[g] : i > k
Older(g, live) == page[g] # {} /\ \E i \in live : \A k \in page[g] : i < k

\* The answer: of a page towards one side the client keeps that side's flag.
AnswerMessages(g) ==
    LET live == Live(PagedRoom[g]) IN
    /\ ppc[g] \in {"first", "before", "after"}
    /\ moreBefore' = IF ppc[g] = "after" THEN moreBefore ELSE [moreBefore EXCEPT ![g] = Older(g, live)]
    /\ moreAfter' = IF ppc[g] = "before" THEN moreAfter ELSE [moreAfter EXCEPT ![g] = Newer(g, live)]
    /\ seen' = [seen EXCEPT ![g] = @ \cup page[g]]
    /\ page' = [page EXCEPT ![g] = {}]
    /\ ppc' = [ppc EXCEPT ![g] = "idle"]
    /\ UNCHANGED <<clock, messages, readVars, markVars, marked, late, new>>
-----------------------------------------------------------------------------
Next ==
    \/ Tick
    \/ \E r \in Room, u \in Author : SaveMessage(r, u)
    \/ \E r \in Room, u \in User : \/ AddUserToRoom(r, u)
                                   \/ RemoveUserFromRoom(r, u)
                                   \/ Register(r, u)
    \/ \E i \in DOMAIN messages : Commit(i) \/ Rollback(i) \/ SoftDeleteMessage(i)
    \/ \E d \in Device : \/ \E r \in Room : \E i \in 0..Len(messages) : MarkAsRead(d, r, i)
                         \/ ResolveReadMessageID(d)
                         \/ StoreLastRead(d)
                         \/ MarkFails(d)
    \/ \E g \in Pager : \/ \E kind \in {"first", "before", "after"} : ListMessages(g, kind)
                        \/ AnswerMessages(g)

Spec == Init /\ [][Next]_vars
-----------------------------------------------------------------------------
(* Properties. *)

\* A read position only advances while its row exists, whatever order the marks of
\* several devices are stored in (GREATEST in UpdateLastRead and UpsertLastRead).
PositionNeverBack ==
    [][\A p \in Place : row[p] /\ row'[p] => lastId'[p] >= lastId[p] /\ lastAt'[p] >= lastAt[p]]_vars

\* A position is a message of its own room that some query has seen: no id of
\* another room, however large, hides messages (resolveReadMessageID).
PositionInRoom == \A p \in Place : lastId[p] # 0 => lastId[p] \in Visible(p[1])

\* A message whose number was issued after a reader's last mark was resolved is
\* unread, even in the second of that mark, once the position holds a number: the
\* race of mark and arrival that the numbers are for (repository/read_position.go).
LaterIsUnread ==
    \A r \in Room, u \in User :
        lastId[<<r, u>>] # 0 => {i \in Foreign(r, u) : i > marked[<<r, u>>]} \subseteq UnreadInRoom(r, u)

\* The count in a list and the count in the room are about the same messages
\* (GetCourseRoomReadStatusUseCase and unreadAfterSQL).
CountsAgree == \A r \in Room, u \in User : UnreadInRoom(r, u) = UnreadInList(r, u)

\* A pager that was told that nothing is left on either side.
Done(g) == ppc[g] = "idle" /\ ~moreBefore[g] /\ ~moreAfter[g]

\* A client that has paged until hasMoreBefore and hasMoreAfter were both false has
\* every message that was visible when it fetched its newest page, except those
\* that became visible below a message it had already.
PagingMissesOnlyLate ==
    \A g \in Pager : Done(g) => Live(PagedRoom[g]) \subseteq seen[g] \cup late[g] \cup new[g]

============================================================================
