------------------------- MODULE ChatReadingProofs -------------------------
(***************************************************************************)
(* Proofs about ChatReading: read positions for any number of users,       *)
(* rooms, devices and messages.                                            *)
(***************************************************************************)
EXTENDS ChatReading, FiniteSetTheorems, SequenceTheorems, WellFoundedInduction, TLAPS

\* A position was resolved within the numbers issued by then.
WithinMarked == \A p \in Place : lastId[p] <= marked[p]

\* A position needs a row.
PositionHasRow == \A p \in Place : lastId[p] # 0 => row[p]

\* What a device is about to store is a message of its room, or nothing, and is
\* within the numbers issued when it was resolved.
Checked(d) ==
    dpc[d] = "store" => /\ asked[d] # 0 => asked[d] \in Visible(target[d])
                        /\ asked[d] <= horizon[d]

Resolved == \A d \in Device : Checked(d)

IInv == TypeOK /\ PositionInRoom /\ WithinMarked /\ PositionHasRow /\ Resolved

LEMMA VisibleInDomain == ASSUME NEW r PROVE Visible(r) \subseteq DOMAIN messages
BY DEF Visible

\* The type invariant (see TypeOK) is inductive.
LEMMA TypeInit == Init => TypeOK
<1> SUFFICES ASSUME Init PROVE TypeOK OBVIOUS
<1> USE ReadingAssumption DEF Init
<1>1. NoRoom \in Room BY DEF NoRoom
<1>2. <<>> \in Seq(Message) /\ Len(<<>>) = 0 OBVIOUS
<1> QED BY <1>1, <1>2 DEF TypeOK, Second, Place

\* A message appended keeps every other; a changed state keeps the message.
LEMMA AppendKeeps ==
    ASSUME messages \in Seq(Message), NEW m \in Message, messages' = Append(messages, m),
           Len(messages) < MaxMessages
    PROVE  /\ messages' \in Seq(Message) /\ Len(messages') <= MaxMessages
           /\ Len(messages) <= Len(messages')
           /\ \A r \in Room : Visible(r) \subseteq Visible(r)'
<1>1. /\ messages' \in Seq(Message) /\ Len(messages') = Len(messages) + 1
      /\ \A i \in 1..Len(messages) : messages'[i] = messages[i]
  OBVIOUS
<1>2. DOMAIN messages = 1..Len(messages) /\ DOMAIN messages' = 1..Len(messages')
  BY <1>1
<1>3. Len(messages) \in Nat /\ MaxMessages \in Nat BY ReadingAssumption
<1> QED BY <1>1, <1>2, <1>3 DEF Visible

LEMMA StateKeeps ==
    ASSUME messages \in Seq(Message), NEW i \in DOMAIN messages, NEW st \in State,
           messages' = [messages EXCEPT ![i].state = st],
           messages[i].state \in {"live", "deleted"} => st \in {"live", "deleted"}
    PROVE  /\ messages' \in Seq(Message)
           /\ Len(messages') = Len(messages)
           /\ \A r \in Room : Visible(r) \subseteq Visible(r)'
<1>1. DOMAIN messages = 1..Len(messages) /\ Len(messages) \in Nat OBVIOUS
<1>2. messages[i] \in Message OBVIOUS
<1>3. [messages[i] EXCEPT !.state = st] \in Message BY <1>2 DEF Message
<1>4. messages' = [messages EXCEPT ![i] = [messages[i] EXCEPT !.state = st]] OBVIOUS
<1>5. messages' \in Seq(Message) /\ Len(messages') = Len(messages)
      /\ \A j \in DOMAIN messages : messages'[j] = IF j = i THEN [messages[i] EXCEPT !.state = st] ELSE messages[j]
  BY <1>1, <1>3, <1>4
<1>6. DOMAIN messages' = DOMAIN messages BY <1>4
<1>7. [messages[i] EXCEPT !.state = st].room = messages[i].room /\ [messages[i] EXCEPT !.state = st].state = st
  BY <1>2 DEF Message
<1> QED BY <1>5, <1>6, <1>7 DEF Visible

\* No step takes a message out of sight of MAX(id) or of MessageExistsInRoom, and
\* none takes a number back.
LEMMA MessagesGrow ==
    ASSUME TypeOK, [Next]_vars
    PROVE  /\ messages' \in Seq(Message) /\ Len(messages') <= MaxMessages
           /\ Len(messages) <= Len(messages')
           /\ \A r \in Room : Visible(r) \subseteq Visible(r)'
<1>1. messages \in Seq(Message) /\ Len(messages) <= MaxMessages /\ Len(messages) \in Nat
  BY DEF TypeOK
<1>2. CASE UNCHANGED messages BY <1>1, <1>2 DEF Visible
<1>3. ASSUME NEW r \in Room, NEW u \in Author, SaveMessage(r, u) 
           PROVE /\ messages' \in Seq(Message) /\ Len(messages') <= MaxMessages
                 /\ Len(messages) <= Len(messages')
                 /\ \A q \in Room : Visible(q) \subseteq Visible(q)'
  <2>1. PICK s \in {clock - 1, clock} \cap Second :
          messages' = Append(messages, [room |-> r, author |-> u, made |-> s, state |-> "inserted"])
    BY <1>3 DEF SaveMessage
  <2>2. [room |-> r, author |-> u, made |-> s, state |-> "inserted"] \in Message
    BY <2>1 DEF Message, State
  <2> QED BY <1>1, <1>3, <2>1, <2>2, AppendKeeps DEF SaveMessage
<1>4. ASSUME NEW i \in DOMAIN messages, Commit(i) \/ Rollback(i) \/ SoftDeleteMessage(i) 
           PROVE /\ messages' \in Seq(Message) /\ Len(messages') <= MaxMessages
                 /\ Len(messages) <= Len(messages')
                 /\ \A q \in Room : Visible(q) \subseteq Visible(q)'
  <2>1. PICK st \in State : /\ messages' = [messages EXCEPT ![i].state = st]
                            /\ messages[i].state \in {"live", "deleted"} => st \in {"live", "deleted"}
    BY <1>4 DEF Commit, Rollback, SoftDeleteMessage, State
  <2>2. /\ messages' \in Seq(Message) /\ Len(messages') = Len(messages)
        /\ \A q \in Room : Visible(q) \subseteq Visible(q)'
    BY <1>1, <2>1, StateKeeps
  <2>3. MaxMessages \in Nat BY ReadingAssumption
  <2> QED BY <1>1, <2>2, <2>3
<1> QED
  <2> SUFFICES ASSUME ~UNCHANGED messages
               PROVE  \/ \E r \in Room, u \in Author : SaveMessage(r, u)
                      \/ \E i \in DOMAIN messages : Commit(i) \/ Rollback(i) \/ SoftDeleteMessage(i)
    BY <1>2, <1>3, <1>4
  <2> QED
    BY DEF Next, vars, Tick, AddUserToRoom, RemoveUserFromRoom, Register, MarkAsRead,
           ResolveReadMessageID, StoreLastRead, MarkFails, ListMessages, AnswerMessages

\* The variables of the pagers keep their types.
LEMMA PagerTypes ==
    ASSUME TypeOK, [Next]_vars
    PROVE  /\ ppc' \in [Pager -> {"new", "idle", "first", "before", "after"}]
           /\ page' \in [Pager -> SUBSET Id] /\ seen' \in [Pager -> SUBSET Id]
           /\ moreBefore' \in [Pager -> BOOLEAN] /\ moreAfter' \in [Pager -> BOOLEAN]
           /\ late' \in [Pager -> SUBSET Id] /\ new' \in [Pager -> SUBSET Id]
<1> DEFINE Goal == /\ ppc' \in [Pager -> {"new", "idle", "first", "before", "after"}]
                   /\ page' \in [Pager -> SUBSET Id] /\ seen' \in [Pager -> SUBSET Id]
                   /\ moreBefore' \in [Pager -> BOOLEAN] /\ moreAfter' \in [Pager -> BOOLEAN]
                   /\ late' \in [Pager -> SUBSET Id] /\ new' \in [Pager -> SUBSET Id]
<1>1. /\ ppc \in [Pager -> {"new", "idle", "first", "before", "after"}]
      /\ page \in [Pager -> SUBSET Id] /\ seen \in [Pager -> SUBSET Id]
      /\ moreBefore \in [Pager -> BOOLEAN] /\ moreAfter \in [Pager -> BOOLEAN]
      /\ late \in [Pager -> SUBSET Id] /\ new \in [Pager -> SUBSET Id]
  BY DEF TypeOK
<1>2. DOMAIN messages \subseteq Id
  <2>1. messages \in Seq(Message) /\ Len(messages) <= MaxMessages BY DEF TypeOK
  <2>2. DOMAIN messages = 1..Len(messages) /\ Len(messages) \in Nat BY <2>1
  <2> QED BY <2>1, <2>2, ReadingAssumption DEF Id
<1>3. CASE UNCHANGED <<pageVars, late, new>> BY <1>1, <1>3 DEF pageVars
<1>4. ASSUME NEW i \in DOMAIN messages, Commit(i) PROVE Goal
  BY <1>1, <1>2, <1>4 DEF Commit, pageVars
<1>5. ASSUME NEW g \in Pager, NEW kind \in {"first", "before", "after"}, ListMessages(g, kind) PROVE Goal
  <2> DEFINE live == Live(PagedRoom[g])
  <2>1. live \subseteq Id BY <1>2 DEF Live, Visible
  <2>2. PICK P \in SUBSET Id : page' = [page EXCEPT ![g] = P]
    <3>1. Highest(live) \subseteq Id BY <2>1 DEF Highest
    <3>2. Highest({i \in live : \A k \in seen[g] : i < k}) \subseteq Id BY <2>1 DEF Highest
    <3>3. Lowest({i \in live : \A k \in seen[g] : i > k}) \subseteq Id BY <2>1 DEF Lowest
    <3> HIDE DEF live
    <3> QED BY <1>5, <3>1, <3>2, <3>3 DEF ListMessages, live
  <2>3. ppc' = [ppc EXCEPT ![g] = kind] /\ (new' = new \/ new' = [new EXCEPT ![g] = {}])
        /\ UNCHANGED <<seen, moreBefore, moreAfter, late>>
    BY <1>5 DEF ListMessages
  <2> QED BY <1>1, <2>2, <2>3
<1>6. ASSUME NEW g \in Pager, AnswerMessages(g) PROVE Goal
  <2>1. PICK B \in BOOLEAN, A \in BOOLEAN :
          /\ moreBefore' = moreBefore \/ moreBefore' = [moreBefore EXCEPT ![g] = B]
          /\ moreAfter' = moreAfter \/ moreAfter' = [moreAfter EXCEPT ![g] = A]
    BY <1>6 DEF AnswerMessages, Older, Newer
  <2>2. /\ seen' = [seen EXCEPT ![g] = seen[g] \cup page[g]] /\ page' = [page EXCEPT ![g] = {}]
        /\ ppc' = [ppc EXCEPT ![g] = "idle"] /\ UNCHANGED <<late, new>>
    BY <1>6 DEF AnswerMessages
  <2>3. seen[g] \cup page[g] \in SUBSET Id BY <1>1
  <2> QED BY <1>1, <2>1, <2>2, <2>3
<1> QED
  <2> SUFFICES ASSUME ~UNCHANGED <<pageVars, late, new>>
               PROVE  \/ \E i \in DOMAIN messages : Commit(i)
                      \/ \E g \in Pager : \E kind \in {"first", "before", "after"} : ListMessages(g, kind)
                      \/ \E g \in Pager : AnswerMessages(g)
    BY <1>3, <1>4, <1>5, <1>6
  <2> QED
    BY DEF Next, vars, Tick, SaveMessage, Rollback, SoftDeleteMessage, AddUserToRoom, RemoveUserFromRoom,
           Register, MarkAsRead, ResolveReadMessageID, StoreLastRead, MarkFails

\* The variables of the devices and the rows keep their types.
LEMMA MarkTypes ==
    ASSUME TypeOK, Next
    PROVE  /\ clock' \in Second
           /\ row' \in [Place -> BOOLEAN] /\ lastId' \in [Place -> 0..MaxMessages]
           /\ lastAt' \in [Place -> 0..MaxClock] /\ registered' \in [Place -> 0..MaxClock]
           /\ dpc' \in [Device -> {"idle", "resolve", "store"}] /\ target' \in [Device -> Room]
           /\ asked' \in [Device -> 0..MaxMessages] /\ readAt' \in [Device -> 0..MaxClock]
           /\ horizon' \in [Device -> 0..MaxMessages] /\ marked' \in [Place -> 0..MaxMessages]
<1> DEFINE Goal ==
           /\ clock' \in Second
           /\ row' \in [Place -> BOOLEAN] /\ lastId' \in [Place -> 0..MaxMessages]
           /\ lastAt' \in [Place -> 0..MaxClock] /\ registered' \in [Place -> 0..MaxClock]
           /\ dpc' \in [Device -> {"idle", "resolve", "store"}] /\ target' \in [Device -> Room]
           /\ asked' \in [Device -> 0..MaxMessages] /\ readAt' \in [Device -> 0..MaxClock]
           /\ horizon' \in [Device -> 0..MaxMessages] /\ marked' \in [Place -> 0..MaxMessages]
<1>0. /\ clock \in Second
      /\ row \in [Place -> BOOLEAN] /\ lastId \in [Place -> 0..MaxMessages]
      /\ lastAt \in [Place -> 0..MaxClock] /\ registered \in [Place -> 0..MaxClock]
      /\ dpc \in [Device -> {"idle", "resolve", "store"}] /\ target \in [Device -> Room]
      /\ asked \in [Device -> 0..MaxMessages] /\ readAt \in [Device -> 0..MaxClock]
      /\ horizon \in [Device -> 0..MaxMessages] /\ marked \in [Place -> 0..MaxMessages]
      /\ Len(messages) \in 0..MaxMessages /\ 0..Len(messages) \subseteq 0..MaxMessages
  BY ReadingAssumption DEF TypeOK
<1>a. MaxClock \in Nat /\ MaxMessages \in Nat /\ clock \in 0..MaxClock /\ 0 \in 0..MaxMessages /\ 0 \in 0..MaxClock
  BY <1>0, ReadingAssumption DEF Second
<1>b. NoRoom \in Room BY ReadingAssumption DEF NoRoom
<1>c. ASSUME NEW d \in Device, Return(d)
      PROVE  /\ dpc' \in [Device -> {"idle", "resolve", "store"}] /\ target' \in [Device -> Room]
             /\ asked' \in [Device -> 0..MaxMessages] /\ readAt' \in [Device -> 0..MaxClock]
             /\ horizon' \in [Device -> 0..MaxMessages]
  BY <1>c, <1>0, <1>a, <1>b DEF Return
<1>1. CASE UNCHANGED <<clock, readVars, markVars, marked>> BY <1>0, <1>1 DEF readVars, markVars
<1>2. CASE Tick
  <2>1. clock' \in Second BY <1>0, <1>2, <1>a DEF Tick, Second
  <2> QED BY <1>0, <1>2, <2>1 DEF Tick, readVars, markVars
<1>3. ASSUME NEW r \in Room, NEW u \in User,
             AddUserToRoom(r, u) \/ RemoveUserFromRoom(r, u) \/ Register(r, u) PROVE Goal
  <2>1. CASE AddUserToRoom(r, u) BY <1>0, <2>1 DEF AddUserToRoom, markVars
  <2>2. CASE RemoveUserFromRoom(r, u) BY <1>0, <1>a, <2>2 DEF RemoveUserFromRoom, markVars
  <2>3. CASE Register(r, u) BY <1>0, <1>a, <2>3 DEF Register, markVars
  <2> QED BY <1>3, <2>1, <2>2, <2>3
<1>4. ASSUME NEW d \in Device, NEW r \in Room, NEW i \in 0..Len(messages), MarkAsRead(d, r, i) PROVE Goal
  BY <1>0, <1>4 DEF MarkAsRead, readVars
<1>5. ASSUME NEW d \in Device, ResolveReadMessageID(d) PROVE Goal
  <2>1. UNCHANGED <<clock, row, lastId, lastAt, registered, marked>>
    BY <1>5 DEF ResolveReadMessageID, readVars
  <2>2. CASE Return(d) BY <1>0, <1>c, <2>1, <2>2
  <2>3. CASE ~Return(d)
    <3>1. PICK i \in 0..Len(messages) :
            /\ asked' = [asked EXCEPT ![d] = i] /\ dpc' = [dpc EXCEPT ![d] = "store"]
            /\ readAt' = [readAt EXCEPT ![d] = clock] /\ horizon' = [horizon EXCEPT ![d] = Len(messages)]
            /\ UNCHANGED target
      BY <1>5, <2>3 DEF ResolveReadMessageID
    <3> QED BY <1>0, <1>a, <2>1, <3>1
  <2> QED BY <2>2, <2>3
<1>6. ASSUME NEW d \in Device, StoreLastRead(d) PROVE Goal
  <2>1. Return(d) /\ UNCHANGED <<clock, registered>> BY <1>6 DEF StoreLastRead
  <2> DEFINE p == <<target[d], Owner[d]>>
  <2>2. p \in Place BY <1>0, ReadingAssumption DEF Place
  <2>3. CASE UNCHANGED <<row, lastId, lastAt, marked>> BY <1>0, <1>c, <2>1, <2>3
  <2>4. CASE ~UNCHANGED <<row, lastId, lastAt, marked>>
    <3>1. /\ row' = [row EXCEPT ![p] = TRUE]
          /\ lastId' = [lastId EXCEPT ![p] = MaxOf(lastId[p], asked[d])]
          /\ lastAt' = [lastAt EXCEPT ![p] = MaxOf(lastAt[p], readAt[d])]
          /\ marked' = [marked EXCEPT ![p] = MaxOf(marked[p], horizon[d])]
      BY <1>6, <2>4 DEF StoreLastRead, Advance
    <3>2. /\ MaxOf(lastId[p], asked[d]) \in 0..MaxMessages /\ MaxOf(lastAt[p], readAt[d]) \in 0..MaxClock
          /\ MaxOf(marked[p], horizon[d]) \in 0..MaxMessages
      BY <1>0, <2>2 DEF MaxOf
    <3> HIDE DEF p
    <3> QED BY <1>0, <1>c, <2>1, <3>1, <3>2
  <2> QED BY <2>3, <2>4
<1>7. ASSUME NEW d \in Device, MarkFails(d) PROVE Goal
  BY <1>0, <1>c, <1>7 DEF MarkFails, readVars
<1> QED
  <2> SUFFICES ASSUME ~UNCHANGED <<clock, readVars, markVars, marked>>
               PROVE  \/ Tick
                      \/ \E r \in Room, u \in User : AddUserToRoom(r, u) \/ RemoveUserFromRoom(r, u) \/ Register(r, u)
                      \/ \E d \in Device : \E r \in Room : \E i \in 0..Len(messages) : MarkAsRead(d, r, i)
                      \/ \E d \in Device : ResolveReadMessageID(d) \/ StoreLastRead(d) \/ MarkFails(d)
    BY <1>1, <1>2, <1>3, <1>4, <1>5, <1>6, <1>7
  <2> QED
    BY DEF Next, SaveMessage, Commit, Rollback, SoftDeleteMessage, ListMessages, AnswerMessages, readVars, markVars

LEMMA TypeNext == TypeOK /\ [Next]_vars => TypeOK'
<1> SUFFICES ASSUME TypeOK, [Next]_vars PROVE TypeOK' OBVIOUS
<1>1. CASE Next
  <2>1. messages' \in Seq(Message) /\ Len(messages') <= MaxMessages BY MessagesGrow
  <2> QED BY <1>1, <2>1, PagerTypes, MarkTypes DEF TypeOK
<1>2. CASE UNCHANGED vars BY <1>2 DEF TypeOK, vars, readVars, markVars, pageVars, Place, Second, Id, Message, State
<1> QED BY <1>1, <1>2

\* The inductive invariant: what is stored or about to be stored is a visible
\* message of the right room, within the numbers issued when it was resolved.
LEMMA IInvInit == Init => IInv
<1> SUFFICES ASSUME Init PROVE IInv OBVIOUS
<1>1. TypeOK BY TypeInit
<1>2. \A p \in Place : lastId[p] = 0 /\ marked[p] = 0 BY DEF Init
<1>3. \A d \in Device : dpc[d] = "idle" BY DEF Init
<1> QED BY <1>1, <1>2, <1>3 DEF IInv, PositionInRoom, WithinMarked, PositionHasRow, Resolved, Checked

\* The part about positions holds again where neither the position nor its row
\* changes, since visible messages stay visible.
LEMMA PositionsKept ==
    ASSUME IInv, [Next]_vars, NEW p \in Place, lastId'[p] = lastId[p], marked'[p] = marked[p], row[p] => row'[p]
    PROVE  /\ lastId'[p] # 0 => lastId'[p] \in Visible(p[1])' /\ row'[p]
           /\ lastId'[p] <= marked'[p]
<1>1. p[1] \in Room BY DEF Place
<1>2. Visible(p[1]) \subseteq Visible(p[1])' BY <1>1, MessagesGrow DEF IInv
<1> QED BY <1>2 DEF IInv, PositionInRoom, WithinMarked, PositionHasRow

LEMMA RequestKept ==
    ASSUME IInv, [Next]_vars, NEW d \in Device, dpc'[d] = "store" => dpc[d] = "store",
           dpc[d] = "store" => asked'[d] = asked[d] /\ target'[d] = target[d] /\ horizon'[d] = horizon[d]
    PROVE  Checked(d)'
<1>1. target[d] \in Room BY DEF IInv, TypeOK
<1>2. PICK r \in Room : r = target[d] BY <1>1
<1>3. Visible(r) \subseteq Visible(r)' BY MessagesGrow DEF IInv
<1>4. Checked(d) BY DEF IInv, Resolved
<1>5. CASE dpc[d] = "store"
  <2>1. asked[d] # 0 => asked[d] \in Visible(r)' BY <1>2, <1>3, <1>4, <1>5 DEF Checked
  <2>2. asked'[d] <= horizon'[d] BY <1>4, <1>5 DEF Checked
  <2>3. asked'[d] = asked[d] /\ target'[d] = r BY <1>2, <1>5
  <2> QED BY <2>1, <2>2, <2>3 DEF Checked
<1> QED BY <1>5 DEF Checked

\* A step that changes a position, or its row, is a mark or a member leaving.
LEMMA PositionsNext ==
    ASSUME IInv, [Next]_vars, NEW p \in Place
    PROVE  /\ lastId'[p] # 0 => lastId'[p] \in Visible(p[1])' /\ row'[p]
           /\ lastId'[p] <= marked'[p]
<1> DEFINE Pos == /\ lastId'[p] # 0 => lastId'[p] \in Visible(p[1])' /\ row'[p]
                  /\ lastId'[p] <= marked'[p]
<1>y. /\ lastId \in [Place -> 0..MaxMessages] /\ marked \in [Place -> 0..MaxMessages] /\ row \in [Place -> BOOLEAN]
      /\ target \in [Device -> Room]
      /\ asked \in [Device -> 0..MaxMessages] /\ horizon \in [Device -> 0..MaxMessages]
  BY DEF IInv, TypeOK
<1>1. CASE lastId'[p] = lastId[p] /\ marked'[p] = marked[p] /\ (row[p] => row'[p])
  BY <1>1, PositionsKept
<1>2. ASSUME NEW r \in Room, NEW u \in User, AddUserToRoom(r, u) PROVE Pos
  <2>1. lastId'[p] = lastId[p] /\ marked'[p] = marked[p] /\ (row[p] => row'[p])
    BY <1>2, <1>y DEF AddUserToRoom
  <2> QED BY <1>1, <2>1
<1>3. ASSUME NEW r \in Room, NEW u \in User, RemoveUserFromRoom(r, u) PROVE Pos
  <2>0. <<r, u>> \in Place BY DEF Place
  <2>1. CASE p = <<r, u>>
    <3>1. lastId'[p] = 0 /\ marked'[p] = 0 BY <1>3, <1>y, <2>0, <2>1 DEF RemoveUserFromRoom
    <3> QED BY <3>1
  <2>2. CASE p # <<r, u>>
    <3>1. lastId'[p] = lastId[p] /\ marked'[p] = marked[p] /\ (row[p] => row'[p])
      BY <1>3, <1>y, <2>2 DEF RemoveUserFromRoom
    <3> QED BY <1>1, <3>1
  <2> QED BY <2>1, <2>2
<1>4. ASSUME NEW d \in Device, StoreLastRead(d) PROVE Pos
  <2> DEFINE q == <<target[d], Owner[d]>>
  <2>0. q \in Place /\ target[d] \in Room /\ q[1] = target[d] BY <1>y, ReadingAssumption DEF Place
  <2>1. CASE UNCHANGED <<row, lastId, marked>> BY <1>1, <2>1
  <2>2. CASE ~UNCHANGED <<row, lastId, marked>>
    <3>1. /\ row' = [row EXCEPT ![q] = TRUE]
          /\ lastId' = [lastId EXCEPT ![q] = MaxOf(lastId[q], asked[d])]
          /\ marked' = [marked EXCEPT ![q] = MaxOf(marked[q], horizon[d])]
      BY <1>4, <2>2 DEF StoreLastRead, Advance
    <3>2. CASE p = q
      <4>1. /\ row'[p] /\ lastId'[p] = MaxOf(lastId[p], asked[d]) /\ marked'[p] = MaxOf(marked[p], horizon[d])
        BY <1>y, <3>1, <3>2
      <4>2. /\ lastId[p] \in Nat /\ asked[d] \in Nat /\ marked[p] \in Nat /\ horizon[d] \in Nat
            /\ lastId[p] <= marked[p] /\ asked[d] <= horizon[d]
            /\ (lastId[p] # 0 => lastId[p] \in Visible(p[1]))
            /\ (asked[d] # 0 => asked[d] \in Visible(p[1]))
        <5>1. dpc[d] = "store" BY <1>4 DEF StoreLastRead
        <5>2. p[1] = target[d] BY <2>0, <3>2
        <5>3. /\ asked[d] # 0 => asked[d] \in Visible(target[d])
              /\ asked[d] <= horizon[d]
          BY <5>1 DEF IInv, Resolved, Checked
        <5>4. lastId[p] <= marked[p] /\ (lastId[p] # 0 => lastId[p] \in Visible(p[1]))
          BY DEF IInv, WithinMarked, PositionInRoom
        <5>5. lastId[p] \in 0..MaxMessages /\ asked[d] \in 0..MaxMessages /\ marked[p] \in 0..MaxMessages
              /\ horizon[d] \in 0..MaxMessages
          BY <1>y
        <5> QED BY <5>2, <5>3, <5>4, <5>5
      <4>3. Visible(p[1]) \subseteq Visible(p[1])'
        <5>1. p[1] \in Room BY DEF Place
        <5> QED BY <5>1, MessagesGrow DEF IInv
      <4>4. lastId'[p] # 0 => lastId'[p] \in Visible(p[1])
        BY <4>1, <4>2 DEF MaxOf
      <4>5. lastId'[p] <= marked'[p] BY <4>1, <4>2 DEF MaxOf
      <4> QED BY <4>1, <4>3, <4>4, <4>5
    <3>3. CASE p # q
      <4>1. lastId'[p] = lastId[p] /\ marked'[p] = marked[p] /\ (row[p] => row'[p])
        BY <1>y, <3>1, <3>3
      <4> QED BY <1>1, <4>1
    <3> QED BY <3>2, <3>3
  <2> QED BY <2>1, <2>2
<1> QED
  <2> SUFFICES ASSUME ~UNCHANGED <<row, lastId, marked>>
               PROVE  \/ \E r \in Room, u \in User : AddUserToRoom(r, u) \/ RemoveUserFromRoom(r, u)
                      \/ \E d \in Device : StoreLastRead(d)
    BY <1>1, <1>2, <1>3, <1>4
  <2> QED
    BY DEF Next, vars, Tick, SaveMessage, Commit, Rollback, SoftDeleteMessage, Register, MarkAsRead,
           ResolveReadMessageID, MarkFails, ListMessages, AnswerMessages, readVars

\* What a device is about to store was checked, or found, when it was resolved.
LEMMA RequestsNext ==
    ASSUME IInv, [Next]_vars, NEW d \in Device
    PROVE  Checked(d)'
<1>y. /\ dpc \in [Device -> {"idle", "resolve", "store"}] /\ target \in [Device -> Room]
      /\ asked \in [Device -> 0..MaxMessages] /\ horizon \in [Device -> 0..MaxMessages]
      /\ messages \in Seq(Message)
  BY DEF IInv, TypeOK
<1>1. CASE dpc'[d] # "store" BY <1>1 DEF Checked
<1>2. CASE UNCHANGED <<dpc[d], asked[d], target[d], horizon[d]>> BY <1>2, RequestKept
<1>3. ASSUME NEW e \in Device, Return(e) PROVE Checked(d)'
  <2>1. CASE e = d BY <1>1, <1>3, <1>y, <2>1 DEF Return
  <2>2. CASE e # d BY <1>2, <1>3, <1>y, <2>2 DEF Return
  <2> QED BY <2>1, <2>2
<1>4. ASSUME NEW e \in Device, NEW r \in Room, NEW i \in 0..Len(messages), MarkAsRead(e, r, i) PROVE Checked(d)'
  <2>1. CASE e = d BY <1>1, <1>4, <1>y, <2>1 DEF MarkAsRead
  <2>2. CASE e # d BY <1>2, <1>4, <1>y, <2>2 DEF MarkAsRead
  <2> QED BY <2>1, <2>2
<1>5. ASSUME NEW e \in Device, ResolveReadMessageID(e), ~Return(e) PROVE Checked(d)'
  <2>1. PICK i \in 0..Len(messages) :
          /\ \/ asked[e] = 0 /\ IsLatest(i, target[e])
             \/ asked[e] # 0 /\ i = asked[e] /\ Belongs(i, target[e])
          /\ asked' = [asked EXCEPT ![e] = i]
          /\ dpc' = [dpc EXCEPT ![e] = "store"]
          /\ horizon' = [horizon EXCEPT ![e] = Len(messages)]
          /\ UNCHANGED <<target, messages>>
    BY <1>5 DEF ResolveReadMessageID
  <2>2. CASE e = d
    <3>1. i # 0 => i \in Visible(target[d]) BY <2>1, <2>2 DEF IsLatest, Belongs
    <3>2. asked'[d] = i /\ horizon'[d] = Len(messages) /\ target'[d] = target[d] BY <1>y, <2>1, <2>2
    <3>3. (Visible(target[d]))' = Visible(target[d]) BY <2>1 DEF Visible
    <3>4. i <= Len(messages) BY <2>1, <1>y
    <3> QED BY <3>1, <3>2, <3>3, <3>4 DEF Checked
  <2>3. CASE e # d BY <1>2, <2>1, <2>3, <1>y
  <2> QED BY <2>2, <2>3
<1> QED
  <2> SUFFICES ASSUME ~UNCHANGED markVars
               PROVE  \/ \E e \in Device : \E r \in Room : \E i \in 0..Len(messages) : MarkAsRead(e, r, i)
                      \/ \E e \in Device : ResolveReadMessageID(e) \/ Return(e)
    <3>1. CASE UNCHANGED markVars BY <1>2, <3>1 DEF markVars
    <3> QED BY <1>3, <1>4, <1>5, <3>1
  <2> QED
    BY DEF Next, vars, Tick, SaveMessage, Commit, Rollback, SoftDeleteMessage, AddUserToRoom,
           RemoveUserFromRoom, Register, StoreLastRead, MarkFails, ListMessages, AnswerMessages

LEMMA IInvNext == IInv /\ [Next]_vars => IInv'
<1> SUFFICES ASSUME IInv, [Next]_vars PROVE IInv' OBVIOUS
<1>1. TypeOK' BY TypeNext DEF IInv
<1>2. (PositionInRoom /\ WithinMarked /\ PositionHasRow)'
  BY PositionsNext DEF PositionInRoom, WithinMarked, PositionHasRow
<1>3. Resolved' BY RequestsNext DEF Resolved
<1> QED BY <1>1, <1>2, <1>3 DEF IInv

\* IInv holds in every reachable state.
LEMMA Invariance == Spec => []IInv
BY IInvInit, IInvNext, PTL DEF Spec

\* Type correctness of messages, positions, requests and pages for all constants.
THEOREM TypeCorrect == Spec => []TypeOK
<1>1. IInv => TypeOK BY DEF IInv
<1> QED BY <1>1, Invariance, PTL

\* resolveReadMessageID: whatever ids clients name and however marks interleave with
\* messages, a stored position is a message of its own room.
THEOREM PositionsInRoom == Spec => []PositionInRoom
<1>1. IInv => PositionInRoom BY DEF IInv
<1> QED BY <1>1, Invariance, PTL

\* unreadAfterCondition: a message numbered after the last mark of a position with a
\* number is unread, also within the second of the mark.
THEOREM LaterMessagesUnread == Spec => []LaterIsUnread
<1>1. IInv => LaterIsUnread
  <2> SUFFICES ASSUME IInv, NEW r \in Room, NEW u \in User, lastId[<<r, u>>] # 0,
                      NEW i \in Foreign(r, u), i > marked[<<r, u>>]
               PROVE  i \in UnreadInRoom(r, u)
    BY DEF LaterIsUnread
  <2>1. <<r, u>> \in Place BY DEF Place
  <2>2. row[<<r, u>>] /\ lastId[<<r, u>>] <= marked[<<r, u>>]
    BY <2>1 DEF IInv, PositionHasRow, WithinMarked
  <2>3. Origin(r, u).id = lastId[<<r, u>>] BY <2>2 DEF Origin
  <2>4. lastId[<<r, u>>] \in 0..MaxMessages /\ marked[<<r, u>>] \in 0..MaxMessages
    BY <2>1 DEF IInv, TypeOK
  <2>5. i \in DOMAIN messages /\ messages \in Seq(Message) BY DEF IInv, TypeOK, Foreign, Live, Visible
  <2>6. i \in Nat BY <2>5
  <2>7. i > lastId[<<r, u>>] BY <2>2, <2>4, <2>6
  <2> QED BY <2>3, <2>7 DEF UnreadInRoom
<1> QED BY <1>1, Invariance, PTL

\* GREATEST in UpdateLastRead and UpsertLastRead: no order of marks moves a position
\* or its time back.
THEOREM PositionsAdvance == Spec => PositionNeverBack
<1> DEFINE Forward == \A p \in Place : row[p] /\ row'[p] => lastId'[p] >= lastId[p] /\ lastAt'[p] >= lastAt[p]
<1>1. IInv /\ [Next]_vars => [Forward]_vars
  <2> SUFFICES ASSUME IInv, Next, NEW p \in Place, row[p], row'[p]
               PROVE  lastId'[p] >= lastId[p] /\ lastAt'[p] >= lastAt[p]
    OBVIOUS
  <2>y. /\ lastId \in [Place -> 0..MaxMessages] /\ lastAt \in [Place -> 0..MaxClock]
        /\ asked \in [Device -> 0..MaxMessages] /\ readAt \in [Device -> 0..MaxClock]
    BY DEF IInv, TypeOK
  <2>0. lastId[p] \in Nat /\ lastAt[p] \in Nat
    <3>1. lastId[p] \in 0..MaxMessages /\ lastAt[p] \in 0..MaxClock BY <2>y
    <3> QED BY <3>1
  <2>1. CASE UNCHANGED <<lastId, lastAt>> BY <2>0, <2>1
  <2>2. ASSUME NEW r \in Room, NEW u \in User, RemoveUserFromRoom(r, u)
        PROVE  lastId'[p] >= lastId[p] /\ lastAt'[p] >= lastAt[p]
    <3>1. row \in [Place -> BOOLEAN] BY DEF IInv, TypeOK
    <3>2. p # <<r, u>> BY <2>2, <3>1 DEF RemoveUserFromRoom
    <3> QED BY <2>y, <2>0, <2>2, <3>2 DEF RemoveUserFromRoom
  <2>3. ASSUME NEW d \in Device, StoreLastRead(d)
        PROVE  lastId'[p] >= lastId[p] /\ lastAt'[p] >= lastAt[p]
    <3> DEFINE q == <<target[d], Owner[d]>>
    <3>1. CASE ~UNCHANGED <<row, lastId, lastAt, marked>>
      <4>1. /\ lastId' = [lastId EXCEPT ![q] = MaxOf(lastId[q], asked[d])]
            /\ lastAt' = [lastAt EXCEPT ![q] = MaxOf(lastAt[q], readAt[d])]
        BY <2>3, <3>1 DEF StoreLastRead, Advance
      <4>2. CASE p = q
        <5>1. lastId'[p] = MaxOf(lastId[p], asked[d]) /\ lastAt'[p] = MaxOf(lastAt[p], readAt[d])
          BY <2>y, <4>1, <4>2
        <5>2. asked[d] \in 0..MaxMessages /\ readAt[d] \in 0..MaxClock BY <2>y
        <5> QED BY <2>0, <5>1, <5>2 DEF MaxOf
      <4>3. CASE p # q
        <5>1. lastId'[p] = lastId[p] /\ lastAt'[p] = lastAt[p] BY <2>y, <4>1, <4>3
        <5> QED BY <2>0, <5>1
      <4> QED BY <4>2, <4>3
    <3> QED BY <2>1, <3>1
  <2> QED
    <3> SUFFICES ASSUME ~UNCHANGED <<lastId, lastAt>>
                 PROVE  \/ \E r \in Room, u \in User : RemoveUserFromRoom(r, u)
                        \/ \E d \in Device : StoreLastRead(d)
      BY <2>1, <2>2, <2>3
    <3> QED
      BY DEF Next, Tick, SaveMessage, Commit, Rollback, SoftDeleteMessage, AddUserToRoom, Register,
             MarkAsRead, ResolveReadMessageID, MarkFails, ListMessages, AnswerMessages, readVars
<1> QED BY <1>1, Invariance, PTL DEF Spec, PositionNeverBack
-----------------------------------------------------------------------------
(* Unread counts. *)

\* The time of a position needs a row, too.
TimeHasRow == \A p \in Place : lastAt[p] # 0 => row[p]

LEMMA NextTimeHasRow == TypeOK /\ TimeHasRow /\ [Next]_vars => TimeHasRow'
<1> SUFFICES ASSUME TypeOK, TimeHasRow, [Next]_vars PROVE TimeHasRow' OBVIOUS
<1>y. row \in [Place -> BOOLEAN] /\ lastAt \in [Place -> 0..MaxClock] BY DEF TypeOK
<1>1. CASE UNCHANGED <<row, lastAt>> BY <1>1 DEF TimeHasRow
<1>2. ASSUME NEW r \in Room, NEW u \in User, AddUserToRoom(r, u) \/ RemoveUserFromRoom(r, u) PROVE TimeHasRow'
  <2>1. CASE AddUserToRoom(r, u) BY <1>y, <2>1 DEF AddUserToRoom, TimeHasRow
  <2>2. CASE RemoveUserFromRoom(r, u) BY <1>y, <2>2 DEF RemoveUserFromRoom, TimeHasRow
  <2> QED BY <1>2, <2>1, <2>2
<1>3. ASSUME NEW d \in Device, StoreLastRead(d), ~UNCHANGED <<row, lastAt>> PROVE TimeHasRow'
  <2> DEFINE q == <<target[d], Owner[d]>>
  <2>1. row' = [row EXCEPT ![q] = TRUE] /\ lastAt' = [lastAt EXCEPT ![q] = MaxOf(lastAt[q], readAt[d])]
    BY <1>3 DEF StoreLastRead
  <2> HIDE DEF q
  <2> QED BY <1>y, <2>1 DEF TimeHasRow
<1> QED
  <2> SUFFICES ASSUME ~UNCHANGED <<row, lastAt>>
               PROVE  \/ \E r \in Room, u \in User : AddUserToRoom(r, u) \/ RemoveUserFromRoom(r, u)
                      \/ \E d \in Device : StoreLastRead(d)
    BY <1>1, <1>2, <1>3
  <2> QED
    BY DEF Next, vars, Tick, SaveMessage, Commit, Rollback, SoftDeleteMessage, Register, MarkAsRead,
           ResolveReadMessageID, MarkFails, ListMessages, AnswerMessages, readVars

\* GetCourseRoomReadStatusUseCase and unreadAfterSQL: the two ways to count name the same
\* messages in every state, with and without a row, a number, a time or a registration.
THEOREM CountsAlwaysAgree == Spec => []CountsAgree
<1>1. Init => TimeHasRow BY DEF Init, TimeHasRow
<1>2. IInv /\ TimeHasRow => CountsAgree
  <2> SUFFICES ASSUME IInv, TimeHasRow, NEW r \in Room, NEW u \in User
               PROVE  UnreadInRoom(r, u) = UnreadInList(r, u)
    BY DEF CountsAgree
  <2> DEFINE p == <<r, u>>
  <2>1. (lastId[p] # 0 => row[p]) /\ (lastAt[p] # 0 => row[p])
    BY DEF IInv, PositionHasRow, TimeHasRow, Place
  <2>2. CASE lastId[p] # 0
    <3>1. Origin(r, u).id = lastId[p] BY <2>1, <2>2 DEF Origin
    <3> QED BY <2>2, <3>1 DEF UnreadInRoom, UnreadInList
  <2>3. CASE lastId[p] = 0 /\ lastAt[p] # 0
    <3>1. Origin(r, u).id = 0 /\ Origin(r, u).at = lastAt[p] BY <2>1, <2>3 DEF Origin
    <3> QED BY <2>3, <3>1 DEF UnreadInRoom, UnreadInList
  <2>4. CASE lastId[p] = 0 /\ lastAt[p] = 0
    <3>1. Origin(r, u).id = 0 /\ Origin(r, u).at = registered[p] BY <2>4 DEF Origin
    <3> QED BY <2>4, <3>1 DEF UnreadInRoom, UnreadInList
  <2> QED BY <2>2, <2>3, <2>4
<1>3. IInv => TypeOK BY DEF IInv
<1> QED BY <1>1, <1>2, <1>3, NextTimeHasRow, Invariance, PTL DEF Spec
-----------------------------------------------------------------------------
(* Pages. *)

\* Numbers have a smallest and a largest one.
LEMMA HasLeast ==
    ASSUME NEW T, T \subseteq Nat, T # {}
    PROVE  \E x \in T : \A y \in T : x <= y
<1> DEFINE R == {ss \in Nat \X Nat : ss[1] < ss[2]}
<1>1. IsWellFoundedOn(R, Nat) BY NatLessThanWellFounded DEF OpToRel
<1> HIDE DEF R
<1>2. \E x \in T : \A y \in T : ~(<<y, x>> \in R) BY <1>1, WFMin
<1>3. ASSUME NEW x \in Nat, NEW y \in Nat, ~(<<y, x>> \in R) PROVE x <= y
  BY <1>3 DEF R
<1> QED BY <1>2, <1>3

LEMMA HasMost ==
    ASSUME NEW X, X \subseteq Id, X # {}
    PROVE  \E x \in X : \A y \in X : y <= x
<1>0. MaxMessages \in Nat /\ \A i \in Id : i \in Nat /\ i <= MaxMessages BY ReadingAssumption DEF Id
<1> DEFINE T == {MaxMessages - i : i \in X}
<1>1. T \subseteq Nat /\ T # {} BY <1>0
<1>2. PICK m \in T : \A y \in T : m <= y BY <1>1, HasLeast
<1>3. PICK x \in X : m = MaxMessages - x BY <1>2
<1>4. \A y \in X : MaxMessages - x <= MaxMessages - y BY <1>2, <1>3
<1>5. \A y \in X : y <= x BY <1>0, <1>4
<1> QED BY <1>5

LEMMA IdsFinite ==
    ASSUME NEW X, X \subseteq Id
    PROVE  IsFiniteSet(X) /\ \A i \in X : i \in Nat
<1>1. MaxMessages \in Nat BY ReadingAssumption
<1>2. IsFiniteSet(Id) BY <1>1, FS_Interval DEF Id
<1>3. IsFiniteSet(X) BY <1>2, FS_Subset
<1>4. \A i \in X : i \in Nat BY <1>1 DEF Id
<1> QED BY <1>3, <1>4

\* ORDER BY id DESC LIMIT: whatever is above an element of the page is in the page, and
\* only an empty table has an empty page.
LEMMA HighestIsTop ==
    ASSUME NEW X, X \subseteq Id
    PROVE  /\ Highest(X) \subseteq X
           /\ \A k \in Highest(X) : \A i \in X : i > k => i \in Highest(X)
           /\ Highest(X) = {} => X = {}
<1>0. Limit \in Nat /\ Limit > 0 BY ReadingAssumption
<1>1. ASSUME NEW k \in Highest(X), NEW i \in X, i > k PROVE i \in Highest(X)
  <2> DEFINE A == {j \in X : j > i}
             B == {j \in X : j > k}
  <2>1. k \in X /\ Cardinality(B) < Limit BY DEF Highest
  <2>2. A \subseteq B BY <1>1, <2>1, IdsFinite
  <2>3. IsFiniteSet(B) /\ B \subseteq X BY IdsFinite, FS_Subset
  <2> HIDE DEF A, B
  <2>4. Cardinality(A) <= Cardinality(B) /\ Cardinality(A) \in Nat /\ Cardinality(B) \in Nat
    BY <2>2, <2>3, FS_Subset, FS_CardinalityType
  <2>5. Cardinality(A) < Limit BY <1>0, <2>1, <2>4
  <2> QED BY <2>5 DEF Highest, A
<1>2. ASSUME X # {} PROVE Highest(X) # {}
  <2> PICK m \in X : \A y \in X : y <= m BY <1>2, HasMost
  <2>1. {j \in X : j > m} = {} BY IdsFinite
  <2>2. Cardinality({j \in X : j > m}) = 0 BY <2>1, FS_EmptySet
  <2> QED BY <1>0, <2>2 DEF Highest
<1> QED BY <1>1, <1>2 DEF Highest

\* ORDER BY id ASC LIMIT, in the same way.
LEMMA LowestIsBottom ==
    ASSUME NEW X, X \subseteq Id
    PROVE  /\ Lowest(X) \subseteq X
           /\ \A k \in Lowest(X) : \A i \in X : i < k => i \in Lowest(X)
           /\ Lowest(X) = {} => X = {}
<1>0. Limit \in Nat /\ Limit > 0 BY ReadingAssumption
<1>1. ASSUME NEW k \in Lowest(X), NEW i \in X, i < k PROVE i \in Lowest(X)
  <2> DEFINE A == {j \in X : j < i}
             B == {j \in X : j < k}
  <2>1. k \in X /\ Cardinality(B) < Limit BY DEF Lowest
  <2>2. A \subseteq B BY <1>1, <2>1, IdsFinite
  <2>3. IsFiniteSet(B) /\ B \subseteq X BY IdsFinite, FS_Subset
  <2> HIDE DEF A, B
  <2>4. Cardinality(A) <= Cardinality(B) /\ Cardinality(A) \in Nat /\ Cardinality(B) \in Nat
    BY <2>2, <2>3, FS_Subset, FS_CardinalityType
  <2>5. Cardinality(A) < Limit BY <1>0, <2>1, <2>4
  <2> QED BY <2>5 DEF Lowest, A
<1>2. ASSUME X # {} PROVE Lowest(X) # {}
  <2>0. X \subseteq Nat BY IdsFinite
  <2> PICK m \in X : \A y \in X : m <= y BY <1>2, <2>0, HasLeast
  <2>1. {j \in X : j < m} = {} BY IdsFinite
  <2>2. Cardinality({j \in X : j < m}) = 0 BY <2>1, FS_EmptySet
  <2> QED BY <1>0, <2>2 DEF Lowest
<1> QED BY <1>1, <1>2 DEF Lowest

Below(i, W) == \A k \in W : i < k
Above(i, W) == \A k \in W : i > k

\* What a pager in state pc knows of the live messages L, having S and the page P on its way,
\* with the flags mb and ma: between the messages it has only those are missing that came late
\* (lt); below them, unless there are more before, only late ones; above them, unless there
\* are more after, only new ones (nw).
Knows(pc, L, S, P, mb, ma, lt, nw) ==
    /\ pc \in {"new", "first"} => S = {}
    /\ pc \in {"new", "idle"} => P = {}
    /\ pc \in {"before", "after"} => S # {}
    /\ pc = "before" => \A k \in P : Below(k, S)
    /\ pc = "after" => \A k \in P : Above(k, S)
    /\ \A i \in L \ (S \cup P) : (\E k \in S \cup P : k < i) /\ (\E k \in S \cup P : k > i) => i \in lt
    /\ pc \in {"idle", "after"} /\ S # {} /\ ~mb => \A i \in L : Below(i, S) => i \in lt
    /\ pc \in {"idle", "before"} /\ ~ma => \A i \in L : Above(i, S) => i \in nw
    /\ pc = "before" /\ P = {} => \A i \in L : Below(i, S) => i \in lt
    /\ pc = "after" /\ P = {} => \A i \in L : Above(i, S) => i \in nw
    /\ pc = "first" /\ P = {} => L \subseteq nw

Paged(g) ==
    Knows(ppc[g], Live(PagedRoom[g]), seen[g], page[g], moreBefore[g], moreAfter[g], late[g], new[g])

\* Messages come and go beside the pager.
LEMMA KnowsOn ==
    ASSUME NEW pc, NEW L, NEW M, NEW S, NEW P, NEW mb, NEW ma, NEW lt, NEW nw, NEW lt2, NEW nw2,
           L \subseteq Id, M \subseteq Id, S \subseteq Id, P \subseteq Id,
           Knows(pc, L, S, P, mb, ma, lt, nw), lt \subseteq lt2, nw \subseteq nw2,
           \A i \in M \ L : i \in nw2 /\ ((\E k \in S \cup P : k > i) => i \in lt2)
    PROVE  Knows(pc, M, S, P, mb, ma, lt2, nw2)
  BY IdsFinite DEF Knows, Below, Above

\* The first page.
LEMMA KnowsFirst ==
    ASSUME NEW L, NEW mb, NEW ma, NEW lt, NEW nw, L \subseteq Id
    PROVE  Knows("first", L, {}, Highest(L), mb, ma, lt, nw)
  BY HighestIsTop, IdsFinite DEF Knows, Below, Above

\* A page before the oldest message.
LEMMA KnowsBefore ==
    ASSUME NEW L, NEW S, NEW mb, NEW ma, NEW lt, NEW nw, L \subseteq Id, S \subseteq Id, S # {},
           Knows("idle", L, S, {}, mb, ma, lt, nw)
    PROVE  Knows("before", L, S, Highest({i \in L : Below(i, S)}), mb, ma, lt, nw)
<1> DEFINE X == {i \in L : Below(i, S)}
           P == Highest(X)
<1>1. X \subseteq Id /\ X \subseteq L OBVIOUS
<1>2. /\ P \subseteq X
      /\ \A k \in P : \A i \in X : i > k => i \in P
      /\ P = {} => X = {}
  BY <1>1, HighestIsTop
<1>3. \A i \in L \cup S : i \in Nat BY IdsFinite
<1> HIDE DEF P
<1>4. ASSUME NEW i \in L \ (S \cup P), NEW l \in S \cup P, l < i, NEW h \in S \cup P, h > i PROVE i \in lt
  <2>1. CASE i \in X
    <3>1. l \notin S BY <1>3, <1>4, <2>1 DEF Below
    <3> QED BY <1>2, <1>4, <2>1, <3>1
  <2>2. CASE i \notin X
    <3>1. PICK k \in S : ~(i < k) BY <2>2, <1>4 DEF Below
    <3>2. k < i BY <1>3, <1>4, <3>1
    <3>3. h \in S BY <1>2, <1>3, <1>4, <3>2 DEF Below
    <3> QED BY <1>4, <3>2, <3>3 DEF Knows
  <2> QED BY <2>1, <2>2
<1>5. Knows("before", L, S, P, mb, ma, lt, nw) BY <1>1, <1>2, <1>4 DEF Knows
<1> QED BY <1>5 DEF P

\* A page after the newest one; what is new is counted from here.
LEMMA KnowsAfter ==
    ASSUME NEW L, NEW S, NEW mb, NEW ma, NEW lt, NEW nw, NEW nw2, L \subseteq Id, S \subseteq Id, S # {},
           Knows("idle", L, S, {}, mb, ma, lt, nw)
    PROVE  Knows("after", L, S, Lowest({i \in L : Above(i, S)}), mb, ma, lt, nw2)
<1> DEFINE X == {i \in L : Above(i, S)}
           P == Lowest(X)
<1>1. X \subseteq Id /\ X \subseteq L OBVIOUS
<1>2. /\ P \subseteq X
      /\ \A k \in P : \A i \in X : i < k => i \in P
      /\ P = {} => X = {}
  BY <1>1, LowestIsBottom
<1>3. \A i \in L \cup S : i \in Nat BY IdsFinite
<1> HIDE DEF P
<1>4. ASSUME NEW i \in L \ (S \cup P), NEW l \in S \cup P, l < i, NEW h \in S \cup P, h > i PROVE i \in lt
  <2>1. CASE i \in X
    <3>1. h \notin S BY <1>3, <1>4, <2>1 DEF Above
    <3> QED BY <1>2, <1>4, <2>1, <3>1
  <2>2. CASE i \notin X
    <3>1. PICK k \in S : ~(i > k) BY <2>2, <1>4 DEF Above
    <3>2. k > i BY <1>3, <1>4, <3>1
    <3>3. l \in S BY <1>2, <1>3, <1>4, <3>2 DEF Above
    <3> QED BY <1>4, <3>2, <3>3 DEF Knows
  <2> QED BY <2>1, <2>2
<1>5. Knows("after", L, S, P, mb, ma, lt, nw2) BY <1>1, <1>2, <1>4 DEF Knows
<1> QED BY <1>5 DEF P

\* The answer, with the flags that its two probes set.
LEMMA KnowsAnswer ==
    ASSUME NEW pc \in {"first", "before", "after"}, NEW L, NEW S, NEW P, NEW mb, NEW ma, NEW lt, NEW nw,
           NEW mb2, NEW ma2, L \subseteq Id, S \subseteq Id, P \subseteq Id, Knows(pc, L, S, P, mb, ma, lt, nw),
           IF pc = "after" THEN mb2 = mb ELSE mb2 <=> P # {} /\ \E i \in L : Below(i, P),
           IF pc = "before" THEN ma2 = ma ELSE ma2 <=> P # {} /\ \E i \in L : Above(i, P)
    PROVE  Knows("idle", L, S \cup P, {}, mb2, ma2, lt, nw)
<1>0. \A i \in L \cup S \cup P : i \in Nat BY IdsFinite
<1>1. ASSUME S \cup P # {}, ~mb2, NEW i \in L, Below(i, S \cup P) PROVE i \in lt
  BY <1>0, <1>1 DEF Knows, Below, Above
<1>2. ASSUME ~ma2, NEW i \in L, Above(i, S \cup P) PROVE i \in nw
  BY <1>0, <1>2 DEF Knows, Below, Above
<1>3. \A i \in L \ (S \cup P) : (\E k \in S \cup P : k < i) /\ (\E k \in S \cup P : k > i) => i \in lt
  BY DEF Knows
<1>4. (S \cup P) \cup {} = S \cup P OBVIOUS
<1> QED BY <1>1, <1>2, <1>3, <1>4 DEF Knows

\* Ids of live messages.
LEMMA LiveIds ==
    ASSUME TypeOK, NEW r
    PROVE  Live(r) \subseteq Id /\ Live(r) \subseteq DOMAIN messages
<1>1. messages \in Seq(Message) /\ Len(messages) <= MaxMessages BY DEF TypeOK
<1>2. DOMAIN messages = 1..Len(messages) /\ Len(messages) \in Nat BY <1>1
<1>3. DOMAIN messages \subseteq Id BY <1>1, <1>2, ReadingAssumption DEF Id
<1> QED BY <1>3 DEF Live, Visible

\* What happens to a changed message, and to one that is inserted.
LEMMA StateChange ==
    ASSUME messages \in Seq(Message), NEW i \in DOMAIN messages, NEW st \in State,
           messages' = [messages EXCEPT ![i].state = st], NEW r \in Room
    PROVE  /\ st # "live" => Live(r)' \subseteq Live(r)
           /\ Live(r)' \subseteq Live(r) \cup {i}
           /\ i \in Live(r)' => messages[i].room = r
<1>1. messages[i] \in Message OBVIOUS
<1> DEFINE m == [messages[i] EXCEPT !.state = st]
<1>2. m.room = messages[i].room /\ m.state = st BY <1>1 DEF Message
<1>3. messages' = [messages EXCEPT ![i] = m] OBVIOUS
<1> HIDE DEF m
<1>4. DOMAIN messages' = DOMAIN messages /\ messages'[i] = m /\ \A j \in DOMAIN messages : j # i => messages'[j] = messages[j]
  BY <1>3
<1> QED BY <1>2, <1>4 DEF Live, Visible

LEMMA InsertHidden ==
    ASSUME messages \in Seq(Message), NEW m \in Message, m.state = "inserted",
           messages' = Append(messages, m), NEW r \in Room
    PROVE  Live(r)' \subseteq Live(r)
<1>1. \A j \in DOMAIN messages' : (j \in DOMAIN messages /\ messages'[j] = messages[j]) \/ messages'[j] = m
  OBVIOUS
<1> QED BY <1>1 DEF Live, Visible

\* Only a commit shows a message.
LEMMA OthersShowNothing ==
    ASSUME TypeOK, [Next]_vars, \A i \in DOMAIN messages : ~Commit(i), NEW r \in Room
    PROVE  Live(r)' \subseteq Live(r)
<1>0. messages \in Seq(Message) BY DEF TypeOK
<1>1. CASE UNCHANGED messages BY <1>1 DEF Live, Visible
<1>2. ASSUME NEW q \in Room, NEW u \in Author, SaveMessage(q, u) PROVE Live(r)' \subseteq Live(r)
  <2> PICK s \in Second : messages' = Append(messages, [room |-> q, author |-> u, made |-> s, state |-> "inserted"])
    BY <1>2 DEF SaveMessage
  <2> DEFINE m == [room |-> q, author |-> u, made |-> s, state |-> "inserted"]
  <2>1. m \in Message /\ m.state = "inserted" BY DEF Message, State
  <2>2. messages' = Append(messages, m) OBVIOUS
  <2> HIDE DEF m
  <2> QED BY <1>0, <2>1, <2>2, InsertHidden
<1>3. ASSUME NEW i \in DOMAIN messages, Rollback(i) \/ SoftDeleteMessage(i) PROVE Live(r)' \subseteq Live(r)
  <2> PICK st \in State : messages' = [messages EXCEPT ![i].state = st] /\ st # "live"
    BY <1>3 DEF Rollback, SoftDeleteMessage, State
  <2> QED BY <1>0, StateChange
<1> QED
  <2> SUFFICES ASSUME ~UNCHANGED messages
               PROVE  \/ \E q \in Room, u \in Author : SaveMessage(q, u)
                      \/ \E i \in DOMAIN messages : Rollback(i) \/ SoftDeleteMessage(i)
    BY <1>1, <1>2, <1>3
  <2> QED
    BY DEF Next, vars, Tick, AddUserToRoom, RemoveUserFromRoom, Register, MarkAsRead,
           ResolveReadMessageID, StoreLastRead, MarkFails, ListMessages, AnswerMessages

\* A step that is not about pager g, for which all that it shows is new, and late where the
\* pager has something above it.
LEMMA PagedBeside ==
    ASSUME TypeOK, TypeOK', NEW g \in Pager, Paged(g),
           UNCHANGED <<ppc[g], seen[g], page[g], moreBefore[g], moreAfter[g]>>,
           late[g] \subseteq late'[g], new[g] \subseteq new'[g],
           \A i \in Live(PagedRoom[g])' \ Live(PagedRoom[g]) :
               i \in new'[g] /\ ((\E k \in seen[g] \cup page[g] : k > i) => i \in late'[g])
    PROVE  Paged(g)'
<1> DEFINE L == Live(PagedRoom[g])
<1>1. L \subseteq Id BY LiveIds
<1>2. L' \subseteq Id
  <2>1. messages' \in Seq(Message) /\ Len(messages') <= MaxMessages BY DEF TypeOK
  <2>2. DOMAIN messages' = 1..Len(messages') /\ Len(messages') \in Nat BY <2>1
  <2>3. DOMAIN messages' \subseteq Id BY <2>1, <2>2, ReadingAssumption DEF Id
  <2> QED BY <2>3 DEF Live, Visible
<1>3. seen[g] \subseteq Id /\ page[g] \subseteq Id BY DEF TypeOK
<1>4. Knows(ppc[g], L, seen[g], page[g], moreBefore[g], moreAfter[g], late[g], new[g]) BY DEF Paged
<1> HIDE DEF L
<1>5. \A i \in L' \ L : i \in new'[g] /\ ((\E k \in seen[g] \cup page[g] : k > i) => i \in late'[g]) BY DEF L
<1>6. Knows(ppc[g], L', seen[g], page[g], moreBefore[g], moreAfter[g], late'[g], new'[g])
  BY <1>1, <1>2, <1>3, <1>4, <1>5, KnowsOn
<1> QED BY <1>6 DEF Paged, L

LEMMA NextPaged ==
    ASSUME TypeOK, TypeOK', [Next]_vars, NEW g \in Pager, Paged(g)
    PROVE  Paged(g)'
<1> DEFINE L == Live(PagedRoom[g])
<1>0. /\ ppc \in [Pager -> {"new", "idle", "first", "before", "after"}]
      /\ page \in [Pager -> SUBSET Id] /\ seen \in [Pager -> SUBSET Id]
      /\ moreBefore \in [Pager -> BOOLEAN] /\ moreAfter \in [Pager -> BOOLEAN]
      /\ late \in [Pager -> SUBSET Id] /\ new \in [Pager -> SUBSET Id]
      /\ messages \in Seq(Message)
      /\ PagedRoom[g] \in Room /\ L \subseteq Id
  BY LiveIds, ReadingAssumption DEF TypeOK
<1>1. ASSUME NEW i \in DOMAIN messages, Commit(i) PROVE Paged(g)'
  <2>1. messages' = [messages EXCEPT ![i].state = "live"] /\ UNCHANGED pageVars BY <1>1 DEF Commit
  <2>2. "live" \in State BY DEF State
  <2>3. L' \subseteq L \cup {i} /\ (i \in L' => messages[i].room = PagedRoom[g])
    BY <1>0, <2>1, <2>2, StateChange
  <2>4. /\ new'[g] = new[g] \cup {i} /\ late[g] \subseteq late'[g]
        /\ messages[i].room = PagedRoom[g] /\ (\E k \in seen[g] \cup page[g] : k > i) => i \in late'[g]
    BY <1>1 DEF Commit
  <2>5. UNCHANGED <<ppc[g], seen[g], page[g], moreBefore[g], moreAfter[g]>> BY <2>1 DEF pageVars
  <2>6. \A j \in L' \ L : j \in new'[g] /\ ((\E k \in seen[g] \cup page[g] : k > j) => j \in late'[g])
    BY <2>3, <2>4
  <2> QED BY <2>4, <2>5, <2>6, PagedBeside
<1>2. ASSUME UNCHANGED <<ppc[g], seen[g], page[g], moreBefore[g], moreAfter[g], late[g], new[g]>>,
             L' \subseteq L
      PROVE  Paged(g)'
  BY <1>2, PagedBeside
<1>3. ASSUME NEW h \in Pager, NEW kind \in {"first", "before", "after"}, ListMessages(h, kind) PROVE Paged(g)'
  <2>0. UNCHANGED <<messages, seen, moreBefore, moreAfter, late>> BY <1>3 DEF ListMessages
  <2>1. L' = L BY <2>0 DEF Live, Visible
  <2>2. CASE h # g
    <3>1. ppc'[g] = ppc[g] /\ page'[g] = page[g] /\ new'[g] = new[g] BY <1>0, <1>3, <2>2 DEF ListMessages
    <3> QED BY <1>2, <2>0, <2>1, <3>1
  <2>3. CASE h = g
    <3> DEFINE older == {i \in L : \A k \in seen[g] : i < k}
               newer == {i \in L : \A k \in seen[g] : i > k}
    <3>1. /\ ppc'[g] = kind
          /\ page'[g] = CASE kind = "first" -> Highest(L) [] kind = "before" -> Highest(older)
                          [] kind = "after" -> Lowest(newer)
          /\ new'[g] = IF kind = "before" THEN new[g] ELSE {}
          /\ kind = "first" => ppc[g] = "new" \/ seen[g] = {}
          /\ kind # "first" => ppc[g] = "idle" /\ seen[g] # {}
      BY <1>0, <1>3, <2>3 DEF ListMessages
    <3>2. seen[g] \subseteq Id /\ L \subseteq Id BY <1>0
    <3>3. Knows(ppc[g], L, seen[g], page[g], moreBefore[g], moreAfter[g], late[g], new[g]) BY DEF Paged
    <3> SUFFICES Knows(kind, L, seen[g], page'[g], moreBefore[g], moreAfter[g], late[g], new'[g])
      BY <2>0, <2>1, <3>1 DEF Paged
    <3> HIDE DEF L
    <3>4. CASE kind = "first"
      <4>1. seen[g] = {} /\ page'[g] = Highest(L) BY <3>1, <3>3, <3>4 DEF Knows
      <4> QED BY <3>2, <3>4, <4>1, KnowsFirst
    <3>5. CASE kind = "before"
      <4>1. /\ ppc[g] = "idle" /\ seen[g] # {} /\ page'[g] = Highest({i \in L : Below(i, seen[g])}) /\ new'[g] = new[g]
            /\ page[g] = {}
        BY <3>1, <3>3, <3>5 DEF Below, Knows
      <4>2. Knows("idle", L, seen[g], {}, moreBefore[g], moreAfter[g], late[g], new[g]) BY <3>3, <4>1
      <4> QED BY <3>2, <3>5, <4>1, <4>2, KnowsBefore
    <3>6. CASE kind = "after"
      <4>1. /\ ppc[g] = "idle" /\ seen[g] # {} /\ page'[g] = Lowest({i \in L : Above(i, seen[g])})
            /\ page[g] = {}
        BY <3>1, <3>3, <3>6 DEF Above, Knows
      <4>2. Knows("idle", L, seen[g], {}, moreBefore[g], moreAfter[g], late[g], new[g]) BY <3>3, <4>1
      <4> QED BY <3>2, <3>6, <4>1, <4>2, KnowsAfter
    <3> QED BY <3>4, <3>5, <3>6
  <2> QED BY <2>2, <2>3
<1>4. ASSUME NEW h \in Pager, AnswerMessages(h) PROVE Paged(g)'
  <2>0. UNCHANGED <<messages, late, new>> BY <1>4 DEF AnswerMessages
  <2>1. L' = L BY <2>0 DEF Live, Visible
  <2>2. CASE h # g
    <3>1. UNCHANGED <<ppc[g], seen[g], page[g], moreBefore[g], moreAfter[g]>>
      BY <1>0, <1>4, <2>2 DEF AnswerMessages
    <3> QED BY <1>2, <2>0, <2>1, <3>1
  <2>3. CASE h = g
    <3>1. /\ ppc[g] \in {"first", "before", "after"} /\ ppc'[g] = "idle"
          /\ seen'[g] = seen[g] \cup page[g] /\ page'[g] = {}
      BY <1>0, <1>4, <2>3 DEF AnswerMessages
    <3>2. IF ppc[g] = "after" THEN moreBefore'[g] = moreBefore[g]
          ELSE moreBefore'[g] <=> page[g] # {} /\ \E i \in L : Below(i, page[g])
      BY <1>0, <1>4, <2>3 DEF AnswerMessages, Older, Below
    <3>3. IF ppc[g] = "before" THEN moreAfter'[g] = moreAfter[g]
          ELSE moreAfter'[g] <=> page[g] # {} /\ \E i \in L : Above(i, page[g])
      BY <1>0, <1>4, <2>3 DEF AnswerMessages, Newer, Above
    <3>4. Knows(ppc[g], L, seen[g], page[g], moreBefore[g], moreAfter[g], late[g], new[g]) BY DEF Paged
    <3>5. seen[g] \subseteq Id /\ page[g] \subseteq Id /\ L \subseteq Id BY <1>0
    <3> HIDE DEF L
    <3>6. Knows("idle", L, seen[g] \cup page[g], {}, moreBefore'[g], moreAfter'[g], late[g], new[g])
      BY <3>1, <3>2, <3>3, <3>4, <3>5, KnowsAnswer
    <3> QED BY <2>0, <2>1, <3>1, <3>6 DEF Paged, L
  <2> QED BY <2>2, <2>3
<1>5. ASSUME UNCHANGED <<pageVars, late, new>>, \A i \in DOMAIN messages : ~Commit(i) PROVE Paged(g)'
  <2>1. L' \subseteq L BY <1>0, <1>5, OthersShowNothing
  <2> QED BY <1>2, <1>5, <2>1 DEF pageVars
<1> QED
  <2> SUFFICES ASSUME ~UNCHANGED <<pageVars, late, new>>
               PROVE  \/ \E i \in DOMAIN messages : Commit(i)
                      \/ \E h \in Pager : \E kind \in {"first", "before", "after"} : ListMessages(h, kind)
                      \/ \E h \in Pager : AnswerMessages(h)
    BY <1>1, <1>3, <1>4, <1>5
  <2> QED
    BY DEF Next, vars, Tick, SaveMessage, Rollback, SoftDeleteMessage, AddUserToRoom, RemoveUserFromRoom,
           Register, MarkAsRead, ResolveReadMessageID, StoreLastRead, MarkFails

\* buildMessagePageQuery and the two boundary probes: whatever is sent, committed out of order
\* or deleted between and during the requests, a client that is told that nothing is left has
\* all but what came late or new.
THEOREM PagingComplete == Spec => []PagingMissesOnlyLate
<1> DEFINE PInv == \A g \in Pager : Paged(g)
<1>1. Init => PInv
  <2> SUFFICES ASSUME Init, NEW g \in Pager
               PROVE  Knows(ppc[g], Live(PagedRoom[g]), seen[g], page[g], moreBefore[g], moreAfter[g], late[g], new[g])
    BY DEF Paged
  <2>1. ppc[g] = "new" /\ seen[g] = {} /\ page[g] = {} BY DEF Init
  <2> QED BY <2>1 DEF Knows
<1>2. TypeOK /\ TypeOK' /\ PInv /\ [Next]_vars => PInv'
  BY NextPaged
<1>3. TypeOK /\ PInv => PagingMissesOnlyLate
  <2> SUFFICES ASSUME TypeOK, NEW g \in Pager, Paged(g), Done(g), NEW i \in Live(PagedRoom[g]), i \notin seen[g]
               PROVE  i \in late[g] \/ i \in new[g]
    BY DEF PagingMissesOnlyLate
  <2>1. ppc[g] = "idle" /\ ~moreBefore[g] /\ ~moreAfter[g] BY DEF Done
  <2>2. i \in Nat /\ \A k \in seen[g] : k \in Nat
    <3>1. seen[g] \subseteq Id BY DEF TypeOK
    <3> QED BY <3>1, LiveIds, IdsFinite
  <2>3. CASE Above(i, seen[g]) BY <2>1, <2>3 DEF Paged, Knows
  <2>4. CASE Below(i, seen[g]) /\ seen[g] # {} BY <2>1, <2>4 DEF Paged, Knows
  <2>5. CASE ~Above(i, seen[g]) /\ ~Below(i, seen[g])
    <3>1. (\E k \in seen[g] : k > i) /\ (\E k \in seen[g] : k < i) BY <2>2, <2>5 DEF Above, Below
    <3>2. page[g] = {} BY <2>1 DEF Paged, Knows
    <3> QED BY <3>1, <3>2 DEF Paged, Knows
  <2> QED BY <2>3, <2>4, <2>5 DEF Above
<1>4. Spec => []TypeOK BY TypeCorrect
<1> QED BY <1>1, <1>2, <1>3, <1>4, PTL DEF Spec
=============================================================================
