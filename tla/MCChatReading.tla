--------------------------- MODULE MCChatReading ---------------------------
(* Instances of ChatReading for TLC. *)
EXTENDS ChatReading
CONSTANTS a, b, r1, r2, d1, g1
AllOfA  == [d \in Device |-> a]
AllInR1 == [g \in Pager |-> r1]

\* The positions of a room and a pager are each written by their own steps only, so
\* their product says nothing new: at most one of them is at work.
NobodyPages == \A g \in Pager : ppc[g] = "new"
NobodyReads(r) ==
    /\ \A u \in User : LET p == <<r, u>> IN
          row[p] = (r \notin CourseRoom) /\ lastId[p] = 0 /\ lastAt[p] = 0 /\ registered[p] = 0
    /\ \A d \in Device : dpc[d] = "idle" \/ target[d] # r

\* Two messages for a reader, or as many as there are for a pager, all in its room.
OneAtATime ==
    \/ NobodyPages /\ Len(messages) <= 2 /\ (NobodyReads(r1) \/ NobodyReads(r2))
    \/ /\ NobodyReads(r1) /\ NobodyReads(r2) /\ clock = 1
       /\ \A i \in DOMAIN messages : messages[i].room = r1 /\ messages[i].author = b
=============================================================================
