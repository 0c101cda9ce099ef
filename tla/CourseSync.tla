------------------------------ MODULE CourseSync ------------------------------
(***************************************************************************)
(* The syllabus synchronisation of one academic year and the timetables    *)
(* that depend on it.                                                      *)
(*                                                                         *)
(* A sync compares the rows read from the syllabus with the rows of        *)
(* `courses' (usecase/course/sync_plan.go, pure), then writes what it      *)
(* planned in one transaction (usecase/course/sync_courses.go).  Between   *)
(* the reading and the transaction the administrator may decide a review   *)
(* or delete a course and a student may change the timetable; a second     *)
(* sync may be under way too, when the import job lost its lock (see       *)
(* CourseImport).  A transaction is one step: the row locks of             *)
(* timetable_repository.go and LockCourses order the writers.              *)
(*                                                                         *)
(* Abstracted: the text of a name is a model value and a campus suffix     *)
(* stays apart from it; the log of runs and changes, the rooms and the     *)
(* notifications to students are left out.  A dry run rolls its writes     *)
(* back, so it would be a stuttering step.                                 *)
(*                                                                         *)
(* Definitions whose comment starts with "Wrong:" are faulty variants of   *)
(* the definition they precede; they show that the properties can fail.    *)
(***************************************************************************)
EXTENDS Integers, Sequences, FiniteSets, FiniteSetsExt

CONSTANTS
    Users,           \* students
    Workers,         \* syncs that may be under way at once
    Syllabi,         \* what the site may show: sequences of rows
    Legacy,          \* rows imported before source_name was kept
    ManualRows,      \* what the administrator may enter by hand
    Terms,           \* the current terms the setting may hold
    Year,            \* the academic year that is synchronised
    MaxRatioPercent, \* discontinueMaxRatioPercent
    MaxSyncs,        \* bound: syncs started
    MaxEntries,      \* bound: timetable rows ever inserted
    MaxManualID,     \* bound: the last id given to a course entered by hand
    Idle, NoRef, NoName, NoSuffix

Semesters == {"first", "second", "full"}

(* A row of the syllabus: ScrapedCourseInput. *)
Rows == ManualRows \cup UNION {{S[i] : i \in DOMAIN S} : S \in Syllabi \cup {Legacy}}

Slots    == {r.slot : r \in Rows}
Refs     == {r.ref : r \in Rows}
Names    == {r.source : r \in Rows}
Teachers == {r.teacher : r \in Rows}
Suffixes == {r.suffix : r \in Rows} \cup {NoSuffix}

VARIABLES
    courses,  \* the rows of `courses' by id, discontinued ones included
    nextID,   \* AUTO_INCREMENT of courses
    reviews,  \* course_sync_reviews: fingerprint -> status
    entries,  \* timetables by id
    nextEntry,
    job,      \* what each sync read before its transaction, or Idle
    syncs

syncVars == <<courses, nextID, reviews, entries, nextEntry, job, syncs>>

-----------------------------------------------------------------------------
(* The comparison: pure operators on what was read.                        *)

(* endedBefore: year 0 of the current term means it is not known. *)
EndedBefore(term, sem) ==
    /\ term.year # 0
    /\ IF Year # term.year THEN Year < term.year
                           ELSE sem = "first" /\ term.sem = "second"

DedupKey(r) == <<r.sem, r.ref, r.slot>>

(* The table starts as the database lets it: dedup_key is unique. *)
ASSUME SyllabusAssumption ==
    /\ Rows \subseteq [sem : Semesters, ref : Refs, slot : Slots, source : Names,
                       teacher : Teachers, suffix : Suffixes, sure : BOOLEAN]
    /\ \A S \in Syllabi \cup {Legacy} : S \in Seq(Rows)
    /\ \A c, d \in DOMAIN Legacy : DedupKey(Legacy[c]) = DedupKey(Legacy[d]) => c = d
    /\ NoRef \notin Refs /\ NoName \notin Names
    /\ MaxRatioPercent \in 0..100
    /\ MaxSyncs \in Nat /\ MaxEntries \in Nat

GroupKey(r) == <<r.sem, r.ref>>

(* ListSyncableCourses: rows made by hand or retired have no source_ref. *)
Syncable(existing) == {c \in DOMAIN existing : existing[c].ref # NoRef}

Olds(existing, k) == {c \in Syncable(existing) : GroupKey(existing[c]) = k}

(* Rows of the syllabus, the ones that repeat a dedup_key dropped. *)
News(S, k) == {i \in DOMAIN S : /\ GroupKey(S[i]) = k
                                /\ \A j \in 1..(i - 1) : DedupKey(S[j]) # DedupKey(S[i])}

OldKeys(existing) == {GroupKey(existing[c]) : c \in Syncable(existing)}

NewKeys(S) == {GroupKey(S[i]) : i \in DOMAIN S}

(* Without a source_name, the text before the suffix is what is compared. *)
NameMatches(c, source) ==
    IF c.source # NoName THEN c.source = source ELSE c.name = source

(* Display name and suffix after an update: a row the scraper looked into  *)
(* decides, a name that still matches is kept, and a changed name keeps    *)
(* the suffix that was put behind the old one.                             *)
NextCourseName(c, r) ==
    IF r.sure THEN <<r.source, r.suffix>>
    ELSE IF NameMatches(c, r.source) THEN <<c.name, c.suffix>>
    ELSE <<r.source, IF c.source = c.name THEN c.suffix ELSE NoSuffix>>

(* Wrong: the key follows the listing even when the slot stays. *)
AfterRekeyed(c, r, term) ==
    LET stay == EndedBefore(term, c.sem)
                   /\ (c.sem # r.sem \/ c.slot # r.slot)
        name == NextCourseName(c, r)
    IN  [sem |-> IF stay THEN c.sem ELSE r.sem, slot |-> IF stay THEN c.slot ELSE r.slot,
         key |-> DedupKey(r), name |-> name[1], suffix |-> name[2], teacher |-> r.teacher,
         ref |-> r.ref, source |-> r.source, disc |-> FALSE]

(* CourseFields: what update makes of course c, given row r. *)
After(c, r, term) ==
    LET stay == EndedBefore(term, c.sem)
                   /\ (c.sem # r.sem \/ c.slot # r.slot)
        name == NextCourseName(c, r)
    IN  [sem     |-> IF stay THEN c.sem ELSE r.sem,
         slot    |-> IF stay THEN c.slot ELSE r.slot,
         key     |-> IF stay THEN c.key ELSE DedupKey(r),
         name    |-> name[1],
         suffix  |-> name[2],
         teacher |-> r.teacher,
         ref     |-> r.ref,
         source  |-> r.source,
         disc    |-> FALSE]

(***************************************************************************)
(* A plan is a set of facts:                                               *)
(*   <<"update", c, i>>   course c takes the content of row i              *)
(*   <<"create", i>>      row i becomes a new course                       *)
(*   <<"gone", c>>        c may be discontinued (a candidate)              *)
(*   <<"forced", c>>      c is discontinued by the administrator's word    *)
(*   <<"retire", c>>      c is discontinued and leaves the comparison      *)
(*   <<"review", f>>      the administrator is asked                       *)
(*   <<"applied", f>>     the decision on f is carried out                 *)
(***************************************************************************)
Updates(existing, S, term, pairs) ==
    {<<"update", p[1], p[2]>> :
        p \in {q \in pairs : After(existing[q[1]], S[q[2]], term) # existing[q[1]]}}

CreateAll(news) == {<<"create", i>> : i \in news}

DiscontinueCandidates(existing, olds) ==
    {<<"gone", c>> : c \in {d \in olds : ~existing[d].disc}}

DecisionOn(decisions, f) ==
    IF f \in DOMAIN decisions THEN decisions[f] ELSE "none"

SlotsOf(table, ids) == {table[x].slot : x \in ids}

(* A question to the administrator: what a decision adds to the plan, or   *)
(* the question itself while nothing (or only an old answer) is known.     *)
Decided(decisions, f, ifSame, ifDifferent) ==
    CASE DecisionOn(decisions, f) = "SAME"      -> ifSame \cup {<<"applied", f>>}
      [] DecisionOn(decisions, f) = "DIFFERENT" -> ifDifferent \cup {<<"applied", f>>}
      [] DecisionOn(decisions, f) = "IGNORED"   -> {}
      [] OTHER                                  -> {<<"review", f>>}

(* planGroup once the suspicion of reuse is settled: pair by slot.  "SAME" *)
(* is never the answer to SLOT_AMBIGUOUS (ResolveReview).                  *)
PlanSlots(existing, decisions, S, term, k, olds, news) ==
    LET pairs   == {p \in olds \X news :
                       p[1] = Max({c \in olds : existing[c].slot = S[p[2]].slot} \cup {0})}
        leftOld == {c \in olds : \A p \in pairs : p[1] # c}
        leftNew == {i \in news : \A p \in pairs : p[2] # i}
        f       == <<"SLOT_AMBIGUOUS", k, SlotsOf(existing, leftOld), SlotsOf(S, leftNew)>>
        active  == {c \in leftOld : ~existing[c].disc}
    IN  Updates(existing, S, term, pairs) \cup
        (IF leftOld = {} THEN CreateAll(leftNew)
         ELSE IF leftNew = {} THEN DiscontinueCandidates(existing, leftOld)
         ELSE IF Cardinality(leftOld) = 1 /\ Cardinality(leftNew) = 1
              THEN Updates(existing, S, term, leftOld \X leftNew)
         ELSE IF \A c \in leftOld : EndedBefore(term, existing[c].sem) THEN {}
         ELSE Decided(decisions, f, {},
                      {<<"forced", c>> : c \in active} \cup CreateAll(leftNew)))

(* The first row of a group stands for its name and teacher; both changed  *)
(* raises the suspicion that the code was given to another course.         *)
PlanGroup(existing, decisions, S, term, k, olds, news, skipReuseCheck) ==
    LET old    == existing[Min(olds)]
        new    == S[Min(news)]
        reused == /\ ~skipReuseCheck
                  /\ ~NameMatches(old, new.source)
                  /\ old.teacher # new.teacher
        slots  == PlanSlots(existing, decisions, S, term, k, olds, news)
    IN  IF reused
        THEN Decided(decisions, <<"CODE_REUSED", k, new.source, new.teacher>>, slots,
                     {<<"retire", c>> : c \in olds} \cup CreateAll(news))
        ELSE slots

(* matchReissues: <<new key, old key>> that fit each other and nothing     *)
(* else, by name and teacher of their first rows.                          *)
MatchReissues(existing, S, term) ==
    LET gone == OldKeys(existing) \ NewKeys(S)
        newOnly == NewKeys(S) \ OldKeys(existing)
        fits(nk, ok) ==
            LET olds == Olds(existing, ok)
                old  == existing[Min(olds)]
                new  == S[Min(News(S, nk))]
            IN  /\ \E c \in olds : ~existing[c].disc
                /\ \E c \in olds : ~EndedBefore(term, existing[c].sem)
                /\ old.teacher = new.teacher
                /\ NameMatches(old, new.source)
        pairs == {p \in newOnly \X gone : fits(p[1], p[2])}
    IN  {p \in pairs : \A q \in pairs : q # p => q[1] # p[1] /\ q[2] # p[2]}

ReissueFingerprint(p) ==
    <<IF p[1][2] = p[2][2] THEN "SEMESTER_CHANGED" ELSE "CODE_REISSUED", p[2], p[1]>>

PlanReissue(existing, decisions, S, term, p) ==
    LET news == News(S, p[1])
    IN  Decided(decisions, ReissueFingerprint(p),
                PlanGroup(existing, decisions, S, term, p[1], Olds(existing, p[2]), news, TRUE),
                CreateAll(news))

(* discontinueGuard: nothing is discontinued when rows may have been missed *)
(* or when there are too many candidates.                                  *)
DiscontinueGuard(candidates, active, complete) ==
    ~complete \/ candidates * 100 > active * MaxRatioPercent

DecideDiscontinues(facts, active, complete) ==
    LET candidates == {f \in facts : f[1] = "gone"}
    IN  IF DiscontinueGuard(Cardinality(candidates), active, complete)
        THEN facts \ candidates ELSE facts

PlanCourseSync(existing, decisions, S, term, complete) ==
    LET both     == NewKeys(S) \cap OldKeys(existing)
        reissues == MatchReissues(existing, S, term)
        fresh    == {k \in NewKeys(S) \ OldKeys(existing) : \A p \in reissues : p[1] # k}
        \* a DIFFERENT decision leaves the old code among the gone ones
        settled  == {p \in reissues : DecisionOn(decisions, ReissueFingerprint(p)) # "DIFFERENT"}
        gone     == {k \in OldKeys(existing) \ NewKeys(S) : \A p \in settled : p[2] # k}
        facts    ==
            UNION ({PlanGroup(existing, decisions, S, term, k,
                              Olds(existing, k), News(S, k), FALSE) : k \in both}
                   \cup {CreateAll(News(S, k)) : k \in fresh}
                   \cup {PlanReissue(existing, decisions, S, term, p) : p \in reissues}
                   \cup {DiscontinueCandidates(existing, Olds(existing, k)) : k \in gone})
    IN  DecideDiscontinues(facts,
            Cardinality({c \in Syncable(existing) : ~existing[c].disc}), complete)

-----------------------------------------------------------------------------
(* The transaction.                                                        *)

Named(plan, what) == {f[2] : f \in {g \in plan : g[1] = what}}

(* Wrong: a retired course keeps its dedup_key. *)
DiscontinueKeepsKey(table, plan) ==
    [c \in DOMAIN table |->
        IF c \in Named(plan, "retire")
        THEN [table[c] EXCEPT !.disc = TRUE, !.ref = NoRef]
        ELSE [table[c] EXCEPT !.disc = @ \/ c \in Named(plan, "forced") \cup Named(plan, "gone")]]

(* RetireCourses, then DiscontinueCourses. *)
Discontinue(table, plan) ==
    [c \in DOMAIN table |->
        IF c \in Named(plan, "retire")
        THEN [table[c] EXCEPT !.disc = TRUE, !.ref = NoRef, !.key = <<"retired", c>>]
        ELSE [table[c] EXCEPT !.disc = @ \/ c \in Named(plan, "forced") \cup Named(plan, "gone")]]

(* Wrong: a course that is listed again is not restored. *)
UpdateCoursesNoRestore(table, plan, existing, S, term) ==
    [c \in DOMAIN table |->
        IF c \in Named(plan, "update")
        THEN LET f == CHOOSE g \in plan : g[1] = "update" /\ g[2] = c
             IN  [After(existing[c], S[f[3]], term) EXCEPT !.disc = table[c].disc]
        ELSE table[c]]

(* UpdateCourses: every column but discontinued_at, which only a restore   *)
(* clears.  A row deleted since it was read stays deleted.                 *)
UpdateCourses(table, plan, existing, S, term) ==
    [c \in DOMAIN table |->
        IF c \in Named(plan, "update")
        THEN LET f == CHOOSE g \in plan : g[1] = "update" /\ g[2] = c
             IN  [After(existing[c], S[f[3]], term)
                     EXCEPT !.disc = table[c].disc /\ ~existing[c].disc]
        ELSE table[c]]

NewCourse(r, key, source) ==
    [sem |-> r.sem, slot |-> r.slot, ref |-> r.ref, key |-> key, name |-> r.source,
     suffix |-> r.suffix, source |-> source, teacher |-> r.teacher, disc |-> FALSE]

(* SaveCoursesWithRooms: ids in the order of the rows. *)
CreateCourses(table, plan, S, next) ==
    LET rows    == Named(plan, "create")
        id(i)   == next + Cardinality({j \in rows : j < i})
        made(c) == S[CHOOSE i \in rows : id(i) = c]
    IN  [c \in DOMAIN table \cup {id(i) : i \in rows} |->
            IF c \in DOMAIN table THEN table[c]
            ELSE NewCourse(made(c), DedupKey(made(c)), made(c).source)]

ApplyCourses(table, plan, existing, S, term, next) ==
    CreateCourses(UpdateCourses(Discontinue(table, plan), plan, existing, S, term), plan, S, next)

(* dedup_key is unique: a transaction that leaves two rows with one key    *)
(* fails.                                                                  *)
KeysUnique(table) == \A c, d \in DOMAIN table : table[c].key = table[d].key => c = d

(* A write takes a key that another row holds, in whatever order the rows  *)
(* are written.                                                            *)
KeysClash(table, plan, existing, S, term) ==
    LET before == Discontinue(table, plan)
        after  == UpdateCourses(before, plan, existing, S, term)
    IN  \/ \E c \in DOMAIN table \cap Named(plan, "update"), d \in DOMAIN table :
               d # c /\ (after[c].key = before[d].key \/ after[c].key = after[d].key)
        \/ \E i \in Named(plan, "create"), d \in DOMAIN table :
               after[d].key = DedupKey(S[i])
        \/ \E i, j \in Named(plan, "create") : i # j /\ DedupKey(S[i]) = DedupKey(S[j])

(* movedCourseIDs: the slot or the semester changes. *)
MovedCourses(plan, existing, S, term) ==
    {f[2] : f \in {g \in plan : /\ g[1] = "update"
                               /\ LET c == existing[g[2]]
                                      a == After(c, S[g[3]], term)
                                  IN  a.sem # c.sem \/ a.slot # c.slot}}

SemestersMeet(s, t) == s = t \/ s = "full" \/ t = "full"

(* Two courses stand in each other's place on a timetable. *)
SameSlot(c, d) == c.slot = d.slot /\ SemestersMeet(c.sem, d.sem)

(* Entries d and e of one user that share a slot. *)
Overlap(table, ents, d, e) ==
    /\ d # e
    /\ ents[d].user = ents[e].user
    /\ SameSlot(table[ents[d].course], table[ents[e].course])

(* Wrong: only moved courses are compared with each other. *)
FindSlotConflictsMoved(table, ents, moved) ==
    LET inMoved == {e \in DOMAIN ents : ents[e].course \in moved}
    IN  {e \in inMoved : \E o \in inMoved : Overlap(table, ents, e, o) /\ o < e}

(* Wrong: the course that did not move makes room. *)
FindSlotConflictsOther(table, ents, moved) ==
    {o \in DOMAIN ents : \E e \in DOMAIN ents :
        Overlap(table, ents, e, o) /\ ents[e].course \in moved /\ ents[o].course \notin moved}

(* FindSlotConflicts: the entry of a moved course goes when it meets one   *)
(* of a course that did not move, or an older one that stays.              *)
FindSlotConflicts(table, ents, moved) ==
    LET inMoved == {e \in DOMAIN ents : ents[e].course \in moved}
        removed[e \in DOMAIN ents] ==
            /\ e \in inMoved
            /\ \E o \in DOMAIN ents :
                  /\ Overlap(table, ents, e, o)
                  /\ o \notin inMoved \/ (o < e /\ ~removed[o])
    IN  {e \in DOMAIN ents : removed[e]}

Without(f, gone) == [x \in DOMAIN f \ gone |-> f[x]]

(* saveReviews (an upsert that resets to PENDING), then MarkReviewsApplied. *)
SaveReviews(table, plan) ==
    LET asked   == Named(plan, "review")
        applied == Named(plan, "applied")
    IN  [f \in DOMAIN table \cup asked |->
            IF f \in applied THEN "APPLIED"
            ELSE IF f \in asked THEN "PENDING" ELSE table[f]]

-----------------------------------------------------------------------------
(* The steps.                                                              *)

SyncInit ==
    /\ courses = [c \in DOMAIN Legacy |->
                     NewCourse(Legacy[c], DedupKey(Legacy[c]), NoName)]
    /\ nextID = Len(Legacy) + 1
    /\ reviews = [f \in {} |-> "PENDING"]
    /\ entries = [e \in {} |-> 0]
    /\ nextEntry = 1
    /\ job = [w \in Workers |-> Idle]
    /\ syncs = 0

(* Execute up to the transaction: the rows and the decisions are read. *)
SyncReads(w, S, term, complete) ==
    /\ job[w] = Idle
    /\ syncs < MaxSyncs
    /\ syncs' = syncs + 1
    /\ job' = [job EXCEPT ![w] = [existing |-> courses, decisions |-> reviews, syllabus |-> S,
                                  term |-> term, complete |-> complete]]
    /\ UNCHANGED <<courses, nextID, reviews, entries, nextEntry>>

PlanOf(j) == PlanCourseSync(j.existing, j.decisions, j.syllabus, j.term, j.complete)

(* The transaction of Execute, from LockCourses to the commit. *)
SyncCommits(w) ==
    /\ job[w] # Idle
    /\ LET j     == job[w]
           plan  == PlanOf(j)
           table == ApplyCourses(courses, plan, j.existing, j.syllabus, j.term, nextID)
           moved == MovedCourses(plan, j.existing, j.syllabus, j.term)
       IN  /\ KeysUnique(table)
           /\ courses' = table
           /\ nextID' = nextID + Cardinality(Named(plan, "create"))
           /\ entries' = Without(entries, FindSlotConflicts(table, entries, moved))
           /\ reviews' = SaveReviews(reviews, plan)
    /\ job' = [job EXCEPT ![w] = Idle]
    /\ UNCHANGED <<nextEntry, syncs>>

(* A failed read or write: nothing is left behind. *)
SyncFails(w) ==
    /\ job[w] # Idle
    /\ job' = [job EXCEPT ![w] = Idle]
    /\ UNCHANGED <<courses, nextID, reviews, entries, nextEntry, syncs>>

(* CourseSyncAdmin.ResolveReview. *)
ResolveReview(f, decision) ==
    /\ f \in DOMAIN reviews
    /\ reviews[f] = "PENDING"
    /\ ~(f[1] = "SLOT_AMBIGUOUS" /\ decision = "SAME")
    /\ reviews' = [reviews EXCEPT ![f] = decision]
    /\ UNCHANGED <<courses, nextID, entries, nextEntry, job, syncs>>

(* AdminDeleteCourse: the room goes, the course and its entries with it. *)
AdminDeleteCourse(c) ==
    /\ c \in DOMAIN courses
    /\ courses' = Without(courses, {c})
    /\ entries' = Without(entries, {e \in DOMAIN entries : entries[e].course = c})
    /\ UNCHANGED <<nextID, reviews, nextEntry, job, syncs>>

(* AdminCreateCourse: a course no sync will ever touch. *)
AdminCreateCourse(r) ==
    /\ nextID <= MaxManualID
    /\ courses' = [c \in DOMAIN courses \cup {nextID} |->
                      IF c \in DOMAIN courses THEN courses[c]
                      ELSE NewCourse([r EXCEPT !.ref = NoRef], <<"manual", nextID>>, NoName)]
    /\ nextID' = nextID + 1
    /\ UNCHANGED <<reviews, entries, nextEntry, job, syncs>>

Put(ents, u, added) ==
    LET id(c) == nextEntry + Cardinality({d \in added : d < c})
    IN  [e \in DOMAIN ents \cup {id(c) : c \in added} |->
            IF e \in DOMAIN ents THEN ents[e]
            ELSE [user |-> u, course |-> CHOOSE c \in added : id(c) = e]]

(* The entries in the slot make room for the new one. *)
Upsert(u, c) ==
    /\ nextEntry <= MaxEntries
    /\ ~courses[c].disc
    /\ entries' = Put(Without(entries, {e \in DOMAIN entries :
                                  /\ entries[e].user = u
                                  /\ SameSlot(courses[entries[e].course], courses[c])}),
                      u, {c})
    /\ nextEntry' = nextEntry + 1
    /\ UNCHANGED <<courses, nextID, reviews, job, syncs>>

(* ReplaceForSemester: the timetable of one semester, full-year courses    *)
(* with it, is set to the desired courses.  A request made from another    *)
(* view than the current one is refused, so this one saw it.  The unique   *)
(* key refuses a course the student has outside the view.                  *)
ReplaceForSemester(u, sem, desired) ==
    LET view  == {e \in DOMAIN entries : /\ entries[e].user = u
                                         /\ courses[entries[e].course].sem \in {sem, "full"}}
        has   == {entries[e].course : e \in view}
        added == desired \ has
    IN  /\ nextEntry + Cardinality(added) <= MaxEntries + 1
        /\ \A c, d \in desired : c # d => courses[c].slot # courses[d].slot
        /\ \A c \in added : ~courses[c].disc
        /\ \A e \in DOMAIN entries : entries[e].user = u => entries[e].course \notin added
        /\ entries' = Put(Without(entries, {e \in view : entries[e].course \notin desired}), u, added)
        /\ nextEntry' = nextEntry + Cardinality(added)
        /\ UNCHANGED <<courses, nextID, reviews, job, syncs>>

Remove(u, e) ==
    /\ e \in DOMAIN entries
    /\ entries[e].user = u
    /\ entries' = Without(entries, {e})
    /\ UNCHANGED <<courses, nextID, reviews, nextEntry, job, syncs>>

Replaces ==
    \E u \in Users, sem \in {"first", "second"} :
        \E desired \in SUBSET DOMAIN courses : ReplaceForSemester(u, sem, desired)

SyncNext ==
    \/ \E w \in Workers, S \in Syllabi, term \in Terms, complete \in BOOLEAN :
          SyncReads(w, S, term, complete)
    \/ \E w \in Workers : SyncCommits(w)
    \/ \E w \in Workers : SyncFails(w)
    \/ \E f \in DOMAIN reviews, d \in {"SAME", "DIFFERENT", "IGNORED"} : ResolveReview(f, d)
    \/ \E c \in DOMAIN courses : AdminDeleteCourse(c)
    \/ \E r \in ManualRows : AdminCreateCourse(r)
    \/ \E u \in Users, c \in DOMAIN courses : Upsert(u, c)
    \/ Replaces
    \/ \E u \in Users, e \in DOMAIN entries : Remove(u, e)

SyncSpec == SyncInit /\ [][SyncNext]_syncVars

-----------------------------------------------------------------------------
(* Properties.                                                             *)

Keys(next) == (Semesters \X Refs \X Slots) \cup ({"retired", "manual"} \X (1..(next - 1)))

(* Rows of a table whose next id is next. *)
Course(next) ==
    [sem : Semesters, slot : Slots, ref : Refs \cup {NoRef}, key : Keys(next),
     name : Names, suffix : Suffixes, source : Names \cup {NoName},
     teacher : Teachers, disc : BOOLEAN]

Statuses == {"PENDING", "SAME", "DIFFERENT", "IGNORED", "APPLIED"}

CourseTable(table, next) ==
    /\ DOMAIN table \subseteq 1..(next - 1)
    /\ \A c \in DOMAIN table : table[c] \in Course(next)

(* The tables and the rows read by a sync have their types, and an entry   *)
(* names a user and a course that is there.                                *)
SyncTypeOK ==
    /\ nextID \in Nat \ {0} /\ nextEntry \in 1..(MaxEntries + 1) /\ syncs \in 0..MaxSyncs
    /\ CourseTable(courses, nextID)
    /\ \A f \in DOMAIN reviews : reviews[f] \in Statuses
    /\ DOMAIN entries \subseteq 1..(nextEntry - 1)
    /\ \A e \in DOMAIN entries : /\ entries[e].user \in Users
                                 /\ entries[e].course \in DOMAIN courses
    /\ DOMAIN job = Workers
    /\ \A w \in Workers : job[w] # Idle => /\ CourseTable(job[w].existing, nextID)
                                           /\ job[w].syllabus \in Syllabi
                                           /\ job[w].term \in Terms

(* A course the syllabus decides carries the key of its own semester, code *)
(* and slot: pairing by slot and the unique key then speak of the same     *)
(* row, whatever was moved, kept or reissued before.                       *)
KeysDescribeRows ==
    \A c \in Syncable(courses) : courses[c].key = DedupKey(courses[c])

Quiet == \A w \in Workers : job[w] = Idle

(* Whatever the syllabus shows next, a sync that reads the tables as they  *)
(* are now can be written: no update and no new course takes a key that    *)
(* another row holds, so the sync never gets stuck on the unique index.    *)
NextSyncFits ==
    Quiet => \A S \in Syllabi, term \in Terms :
        LET plan == PlanCourseSync(courses, reviews, S, term, TRUE)
        IN  ~KeysClash(courses, plan, courses, S, term)

(* The rows of the syllabus that a plan makes a course of or gives to one. *)
RowsWritten(plan) ==
    Named(plan, "create") \cup {f[3] : f \in {g \in plan : g[1] = "update"}}

(* Syncing again with the same syllabus writes nothing more: what the      *)
(* first sync updated, created or retired is found as it is listed, and    *)
(* the courses that are no longer listed are judged anew each time.  Only  *)
(* a code that was new, and of which the first sync left rows out because  *)
(* of a question, may get these rows, since the next sync finds the code   *)
(* or another course that fits and does not ask.  A sync that comes upon   *)
(* an answer which the first one had no use for carries it out.            *)
SyncSettles ==
    Quiet => \A S \in Syllabi, term \in Terms :
        LET plan  == PlanCourseSync(courses, reviews, S, term, TRUE)
            table == ApplyCourses(courses, plan, courses, S, term, nextID)
            again == PlanCourseSync(table, SaveReviews(reviews, plan), S, term, TRUE)
        IN  \/ \E f \in again : f[1] = "applied"
            \/ \A f \in again : \/ f[1] \in {"gone", "review"}
                               \/ /\ f[1] = "create"
                                  /\ f[2] \notin RowsWritten(plan)
                                  /\ GroupKey(S[f[2]]) \notin OldKeys(courses)

Overlaps == {p \in (DOMAIN entries) \X (DOMAIN entries) : Overlap(courses, entries, p[1], p[2])}

(* Since w read the courses another sync moved one that w updates.         *)
Overtaken(w) ==
    \E c \in DOMAIN courses \cap Named(PlanOf(job[w]), "update") :
        LET old == job[w].existing[c]
        IN  courses[c].sem # old.sem \/ courses[c].slot # old.slot

SyncEnds(w) == job[w] # Idle /\ job'[w] = Idle

(* One course per slot: neither a sync that moves courses under a          *)
(* student's timetable nor a registration puts two into one slot.  Two     *)
(* syncs at once can: the second one does not know that it moves a course  *)
(* back.                                                                   *)
NoNewOverlap ==
    [][\/ Overlaps' \subseteq Overlaps
       \/ Replaces
       \/ \E w \in Workers : SyncEnds(w) /\ Overtaken(w)]_syncVars

(* A sync that was not overtaken takes an entry off a timetable only for a *)
(* course that it moved, and only when another course of the student keeps *)
(* that slot.                                                              *)
UnregistersForAnother ==
    [][\A w \in Workers : SyncEnds(w) /\ ~Overtaken(w) =>
         \A e \in DOMAIN entries \ DOMAIN entries' :
            LET c == entries[e].course
            IN  /\ courses[c].slot # courses'[c].slot \/ courses[c].sem # courses'[c].sem
                /\ \E o \in DOMAIN entries' :
                      /\ entries'[o].user = entries[e].user
                      /\ SameSlot(courses'[entries'[o].course], courses'[c])]_syncVars

=============================================================================
