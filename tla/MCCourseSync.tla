---------------------------- MODULE MCCourseSync ----------------------------
(* Instances of CourseSync for TLC. *)
EXTENDS CourseSync, TLC
CONSTANTS u1, w1, w2, mon, tue, wed, thu, r1, r2, r3, n1, n2, t1, t2, ikuta

Row(sem, ref, slot, name, teacher) ==
    [sem |-> sem, ref |-> ref, slot |-> slot, source |-> name, teacher |-> teacher,
     suffix |-> NoSuffix, sure |-> FALSE]

\* r1 is taught twice a week, r2 all year.
Base     == <<Row("first", r1, mon, n1, t1), Row("first", r1, tue, n1, t1), Row("full", r2, wed, n2, t2)>>
\* r1 is given to another course; r2 moves to one semester, its campus looked up
Reused   == <<Row("first", r1, wed, n2, t2),
              [Row("second", r2, wed, n2, t2) EXCEPT !.suffix = ikuta, !.sure = TRUE]>>
\* r1 comes back as r3 with slots of its own, one row is listed twice
Reissued == <<Row("first", r3, mon, n1, t1), Row("first", r3, mon, n1, t1), Row("first", r3, wed, n1, t1),
              Row("first", r3, thu, n1, t1)>>
ThreeSyllabi == {Base, Reused, Reissued}
OneLegacy  == <<Row("first", r1, mon, n1, t1)>>
OneManual  == {Row("full", r1, wed, n1, t1)}
FirstTerm  == [year |-> 2026, sem |-> "first"]
SecondTerm == [year |-> 2026, sem |-> "second"]
BothTerms  == {FirstTerm, SecondTerm}
Symmetric  == Permutations(Workers)
=============================================================================
