--------------------------- MODULE MCCourseImport ---------------------------
(* Instances of CourseImport for TLC. *)
EXTENDS CourseImport, TLC
Symmetry == Permutations(Run) \cup Permutations(Instance)
=============================================================================
