------------------------- MODULE MCActivityArchive -------------------------
(* Instances of ActivityArchive for TLC. *)
EXTENDS ActivityArchive, TLC
Symmetry == Permutations(User) \cup Permutations(Instance)
=============================================================================
