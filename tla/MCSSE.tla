------------------------------- MODULE MCSSE -------------------------------
(* Instances of SSE for TLC. *)
EXTENDS SSE, TLC

CONSTANTS u1, u2, t3

\* All tabs belong to u1, but for t3.
OwnerOf == [t \in Tab |-> IF t = t3 THEN u2 ELSE u1]

Symmetry == Permutations(Publisher) \cup Permutations(Instance)
=============================================================================
