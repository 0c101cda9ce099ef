---------------------------- MODULE MCChatEvents ----------------------------
(* Instances of ChatEvents for TLC. *)
EXTENDS ChatEvents, TLC
CONSTANTS a, b, t, q1, q2
Symmetry == Permutations(Request)
=============================================================================
