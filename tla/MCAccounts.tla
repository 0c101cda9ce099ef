----------------------------- MODULE MCAccounts -----------------------------
(* Instances of Accounts for TLC. *)
EXTENDS Accounts, TLC
CONSTANTS a, b, c, q1, q2
Symmetry == Permutations(User) \cup Permutations(Request)
=============================================================================
