-------------------------- MODULE MCSubscriptions --------------------------
(* Instances of Subscriptions for TLC. *)
EXTENDS Subscriptions, TLC
CONSTANTS a, b, i1, i2, s1, s2
OwnedByA == [s \in Stream |-> a]
OwnedByEach == [s \in Stream |-> IF s = s1 THEN a ELSE b]
OnOne == [s \in Stream |-> i1]
OnEach == [s \in Stream |-> IF s = s1 THEN i1 ELSE i2]
=============================================================================
