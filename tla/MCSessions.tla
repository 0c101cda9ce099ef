----------------------------- MODULE MCSessions -----------------------------
(* Instances of Sessions for TLC. *)
EXTENDS Sessions
CONSTANTS q1, q2, c1
=============================================================================
