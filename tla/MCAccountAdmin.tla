--------------------------- MODULE MCAccountAdmin ---------------------------
(* Instances of AccountAdmin for TLC. *)
EXTENDS AccountAdmin, TLC
CONSTANTS u1, u2, w1, w2
=============================================================================
