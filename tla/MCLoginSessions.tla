--------------------------- MODULE MCLoginSessions ---------------------------
(* Instances of LoginSessions for TLC. *)
EXTENDS LoginSessions
CONSTANTS u1, u2, t1, t2
=============================================================================
