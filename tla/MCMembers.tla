----------------------------- MODULE MCMembers -----------------------------
(* Instances of Members for TLC. *)
EXTENDS Members, TLC
CONSTANTS ann, bob, c1
TheFilters == {{TRUE}, BOOLEAN}
============================================================================
