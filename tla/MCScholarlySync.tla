--------------------------- MODULE MCScholarlySync ---------------------------
(* Instances of ScholarlySync for TLC. *)
EXTENDS ScholarlySync, TLC
CONSTANTS w1, w2, p1, m1, m2
Symmetric == Permutations(Works) \cup Permutations(Members)
=============================================================================
