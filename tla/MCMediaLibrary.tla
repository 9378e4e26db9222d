--------------------------- MODULE MCMediaLibrary ---------------------------
(* Two assets, the profiles of two members and two pages that edit them.   *)
(* The properties are safety properties and no definition names an asset, a *)
(* member or an editor, so that each of the sets may be permuted.           *)
EXTENDS MediaLibrary, TLC

Symmetry == Permutations(Assets) \cup Permutations(Members) \cup Permutations(Editors)
=============================================================================
