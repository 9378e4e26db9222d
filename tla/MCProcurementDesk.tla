-------------------------- MODULE MCProcurementDesk --------------------------
(* A small instance of ProcurementDesk for TLC: ann asks, bob reviews and    *)
(* closes, both buy.                                                         *)
EXTENDS ProcurementDesk, TLC

CONSTANTS ann, bob

TheUsers == {ann, bob}
OnlyAnn == {ann}
OnlyBob == {bob}

\* No guard reads the stamps, the history or the inbox.
DeskView == <<status, requester, ledger, pages, registered>>

Symmetric == Permutations(Lines)

=============================================================================
