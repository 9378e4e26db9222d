---------------------------- MODULE MCProcurement ----------------------------
(* Small instances of Procurement for TLC: the accounts and their roles.    *)
EXTENDS Procurement, TLC

CONSTANTS ann, bob

\* Both create and review requests; only bob buys and closes.
TheUsers == {ann, bob}
OnlyBob == {bob}

=============================================================================
