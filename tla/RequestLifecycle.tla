-------------------------- MODULE RequestLifecycle --------------------------
(***************************************************************************)
(* What the procurement service promises about a request, whatever its      *)
(* statuses, roles and inputs: it goes once through review, buying and      *)
(* receipt, never back, and its book (lines, their status and the spending) *)
(* is blank in review, written while buying, and final from then on.       *)
(***************************************************************************)
CONSTANTS Requests,
          Books,       \* the values a book can have
          BlankBooks   \* those on which no line has been processed

VARIABLES phase,  \* request -> "none", "review", "buying", "bought" or "done"
          book    \* request -> its book

lifecycleVars == <<phase, book>>

\* One request moves to a phase in P with a book in B.
Move(r, P, B) == /\ phase'[r] \in P /\ phase' = [phase EXCEPT ![r] = phase'[r]]
                 /\ book'[r] \in B /\ book' = [book EXCEPT ![r] = book'[r]]

LifecycleInit == /\ phase = [r \in Requests |-> "none"]
                 /\ book \in [Requests -> BlankBooks]

\* The requester submits, or replaces the blank book while under review.
Draft(r) == /\ phase[r] \in {"none", "review"}
            /\ Move(r, {"review"}, BlankBooks)

\* Buying starts from review, rewrites the book, and ends in bought or done.
Buy(r) == /\ phase[r] \in {"review", "buying"}
          /\ Move(r, {"buying", "bought", "done"}, Books)

\* A request that ends without a purchase, or is received, keeps its book.
Settle(r) == /\ phase[r] \in {"review", "bought"}
             /\ phase' = [phase EXCEPT ![r] = "done"]
             /\ UNCHANGED book

LifecycleNext == \E r \in Requests : Draft(r) \/ Buy(r) \/ Settle(r)

LifecycleSpec == LifecycleInit /\ [][LifecycleNext]_lifecycleVars

=============================================================================
