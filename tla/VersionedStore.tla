--------------------------- MODULE VersionedStore ---------------------------
(***************************************************************************)
(* What a screen with an expectedRevision promises, whatever it edits: a   *)
(* change is made only by a client whose own copy is the present content,  *)
(* and every change gets a revision of its own.                            *)
(***************************************************************************)
EXTENDS Integers

CONSTANT Clients   \* the screens that read and change the content

VARIABLES content,  \* what the screens edit
          version,  \* the number of the last accepted change
          copy      \* client -> the content and the version it read last

vars == <<content, version, copy>>

Init ==
    /\ version = 1
    /\ copy = [c \in Clients |-> [version |-> 0, content |-> content]]

Read(c) ==
    /\ copy' = [copy EXCEPT ![c] = [version |-> version, content |-> content]]
    /\ UNCHANGED <<content, version>>

\* The new content is the client's affair; that it knew the old one is not.
Change(c) ==
    /\ copy[c] = [version |-> version, content |-> content]
    /\ version' = version + 1
    /\ UNCHANGED copy

Next == \E c \in Clients : Read(c) \/ Change(c)

Spec == Init /\ [][Next]_vars
=============================================================================
