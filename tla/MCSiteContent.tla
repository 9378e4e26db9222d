--------------------------- MODULE MCSiteContent ---------------------------
(* Two editors of a page and of the research collection, which the          *)
(* synchronisation and resets write too.                                    *)
EXTENDS SiteContent, TLC

CONSTANTS t1, t2, raw, page1, research

\* What a form sends may be refused, as too long, or be read again otherwise, as
\* an identifier without its blanks.  raw is of the one kind in the page and of
\* the other in the papers.
TheRefused == [m \in Modules |-> IF m = page1 THEN {raw} ELSE {}]
TheNormal == [m \in Modules |-> [t \in Texts |->
                 IF m = research /\ t = raw THEN t1 ELSE t]]

TheEarly == [m \in Modules |-> t1]

Symmetry == Permutations(Consoles)
=============================================================================
