-------------------------- MODULE MCGraphExplorer --------------------------
(***************************************************************************)
(* The seed a has the neighbours b, c (of one type) and d, of which an     *)
(* expand returns two: a summary of b and c, or two nodes.  c is also a    *)
(* neighbour of d.  So neighbours are grouped, capped, revealed, expanded  *)
(* themselves and reached from two hubs.  Submitting the repository again  *)
(* clears the canvas while answers are under way.                          *)
(***************************************************************************)
EXTENDS GraphExplorer

CONSTANTS a, b, c, d, ab, ac, ad, dc

MCNode == {a, b, c, d}
MCRel == {ab, ac, ad, dc}
MCFrom == [r \in MCRel |-> IF r = dc THEN d ELSE a]
MCTo == [r \in MCRel |-> IF r = ab THEN b ELSE IF r = ad THEN d ELSE c]
MCType == [r \in MCRel |-> IF r = ad THEN "S" ELSE "T"]
MCLabel == [n \in MCNode |-> "L"]
MCSeedNodes == [repo \in Repo |-> {a}]
MCSeedRels == [repo \in Repo |-> {}]

=============================================================================
