--------------------------- MODULE MCInvestigation ---------------------------
(***************************************************************************)
(* Two questions, one of them followed to its page.  The rows: one that is *)
(* larger than all limits; one with two nodes and two relationships        *)
(* between them; one with a relationship to a node that may not be         *)
(* returned; one with that relationship and that node.  The rows' limit    *)
(* lets the last three share a result, the canvas has no room for it.      *)
(***************************************************************************)
EXTENDS Investigation

CONSTANTS q, other, n, m, k, nm, mn, mk

MCRelationship == {nm, mn, mk}
MCEntity == {n, m, k} \cup MCRelationship
MCEnds(r) == IF r = mk THEN {m, k} ELSE {n, m}

MCRow == {[cells |-> 14, entities |-> {}], [cells |-> 3, entities |-> {n, m, nm, mn}],
          [cells |-> 1, entities |-> {mk}], [cells |-> 1, entities |-> {k, mk}]}

\* A byte for an entity and one for a reference to a node.
MCGraphSize(new, all) == Cardinality(new) + Cardinality(all \ MCRelationship)

=============================================================================
