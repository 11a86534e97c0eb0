----------------------------- MODULE ResultPage -----------------------------
(***************************************************************************)
(* What the page says of a query that was executed                         *)
(* (query-workspace/internal/workspace/view.go and graph.go): the notices  *)
(* of investigationView for the stage "execute" and newGraphView, which    *)
(* draws what fits of the nodes and relationships the query returned.  The *)
(* view is a function of what Execute returned; wording and colours are    *)
(* left out.                                                               *)
(***************************************************************************)
EXTENDS QueryExecutor

CONSTANTS
  Ends(_),                 \* the two nodes a relationship connects
  Relationship,            \* the entities that are relationships, the others being nodes
  MaxDrawnNodes,
  MaxDrawnRelationships

ASSUME RelationshipAssumption ==
  /\ Relationship \subseteq Entity
  /\ \A r \in Relationship : Ends(r) # {} /\ Ends(r) \subseteq Entity \ Relationship
ASSUME DrawingAssumption == MaxDrawnNodes \in Nat \ {0} /\ MaxDrawnRelationships \in Nat \ {0}

\* The entities of the result, in the order of the rows.  (Within a row any order will do.)
Gathered(kind) == FlattenSeq([i \in DOMAIN drawn |-> SetToSeq(drawn[i] \cap kind)])

Nodes == Gathered(Entity \ Relationship)
Relationships == Gathered(Relationship)

\* The first entities of a list, up to a limit.
UpTo(limit, list) == SubSeq(list, 1, IF Len(list) < limit THEN Len(list) ELSE limit)

\* Mutant: a node that is not drawn counts as one that was not returned.
MissingOnCanvas ==
  {i \in DOMAIN Relationships :
     ~ (Ends(Relationships[i]) \subseteq ToSet(UpTo(MaxDrawnNodes, Nodes)))}

\* newGraphView: where the relationships are one of whose nodes the query did not return, and those
\* between nodes that are drawn; the first of these are drawn.
Missing == {i \in DOMAIN Relationships : ~ (Ends(Relationships[i]) \subseteq ToSet(Nodes))}

DrawnNodes == UpTo(MaxDrawnNodes, Nodes)
Eligible == {i \in DOMAIN Relationships : Ends(Relationships[i]) \subseteq ToSet(DrawnNodes)}
DrawnEdges ==
  {Relationships[i] : i \in
     {i \in Eligible : Cardinality({j \in Eligible : j <= i}) <= MaxDrawnRelationships}}

\* The notices of the graph, with the number they name.
GraphNotices ==
  IF Nodes = <<>> THEN IF Relationships = <<>> THEN {} ELSE {<<"not_drawable", 0>>}
  ELSE {n \in {<<"nodes", Len(Nodes)>>, <<"relationships", Cardinality(Eligible)>>,
               <<"missing", Cardinality(Missing)>>} :
          \/ n[1] = "nodes" /\ Len(Nodes) > MaxDrawnNodes
          \/ n[1] = "relationships" /\ Cardinality(Eligible) > MaxDrawnRelationships
          \/ n[1] = "missing" /\ Cardinality(Missing) > 0}

-----------------------------------------------------------------------------
\* Mutant: no rows are no rows, also when the first one did not fit.
NoticesWithoutLimit ==
  {n \in {"failed", "partial", "matched_nothing", "truncated"} :
     \/ n = "failed" /\ errors # {} /\ rows = <<>>
     \/ n = "partial" /\ errors # {} /\ rows # <<>>
     \/ n = "matched_nothing" /\ errors = {} /\ rows = <<>>
     \/ n = "truncated" /\ truncated}

\* investigationView: the notices above the rows of a query that was executed.
ExecutionNotices ==
  {n \in {"failed", "partial", "matched_nothing", "truncated"} :
     \/ n = "failed" /\ errors # {} /\ rows = <<>>
     \/ n = "partial" /\ errors # {} /\ rows # <<>>
     \/ n = "matched_nothing" /\ errors = {} /\ rows = <<>> /\ ~ truncated
     \/ n = "truncated" /\ truncated}

-----------------------------------------------------------------------------
(***************************************************************************)
(* Properties.                                                             *)
(***************************************************************************)

\* README: the graph draws only relationships whose endpoints are both returned.  Whatever of the
\* result is not drawn, the notices say so and why: the limits, or nodes that were not returned.
GraphAccounted ==
  at = "returned" =>
  LET Said(what) == \E n \in GraphNotices : n[1] = what
      undrawn == ToSet(Relationships) \ DrawnEdges
      cut == {r \in undrawn : Ends(r) \subseteq seen}
  IN  /\ \A r \in DrawnEdges : Ends(r) \subseteq ToSet(DrawnNodes)
      /\ ToSet(Nodes) # ToSet(DrawnNodes) => Said("nodes")
      /\ cut # {} => Said("nodes") \/ Said("relationships")
      /\ \/ Said("not_drawable")
         \/ Cardinality(undrawn \ cut) = 0 /\ ~ Said("missing")
         \/ <<"missing", Cardinality(undrawn \ cut)>> \in GraphNotices

=============================================================================
