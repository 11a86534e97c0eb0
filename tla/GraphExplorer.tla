---------------------------- MODULE GraphExplorer ----------------------------
(***************************************************************************)
(* The graph explorer: the page internal/handler/graph.html with the two   *)
(* endpoints it calls (internal/graphapi/neo4j.go).                        *)
(*                                                                         *)
(* The page shows a part of the Neo4j graph.  Submitting a repository      *)
(* clears the canvas and fetches the seed; a double click on a node        *)
(* fetches its neighbours or, when it is expanded, takes them away again;  *)
(* several new neighbours of one kind appear as one summary node, which a  *)
(* click replaces by them.  Event handlers run one at a time but stop at   *)
(* each fetch, so whatever the user does meanwhile comes before the answer.*)
(*                                                                         *)
(* Positions, layout, style classes and the sidebar are left out, except   *)
(* the flag hasMore: it decides whether a double click does anything.  The *)
(* database does not change while the page is open.                        *)
(***************************************************************************)
EXTENDS Integers, FiniteSets, Functions

CONSTANTS
  Node,          \* the nodes of the database
  Rel,           \* its relationships
  From, To,      \* From[r], To[r]: the ends of a relationship
  Type,          \* Type[r]: its type
  Label,         \* Label[n]: the primary label of a node
  Inactive,      \* the inactive deployments
  Repo,          \* what can be submitted
  SeedNodes,     \* SeedNodes[repo]: the nodes the seed query returns, none for an unknown name
  SeedRels,      \* SeedRels[repo]: the relationships it returns
  PerLabel,      \* expandPerLabelLimit
  MaxSeeding     \* bound of the submits of one repository that are unanswered

ASSUME GraphAssumption ==
  /\ From \in [Rel -> Node] /\ To \in [Rel -> Node]
  /\ DOMAIN Type = Rel /\ DOMAIN Label = Node
  /\ Inactive \subseteq Node
  /\ SeedNodes \in [Repo -> SUBSET Node] /\ SeedRels \in [Repo -> SUBSET Rel]
ASSUME LimitAssumption == PerLabel \in Nat /\ MaxSeeding \in Nat

VARIABLES
  hasMore,        \* the nodes on the canvas, with their flag
  summaries,      \* the summary nodes on the canvas, with what they hide
  edges,          \* the edges on the canvas
  expandedNodes,  \* the ids of nodes that were expanded
  childrenOf,     \* id -> the elements its expand introduced
  expanding,      \* the flag against concurrent expands
  fetches,        \* expands that wait for their answer, with what they sent
  seeding,        \* for each repository, the submits that wait for their answer
  undo            \* history: the expand nothing has happened to since, and the canvas before it

vars == <<hasMore, summaries, edges, expandedNodes, childrenOf, expanding, fetches, seeding, undo>>

\* Summary nodes and their edges go by the hub and the key of the group.
Key == Range(Type) \cup Range(Label)
Summary == Node \X Key
HubOf(s) == s[1]

\* Their ids have a prefix that no id of the database has.
ASSUME SummaryAssumption == Summary \cap (Node \cup Rel) = {}

Shown == DOMAIN hasMore \cup DOMAIN summaries

\* The ends of an edge on the canvas; the edge of a summary joins it to its hub.
Ends(e) == IF e \in Rel THEN {From[e], To[e]} ELSE {HubOf(e), e}

NoUndo == [hubs |-> {}]

\* f, and g where f is not defined.
Extended(f, g) == [x \in DOMAIN f \cup DOMAIN g |-> IF x \in DOMAIN f THEN f[x] ELSE g[x]]

-----------------------------------------------------------------------------
(***************************************************************************)
(* The endpoints.                                                          *)
(***************************************************************************)

RelsOf(n) == {r \in Rel : n \in {From[r], To[r]}}
Peer(r, n) == IF From[r] = n THEN To[r] ELSE From[r]

\* batchUnexploredCounts: a node has more when some neighbour of it, active or not, is not known.
Unexplored(n, known) == \E r \in RelsOf(n) : Peer(r, n) \notin known

\* GraphSeed
SeedPayload(repo) ==
  [nodes |-> [n \in SeedNodes[repo] |-> Unexplored(n, SeedNodes[repo])],
   edges |-> SeedRels[repo]]

\* capNodesByLabel, which goes through a Go map: which nodes are kept is open.
Capped(new) ==
  {kept \in SUBSET new :
     \A l \in Range(Label) :
       LET Labelled(ns) == {n \in ns : Label[n] = l}
       IN  Cardinality(Labelled(kept)) =
             IF Cardinality(Labelled(new)) < PerLabel THEN Cardinality(Labelled(new)) ELSE PerLabel}

\* GraphExpand: the neighbours the page does not know, capped, and every relationship.
ExpandPayloads(id, known) ==
  LET rels == {r \in RelsOf(id) : Peer(r, id) \notin Inactive}
      new  == {Peer(r, id) : r \in rels} \ known
  IN  {[nodes |-> [n \in kept |-> Unexplored(n, known \cup {id} \cup kept)], edges |-> rels] :
         kept \in Capped(new)}

-----------------------------------------------------------------------------
(***************************************************************************)
(* The canvas.                                                             *)
(***************************************************************************)

\* payloadToElements: what is not shown yet, without edges that lack an end.
NewNodes(payload) == Restrict(payload.nodes, DOMAIN payload.nodes \ DOMAIN hasMore)
NewEdges(payload) ==
  {e \in payload.edges \ edges : Ends(e) \subseteq DOMAIN hasMore \cup DOMAIN payload.nodes}

\* cy.add of Cytoscape: nodes come before edges, what is shown already is skipped, and the first
\* edge without an end throws, so that the edges behind it are missing.
AddEdges(old, new, shown) ==
  LET attached == {e \in new : Ends(e) \subseteq shown}
  IN  IF attached = new
        THEN edges' = old \cup new
        ELSE edges' \in {old \cup some : some \in SUBSET attached}

\* The types of the edges between the hub and a peer.
TypesTo(hub, n, es) == {Type[e] : e \in {r \in es : Peer(r, hub) = n}}

\* buildSummaryElements groups nodes by the type of their edge to the hub (of the first edge, when
\* there are several), and by their label when there is none.
Groupings(hub, ns, es) ==
  LET grouped == ns \cup {Peer(e, hub) : e \in es}
      Keys(n) == IF TypesTo(hub, n, es) = {} THEN {Label[n]} ELSE TypesTo(hub, n, es)
  IN  {key \in [grouped -> UNION {Keys(n) : n \in grouped}] : \A n \in grouped : key[n] \in Keys(n)}

\* Groups of one are shown directly, others as a summary.  Edges to a node that was shown before go
\* with the group of their type; without such a group they are dropped.
Built(hub, nodes, es, key) ==
  LET Members(k)  == {n \in DOMAIN nodes : key[n] = k}
      GroupEdges(k) == {e \in es : key[Peer(e, hub)] = k}
      groups == {key[n] : n \in DOMAIN nodes}
      single == {k \in groups : Cardinality(Members(k)) = 1}
      several == {<<hub, k>> : k \in groups \ single}
  IN  [nodes     |-> Restrict(nodes, UNION {Members(k) : k \in single}),
       edges     |-> (UNION {GroupEdges(k) : k \in single}) \cup several,
       summaries |-> [s \in several |-> [nodes |-> Restrict(nodes, Members(s[2])),
                                         edges |-> GroupEdges(s[2])]]]

-----------------------------------------------------------------------------
(***************************************************************************)
(* The form.                                                               *)
(***************************************************************************)

Submit(repo) ==
  /\ seeding[repo] < MaxSeeding
  /\ seeding' = [seeding EXCEPT ![repo] = @ + 1]
  /\ hasMore' = [n \in {} |-> FALSE]
  /\ summaries' = [s \in {} |-> {}]
  /\ edges' = {}
  /\ expandedNodes' = {}
  /\ childrenOf' = [n \in {} |-> {}]
  /\ undo' = NoUndo
  /\ UNCHANGED <<expanding, fetches>>

SeedAnswered(repo) ==
  LET payload == SeedPayload(repo)
  IN  /\ seeding[repo] > 0
      /\ SeedNodes[repo] # {}
      /\ seeding' = [seeding EXCEPT ![repo] = @ - 1]
      /\ hasMore' = Extended(hasMore, NewNodes(payload))
      /\ AddEdges(edges, NewEdges(payload), DOMAIN hasMore')
      /\ undo' = NoUndo
      /\ UNCHANGED <<summaries, expandedNodes, childrenOf, expanding, fetches>>

\* The repository is not found, or the query fails.
SeedFails(repo) ==
  /\ seeding[repo] > 0
  /\ seeding' = [seeding EXCEPT ![repo] = @ - 1]
  /\ UNCHANGED <<hasMore, summaries, edges, expandedNodes, childrenOf, expanding, fetches, undo>>

-----------------------------------------------------------------------------
(***************************************************************************)
(* A double click on a node.                                               *)
(***************************************************************************)

\* Mutant: the page tells the server about its summary nodes.
ExpandKnowingSummaries(n) ==
  /\ n \in DOMAIN hasMore \ expandedNodes
  /\ hasMore[n]
  /\ ~ expanding
  /\ expanding' = TRUE
  /\ expandedNodes' = expandedNodes \cup {n}
  /\ fetches' = fetches \cup {[id |-> n, known |-> Shown]}
  /\ UNCHANGED <<hasMore, summaries, edges, childrenOf, seeding, undo>>

\* It is not expanded: the neighbours are fetched, unless another fetch is under way.
Expand(n) ==
  /\ n \in DOMAIN hasMore \ expandedNodes
  /\ hasMore[n]
  /\ ~ expanding
  /\ expanding' = TRUE
  /\ expandedNodes' = expandedNodes \cup {n}
  /\ fetches' = fetches \cup {[id |-> n, known |-> DOMAIN hasMore]}
  /\ UNCHANGED <<hasMore, summaries, edges, childrenOf, seeding, undo>>

Answered(f) ==
  /\ expanding' = FALSE
  /\ fetches' = fetches \ {f}
  /\ UNCHANGED <<expandedNodes, seeding>>

\* The fetch fails, or the answer adds no element.
ExpandAddsNothing(f) ==
  /\ Answered(f)
  /\ UNCHANGED <<hasMore, summaries, edges, childrenOf, undo>>

ExpandFails(f) == ExpandAddsNothing(f)

\* The canvas before the expand of n, unless n was collapsed while its neighbours were fetched, now
\* or earlier, which leaves a summary of n behind that no expand accounts for.
Undo(n) ==
  IF n \in expandedNodes /\ \A s \in DOMAIN summaries : HubOf(s) # n
    THEN [hubs |-> {n}, nodes |-> DOMAIN hasMore, edges |-> edges \cap Rel]
    ELSE NoUndo

\* The answer is added to the canvas as it is now.
ExpandAnswered(f) ==
  \E payload \in ExpandPayloads(f.id, f.known) :
    LET new == NewNodes(payload)
        es  == NewEdges(payload)
    IN  \E key \in Groupings(f.id, DOMAIN new, es) :
          LET built == Built(f.id, new, es, key)
          IN  IF DOMAIN new = {}
                THEN ExpandAddsNothing(f)
                ELSE /\ Answered(f)
                     /\ childrenOf' =
                          [n \in DOMAIN childrenOf \cup {f.id} |->
                             IF n = f.id
                               THEN [nodes |-> DOMAIN built.nodes \cup DOMAIN built.summaries,
                                     edges |-> built.edges]
                               ELSE childrenOf[n]]
                     /\ hasMore' = Extended(hasMore, built.nodes)
                     /\ summaries' = Extended(summaries, built.summaries)
                     /\ AddEdges(edges, built.edges, DOMAIN hasMore' \cup DOMAIN summaries')
                     /\ undo' = Undo(f.id)

Introduced(n) ==
  IF n \in DOMAIN childrenOf THEN childrenOf[n] ELSE [nodes |-> {}, edges |-> {}]

\* Mutant: only relationships count.
StaysByRel(x, n, introduced) ==
  \E e \in edges \cap Rel : x \in Ends(e) /\ Ends(e) \ ({x, n} \cup introduced.nodes) # {}

\* An introduced node stays when an edge joins it to a node that is neither introduced nor n.
Stays(x, n, introduced) ==
  \E e \in edges : x \in Ends(e) /\ Ends(e) \ ({x, n} \cup introduced.nodes) # {}

\* Mutant: a collapse resets everything an expand sets, the flag as well.
CollapseAndRelease(n) ==
  LET introduced == Introduced(n)
      removed == {x \in introduced.nodes \cap Shown : ~ Stays(x, n, introduced)}
  IN  /\ n \in DOMAIN hasMore \cap expandedNodes
      /\ hasMore' = [m \in DOMAIN hasMore \ removed |-> m = n \/ hasMore[m]]
      /\ summaries' = Restrict(summaries, DOMAIN summaries \ removed)
      /\ edges' = {e \in edges \ introduced.edges : Ends(e) \cap removed = {}}
      /\ expandedNodes' = expandedNodes \ {n}
      /\ childrenOf' = Restrict(childrenOf, DOMAIN childrenOf \ {n})
      /\ undo' = NoUndo
      /\ expanding' = FALSE
      /\ UNCHANGED <<fetches, seeding>>

\* It is expanded: what the expand introduced is taken away.
Collapse(n) ==
  LET introduced == Introduced(n)
      removed == {x \in introduced.nodes \cap Shown : ~ Stays(x, n, introduced)}
  IN  /\ n \in DOMAIN hasMore \cap expandedNodes
      /\ hasMore' = [m \in DOMAIN hasMore \ removed |-> m = n \/ hasMore[m]]
      /\ summaries' = Restrict(summaries, DOMAIN summaries \ removed)
      /\ edges' = {e \in edges \ introduced.edges : Ends(e) \cap removed = {}}
      /\ expandedNodes' = expandedNodes \ {n}
      /\ childrenOf' = Restrict(childrenOf, DOMAIN childrenOf \ {n})
      /\ undo' = NoUndo
      /\ UNCHANGED <<expanding, fetches, seeding>>

-----------------------------------------------------------------------------
(***************************************************************************)
(* A click on a summary node: it is replaced by what it hides, also in the *)
(* record of the expand that introduced it.                                *)
(***************************************************************************)

\* Mutant: the record is left alone.
RevealedUntracked(children, s) == children

Revealed(children, s) ==
  IF s \in children.nodes
    THEN [nodes |-> (children.nodes \ {s}) \cup DOMAIN summaries[s].nodes,
          edges |-> (children.edges \ {s}) \cup summaries[s].edges]
    ELSE children

Reveal(s) ==
  /\ s \in DOMAIN summaries
  /\ summaries' = Restrict(summaries, DOMAIN summaries \ {s})
  /\ hasMore' = Extended(hasMore, summaries[s].nodes)
  /\ childrenOf' = [n \in DOMAIN childrenOf |-> Revealed(childrenOf[n], s)]
  /\ AddEdges({e \in edges : s \notin Ends(e)}, summaries[s].edges,
              DOMAIN hasMore' \cup DOMAIN summaries')
  /\ undo' = IF HubOf(s) \in undo.hubs THEN undo ELSE NoUndo
  /\ UNCHANGED <<expandedNodes, expanding, fetches, seeding>>

-----------------------------------------------------------------------------
Init ==
  /\ hasMore = [n \in {} |-> FALSE]
  /\ summaries = [s \in {} |-> {}]
  /\ edges = {}
  /\ expandedNodes = {}
  /\ childrenOf = [n \in {} |-> {}]
  /\ expanding = FALSE
  /\ fetches = {}
  /\ seeding = [repo \in Repo |-> 0]
  /\ undo = NoUndo

Next ==
  \/ \E repo \in Repo : Submit(repo) \/ SeedAnswered(repo) \/ SeedFails(repo)
  \/ \E n \in Node : Expand(n) \/ Collapse(n)
  \/ \E f \in fetches : ExpandAnswered(f) \/ ExpandFails(f)
  \/ \E s \in Summary : Reveal(s)

Spec == Init /\ [][Next]_vars

-----------------------------------------------------------------------------
(***************************************************************************)
(* Properties.                                                             *)
(***************************************************************************)

Children == [nodes : SUBSET (Node \cup Summary), edges : SUBSET (Rel \cup Summary)]

\* The types of the variables; what a summary hides is a function on some of the nodes.
TypeOK ==
  /\ DOMAIN hasMore \subseteq Node
  /\ \A n \in DOMAIN hasMore : hasMore[n] \in BOOLEAN
  /\ DOMAIN summaries \subseteq Summary
  /\ \A s \in DOMAIN summaries :
       DOMAIN summaries[s].nodes \subseteq Node /\ summaries[s].edges \subseteq Rel
  /\ edges \subseteq Rel \cup Summary
  /\ expandedNodes \subseteq Node
  /\ DOMAIN childrenOf \subseteq Node
  /\ \A n \in DOMAIN childrenOf : childrenOf[n] \in Children
  /\ expanding \in BOOLEAN
  /\ \A f \in fetches : f.id \in Node /\ f.known \subseteq Node
  /\ seeding \in [Repo -> 0 .. MaxSeeding]

\* Comment on expanding: it prevents concurrent expands.  However often the user clicks, collapses,
\* or starts anew, at most one expand waits for its answer, and the flag is set exactly then: no way an
\* expand ends leaves the page unable to expand.
OneExpandAtATime ==
  /\ Cardinality(fetches) <= 1
  /\ expanding = (fetches # {})

\* A summary on the canvas is not cut off: as long as it is there, its hub and the edge between
\* them stay, whatever is collapsed or revealed around it (unless the canvas is cleared).
SummaryKeepsHub ==
  [][\A s \in DOMAIN summaries \cap DOMAIN summaries' :
       HubOf(s) \in DOMAIN hasMore /\ s \in edges =>
         HubOf(s) \in DOMAIN hasMore' /\ s \in edges']_vars

\* A double click on an expanded node takes back what its expand did to the canvas, also when some
\* of its summaries were revealed in between.
CollapseUndoesExpand ==
  [][\A n \in expandedNodes \ expandedNodes' :
       n \in undo.hubs /\ n \in DOMAIN hasMore' =>
         DOMAIN hasMore' = undo.nodes /\ edges' \cap Rel = undo.edges]_vars

\* Comment in the collapse: introduced edges that are now dangling are removed.  An edge between two
\* nodes that stay is not dangling.
CollapseRemovesOnlyDangling ==
  [][\A n \in expandedNodes \ expandedNodes', e \in edges \ edges' :
       ~ Ends(e) \subseteq DOMAIN hasMore' \cup DOMAIN summaries']_vars

\* Comment in buildSummaryElements: a summary node comes with a single edge to its hub.
SummariesAttached ==
  \A s \in DOMAIN summaries : HubOf(s) \in DOMAIN hasMore /\ s \in edges

=============================================================================
