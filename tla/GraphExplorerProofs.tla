------------------------ MODULE GraphExplorerProofs ------------------------
(***************************************************************************)
(* Proofs about the graph explorer, for every graph, every limit and any   *)
(* number of submits: at most one expand is under way, no summary is cut   *)
(* off from its hub, and a collapse takes back what the expand brought.    *)
(*                                                                         *)
(* The second is about the collapse of one node and the summaries of all   *)
(* others.  It needs to know what the record of an expand holds (Recorded):*)
(* summaries of its own hub only, each with its edge, and never the hub.   *)
(* The third needs to know which part of the canvas the last expand added, *)
(* through any reveals of its summaries (Undone).                          *)
(***************************************************************************)
EXTENDS GraphExplorer, FiniteSetTheorems, TLAPS

\* A set of nodes with their flags, as the endpoints send it.
Flags(nodes) == DOMAIN nodes \subseteq Node /\ \A n \in DOMAIN nodes : nodes[n] \in BOOLEAN

\* What a summary of the hub hides.
Hidden(hub, hides) ==
  /\ Flags(hides.nodes)
  /\ hides.edges \subseteq Rel
  /\ hub \notin DOMAIN hides.nodes

\* What the expand of the hub introduced.
Record(hub, children) ==
  /\ children \in Children
  /\ hub \notin children.nodes
  /\ \A s \in Summary :
       /\ s \in children.nodes => HubOf(s) = hub
       /\ s \in children.edges => s \in children.nodes

Recorded ==
  /\ \A s \in DOMAIN summaries : Hidden(HubOf(s), summaries[s])
  /\ \A n \in DOMAIN childrenOf : Record(n, childrenOf[n])

\* Every expand that waits has told the server about its hub.
Asked == \A f \in fetches : f.id \in f.known

\* The flag is set while one expand waits.
Single == IF expanding THEN \E f : fetches = {f} ELSE fetches = {}

IInv == TypeOK /\ Recorded /\ Asked /\ Single

-----------------------------------------------------------------------------
(***************************************************************************)
(* The canvas.                                                             *)
(***************************************************************************)

LEMMA SummaryEnds == \A s \in Summary : HubOf(s) \in Node /\ Ends(s) = {HubOf(s), s} /\ s \notin Node
BY SummaryAssumption DEF Summary, HubOf, Ends

LEMMA RelEnds == \A r \in Rel : Ends(r) \subseteq Node
BY GraphAssumption DEF Ends

LEMMA RelsOfTypes == \A n : RelsOf(n) \subseteq Rel
BY DEF RelsOf

LEMMA PeerTypes == \A r \in Rel, n \in Node : Peer(r, n) \in Node
BY GraphAssumption DEF Peer

\* cy.add takes nothing away, and what it adds has its ends.
LEMMA AddedEdges ==
  ASSUME NEW old, NEW new, NEW shown, AddEdges(old, new, shown)
  PROVE  /\ old \subseteq edges' /\ edges' \subseteq old \cup new
         /\ \A e \in edges' \ old : Ends(e) \subseteq shown
BY DEF AddEdges

LEMMA ExtendedFlags ==
  ASSUME NEW f, NEW g, Flags(f), Flags(g)
  PROVE  Flags(Extended(f, g)) /\ DOMAIN f \subseteq DOMAIN Extended(f, g)
BY DEF Flags, Extended

LEMMA RestrictedFlags ==
  ASSUME NEW f, NEW S, Flags(f), S \subseteq DOMAIN f
  PROVE  Flags(Restrict(f, S)) /\ DOMAIN Restrict(f, S) = S
BY DEF Flags, Restrict

\* What an expand is answered: neighbours the page did not know, with their flags.
LEMMA PayloadTypes ==
  ASSUME NEW id \in Node, NEW known, NEW payload \in ExpandPayloads(id, known)
  PROVE  /\ Flags(payload.nodes)
         /\ DOMAIN payload.nodes \cap known = {}
         /\ payload.edges \subseteq RelsOf(id)
<1> DEFINE rels == {r \in RelsOf(id) : Peer(r, id) \notin Inactive}
           new == {Peer(r, id) : r \in rels} \ known
<1>1. rels \subseteq Rel /\ rels \subseteq RelsOf(id)
  BY RelsOfTypes
<1>2. new \subseteq Node
  BY <1>1, PeerTypes
<1>3. PICK kept \in Capped(new) :
        payload = [nodes |-> [n \in kept |-> Unexplored(n, known \cup {id} \cup kept)],
                   edges |-> rels]
  BY DEF ExpandPayloads
<1>4. kept \subseteq new
  BY DEF Capped
<1>5. \A n \in kept : Unexplored(n, known \cup {id} \cup kept) \in BOOLEAN
  BY DEF Unexplored
<1> QED BY <1>1, <1>2, <1>3, <1>4, <1>5 DEF Flags

\* What is built of it: nodes that are new, summaries of the hub that hide others, and for each of
\* them its edge.
LEMMA BuiltTypes ==
  ASSUME NEW hub \in Node, NEW nodes, Flags(nodes), hub \notin DOMAIN nodes,
         NEW es, es \subseteq Rel,
         NEW key \in Groupings(hub, DOMAIN nodes, es),
         NEW built, built = Built(hub, nodes, es, key)
  PROVE  /\ Flags(built.nodes) /\ DOMAIN built.nodes \subseteq DOMAIN nodes
         /\ DOMAIN built.summaries \subseteq Summary
         /\ \A s \in DOMAIN built.summaries :
              /\ HubOf(s) = hub
              /\ Hidden(hub, built.summaries[s])
              /\ DOMAIN built.summaries[s].nodes \subseteq DOMAIN nodes
              /\ built.summaries[s].edges \subseteq es
         /\ built.edges \subseteq es \cup DOMAIN built.summaries
<1> DEFINE Members(k) == {n \in DOMAIN nodes : key[n] = k}
           GroupEdges(k) == {e \in es : key[Peer(e, hub)] = k}
           groups == {key[n] : n \in DOMAIN nodes}
           single == {k \in groups : Cardinality(Members(k)) = 1}
           several == {<<hub, k>> : k \in groups \ single}
           direct == {GroupEdges(k) : k \in single}
<1>1. built = [nodes     |-> Restrict(nodes, UNION {Members(k) : k \in single}),
               edges     |-> (UNION direct) \cup several,
               summaries |-> [s \in several |-> [nodes |-> Restrict(nodes, Members(s[2])),
                                                 edges |-> GroupEdges(s[2])]]]
  BY Zenon DEF Built
<1> HIDE DEF single
<1>2. groups \subseteq Key
  <2> SUFFICES ASSUME NEW n \in DOMAIN nodes PROVE key[n] \in Key
    OBVIOUS
  <2>1. n \in Node
    BY DEF Flags
  <2>2. key[n] \in IF TypesTo(hub, n, es) = {} THEN {Label[n]} ELSE TypesTo(hub, n, es)
    BY DEF Groupings
  <2>3. Label[n] \in Range(Label)
    BY <2>1, GraphAssumption DEF Range
  <2>4. TypesTo(hub, n, es) \subseteq Range(Type)
    BY GraphAssumption DEF TypesTo, Range
  <2> QED BY <2>2, <2>3, <2>4 DEF Key
<1>3. several \subseteq Summary /\ \A s \in several : HubOf(s) = hub
  BY <1>2 DEF Summary, HubOf
<1>4. Flags(built.nodes) /\ DOMAIN built.nodes \subseteq DOMAIN nodes
  <2>1. UNION {Members(k) : k \in single} \subseteq DOMAIN nodes
    OBVIOUS
  <2> QED BY <1>1, <2>1, RestrictedFlags
<1>5. ASSUME NEW s \in several
      PROVE  /\ Hidden(hub, built.summaries[s])
             /\ DOMAIN built.summaries[s].nodes \subseteq DOMAIN nodes
             /\ built.summaries[s].edges \subseteq es
  <2>1. Members(s[2]) \subseteq DOMAIN nodes
    OBVIOUS
  <2>2. built.summaries[s] = [nodes |-> Restrict(nodes, Members(s[2])), edges |-> GroupEdges(s[2])]
    BY <1>1
  <2>3. Flags(Restrict(nodes, Members(s[2]))) /\ DOMAIN Restrict(nodes, Members(s[2])) = Members(s[2])
    BY <2>1, RestrictedFlags
  <2>4. GroupEdges(s[2]) \subseteq es
    OBVIOUS
  <2> QED BY <2>1, <2>2, <2>3, <2>4 DEF Hidden
<1>6. DOMAIN built.summaries = several
  BY <1>1
<1>7. built.edges \subseteq es \cup several
  <2>1. \A some \in direct : some \subseteq es
    OBVIOUS
  <2> HIDE DEF direct, several
  <2>2. built.edges = (UNION direct) \cup several
    BY <1>1
  <2> QED BY <2>1, <2>2
<1> HIDE DEF several
<1> QED BY <1>3, <1>4, <1>5, <1>6, <1>7

-----------------------------------------------------------------------------
(***************************************************************************)
(* The steps of the page.                                                  *)
(***************************************************************************)
LEMMA InitIInv == Init => IInv
<1> SUFFICES ASSUME Init PROVE IInv
  OBVIOUS
<1>1. DOMAIN hasMore = {} /\ DOMAIN summaries = {} /\ DOMAIN childrenOf = {}
  BY DEF Init
<1>2. seeding \in [Repo -> 0 .. MaxSeeding]
  BY LimitAssumption DEF Init
<1>3. TypeOK
  BY <1>1, <1>2 DEF Init, TypeOK
<1>4. Recorded /\ Asked /\ Single
  BY <1>1 DEF Init, Recorded, Asked, Single
<1> QED BY <1>3, <1>4 DEF IInv

LEMMA SubmitKeeps ==
  ASSUME IInv, NEW repo \in Repo, Submit(repo)
  PROVE  IInv'
<1>1. seeding' \in [Repo -> 0 .. MaxSeeding]
  BY LimitAssumption DEF Submit, IInv, TypeOK
<1>2. TypeOK'
  BY <1>1 DEF Submit, IInv, TypeOK
<1>3. Recorded' /\ Asked' /\ Single'
  BY DEF Submit, IInv, Recorded, Asked, Single
<1> QED BY <1>2, <1>3 DEF IInv

LEMMA SeedKeeps ==
  ASSUME IInv, NEW repo \in Repo, SeedAnswered(repo) \/ SeedFails(repo)
  PROVE  IInv'
<1>1. seeding' \in [Repo -> 0 .. MaxSeeding]
  BY LimitAssumption DEF SeedAnswered, SeedFails, IInv, TypeOK
<1>2. Flags(hasMore') /\ edges' \subseteq Rel \cup Summary
  <2>1. CASE SeedFails(repo)
    BY <2>1 DEF SeedFails, IInv, TypeOK, Flags
  <2>2. CASE SeedAnswered(repo)
    <3> DEFINE payload == SeedPayload(repo)
    <3>1. Flags(payload.nodes) /\ payload.edges \subseteq Rel
      BY GraphAssumption DEF SeedPayload, Flags, Unexplored
    <3> HIDE DEF payload
    <3>2. Flags(NewNodes(payload)) /\ NewEdges(payload) \subseteq Rel
      BY <3>1, RestrictedFlags DEF NewNodes, NewEdges
    <3>3. /\ hasMore' = Extended(hasMore, NewNodes(payload))
          /\ AddEdges(edges, NewEdges(payload), DOMAIN hasMore')
      BY <2>2 DEF SeedAnswered, payload
    <3>4. Flags(hasMore)
      BY DEF IInv, TypeOK, Flags
    <3>5. edges' \subseteq edges \cup NewEdges(payload)
      BY <3>3, AddedEdges
    <3> QED BY <3>2, <3>3, <3>4, <3>5, ExtendedFlags DEF IInv, TypeOK
  <2> QED BY <2>1, <2>2
<1>3. UNCHANGED <<summaries, expandedNodes, childrenOf, expanding, fetches>>
  BY DEF SeedAnswered, SeedFails
<1>4. TypeOK'
  BY <1>1, <1>2, <1>3 DEF IInv, TypeOK, Flags
<1>5. Recorded' /\ Asked' /\ Single'
  BY <1>3 DEF IInv, Recorded, Asked, Single
<1> QED BY <1>4, <1>5 DEF IInv

LEMMA ExpandKeeps ==
  ASSUME IInv, NEW n \in Node, Expand(n)
  PROVE  IInv'
<1>1. fetches = {} /\ expanding' = TRUE /\ fetches' = {[id |-> n, known |-> DOMAIN hasMore]}
  BY DEF Expand, IInv, Single
<1>2. TypeOK'
  BY <1>1 DEF Expand, IInv, TypeOK
<1>3. Recorded' /\ Asked'
  BY <1>1 DEF Expand, IInv, Recorded, Asked
<1>4. Single'
  BY <1>1 DEF Single
<1> QED BY <1>2, <1>3, <1>4 DEF IInv

\* Whatever is answered, nothing waits any more.
LEMMA AnsweredEnds ==
  ASSUME IInv, NEW f \in fetches, Answered(f)
  PROVE  /\ fetches' = {} /\ expanding' = FALSE
         /\ Asked' /\ Single'
<1>1. fetches' = {} /\ expanding' = FALSE
  BY DEF Answered, IInv, Single
<1> QED BY <1>1 DEF Asked, Single

LEMMA NothingKeeps ==
  ASSUME IInv, NEW f \in fetches, ExpandAddsNothing(f)
  PROVE  IInv'
<1>1. Answered(f) /\ UNCHANGED <<hasMore, summaries, edges, childrenOf>>
  BY DEF ExpandAddsNothing
<1>2. fetches' = {} /\ expanding' = FALSE /\ Asked' /\ Single'
  BY <1>1, AnsweredEnds
<1>3. TypeOK' /\ Recorded'
  BY <1>1, <1>2 DEF Answered, IInv, TypeOK, Recorded
<1> QED BY <1>2, <1>3 DEF IInv

\* What an answer adds to the canvas, and to the record of its hub.
Adds(f, built) ==
  /\ Answered(f)
  /\ childrenOf' =
       [n \in DOMAIN childrenOf \cup {f.id} |->
          IF n = f.id THEN [nodes |-> DOMAIN built.nodes \cup DOMAIN built.summaries,
                            edges |-> built.edges]
                      ELSE childrenOf[n]]
  /\ hasMore' = Extended(hasMore, built.nodes)
  /\ summaries' = Extended(summaries, built.summaries)
  /\ AddEdges(edges, built.edges, DOMAIN hasMore' \cup DOMAIN summaries')
  /\ undo' = Undo(f.id)

\* All of it is new: nodes that were not shown, and relationships of the hub that were not drawn.
New(hub, built) ==
  /\ Flags(built.nodes) /\ hub \notin DOMAIN built.nodes
  /\ DOMAIN built.nodes \cap DOMAIN hasMore = {}
  /\ DOMAIN built.summaries \subseteq Summary
  /\ \A s \in DOMAIN built.summaries :
       /\ HubOf(s) = hub
       /\ Hidden(hub, built.summaries[s])
       /\ DOMAIN built.summaries[s].nodes \cap DOMAIN hasMore = {}
       /\ built.summaries[s].edges \subseteq RelsOf(hub) \ edges
  /\ built.edges \subseteq (RelsOf(hub) \ edges) \cup DOMAIN built.summaries

LEMMA AnswerAdds ==
  ASSUME IInv, NEW f \in fetches, ExpandAnswered(f)
  PROVE  ExpandAddsNothing(f) \/ \E built : Adds(f, built) /\ New(f.id, built)
<1>1. PICK payload \in ExpandPayloads(f.id, f.known) :
        \E key \in Groupings(f.id, DOMAIN NewNodes(payload), NewEdges(payload)) :
          IF DOMAIN NewNodes(payload) = {}
            THEN ExpandAddsNothing(f)
            ELSE Adds(f, Built(f.id, NewNodes(payload), NewEdges(payload), key))
  BY DEF ExpandAnswered, Adds
<1> DEFINE new == NewNodes(payload)
           es == NewEdges(payload)
<1>2. PICK key \in Groupings(f.id, DOMAIN new, es) :
        IF DOMAIN new = {} THEN ExpandAddsNothing(f) ELSE Adds(f, Built(f.id, new, es, key))
  BY <1>1
<1> DEFINE hub == f.id
           built == Built(hub, new, es, key)
<1>3. hub \in Node /\ hub \in f.known
  BY DEF IInv, TypeOK, Asked
<1>4. /\ Flags(payload.nodes) /\ DOMAIN payload.nodes \cap f.known = {}
      /\ payload.edges \subseteq RelsOf(hub)
  BY <1>3, PayloadTypes
<1>5. /\ Flags(new) /\ hub \notin DOMAIN new /\ DOMAIN new \cap DOMAIN hasMore = {}
      /\ es \subseteq RelsOf(hub) \ edges
  BY <1>3, <1>4, RestrictedFlags DEF NewNodes, NewEdges
<1> HIDE DEF new, es
<1>6. /\ Flags(built.nodes) /\ DOMAIN built.nodes \subseteq DOMAIN new
      /\ DOMAIN built.summaries \subseteq Summary
      /\ \A s \in DOMAIN built.summaries :
           /\ HubOf(s) = hub
           /\ Hidden(hub, built.summaries[s])
           /\ DOMAIN built.summaries[s].nodes \subseteq DOMAIN new
           /\ built.summaries[s].edges \subseteq es
      /\ built.edges \subseteq es \cup DOMAIN built.summaries
  <2>1. es \subseteq Rel
    BY <1>5, RelsOfTypes
  <2> QED BY <1>3, <1>5, <2>1, BuiltTypes
<1>7. ExpandAddsNothing(f) \/ Adds(f, built)
  BY <1>2
<1> HIDE DEF hub, built
<1>8. New(hub, built)
  BY <1>5, <1>6 DEF New
<1> QED BY <1>7, <1>8 DEF hub

LEMMA AnswerKeeps ==
  ASSUME IInv, NEW f \in fetches, ExpandAnswered(f)
  PROVE  /\ IInv'
         /\ DOMAIN hasMore \subseteq DOMAIN hasMore'
         /\ edges \subseteq edges'
<1>1. CASE ExpandAddsNothing(f)
  BY <1>1, NothingKeeps DEF ExpandAddsNothing
<1>2. ASSUME NEW built, Adds(f, built), New(f.id, built)
      PROVE  /\ IInv'
             /\ DOMAIN hasMore \subseteq DOMAIN hasMore'
             /\ edges \subseteq edges'
  <2> DEFINE hub == f.id
  <2>1. hub \in Node
    BY DEF IInv, TypeOK
  <2>2. /\ Answered(f)
        /\ childrenOf' =
             [n \in DOMAIN childrenOf \cup {hub} |->
                IF n = hub THEN [nodes |-> DOMAIN built.nodes \cup DOMAIN built.summaries,
                                 edges |-> built.edges]
                           ELSE childrenOf[n]]
        /\ hasMore' = Extended(hasMore, built.nodes)
        /\ summaries' = Extended(summaries, built.summaries)
        /\ AddEdges(edges, built.edges, DOMAIN hasMore' \cup DOMAIN summaries')
    BY <1>2 DEF Adds
  <2>3. /\ Flags(built.nodes) /\ hub \notin DOMAIN built.nodes
        /\ DOMAIN built.summaries \subseteq Summary
        /\ \A s \in DOMAIN built.summaries : HubOf(s) = hub /\ Hidden(hub, built.summaries[s])
        /\ built.edges \subseteq Rel \cup DOMAIN built.summaries
    BY <1>2, RelsOfTypes DEF New
  <2> HIDE DEF hub
  <2>4. /\ fetches' = {} /\ expanding' = FALSE /\ Asked' /\ Single'
        /\ UNCHANGED <<expandedNodes, seeding>>
    BY <2>2, AnsweredEnds DEF Answered
  <2>5. edges \subseteq edges' /\ edges' \subseteq edges \cup built.edges
    BY <2>2, AddedEdges
  <2>6. Flags(hasMore') /\ DOMAIN hasMore \subseteq DOMAIN hasMore'
    <3>1. Flags(hasMore)
      BY DEF IInv, TypeOK, Flags
    <3> QED BY <2>2, <2>3, <3>1, ExtendedFlags
  <2>7. /\ DOMAIN summaries' \subseteq Summary
        /\ \A s \in DOMAIN summaries' : Hidden(HubOf(s), summaries'[s])
    <3>1. DOMAIN summaries \subseteq Summary /\ \A s \in DOMAIN summaries : Hidden(HubOf(s), summaries[s])
      BY DEF IInv, TypeOK, Recorded
    <3> QED BY <2>2, <2>3, <3>1 DEF Extended
  <2>8. Record(hub, [nodes |-> DOMAIN built.nodes \cup DOMAIN built.summaries, edges |-> built.edges])
    <3>1. DOMAIN built.nodes \subseteq Node
      BY <2>3 DEF Flags
    <3> QED BY <2>1, <2>3, <3>1, SummaryAssumption DEF Record, Children
  <2>9. /\ DOMAIN childrenOf' \subseteq Node
        /\ \A n \in DOMAIN childrenOf' : Record(n, childrenOf'[n])
    <3>1. DOMAIN childrenOf \subseteq Node /\ \A n \in DOMAIN childrenOf : Record(n, childrenOf[n])
      BY DEF IInv, TypeOK, Recorded
    <3> QED BY <2>1, <2>2, <2>8, <3>1
  <2>10. TypeOK'
    BY <2>3, <2>4, <2>5, <2>6, <2>7, <2>9 DEF IInv, TypeOK, Flags, Hidden, Record
  <2> QED BY <2>4, <2>5, <2>6, <2>7, <2>9, <2>10 DEF IInv, Recorded
<1> QED BY <1>1, <1>2, AnswerAdds

-----------------------------------------------------------------------------
\* A summary whose hub is shown and whose edge is drawn.
Attached(s) == HubOf(s) \in DOMAIN hasMore /\ s \in edges

\* A collapse takes no hub without its summary, and no edge of a summary without the summary.
LEMMA CollapseKeepsHubs ==
  ASSUME IInv, NEW n \in Node, Collapse(n),
         NEW s \in DOMAIN summaries \cap DOMAIN summaries', Attached(s)
  PROVE  HubOf(s) \in DOMAIN hasMore' /\ s \in edges'
<1> DEFINE introduced == Introduced(n)
           removed == {x \in introduced.nodes \cap Shown : ~ Stays(x, n, introduced)}
<1>1. s \in Summary /\ s \notin removed /\ s \in Shown
  BY DEF Collapse, Restrict, IInv, TypeOK, Shown
<1>2. HubOf(s) \in Node /\ Ends(s) = {HubOf(s), s} /\ s \notin Node
  BY <1>1, SummaryEnds
<1>3. /\ n \notin introduced.nodes
      /\ s \in introduced.nodes => HubOf(s) = n
      /\ s \in introduced.edges => s \in introduced.nodes
  BY <1>1 DEF Introduced, IInv, Recorded, Record
<1>4. s \notin introduced.nodes
  <2> SUFFICES ASSUME s \in introduced.nodes PROVE FALSE
    OBVIOUS
  <2>1. PICK e \in edges : s \in Ends(e) /\ Ends(e) \ ({s, n} \cup introduced.nodes) # {}
    BY <1>1 DEF Stays
  <2>2. e \in Rel \/ e \in Summary
    BY DEF IInv, TypeOK
  <2>3. e \notin Rel
    BY <1>2, <2>1, RelEnds
  <2>4. e = s
    BY <1>2, <2>1, <2>2, <2>3, SummaryEnds
  <2> QED BY <1>2, <1>3, <2>1, <2>4
<1>5. HubOf(s) \notin removed
  <2> SUFFICES ASSUME HubOf(s) \in removed PROVE FALSE
    OBVIOUS
  <2>1. HubOf(s) # n /\ ~ Stays(HubOf(s), n, introduced)
    BY <1>3
  <2>2. s \in Ends(s) \ ({HubOf(s), n} \cup introduced.nodes)
    BY <1>2, <1>4
  <2> QED BY <1>2, <2>1, <2>2 DEF Stays, Attached
<1>6. /\ DOMAIN hasMore' = DOMAIN hasMore \ removed
      /\ edges' = {e \in edges \ introduced.edges : Ends(e) \cap removed = {}}
  BY DEF Collapse
<1> HIDE DEF removed, introduced
<1> QED BY <1>1, <1>2, <1>3, <1>4, <1>5, <1>6 DEF Attached

LEMMA CollapseKeeps ==
  ASSUME IInv, NEW n \in Node, Collapse(n)
  PROVE  IInv'
<1> DEFINE introduced == Introduced(n)
           removed == {x \in introduced.nodes \cap Shown : ~ Stays(x, n, introduced)}
<1>1. /\ hasMore' = [m \in DOMAIN hasMore \ removed |-> m = n \/ hasMore[m]]
      /\ summaries' = Restrict(summaries, DOMAIN summaries \ removed)
      /\ edges' \subseteq edges
      /\ expandedNodes' = expandedNodes \ {n}
      /\ childrenOf' = Restrict(childrenOf, DOMAIN childrenOf \ {n})
      /\ UNCHANGED <<expanding, fetches, seeding>>
  BY DEF Collapse
<1> HIDE DEF removed
<1>2. DOMAIN hasMore' \subseteq Node /\ \A m \in DOMAIN hasMore' : hasMore'[m] \in BOOLEAN
  BY <1>1 DEF IInv, TypeOK
<1>3. /\ DOMAIN summaries' \subseteq DOMAIN summaries
      /\ \A s \in DOMAIN summaries' : summaries'[s] = summaries[s]
  BY <1>1 DEF Restrict
<1>4. /\ DOMAIN childrenOf' \subseteq DOMAIN childrenOf
      /\ \A m \in DOMAIN childrenOf' : childrenOf'[m] = childrenOf[m]
  BY <1>1 DEF Restrict
<1>5. TypeOK'
  BY <1>1, <1>2, <1>3, <1>4 DEF IInv, TypeOK
<1>6. Recorded'
  BY <1>3, <1>4 DEF IInv, Recorded
<1>7. Asked' /\ Single'
  BY <1>1 DEF IInv, Asked, Single
<1> QED BY <1>5, <1>6, <1>7 DEF IInv

\* A summary that is revealed leaves the others, their hubs and their edges.
LEMMA RevealKeepsHubs ==
  ASSUME IInv, NEW shown \in Summary, Reveal(shown),
         NEW s \in DOMAIN summaries \cap DOMAIN summaries', Attached(s)
  PROVE  HubOf(s) \in DOMAIN hasMore' /\ s \in edges'
<1>1. s \in Summary /\ s # shown
  BY DEF Reveal, Restrict, IInv, TypeOK
<1>2. Ends(s) = {HubOf(s), s} /\ HubOf(s) \in Node /\ shown \notin Node
  BY <1>1, SummaryEnds
<1>3. s \in {e \in edges : shown \notin Ends(e)}
  BY <1>1, <1>2 DEF Attached
<1>4. {e \in edges : shown \notin Ends(e)} \subseteq edges'
  BY AddedEdges DEF Reveal
<1>5. DOMAIN hasMore \subseteq DOMAIN hasMore'
  BY DEF Reveal, Extended
<1> QED BY <1>3, <1>4, <1>5 DEF Attached

LEMMA RevealKeeps ==
  ASSUME IInv, NEW s \in Summary, Reveal(s)
  PROVE  IInv'
<1> DEFINE hidden == summaries[s]
           others == {e \in edges : s \notin Ends(e)}
<1>1. Hidden(HubOf(s), hidden) /\ s \notin Node
  BY SummaryEnds DEF Reveal, IInv, Recorded
<1>2. /\ summaries' = Restrict(summaries, DOMAIN summaries \ {s})
      /\ hasMore' = Extended(hasMore, hidden.nodes)
      /\ childrenOf' = [n \in DOMAIN childrenOf |-> Revealed(childrenOf[n], s)]
      /\ AddEdges(others, hidden.edges, DOMAIN hasMore' \cup DOMAIN summaries')
      /\ UNCHANGED <<expandedNodes, expanding, fetches, seeding>>
  BY DEF Reveal
<1>3. Flags(hasMore')
  <2>1. Flags(hasMore)
    BY DEF IInv, TypeOK, Flags
  <2> QED BY <1>1, <1>2, <2>1, ExtendedFlags DEF Hidden
<1>4. edges' \subseteq Rel \cup Summary
  <2>1. edges' \subseteq others \cup hidden.edges
    BY <1>2, AddedEdges
  <2> QED BY <1>1, <2>1 DEF Hidden, IInv, TypeOK
<1>5. /\ DOMAIN summaries' \subseteq DOMAIN summaries
      /\ \A x \in DOMAIN summaries' : summaries'[x] = summaries[x]
  BY <1>2 DEF Restrict
<1>6. ASSUME NEW n \in DOMAIN childrenOf
      PROVE  Record(n, childrenOf'[n])
  <2>1. Record(n, childrenOf[n]) /\ childrenOf'[n] = Revealed(childrenOf[n], s)
    BY <1>2 DEF IInv, Recorded
  <2>2. CASE s \notin childrenOf[n].nodes
    BY <2>1, <2>2 DEF Revealed
  <2>3. CASE s \in childrenOf[n].nodes
    <3>1. HubOf(s) = n
      BY <2>1, <2>3 DEF Record
    <3>2. childrenOf'[n] = [nodes |-> (childrenOf[n].nodes \ {s}) \cup DOMAIN hidden.nodes,
                            edges |-> (childrenOf[n].edges \ {s}) \cup hidden.edges]
      BY <2>1, <2>3 DEF Revealed
    <3>3. DOMAIN hidden.nodes \subseteq Node /\ hidden.edges \subseteq Rel /\ n \notin DOMAIN hidden.nodes
      BY <1>1, <3>1 DEF Hidden, Flags
    <3> HIDE DEF hidden
    <3>4. childrenOf'[n] \in Children
      BY <2>1, <3>2, <3>3 DEF Record, Children
    <3>5. n \notin childrenOf'[n].nodes
      BY <2>1, <3>2, <3>3 DEF Record
    <3>6. ASSUME NEW x \in Summary
          PROVE  /\ x \in childrenOf'[n].nodes => HubOf(x) = n
                 /\ x \in childrenOf'[n].edges => x \in childrenOf'[n].nodes
      BY <2>1, <3>2, <3>3, SummaryAssumption DEF Record
    <3> QED BY <3>4, <3>5, <3>6 DEF Record
  <2> QED BY <2>2, <2>3
<1>7. DOMAIN childrenOf' = DOMAIN childrenOf
  BY <1>2
<1>8. TypeOK'
  <2>1. DOMAIN childrenOf' \subseteq Node /\ \A n \in DOMAIN childrenOf' : childrenOf'[n] \in Children
    BY <1>6, <1>7 DEF IInv, TypeOK, Record
  <2>2. /\ DOMAIN summaries' \subseteq Summary
        /\ \A x \in DOMAIN summaries' :
             DOMAIN summaries'[x].nodes \subseteq Node /\ summaries'[x].edges \subseteq Rel
    BY <1>5 DEF IInv, TypeOK
  <2> QED BY <1>2, <1>3, <1>4, <2>1, <2>2 DEF IInv, TypeOK, Flags
<1>9. Recorded'
  BY <1>5, <1>6, <1>7 DEF IInv, Recorded
<1>10. Asked' /\ Single'
  BY <1>2 DEF IInv, Asked, Single
<1> QED BY <1>8, <1>9, <1>10 DEF IInv

LEMMA StepKeeps == IInv /\ [Next]_vars => IInv'
<1> SUFFICES ASSUME IInv, [Next]_vars PROVE IInv'
  OBVIOUS
<1>1. ASSUME NEW repo \in Repo, Submit(repo) \/ SeedAnswered(repo) \/ SeedFails(repo) PROVE IInv'
  BY <1>1, SubmitKeeps, SeedKeeps
<1>2. ASSUME NEW n \in Node, Expand(n) \/ Collapse(n) PROVE IInv'
  BY <1>2, ExpandKeeps, CollapseKeeps
<1>3. ASSUME NEW f \in fetches, ExpandAnswered(f) \/ ExpandFails(f) PROVE IInv'
  BY <1>3, AnswerKeeps, NothingKeeps DEF ExpandFails
<1>4. ASSUME NEW s \in Summary, Reveal(s) PROVE IInv'
  BY <1>4, RevealKeeps
<1>5. CASE UNCHANGED vars
  BY <1>5 DEF vars, IInv, TypeOK, Recorded, Asked, Single
<1> QED BY <1>1, <1>2, <1>3, <1>4, <1>5 DEF Next

-----------------------------------------------------------------------------
(***************************************************************************)
(* What a collapse takes back.                                             *)
(***************************************************************************)

\* Every edge on the canvas has its ends there.
Drawn == \A e \in edges : Ends(e) \subseteq Shown

\* A summary of the hub hides nodes and relationships of the hub that were not on the canvas before
\* its expand.
HidesNew(hub, hides) ==
  /\ DOMAIN hides.nodes \cap undo.nodes = {}
  /\ hides.edges \subseteq RelsOf(hub) \ undo.edges

\* The canvas is that from before the expand of the hub and, apart from it, what the record of the
\* expand holds: nodes and relationships of the hub that were not there.
Accounts(hub, children) ==
  /\ DOMAIN hasMore = undo.nodes \cup (children.nodes \cap Node)
  /\ undo.nodes \cap children.nodes = {}
  /\ undo.edges \subseteq edges \cap Rel
  /\ edges \cap Rel \subseteq undo.edges \cup children.edges
  /\ undo.edges \cap children.edges = {}
  /\ children.edges \cap Rel \subseteq RelsOf(hub)
  /\ \A e \in undo.edges : Ends(e) \subseteq undo.nodes
  /\ \A e \in edges \cap Summary : HubOf(e) \in undo.nodes \cup {hub}
  /\ \A s \in DOMAIN summaries :
       HubOf(s) = hub => s \in children.nodes /\ HidesNew(hub, summaries[s])

Undone ==
  /\ Drawn
  /\ \A hub, other \in undo.hubs : hub = other
  /\ \A hub \in undo.hubs : hub \in DOMAIN childrenOf /\ Accounts(hub, childrenOf[hub])

\* Nothing happened on the canvas.
LEMMA UndoneSame ==
  ASSUME Undone, UNCHANGED <<hasMore, summaries, edges, childrenOf, undo>>
  PROVE  Undone'
BY DEF Undone, Drawn, Shown, Accounts, HidesNew

\* Edges are added with their ends, and nothing is taken away under the others.
LEMMA DrawnAdded ==
  ASSUME NEW old, NEW new, AddEdges(old, new, Shown'),
         \A e \in old : Ends(e) \subseteq Shown'
  PROVE  Drawn'
BY AddedEdges DEF Drawn

LEMMA UndoneSeed ==
  ASSUME IInv, Undone, NEW repo \in Repo,
         Submit(repo) \/ SeedAnswered(repo) \/ SeedFails(repo)
  PROVE  Undone'
<1>1. CASE Submit(repo)
  BY <1>1 DEF Submit, Undone, Drawn, NoUndo
<1>2. CASE SeedFails(repo)
  BY <1>2, UndoneSame DEF SeedFails
<1>3. CASE SeedAnswered(repo)
  <2> DEFINE new == NewEdges(SeedPayload(repo))
  <2>1. /\ AddEdges(edges, new, DOMAIN hasMore')
        /\ DOMAIN hasMore \subseteq DOMAIN hasMore'
        /\ summaries' = summaries /\ undo' = NoUndo
    BY <1>3 DEF SeedAnswered, Extended
  <2> HIDE DEF new
  <2>2. Drawn'
    <3>1. edges' \subseteq edges \cup new /\ \A e \in edges' \ edges : Ends(e) \subseteq DOMAIN hasMore'
      BY <2>1, AddedEdges
    <3> QED BY <2>1, <3>1 DEF Undone, Drawn, Shown
  <2> QED BY <2>1, <2>2 DEF Undone, NoUndo
<1> QED BY <1>1, <1>2, <1>3

LEMMA UndoneAnswer ==
  ASSUME IInv, IInv', Undone, NEW f \in fetches, NEW built, Adds(f, built), New(f.id, built)
  PROVE  Undone'
<1> DEFINE hub == f.id
<1>1. /\ hub \in DOMAIN childrenOf'
      /\ childrenOf'[hub] = [nodes |-> DOMAIN built.nodes \cup DOMAIN built.summaries,
                             edges |-> built.edges]
      /\ hasMore' = Extended(hasMore, built.nodes)
      /\ summaries' = Extended(summaries, built.summaries)
      /\ AddEdges(edges, built.edges, Shown')
      /\ undo' = Undo(hub)
  BY DEF Adds, Shown
<1>2. /\ DOMAIN built.nodes \subseteq Node
      /\ DOMAIN built.nodes \cap DOMAIN hasMore = {}
      /\ DOMAIN built.summaries \subseteq Summary
      /\ \A s \in DOMAIN built.summaries :
           /\ HubOf(s) = hub
           /\ DOMAIN built.summaries[s].nodes \cap DOMAIN hasMore = {}
           /\ built.summaries[s].edges \subseteq RelsOf(hub) \ edges
      /\ built.edges \subseteq (RelsOf(hub) \ edges) \cup DOMAIN built.summaries
  BY DEF New, Flags
<1>3. /\ DOMAIN hasMore \subseteq Node /\ DOMAIN summaries \subseteq Summary
      /\ edges \subseteq Rel \cup Summary
  BY DEF IInv, TypeOK
<1> HIDE DEF hub
<1>4. DOMAIN hasMore' = DOMAIN hasMore \cup DOMAIN built.nodes
  BY <1>1 DEF Extended
<1>5. /\ DOMAIN summaries' = DOMAIN summaries \cup DOMAIN built.summaries
      /\ \A s \in DOMAIN built.summaries \ DOMAIN summaries : summaries'[s] = built.summaries[s]
  BY <1>1 DEF Extended
<1>6. /\ edges \subseteq edges' /\ edges' \subseteq edges \cup built.edges
      /\ \A e \in edges' \ edges : Ends(e) \subseteq Shown'
  BY <1>1, AddedEdges
<1>7. Drawn'
  BY <1>4, <1>5, <1>6 DEF Undone, Drawn, Shown
<1>8. ASSUME NEW h \in undo'.hubs
      PROVE  h \in DOMAIN childrenOf' /\ Accounts(h, childrenOf[h])'
  <2>1. /\ h = hub /\ hub \in undo'.hubs
        /\ undo'.nodes = DOMAIN hasMore /\ undo'.edges = edges \cap Rel
        /\ \A s \in DOMAIN summaries : HubOf(s) # hub
    BY <1>1, <1>8 DEF Undo, NoUndo
  <2>2. /\ childrenOf'[hub].nodes = DOMAIN built.nodes \cup DOMAIN built.summaries
        /\ childrenOf'[hub].edges = built.edges
    BY <1>1
  <2> DEFINE children == childrenOf'[hub]
  <2> HIDE DEF children
  <2>3. /\ children.nodes = DOMAIN built.nodes \cup DOMAIN built.summaries
        /\ children.edges = built.edges
    BY <2>2 DEF children
  <2>4. \A s \in Summary : s \notin Node /\ s \notin Rel
    BY SummaryAssumption
  <2>5. DOMAIN hasMore' = undo'.nodes \cup (children.nodes \cap Node)
    BY <1>2, <1>4, <2>1, <2>3, <2>4
  <2>6. undo'.nodes \cap children.nodes = {}
    BY <1>2, <1>3, <2>1, <2>3, <2>4
  <2>7. /\ undo'.edges \subseteq edges' \cap Rel
        /\ edges' \cap Rel \subseteq undo'.edges \cup children.edges
    BY <1>6, <2>1, <2>3
  <2>8. undo'.edges \cap children.edges = {}
    BY <1>2, <2>1, <2>3, <2>4
  <2>9. children.edges \cap Rel \subseteq RelsOf(hub)
    BY <1>2, <2>3, <2>4
  <2>10. \A e \in undo'.edges : Ends(e) \subseteq undo'.nodes
    <3> SUFFICES ASSUME NEW e \in edges \cap Rel PROVE Ends(e) \subseteq DOMAIN hasMore
      BY <2>1
    <3>1. Ends(e) \subseteq Node /\ Ends(e) \subseteq Shown
      BY RelEnds DEF Undone, Drawn
    <3> QED BY <1>3, <2>4, <3>1 DEF Shown
  <2>11. \A e \in edges' \cap Summary : HubOf(e) \in undo'.nodes \cup {hub}
    <3> SUFFICES ASSUME NEW e \in edges' \cap Summary PROVE HubOf(e) \in DOMAIN hasMore \cup {hub}
      BY <2>1
    <3>1. CASE e \in edges
      <4>1. HubOf(e) \in Shown /\ HubOf(e) \in Node
        BY <3>1, SummaryEnds DEF Undone, Drawn
      <4> QED BY <1>3, <2>4, <4>1 DEF Shown
    <3>2. CASE e \notin edges
      <4>1. e \in built.edges /\ e \notin RelsOf(hub)
        BY <1>6, <2>4, <3>2, RelsOfTypes
      <4> QED BY <1>2, <4>1
    <3> QED BY <3>1, <3>2
  <2>12. ASSUME NEW s \in DOMAIN summaries', HubOf(s) = hub
         PROVE  s \in children.nodes /\ HidesNew(hub, summaries[s])'
    <3>1. s \in DOMAIN built.summaries \ DOMAIN summaries
      BY <1>5, <2>1, <2>12
    <3>2. summaries'[s] = built.summaries[s]
      BY <1>5, <3>1
    <3> QED BY <1>2, <2>1, <2>3, <3>1, <3>2 DEF HidesNew
  <2>13. Accounts(hub, childrenOf[hub])'
    BY <2>5, <2>6, <2>7, <2>8, <2>9, <2>10, <2>11, <2>12 DEF Accounts, children
  <2> QED BY <1>1, <2>1, <2>13
<1>9. \A h, g \in undo'.hubs : h = g
  BY <1>1 DEF Undo, NoUndo
<1> QED BY <1>7, <1>8, <1>9 DEF Undone

LEMMA UndoneReveal ==
  ASSUME IInv, IInv', Undone, NEW s \in Summary, Reveal(s)
  PROVE  Undone'
<1> DEFINE hides == summaries[s]
           others == {e \in edges : s \notin Ends(e)}
<1>1. /\ s \in DOMAIN summaries
      /\ DOMAIN summaries' = DOMAIN summaries \ {s}
      /\ \A x \in DOMAIN summaries' : summaries'[x] = summaries[x]
      /\ DOMAIN hasMore' = DOMAIN hasMore \cup DOMAIN hides.nodes
      /\ childrenOf' = [n \in DOMAIN childrenOf |-> Revealed(childrenOf[n], s)]
      /\ AddEdges(others, hides.edges, Shown')
      /\ undo' = IF HubOf(s) \in undo.hubs THEN undo ELSE NoUndo
  BY DEF Reveal, Restrict, Extended, Shown
<1>2. /\ DOMAIN hides.nodes \subseteq Node /\ hides.edges \subseteq Rel
      /\ s \notin Node /\ s \notin Rel
  BY <1>1, SummaryAssumption DEF IInv, Recorded, Hidden, Flags
<1>3. DOMAIN hasMore \subseteq Node
  BY DEF IInv, TypeOK
<1> HIDE DEF hides
<1>4. Drawn'
  <2>1. \A e \in others : Ends(e) \subseteq Shown'
    BY <1>1 DEF Undone, Drawn, Shown
  <2> HIDE DEF others
  <2> QED BY <1>1, <2>1, DrawnAdded
<1>5. others \subseteq edges' /\ edges' \subseteq others \cup hides.edges
  BY <1>1, AddedEdges
<1>6. ASSUME NEW h \in undo'.hubs
      PROVE  h \in DOMAIN childrenOf' /\ Accounts(h, childrenOf[h])'
  <2>1. HubOf(s) \in undo.hubs /\ undo' = undo /\ h \in undo.hubs
    BY <1>1, <1>6 DEF NoUndo
  <2>2. h \in DOMAIN childrenOf /\ Accounts(h, childrenOf[h]) /\ h = HubOf(s)
    BY <2>1 DEF Undone
  <2> DEFINE was == childrenOf[h]
             is == childrenOf'[h]
  <2>3. s \in was.nodes /\ HidesNew(h, hides)
    BY <1>1, <2>2 DEF Accounts, hides
  <2>4. is = [nodes |-> (was.nodes \ {s}) \cup DOMAIN hides.nodes,
              edges |-> (was.edges \ {s}) \cup hides.edges]
    BY <1>1, <2>2, <2>3 DEF Revealed, hides
  <2>5. /\ is.nodes = (was.nodes \ {s}) \cup DOMAIN hides.nodes
        /\ is.edges = (was.edges \ {s}) \cup hides.edges
    BY <2>4
  <2>6. \A e \in Rel : e \in edges => e \in others
    BY <1>2, RelEnds
  <2> HIDE DEF was, is
  <2>7. /\ DOMAIN hasMore' = undo.nodes \cup (is.nodes \cap Node)
        /\ undo.nodes \cap is.nodes = {}
    BY <1>1, <1>2, <1>3, <2>2, <2>3, <2>5 DEF Accounts, HidesNew, was
  <2>8. /\ undo.edges \subseteq edges' \cap Rel
        /\ edges' \cap Rel \subseteq undo.edges \cup is.edges
        /\ undo.edges \cap is.edges = {}
        /\ is.edges \cap Rel \subseteq RelsOf(h)
    BY <1>2, <1>5, <2>2, <2>3, <2>5, <2>6 DEF Accounts, HidesNew, was
  <2>9. \A e \in edges' \cap Summary : HubOf(e) \in undo.nodes \cup {h}
    <3>1. \A e \in edges' \cap Summary : e \in edges
      BY <1>2, <1>5, SummaryAssumption
    <3> QED BY <2>2, <3>1 DEF Accounts
  <2>10. ASSUME NEW x \in DOMAIN summaries', HubOf(x) = h
         PROVE  x \in is.nodes /\ HidesNew(h, summaries'[x])
    BY <1>1, <2>2, <2>5, <2>10 DEF Accounts, was
  <2>11. Accounts(h, childrenOf[h])'
    <3>1. \A e \in undo.edges : Ends(e) \subseteq undo.nodes
      BY <2>2 DEF Accounts
    <3> QED BY <2>1, <2>7, <2>8, <2>9, <2>10, <3>1 DEF Accounts, HidesNew, is
  <2> QED BY <1>1, <2>2, <2>11
<1>7. \A h, g \in undo'.hubs : h = g
  BY <1>1 DEF Undone, NoUndo
<1> QED BY <1>4, <1>6, <1>7 DEF Undone

\* A collapse takes what it removes with its edges.
LEMMA UndoneCollapse ==
  ASSUME Undone, NEW n \in Node, Collapse(n)
  PROVE  Undone'
<1> DEFINE introduced == Introduced(n)
           removed == {x \in introduced.nodes \cap Shown : ~ Stays(x, n, introduced)}
<1>1. /\ DOMAIN hasMore' = DOMAIN hasMore \ removed
      /\ DOMAIN summaries' = DOMAIN summaries \ removed
      /\ edges' = {e \in edges \ introduced.edges : Ends(e) \cap removed = {}}
      /\ undo' = NoUndo
  BY DEF Collapse, Restrict
<1> HIDE DEF introduced, removed
<1>2. Shown' = Shown \ removed
  BY <1>1 DEF Shown
<1>3. Drawn'
  BY <1>1, <1>2 DEF Undone, Drawn
<1> QED BY <1>1, <1>3 DEF Undone, NoUndo

LEMMA UndoneStep == IInv /\ IInv' /\ Undone /\ [Next]_vars => Undone'
<1> SUFFICES ASSUME IInv, IInv', Undone, [Next]_vars PROVE Undone'
  OBVIOUS
<1>1. ASSUME NEW repo \in Repo, Submit(repo) \/ SeedAnswered(repo) \/ SeedFails(repo) PROVE Undone'
  BY <1>1, UndoneSeed
<1>2. ASSUME NEW n \in Node, Expand(n) \/ Collapse(n) PROVE Undone'
  BY <1>2, UndoneSame, UndoneCollapse DEF Expand
<1>3. ASSUME NEW f \in fetches, ExpandAnswered(f) \/ ExpandFails(f) PROVE Undone'
  <2>1. CASE ExpandAddsNothing(f)
    BY <2>1, UndoneSame DEF ExpandAddsNothing
  <2> QED BY <1>3, <2>1, AnswerAdds, UndoneAnswer DEF ExpandFails
<1>4. ASSUME NEW s \in Summary, Reveal(s) PROVE Undone'
  BY <1>4, UndoneReveal
<1>5. CASE UNCHANGED vars
  BY <1>5, UndoneSame DEF vars
<1> QED BY <1>1, <1>2, <1>3, <1>4, <1>5 DEF Next

\* All that the record holds goes: no edge joins it to a node that is neither in it nor the hub.
LEMMA CollapseUndoes ==
  ASSUME IInv, Undone, NEW n \in Node, Collapse(n), n \in undo.hubs
  PROVE  DOMAIN hasMore' = undo.nodes /\ edges' \cap Rel = undo.edges
<1> DEFINE introduced == Introduced(n)
           removed == {x \in introduced.nodes \cap Shown : ~ Stays(x, n, introduced)}
<1>1. /\ DOMAIN hasMore' = DOMAIN hasMore \ removed
      /\ edges' = {e \in edges \ introduced.edges : Ends(e) \cap removed = {}}
  BY DEF Collapse
<1>2. n \in DOMAIN childrenOf /\ introduced = childrenOf[n] /\ Accounts(n, introduced)
  BY DEF Undone, Introduced
<1>3. n \notin introduced.nodes /\ edges \subseteq Rel \cup Summary
  BY <1>2 DEF IInv, TypeOK, Recorded, Record
<1>4. ASSUME NEW x \in introduced.nodes \cap Node
      PROVE  x \in removed
  <2>1. x \in Shown /\ x # n /\ x \notin undo.nodes
    BY <1>2, <1>3 DEF Accounts, Shown
  <2>2. ASSUME NEW e \in edges, x \in Ends(e)
        PROVE  Ends(e) \ ({x, n} \cup introduced.nodes) = {}
    <3>1. CASE e \in Rel
      <4>1. e \in RelsOf(n)
        BY <1>2, <2>1, <2>2, <3>1 DEF Accounts
      <4> QED BY <2>1, <2>2, <3>1, <4>1 DEF RelsOf, Ends
    <3>2. CASE e \in Summary
      <4>1. HubOf(e) \in undo.nodes \cup {n}
        BY <1>2, <3>2 DEF Accounts
      <4>2. Ends(e) = {HubOf(e), e} /\ e \notin Node
        BY <3>2, SummaryEnds
      <4> QED BY <2>1, <2>2, <4>1, <4>2
    <3> QED BY <1>3, <3>1, <3>2
  <2> HIDE DEF introduced
  <2>3. ~ Stays(x, n, introduced)
    BY <2>2 DEF Stays
  <2> QED BY <2>1, <2>3
<1>5. removed \subseteq introduced.nodes
  OBVIOUS
<1> HIDE DEF introduced, removed
<1>6. DOMAIN hasMore' = undo.nodes
  BY <1>1, <1>2, <1>4, <1>5 DEF Accounts
<1>7. edges' \cap Rel = undo.edges
  BY <1>1, <1>2, <1>5 DEF Accounts
<1> QED BY <1>6, <1>7

-----------------------------------------------------------------------------
(***************************************************************************)
(* The theorems.                                                           *)
(***************************************************************************)

\* What the records of the page say about its canvas, after any clicks and answers.
THEOREM RecordsHold == Spec => []IInv
BY InitIInv, StepKeeps, PTL DEF Spec

\* The variables keep their types (graph.html, the script of the page).
THEOREM TypeCorrect == Spec => []TypeOK
<1>1. IInv => TypeOK
  BY DEF IInv
<1> QED BY RecordsHold, <1>1, PTL

\* The flag expanding is set exactly while one expand waits for its answer (graph.html,
\* dbltap handler).
THEOREM OneExpand == Spec => []OneExpandAtATime
<1>1. IInv => OneExpandAtATime
  <2> SUFFICES ASSUME IInv PROVE OneExpandAtATime
    OBVIOUS
  <2>1. CASE expanding
    <3>1. PICK f : fetches = {f}
      BY <2>1 DEF IInv, Single
    <3>2. Cardinality(fetches) = 1
      BY <3>1, FS_Singleton
    <3>3. expanding = (fetches # {})
      BY <2>1, <3>1, Zenon DEF IInv, TypeOK
    <3> QED BY <3>2, <3>3 DEF OneExpandAtATime
  <2>2. CASE ~ expanding
    <3>1. fetches = {}
      BY <2>2 DEF IInv, Single
    <3>2. Cardinality(fetches) = 0
      BY <3>1, FS_EmptySet
    <3>3. expanding = (fetches # {})
      BY <2>2, <3>1, Zenon DEF IInv, TypeOK
    <3> QED BY <3>2, <3>3 DEF OneExpandAtATime
  <2> QED BY <2>1, <2>2
<1> QED BY RecordsHold, <1>1, PTL

\* Whatever is collapsed, revealed or answered around it, a summary keeps its hub and its edge
\* (graph.html, the collapse in the dbltap handler and the tap handler of summaries).
THEOREM SummariesKeepHubs == Spec => SummaryKeepsHub
<1>1. IInv /\ [Next]_vars =>
        [\A s \in DOMAIN summaries \cap DOMAIN summaries' :
           HubOf(s) \in DOMAIN hasMore /\ s \in edges =>
             HubOf(s) \in DOMAIN hasMore' /\ s \in edges']_vars
  <2> SUFFICES ASSUME IInv, Next, NEW s \in DOMAIN summaries \cap DOMAIN summaries', Attached(s)
               PROVE  HubOf(s) \in DOMAIN hasMore' /\ s \in edges'
    BY DEF Attached
  <2>1. ASSUME NEW repo \in Repo, Submit(repo) \/ SeedAnswered(repo) \/ SeedFails(repo)
        PROVE  HubOf(s) \in DOMAIN hasMore' /\ s \in edges'
    <3>1. CASE Submit(repo)
      BY <3>1 DEF Submit
    <3>2. CASE SeedAnswered(repo)
      <4>1. edges \subseteq edges' /\ DOMAIN hasMore \subseteq DOMAIN hasMore'
        BY <3>2, AddedEdges DEF SeedAnswered, Extended
      <4> QED BY <4>1 DEF Attached
    <3>3. CASE SeedFails(repo)
      BY <3>3 DEF SeedFails, Attached
    <3> QED BY <2>1, <3>1, <3>2, <3>3
  <2>2. ASSUME NEW n \in Node, Expand(n) \/ Collapse(n)
        PROVE  HubOf(s) \in DOMAIN hasMore' /\ s \in edges'
    BY <2>2, CollapseKeepsHubs DEF Expand, Attached
  <2>3. ASSUME NEW f \in fetches, ExpandAnswered(f) \/ ExpandFails(f)
        PROVE  HubOf(s) \in DOMAIN hasMore' /\ s \in edges'
    BY <2>3, AnswerKeeps DEF ExpandFails, ExpandAddsNothing, Attached
  <2>4. ASSUME NEW x \in Summary, Reveal(x)
        PROVE  HubOf(s) \in DOMAIN hasMore' /\ s \in edges'
    BY <2>4, RevealKeepsHubs
  <2> QED BY <2>1, <2>2, <2>3, <2>4 DEF Next
<1> QED BY RecordsHold, <1>1, PTL DEF Spec, SummaryKeepsHub

\* A double click on a node that was expanded restores the canvas from before the expand, whatever
\* of its summaries was revealed in between (graph.html, the collapse in the dbltap handler).
THEOREM CollapseRestores == Spec => CollapseUndoesExpand
<1>1. Init => Undone
  BY DEF Init, Undone, Drawn, NoUndo
<1>2. IInv /\ Undone /\ [Next]_vars =>
        [\A n \in expandedNodes \ expandedNodes' :
           n \in undo.hubs /\ n \in DOMAIN hasMore' =>
             DOMAIN hasMore' = undo.nodes /\ edges' \cap Rel = undo.edges]_vars
  <2> SUFFICES ASSUME IInv, Undone, Next, NEW n \in expandedNodes \ expandedNodes',
                      n \in undo.hubs, n \in DOMAIN hasMore'
               PROVE  DOMAIN hasMore' = undo.nodes /\ edges' \cap Rel = undo.edges
    OBVIOUS
  <2>1. \A repo \in Repo : ~ Submit(repo) /\ ~ SeedAnswered(repo) /\ ~ SeedFails(repo)
    BY DEF Submit, SeedAnswered, SeedFails
  <2>2. ASSUME NEW m \in Node, Expand(m) \/ Collapse(m)
        PROVE  m = n /\ Collapse(n)
    <3>1. ~ Expand(m)
      BY DEF Expand
    <3>2. Collapse(m) /\ expandedNodes' = expandedNodes \ {m}
      BY <2>2, <3>1 DEF Collapse
    <3>3. m = n
      BY <3>2
    <3> QED BY <3>2, <3>3
  <2>3. ASSUME NEW f \in fetches
        PROVE  ~ ExpandAnswered(f) /\ ~ ExpandFails(f)
    <3>1. ~ Answered(f)
      BY DEF Answered
    <3>2. ~ ExpandAddsNothing(f) /\ \A built : ~ Adds(f, built)
      BY <3>1 DEF ExpandAddsNothing, Adds
    <3> QED BY <3>2, AnswerAdds DEF ExpandFails
  <2>4. \A s \in Summary : ~ Reveal(s)
    BY DEF Reveal
  <2> QED BY <2>1, <2>2, <2>3, <2>4, CollapseUndoes DEF Next
<1> QED BY RecordsHold, <1>1, <1>2, UndoneStep, PTL DEF Spec, CollapseUndoesExpand

=============================================================================
