---------------------------- MODULE QueryExecutor ----------------------------
(***************************************************************************)
(* One execution of a query against Neo4j                                  *)
(* (query-workspace/internal/queryengine/neo4j.go): Execute with the       *)
(* deferred functions that run when it returns, and rowCollector, which    *)
(* keeps what fits into the limits of the result.                          *)
(*                                                                         *)
(* The driver and the database are external.  A call made with the         *)
(* context of the query can fail at any time (the query is wrong, the      *)
(* deadline has passed, the connection is lost); the calls that clean up   *)
(* have a context of their own, so the deadline does not stop them.  A     *)
(* call that fails may have had its effect on the transaction all the      *)
(* same.                                                                   *)
(***************************************************************************)
EXTENDS Integers, SequencesExt

CONSTANTS
  Row,             \* what a row can be: the bytes of its cells and its graph entities
  Entity,          \* nodes and relationships
  GraphSize(_, _), \* bytes of a row's part of the graph: its new entities, its references to nodes
  MaxRows,         \* the configured limits of a result
  MaxBytes,
  MaxStream        \* bound of the number of rows a query returns

ASSUME RowAssumption ==
  /\ Row \subseteq [cells : Nat, entities : SUBSET Entity]
  /\ \A row \in Row : IsFiniteSet(row.entities)
  /\ \A row \in Row, new \in SUBSET Entity : GraphSize(new, row.entities) \in Nat
ASSUME LimitAssumption == MaxRows \in Nat \ {0} /\ MaxBytes \in Nat \ {0} /\ MaxStream \in Nat

VARIABLES
  at,         \* what Execute does next
  expired,    \* the deadline of the query has passed
  lost,       \* the connection to the database is lost
  readOnly,   \* what the database classifies the query as
  tx,         \* the transaction, as the database sees it
  finished,   \* Execute knows that the transaction has ended
  errors,     \* the calls whose failure Execute returns
  rows,       \* rowCollector: the rows kept
  drawn,      \* for each of them the entities it added to the graph
  seen,       \* the entities in the graph
  bytesUsed,
  truncated,
  stream,     \* history: the rows the database returned
  ends        \* history: for each call to end the transaction, whether it succeeded

outside == <<expired, lost, readOnly>>
collector == <<rows, drawn, seen, bytesUsed, truncated>>
vars == <<at, expired, lost, readOnly, tx, finished, errors,
          rows, drawn, seen, bytesUsed, truncated, stream, ends>>

Init ==
  /\ at = "beginning"
  /\ expired = FALSE /\ lost = FALSE /\ readOnly \in BOOLEAN
  /\ tx = "none"
  /\ finished = FALSE
  /\ errors = {}
  /\ rows = <<>> /\ drawn = <<>> /\ seen = {} /\ bytesUsed = 0 /\ truncated = FALSE
  /\ stream = <<>>
  /\ ends = <<>>

\* A call with the context of the query is answered.
Answered == ~ expired /\ ~ lost

\* Mutant: the calls that clean up take the context of the query.
CleanedInTime == ~ expired /\ ~ lost

\* A call with a context of its own, of two seconds, is answered.
Cleaned == ~ lost

\* A call other than those that end the transaction fails, and Execute returns.
Fail(call) ==
  /\ errors' = errors \cup {call}
  /\ at' = "returning"
  /\ UNCHANGED <<outside, tx, finished, collector, stream, ends>>

Proceed(from, to) ==
  /\ at = from
  /\ at' = to
  /\ UNCHANGED <<outside, finished, errors, collector, stream, ends>>

-----------------------------------------------------------------------------
Begin == Answered /\ Proceed("beginning", "running") /\ tx' = "open"

\* BeginTransaction fails.  Nothing is deferred yet but the closing of the session; the database
\* may have begun the transaction.
BeginFails ==
  /\ at = "beginning"
  /\ at' = "closing"
  /\ tx' \in {"none", "open"}
  /\ errors' = errors \cup {"begin"}
  /\ UNCHANGED <<outside, finished, collector, stream, ends>>

\* tx.Run and result.Keys
Run == Answered /\ Proceed("running", "reading") /\ UNCHANGED tx

RunFails == at = "running" /\ \E call \in {"run", "columns"} : Fail(call)

-----------------------------------------------------------------------------
(***************************************************************************)
(* rowCollector.add                                                        *)
(***************************************************************************)

\* The entities of a row, wherever its values hold them, that are not in the graph yet (rowEntities).
Claimed(row) == row.entities \ seen

\* Mutant: a node that is already in the graph costs nothing.
NewEntitiesOnly(row) ==
  row.cells + IF row.entities \subseteq seen THEN 0 ELSE GraphSize(Claimed(row), row.entities)

\* The bytes a row adds to the result.  (By then all of it is text, so encoding cannot fail.)
RowSize(row) ==
  row.cells + IF row.entities = {} THEN 0 ELSE GraphSize(Claimed(row), row.entities)

Fits(row) == Len(rows) < MaxRows /\ bytesUsed + RowSize(row) <= MaxBytes

\* Mutant: the entities of a row are not remembered.
KeepUnseen(row) ==
  /\ rows' = Append(rows, row)
  /\ drawn' = Append(drawn, Claimed(row))
  /\ bytesUsed' = bytesUsed + RowSize(row)
  /\ UNCHANGED <<seen, truncated>>

Keep(row) ==
  /\ rows' = Append(rows, row)
  /\ drawn' = Append(drawn, Claimed(row))
  /\ seen' = seen \cup row.entities
  /\ bytesUsed' = bytesUsed + RowSize(row)
  /\ UNCHANGED truncated

\* Mutant: the rows end at the limit without a word.
CutSilently == UNCHANGED collector

Cut ==
  /\ truncated' = TRUE
  /\ UNCHANGED <<rows, drawn, seen, bytesUsed>>

\* Mutant: a row whose graph does not fit is kept without it.
ReadRowHalf(row) ==
  /\ at = "reading"
  /\ Len(stream) < MaxStream
  /\ stream' = Append(stream, row)
  /\ IF Fits(row)
       THEN Keep(row) /\ UNCHANGED at
       ELSE /\ rows' = Append(rows, [row EXCEPT !.entities = {}])
            /\ drawn' = Append(drawn, {})
            /\ truncated' = TRUE
            /\ at' = "read"
            /\ UNCHANGED <<seen, bytesUsed>>
  /\ UNCHANGED <<outside, tx, finished, errors, ends>>

\* result.Next returns a row, which can have been fetched before; the first that does not fit ends
\* the loop.
ReadRow(row) ==
  /\ at = "reading"
  /\ Len(stream) < MaxStream
  /\ stream' = Append(stream, row)
  /\ IF Fits(row) THEN Keep(row) /\ UNCHANGED at ELSE Cut /\ at' = "read"
  /\ UNCHANGED <<outside, tx, finished, errors, ends>>

ReadLast == Proceed("reading", "read") /\ UNCHANGED tx

ReadFails == at = "reading" /\ Fail("read")

-----------------------------------------------------------------------------
(***************************************************************************)
(* The end of the transaction.                                             *)
(***************************************************************************)

\* A call that ends the transaction succeeds.  (One that failed before may have ended it already.)
Ended(as) ==
  /\ tx' = IF tx = "open" THEN as ELSE tx
  /\ ends' = Append(ends, TRUE)
  /\ UNCHANGED <<outside, errors, collector, stream>>

\* It fails, with or without effect.
EndUnknown(as, call) ==
  /\ tx' \in {tx, IF tx = "open" THEN as ELSE tx}
  /\ ends' = Append(ends, FALSE)
  /\ errors' = errors \cup {call}
  /\ UNCHANGED <<outside, finished, collector, stream>>

\* The query of a truncated result is rolled back.
Cancel ==
  /\ at = "read" /\ truncated
  /\ at' = "returning"
  /\ \/ Cleaned /\ Ended("rolledback") /\ finished' = TRUE
     \/ EndUnknown("rolledback", "cancel")

Consume == at = "read" /\ ~ truncated /\ Answered /\ Proceed("read", "classifying") /\ UNCHANGED tx

ConsumeFails == at = "read" /\ ~ truncated /\ Fail("consume")

\* Mutant: the classification is not looked at.
ClassifyAny == Proceed("classifying", "committing") /\ UNCHANGED tx

Classify ==
  IF readOnly
    THEN Proceed("classifying", "committing") /\ UNCHANGED tx
    ELSE at = "classifying" /\ Fail("classify")

\* Mutant: a commit that succeeded is not recorded.
CommitUnrecorded ==
  /\ at = "committing"
  /\ at' = "returning"
  /\ \/ Answered /\ Ended("committed") /\ UNCHANGED finished
     \/ EndUnknown("committed", "commit")

Commit ==
  /\ at = "committing"
  /\ at' = "returning"
  /\ \/ Answered /\ Ended("committed") /\ finished' = TRUE
     \/ EndUnknown("committed", "commit")

\* The deferred rollback
Rollback ==
  /\ at = "returning"
  /\ at' = "closing"
  /\ IF finished
       THEN UNCHANGED <<outside, tx, finished, errors, collector, stream, ends>>
       ELSE \/ Cleaned /\ Ended("rolledback") /\ UNCHANGED finished
            \/ EndUnknown("rolledback", "rollback")

\* The deferred closing of the session, which ends a transaction that is still open.
Close ==
  /\ at = "closing"
  /\ at' = "returned"
  /\ \/ /\ Cleaned
        /\ tx' = IF tx = "open" THEN "rolledback" ELSE tx
        /\ UNCHANGED errors
     \/ /\ ~ Cleaned
        /\ tx' \in {tx, IF tx = "open" THEN "rolledback" ELSE tx}
        /\ errors' = errors \cup {"close"}
  /\ UNCHANGED <<outside, finished, collector, stream, ends>>

-----------------------------------------------------------------------------
Expire ==
  /\ ~ expired
  /\ expired' = TRUE
  /\ UNCHANGED <<at, lost, readOnly, tx, finished, errors, collector, stream, ends>>

\* The connection is lost.  The database ends an open transaction when it notices.
Lose ==
  /\ ~ lost
  /\ lost' = TRUE
  /\ tx' \in {tx, IF tx = "open" THEN "rolledback" ELSE tx}
  /\ UNCHANGED <<at, expired, readOnly, finished, errors, collector, stream, ends>>

Next ==
  \/ Begin \/ BeginFails
  \/ Run \/ RunFails
  \/ \E row \in Row : ReadRow(row)
  \/ ReadLast \/ ReadFails
  \/ Cancel
  \/ Consume \/ ConsumeFails
  \/ Classify
  \/ Commit
  \/ Rollback
  \/ Close
  \/ at # "returned" /\ (Expire \/ Lose)

Spec == Init /\ [][Next]_vars

-----------------------------------------------------------------------------
(***************************************************************************)
(* Properties.                                                             *)
(***************************************************************************)

\* The types of the variables.
TypeOK ==
  /\ at \in {"beginning", "running", "reading", "read", "classifying", "committing",
             "returning", "closing", "returned"}
  /\ expired \in BOOLEAN /\ lost \in BOOLEAN /\ readOnly \in BOOLEAN
  /\ tx \in {"none", "open", "committed", "rolledback"}
  /\ finished \in BOOLEAN
  /\ errors \subseteq {"begin", "run", "columns", "read", "cancel", "consume", "classify",
                       "commit", "rollback", "close"}
  /\ rows \in Seq(Row) /\ drawn \in Seq(SUBSET Entity) /\ seen \subseteq Entity
  /\ bytesUsed \in Nat /\ truncated \in BOOLEAN
  /\ stream \in Seq(Row)
  /\ ends \in Seq(BOOLEAN)

\* A row is kept with the graph entities it introduces or not at all: the rows are the first the
\* database returned, and the graph is what they hold, each entity drawn once.
RowsWhole ==
  /\ Len(rows) <= Len(stream) /\ Len(drawn) = Len(rows)
  /\ \A i \in 1 .. Len(rows) : rows[i] = stream[i]
  /\ seen = UNION {rows[i].entities : i \in 1 .. Len(rows)}
  /\ seen = UNION {drawn[i] : i \in 1 .. Len(drawn)}
  /\ \A i, j \in 1 .. Len(drawn) : i # j => drawn[i] \cap drawn[j] = {}

\* What Execute returns, encoded again, keeps to the limits of a result, also when rows share the
\* entities of the graph.
WithinLimits ==
  LET Encoded(i) == rows[i].cells + IF rows[i].entities = {}
                                      THEN 0 ELSE GraphSize(drawn[i], rows[i].entities)
  IN  /\ Len(rows) <= MaxRows
      /\ FoldFunction(+, 0, [i \in 1 .. Len(rows) |-> Encoded(i)]) <= MaxBytes

\* The caller who sees no error has everything: all rows of a query that only reads and that was
\* committed, or the rows up to the limit, marked as truncated, of one that was rolled back.
CleanMeansComplete ==
  at = "returned" /\ errors = {} =>
    IF truncated THEN tx = "rolledback" /\ Len(rows) < Len(stream)
                 ELSE tx = "committed" /\ readOnly /\ rows = stream

\* Whatever a query turns out to do, it is committed only after all of it was read and the database
\* called it read-only.
OnlyReadsCommit == tx = "committed" => readOnly /\ ~ truncated /\ rows = stream

\* A transaction that is known to have ended is not ended again, which the driver would report as
\* a failure of the query.
EndedOnce == \A i \in 1 .. Len(ends) : ends[i] => i = Len(ends)

\* Execute leaves no transaction open behind it, neither when the deadline of the query has passed
\* nor when a call to end the transaction failed, as long as there is a connection.
NothingLeftOpen == at = "returned" /\ ~ lost => tx # "open"

=============================================================================
