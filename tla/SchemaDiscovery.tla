-------------------------- MODULE SchemaDiscovery --------------------------
(***************************************************************************)
(* Reading the schema from Neo4j                                           *)
(* (query-workspace/internal/queryengine/schema.go): Discover runs three   *)
(* procedures in one managed read transaction and puts their rows together *)
(* to one text.                                                            *)
(*                                                                         *)
(* The driver (external) is told not to run the transaction again when it  *)
(* fails (neo4j.go, MaxTransactionRetryTime).  Every call of it heeds the  *)
(* context of the discovery, except the closing of the session, which has  *)
(* its own.  Rows are told apart by their size, by whether they decode,    *)
(* and by the lines they add to the text; a line that several rows add     *)
(* appears once.                                                           *)
(***************************************************************************)
EXTENDS Integers, SequencesExt

CONSTANTS
  MetadataRow,   \* the rows procedures return
  MaxMetadata,   \* limit of the bytes read, 8 * schema.MaxBytes
  MaxLines       \* limit of the text, schema.MaxBytes

ASSUME MetadataAssumption ==
  \A row \in MetadataRow : row.size \in Nat /\ row.valid \in BOOLEAN /\ IsFiniteSet(row.lines)
ASSUME MetadataLimits == MaxMetadata \in Nat /\ MaxLines \in Nat

VARIABLES
  phase,       \* what Discover does next
  procedure,   \* the procedure that is run or read
  collected,   \* nodes, relationships and patterns: the lines by procedure
  bytesRead,   \* the size of the rows read
  expired,     \* the context of the discovery is over
  failed,      \* Discover returns an error
  text,        \* the text Discover returns
  sent,        \* the rows that reached Discover, with their procedure
  drained      \* the procedures whose rows came to their end

discovery == <<phase, procedure, collected, bytesRead, expired, failed, text, sent, drained>>

\* Node properties, relationship properties, visualization.
Procedure == 1 .. 3
Nothing == [p \in Procedure |-> {}]
Line == UNION {row.lines : row \in MetadataRow}

-----------------------------------------------------------------------------
DiscoveryInit ==
  /\ phase = "none" /\ procedure = 1
  /\ collected = Nothing /\ bytesRead = 0
  /\ expired = FALSE /\ failed = FALSE /\ text = Nothing
  /\ sent = <<>> /\ drained = {}

\* Discover opens a session and starts the transaction.  Its context may be over already.
Discover(over) ==
  /\ phase = "none"
  /\ phase' = "running" /\ procedure' = 1
  /\ collected' = Nothing /\ bytesRead' = 0
  /\ expired' = over
  /\ failed' = FALSE /\ text' = Nothing
  /\ sent' = <<>> /\ drained' = {}

\* readNativeSchema returns an error, and so does ExecuteRead.
DiscoveryFails ==
  /\ phase' = "closing"
  /\ failed' = TRUE
  /\ UNCHANGED <<procedure, collected, bytesRead, expired, text, sent, drained>>

RunProcedure ==
  /\ phase = "running"
  /\ ~ expired
  /\ phase' = "reading"
  /\ UNCHANGED <<procedure, collected, bytesRead, expired, failed, text, sent, drained>>

RunProcedureFails == phase = "running" /\ DiscoveryFails

\* Mutant: the limit is checked before the row is counted.
WithinBefore(row) == bytesRead < MaxMetadata

Within(row) == bytesRead + row.size <= MaxMetadata

\* A row that decodes, within the limit for all three procedures.
ReadMetadata(row) ==
  /\ phase = "reading"
  /\ ~ expired
  /\ row.valid /\ Within(row)
  /\ bytesRead' = bytesRead + row.size
  /\ collected' = [collected EXCEPT ![procedure] = @ \cup row.lines]
  /\ sent' = Append(sent, [procedure |-> procedure, row |-> row])
  /\ UNCHANGED <<phase, procedure, expired, failed, text, drained>>

RefuseMetadata(row) ==
  /\ phase = "reading"
  /\ expired \/ ~ row.valid \/ ~ Within(row)
  /\ DiscoveryFails

\* The text has a line for each that was collected, and node labels at least.
Composes ==
  /\ collected[1] # {}
  /\ Cardinality(collected[1]) + Cardinality(collected[2]) + Cardinality(collected[3]) <= MaxLines

\* The rows of a procedure end: the next one, or the text.
ReadToEnd ==
  /\ phase = "reading"
  /\ drained' = drained \cup {procedure}
  /\ IF procedure < 3 THEN phase' = "running" /\ procedure' = procedure + 1
                      ELSE phase' = "composing" /\ UNCHANGED procedure
  /\ UNCHANGED <<collected, bytesRead, expired, failed, text, sent>>

\* Mutant: rows that break off have come to their end.
ReadBreaksOffUnnoticed ==
  /\ phase = "reading"
  /\ IF procedure < 3 THEN phase' = "running" /\ procedure' = procedure + 1
                      ELSE phase' = "composing" /\ UNCHANGED procedure
  /\ UNCHANGED <<collected, bytesRead, expired, failed, text, sent, drained>>

\* rows.Err: the rows break off, also when the context ends.
ReadBreaksOff == phase = "reading" /\ DiscoveryFails

Compose ==
  /\ phase = "composing"
  /\ ~ expired
  /\ Composes
  /\ phase' = "closing"
  /\ text' = collected
  /\ UNCHANGED <<procedure, collected, bytesRead, expired, failed, sent, drained>>

\* There is no usable text, or the driver cannot commit.
ComposeFails == phase = "composing" /\ DiscoveryFails

\* The deferred Close: that it fails is an error of Discover, too.
CloseSession ==
  /\ phase = "closing"
  /\ phase' = "returned"
  /\ failed' \in {failed, TRUE}
  /\ UNCHANGED <<procedure, collected, bytesRead, expired, text, sent, drained>>

\* The context of the discovery ends: two minutes are over, or the process shuts down.
DiscoveryExpires ==
  /\ phase \notin {"none", "returned"}
  /\ ~ expired
  /\ expired' = TRUE
  /\ UNCHANGED <<phase, procedure, collected, bytesRead, failed, text, sent, drained>>

\* The caller takes the text or the error, and the local variables are gone.
Returned(usable) ==
  /\ phase = "returned"
  /\ failed = ~ usable
  /\ phase' = "none" /\ procedure' = 1
  /\ collected' = Nothing /\ bytesRead' = 0 /\ expired' = FALSE /\ failed' = FALSE

\* What Discover does until it closes its session.
Reads ==
  \/ RunProcedure \/ RunProcedureFails
  \/ \E row \in MetadataRow : ReadMetadata(row) \/ RefuseMetadata(row)
  \/ ReadToEnd \/ ReadBreaksOff
  \/ Compose \/ ComposeFails

-----------------------------------------------------------------------------
(***************************************************************************)
(* Properties.                                                             *)
(***************************************************************************)

\* The types of the variables.
DiscoveryTypeOK ==
  /\ phase \in {"none", "running", "reading", "composing", "closing", "returned"}
  /\ procedure \in Procedure
  /\ collected \in [Procedure -> SUBSET Line]
  /\ bytesRead \in 0 .. MaxMetadata
  /\ expired \in BOOLEAN
  /\ failed \in BOOLEAN
  /\ text \in [Procedure -> SUBSET Line]
  /\ sent \in Seq([procedure : Procedure, row : MetadataRow])
  /\ drained \subseteq Procedure

\* A text is exactly what the rows of the three procedures said, read to the end of each,
\* every row understood, within the limits.
Whole(t) ==
  /\ drained = Procedure
  /\ \A p \in Procedure : t[p] = UNION {s.row.lines : s \in {i \in ToSet(sent) : i.procedure = p}}
  /\ \A s \in ToSet(sent) : s.row.valid
  /\ FoldSeq(LAMBDA s, sum : s.row.size + sum, 0, sent) <= MaxMetadata
  /\ t[1] # {}

=============================================================================
