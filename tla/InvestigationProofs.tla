------------------------ MODULE InvestigationProofs ------------------------
(***************************************************************************)
(* Proofs about a question from the form to its page, for any number of    *)
(* questions under way, all rows and all limits.                           *)
(*                                                                         *)
(* First one execution of a query by itself: what is kept of the result,   *)
(* and how its transaction ends.  Then the generations, and what they hand *)
(* to the execution: put together, the parts still behave as they do       *)
(* alone, so that what is proved of an execution holds of the one behind a *)
(* page.  Last the graph that page draws.                                  *)
(***************************************************************************)
EXTENDS Investigation, FoldProofs

-----------------------------------------------------------------------------
(***************************************************************************)
(* The execution of a query.                                               *)
(*                                                                         *)
(* The argument has three layers.  TypeOK is inductive by itself.  The     *)
(* collector (Collected) relates the rows and the graph to the rows that   *)
(* were read, whatever becomes of the transaction.  The protocol           *)
(* (Protocol) says at each point of Execute what is known of the           *)
(* transaction; it rests on the other two.                                 *)
(***************************************************************************)

\* Before the end of the transaction Execute has seen no failure and made no call to end it.
Working == {"running", "reading", "read", "classifying", "committing"}

\* Exactly the row that did not fit was read and not kept.
Collected ==
  /\ RowsWhole
  /\ Len(stream) = Len(rows) + IF truncated THEN 1 ELSE 0
  /\ truncated => at \in {"read", "returning", "closing", "returned"}

\* What Execute knows of the transaction: nothing has ended it while it works, unless the
\* connection is lost; afterwards the recorded success says how it ended, and every other way out
\* is reported.
Protocol ==
  /\ at = "beginning" => tx = "none"
  /\ at \in Working => tx \in {"open", "rolledback"} /\ (~ lost => tx = "open")
  /\ at \in Working \cup {"beginning"} => ends = <<>> /\ errors = {} /\ ~ finished
  /\ at \in {"classifying", "committing"} => ~ truncated
  /\ at = "committing" => readOnly
  /\ tx = "committed" => readOnly /\ ~ truncated
  /\ at = "returning" => Len(ends) <= 1
  /\ at = "returning" /\ ~ finished => \A i \in 1 .. Len(ends) : ~ ends[i]
  /\ at = "returning" => errors # {} \/ finished
  /\ at \in {"returning", "closing", "returned"} /\ errors = {} =>
       tx = IF truncated THEN "rolledback" ELSE "committed"
  /\ EndedOnce
  /\ NothingLeftOpen

IInv == TypeOK /\ Collected /\ Protocol

-----------------------------------------------------------------------------
\* The size of a row is a number.
LEMMA RowSizes ==
  ASSUME TypeOK, NEW row \in Row
  PROVE  RowSize(row) \in Nat
<1> DEFINE new == row.entities \ seen
<1>1. row \in [cells : Nat, entities : SUBSET Entity]
  BY RowAssumption
<1>2. row.cells \in Nat /\ new \in SUBSET Entity
  BY <1>1
<1>3. GraphSize(new, row.entities) \in Nat
  BY <1>2, RowAssumption
<1> HIDE DEF new
<1>4. (IF row.entities = {} THEN 0 ELSE GraphSize(new, row.entities)) \in Nat
  BY <1>3
<1>5. RowSize(row) = row.cells + IF row.entities = {} THEN 0 ELSE GraphSize(new, row.entities)
  BY DEF RowSize, Claimed, new
<1> QED
  BY <1>2, <1>4, <1>5

\* A sequence with one more element.
LEMMA Longer ==
  ASSUME NEW S, NEW s \in Seq(S), NEW e \in S
  PROVE  /\ Append(s, e) \in Seq(S)
         /\ Len(Append(s, e)) = Len(s) + 1
         /\ \A i \in 1 .. Len(s) : Append(s, e)[i] = s[i]
         /\ Append(s, e)[Len(s) + 1] = e
         /\ 1 .. Len(Append(s, e)) = 1 .. Len(s) \cup {Len(s) + 1}
<1>1. Len(s) \in Nat
  BY LenProperties
<1> QED
  BY <1>1, AppendProperties

\* A call to end the transaction keeps the types, whatever comes of it.
LEMMA EndTypes ==
  ASSUME TypeOK, NEW as \in {"committed", "rolledback"},
         NEW call \in {"cancel", "commit", "rollback"},
         \/ Ended(as) /\ finished' \in BOOLEAN
         \/ EndUnknown(as, call),
         at' \in {"returning", "closing"}
  PROVE  TypeOK'
<1>1. ends' \in Seq(BOOLEAN)
  <2>1. PICK heard \in BOOLEAN : ends' = Append(ends, heard)
    BY DEF Ended, EndUnknown
  <2>2. ends \in Seq(BOOLEAN)
    BY DEF TypeOK
  <2> QED
    BY <2>1, <2>2, Longer
<1>2. UNCHANGED <<outside, collector, stream>> /\ finished' \in BOOLEAN
  BY DEF Ended, EndUnknown, TypeOK
<1>3. tx' \in {"none", "open", "committed", "rolledback"}
  BY DEF Ended, EndUnknown, TypeOK
<1>4. errors' \subseteq errors \cup {call}
  BY DEF Ended, EndUnknown
<1> QED
  BY <1>1, <1>2, <1>3, <1>4 DEF TypeOK, outside, collector

\* The types of the variables are kept by every step.
LEMMA TypeStep == TypeOK /\ [Next]_vars => TypeOK'
<1> SUFFICES ASSUME TypeOK, [Next]_vars PROVE TypeOK'
  OBVIOUS
<1> USE DEF TypeOK, outside, collector
<1>1. CASE Begin
  BY <1>1 DEF Begin, Proceed
<1>2. CASE BeginFails
  BY <1>2 DEF BeginFails
<1>3. CASE Run
  BY <1>3 DEF Run, Proceed
<1>4. CASE RunFails
  BY <1>4 DEF RunFails, Fail
<1>5. ASSUME NEW row \in Row, ReadRow(row) PROVE TypeOK'
  <2>1. stream' \in Seq(Row) /\ UNCHANGED <<outside, tx, finished, errors, ends>>
    <3>1. stream' = Append(stream, row) /\ UNCHANGED <<outside, tx, finished, errors, ends>>
      BY <1>5 DEF ReadRow
    <3> QED
      BY <3>1, Longer
  <2>2. CASE Fits(row)
    <3>1. rows' \in Seq(Row)
      <4>1. rows' = Append(rows, row)
        BY <1>5, <2>2 DEF ReadRow, Keep, Claimed
      <4> QED
        BY <4>1, Longer
    <3>2. row.entities \subseteq Entity
      BY RowAssumption
    <3>3. drawn' \in Seq(SUBSET Entity) /\ seen' \subseteq Entity
      <4>1. row.entities \ seen \in SUBSET Entity
        BY <3>2
      <4>2. drawn' = Append(drawn, row.entities \ seen) /\ seen' = seen \cup row.entities
        BY <1>5, <2>2 DEF ReadRow, Keep, Claimed
      <4> QED
        BY <3>2, <4>1, <4>2, Longer
    <3>4. bytesUsed' \in Nat
      <4>1. bytesUsed' = bytesUsed + RowSize(row)
        BY <1>5, <2>2 DEF ReadRow, Keep, Claimed
      <4> QED
        BY <4>1, RowSizes
    <3>5. truncated' = truncated /\ at' = at
      BY <1>5, <2>2 DEF ReadRow, Keep, Claimed
    <3> QED
      BY <2>1, <3>1, <3>3, <3>4, <3>5
  <2>3. CASE ~ Fits(row)
    BY <1>5, <2>1, <2>3 DEF ReadRow, Cut
  <2> QED
    BY <2>2, <2>3
<1>6. CASE ReadLast
  BY <1>6 DEF ReadLast, Proceed
<1>7. CASE ReadFails
  BY <1>7 DEF ReadFails, Fail
<1>8. CASE Cancel
  BY <1>8, EndTypes DEF Cancel
<1>9. CASE Consume
  BY <1>9 DEF Consume, Proceed
<1>10. CASE ConsumeFails
  BY <1>10 DEF ConsumeFails, Fail
<1>11. CASE Classify
  BY <1>11 DEF Classify, Proceed, Fail
<1>12. CASE Commit
  BY <1>12, EndTypes DEF Commit
<1>13. CASE Rollback
  <2>1. CASE finished
    BY <1>13, <2>1 DEF Rollback
  <2>2. CASE ~ finished
    BY <1>13, <2>2, EndTypes DEF Rollback
  <2> QED
    BY <2>1, <2>2
<1>14. CASE Close
  BY <1>14 DEF Close
<1>15. CASE Expire
  BY <1>15 DEF Expire
<1>16. CASE Lose
  BY <1>16 DEF Lose
<1>17. CASE UNCHANGED vars
  BY <1>17 DEF vars
<1> QED
  BY <1>1, <1>2, <1>3, <1>4, <1>5, <1>6, <1>7, <1>8, <1>9, <1>10, <1>11, <1>12, <1>13, <1>14,
     <1>15, <1>16, <1>17 DEF Next

-----------------------------------------------------------------------------
\* A kept row and what it draws keep the rows whole.
LEMMA KeepStep ==
  ASSUME TypeOK, Collected, NEW row \in Row, ReadRow(row), Fits(row)
  PROVE  Collected'
<1>1. /\ stream' = Append(stream, row) /\ rows' = Append(rows, row)
      /\ drawn' = Append(drawn, row.entities \ seen)
      /\ seen' = seen \cup row.entities
      /\ truncated' = truncated /\ at' = at /\ at = "reading"
  BY DEF ReadRow, Keep, Claimed
<1>2. ~ truncated
  BY <1>1 DEF Collected
<1>3. /\ rows \in Seq(Row) /\ stream \in Seq(Row) /\ drawn \in Seq(SUBSET Entity)
      /\ row.entities \ seen \in SUBSET Entity
      /\ Len(rows) \in Nat /\ Len(stream) \in Nat /\ Len(drawn) \in Nat
  BY RowAssumption, LenProperties DEF TypeOK
<1>4. Len(rows) = Len(stream) /\ Len(drawn) = Len(rows)
  BY <1>2, <1>3 DEF Collected, RowsWhole
<1> DEFINE k == Len(rows)
<1>5. /\ Len(stream') = k + 1 /\ Len(rows') = k + 1 /\ Len(drawn') = k + 1
      /\ \A i \in 1 .. k : stream'[i] = stream[i] /\ rows'[i] = rows[i] /\ drawn'[i] = drawn[i]
      /\ stream'[k + 1] = row /\ rows'[k + 1] = row /\ drawn'[k + 1] = row.entities \ seen
  <2>1. Len(stream') = k + 1 /\ (\A i \in 1 .. k : stream'[i] = stream[i]) /\ stream'[k + 1] = row
    BY <1>1, <1>3, <1>4, Longer
  <2>2. Len(rows') = k + 1 /\ (\A i \in 1 .. k : rows'[i] = rows[i]) /\ rows'[k + 1] = row
    BY <1>1, <1>3, <1>4, Longer
  <2>3. /\ Len(drawn') = k + 1 /\ (\A i \in 1 .. k : drawn'[i] = drawn[i])
        /\ drawn'[k + 1] = row.entities \ seen
    BY <1>1, <1>3, <1>4, Longer
  <2> QED
    BY <2>1, <2>2, <2>3
<1>6. k \in Nat /\ 1 .. k + 1 = 1 .. k \cup {k + 1} /\ k + 1 \notin 1 .. k
  BY <1>3
<1>7. /\ \A i \in 1 .. k : rows[i] = stream[i]
      /\ seen = UNION {rows[i].entities : i \in 1 .. k}
      /\ seen = UNION {drawn[i] : i \in 1 .. k}
      /\ \A i, j \in 1 .. k : i # j => drawn[i] \cap drawn[j] = {}
  BY <1>4 DEF Collected, RowsWhole
<1> HIDE DEF k
<1>8. \A i \in 1 .. k + 1 : rows'[i] = stream'[i]
  BY <1>5, <1>6, <1>7
<1>9. seen' = UNION {rows'[i].entities : i \in 1 .. k + 1}
  <2>1. UNION {rows'[i].entities : i \in 1 .. k + 1}
          = (UNION {rows'[i].entities : i \in 1 .. k}) \cup rows'[k + 1].entities
    BY <1>6
  <2>2. {rows'[i].entities : i \in 1 .. k} = {rows[i].entities : i \in 1 .. k}
    BY <1>5
  <2> QED
    BY <1>1, <1>5, <1>7, <2>1, <2>2
<1>10. seen' = UNION {drawn'[i] : i \in 1 .. k + 1}
  <2>1. UNION {drawn'[i] : i \in 1 .. k + 1}
          = (UNION {drawn'[i] : i \in 1 .. k}) \cup drawn'[k + 1]
    BY <1>6
  <2>2. {drawn'[i] : i \in 1 .. k} = {drawn[i] : i \in 1 .. k}
    BY <1>5
  <2> QED
    BY <1>1, <1>5, <1>7, <2>1, <2>2
<1>11. \A i, j \in 1 .. k + 1 : i # j => drawn'[i] \cap drawn'[j] = {}
  <2>1. \A i \in 1 .. k : drawn[i] \cap (row.entities \ seen) = {}
    BY <1>7
  <2> SUFFICES ASSUME NEW i \in 1 .. k + 1, NEW j \in 1 .. k + 1, i # j
               PROVE  drawn'[i] \cap drawn'[j] = {}
    OBVIOUS
  <2>2. CASE i \in 1 .. k /\ j \in 1 .. k
    BY <1>5, <1>7, <2>2
  <2>3. CASE i \in 1 .. k /\ j = k + 1
    BY <1>5, <2>1, <2>3
  <2>4. CASE i = k + 1 /\ j \in 1 .. k
    BY <1>5, <2>1, <2>4
  <2> QED
    BY <1>6, <2>2, <2>3, <2>4
<1>12. RowsWhole'
  BY <1>5, <1>6, <1>8, <1>9, <1>10, <1>11 DEF RowsWhole
<1> QED
  BY <1>1, <1>2, <1>5, <1>6, <1>12 DEF Collected

\* Reading a row is the only step that concerns the rows.
LEMMA CollectedStep == TypeOK /\ Collected /\ [Next]_vars => Collected'
<1> SUFFICES ASSUME TypeOK, Collected, [Next]_vars PROVE Collected'
  OBVIOUS
<1>1. ASSUME NEW row \in Row, ReadRow(row) PROVE Collected'
  <2>1. CASE Fits(row)
    BY <1>1, <2>1, KeepStep
  <2>2. CASE ~ Fits(row)
    <3>1. /\ stream' = Append(stream, row) /\ UNCHANGED <<rows, drawn, seen>>
          /\ truncated' = TRUE /\ at' = "read" /\ at = "reading"
      BY <1>1, <2>2 DEF ReadRow, Cut
    <3>2. Len(rows) = Len(stream) /\ Len(rows) \in Nat
      BY <3>1, LenProperties DEF Collected, TypeOK
    <3>3. Len(stream') = Len(stream) + 1 /\ \A i \in 1 .. Len(stream) : stream'[i] = stream[i]
      <4>1. stream \in Seq(Row)
        BY DEF TypeOK
      <4> QED
        BY <3>1, <4>1, Longer
    <3>4. RowsWhole'
      <4>1. \A i \in 1 .. Len(rows) : rows[i] = stream'[i]
        BY <3>2, <3>3 DEF Collected, RowsWhole
      <4>2. Len(rows') <= Len(stream')
        BY <3>1, <3>2, <3>3
      <4>3. /\ Len(drawn) = Len(rows)
            /\ seen = UNION {rows[i].entities : i \in 1 .. Len(rows)}
            /\ seen = UNION {drawn[i] : i \in 1 .. Len(drawn)}
            /\ \A i, j \in 1 .. Len(drawn) : i # j => drawn[i] \cap drawn[j] = {}
        BY DEF Collected, RowsWhole
      <4> QED
        BY <3>1, <4>1, <4>2, <4>3 DEF RowsWhole
    <3>5. Len(stream') = Len(rows') + IF truncated' THEN 1 ELSE 0
      BY <3>1, <3>2, <3>3
    <3> QED
      BY <3>1, <3>4, <3>5 DEF Collected
  <2> QED
    BY <2>1, <2>2
<1>2. ASSUME UNCHANGED <<collector, stream>>,
             truncated => at' \in {"read", "returning", "closing", "returned"}
      PROVE  Collected'
  BY <1>2 DEF Collected, RowsWhole, collector
<1>3. CASE Begin \/ BeginFails \/ Run \/ RunFails
  BY <1>2, <1>3 DEF Begin, BeginFails, Run, RunFails, Proceed, Fail, Collected
<1>4. CASE ReadLast \/ ReadFails
  BY <1>2, <1>4 DEF ReadLast, ReadFails, Proceed, Fail, Collected
<1>5. CASE Cancel \/ Commit \/ Rollback
  BY <1>2, <1>5 DEF Cancel, Commit, Rollback, Ended, EndUnknown, Collected
<1>6. CASE Consume \/ ConsumeFails \/ Classify
  BY <1>2, <1>6 DEF Consume, ConsumeFails, Classify, Proceed, Fail, Collected
<1>7. CASE Close \/ Expire \/ Lose
  BY <1>2, <1>7 DEF Close, Expire, Lose, Collected
<1>8. CASE UNCHANGED vars
  BY <1>2, <1>8 DEF vars, collector, Collected
<1> QED
  BY <1>1, <1>3, <1>4, <1>5, <1>6, <1>7, <1>8 DEF Next

-----------------------------------------------------------------------------
\* The calls to end the transaction are recorded in order.
LEMMA Recorded ==
  ASSUME NEW s \in Seq(BOOLEAN), NEW heard \in BOOLEAN,
         \A i \in 1 .. Len(s) : ~ s[i],
         Len(s) <= 1
  PROVE  /\ Append(s, heard) # <<>>
         /\ \A i \in 1 .. Len(Append(s, heard)) :
              Append(s, heard)[i] => heard /\ i = Len(Append(s, heard))
         /\ s = <<>> => Len(Append(s, heard)) <= 1
<1>1. Len(s) \in Nat
  BY LenProperties
<1> QED
  BY <1>1, Longer

\* What is known of the transaction is kept by every step.
LEMMA ProtocolStep == IInv /\ [Next]_vars => Protocol'
<1> SUFFICES ASSUME TypeOK, Collected, Protocol, [Next]_vars PROVE Protocol'
  BY DEF IInv
<1> USE DEF Working, EndedOnce, NothingLeftOpen, outside, collector
<1>1. CASE Begin
  BY <1>1 DEF Protocol, Begin, Proceed, Answered
<1>2. CASE BeginFails
  BY <1>2 DEF Protocol, BeginFails
<1>3. CASE Run
  BY <1>3 DEF Protocol, Run, Proceed
<1>4. ASSUME NEW call, at \in Working, Fail(call) PROVE Protocol'
  <2>1. errors' # {} /\ at' = "returning" /\ UNCHANGED <<lost, readOnly, tx, finished, truncated, ends>>
    BY <1>4 DEF Fail
  <2>2. ends = <<>> /\ ~ finished /\ tx \in {"open", "rolledback"}
    BY <1>4 DEF Protocol
  <2> QED
    BY <2>1, <2>2 DEF Protocol
<1>5. CASE RunFails \/ ReadFails \/ ConsumeFails
  BY <1>4, <1>5 DEF RunFails, ReadFails, ConsumeFails
<1>6. CASE ReadLast
  BY <1>6 DEF Protocol, ReadLast, Proceed
<1>7. ASSUME NEW row \in Row, ReadRow(row) PROVE Protocol'
  <2>1. /\ at = "reading" /\ at' \in {"reading", "read"}
        /\ UNCHANGED <<lost, readOnly, tx, finished, errors, ends>>
    BY <1>7 DEF ReadRow
  <2> QED
    BY <2>1 DEF Protocol
<1>8. CASE Consume
  BY <1>8 DEF Protocol, Consume, Proceed
<1>9. CASE Classify
  <2>1. CASE readOnly
    BY <1>9, <2>1 DEF Protocol, Classify, Proceed
  <2>2. CASE ~ readOnly
    BY <1>4, <1>9, <2>2 DEF Classify
  <2> QED
    BY <2>1, <2>2
<1>10. CASE Cancel
  <2>1. /\ at = "read" /\ truncated /\ at' = "returning"
        /\ ends = <<>> /\ errors = {} /\ ~ finished /\ tx \in {"open", "rolledback"}
    BY <1>10 DEF Cancel, Protocol
  <2>2. CASE Cleaned /\ Ended("rolledback") /\ finished' = TRUE
    <3>1. tx' = "rolledback" /\ errors' = errors /\ UNCHANGED <<truncated, readOnly, lost>>
      BY <2>1, <2>2 DEF Cleaned, Ended, Protocol
    <3>2. Len(ends') = 1 /\ ends' = Append(<<>>, TRUE)
      BY <2>1, <2>2 DEF Ended
    <3> QED
      BY <2>1, <2>2, <3>1, <3>2 DEF Protocol
  <2>3. CASE EndUnknown("rolledback", "cancel")
    <3>1. tx' \in {"open", "rolledback"} /\ errors' # {} /\ UNCHANGED <<truncated, readOnly, lost, finished>>
      BY <2>1, <2>3 DEF EndUnknown
    <3>2. Len(ends') = 1 /\ ends' = Append(<<>>, FALSE)
      BY <2>1, <2>3 DEF EndUnknown
    <3> QED
      BY <2>1, <3>1, <3>2 DEF Protocol
  <2> QED
    BY <1>10, <2>2, <2>3 DEF Cancel
<1>11. CASE Commit
  <2>1. /\ at = "committing" /\ ~ truncated /\ readOnly /\ at' = "returning"
        /\ ends = <<>> /\ errors = {} /\ ~ finished /\ tx \in {"open", "rolledback"}
    BY <1>11 DEF Commit, Protocol
  <2>2. CASE Answered /\ Ended("committed") /\ finished' = TRUE
    <3>1. tx' = "committed" /\ errors' = errors /\ UNCHANGED <<truncated, readOnly, lost>>
      BY <2>1, <2>2 DEF Answered, Ended, Protocol
    <3>2. Len(ends') = 1 /\ ends' = Append(<<>>, TRUE)
      BY <2>1, <2>2 DEF Ended
    <3> QED
      BY <2>1, <2>2, <3>1, <3>2 DEF Protocol
  <2>3. CASE EndUnknown("committed", "commit")
    <3>1. errors' # {} /\ UNCHANGED <<truncated, readOnly, lost, finished>>
      BY <2>1, <2>3 DEF EndUnknown
    <3>2. Len(ends') = 1 /\ ends' = Append(<<>>, FALSE)
      BY <2>1, <2>3 DEF EndUnknown
    <3> QED
      BY <2>1, <3>1, <3>2 DEF Protocol
  <2> QED
    BY <1>11, <2>2, <2>3 DEF Commit
<1>12. CASE Rollback
  <2>1. at = "returning" /\ at' = "closing"
    BY <1>12 DEF Rollback
  <2>2. CASE finished
    BY <1>12, <2>1, <2>2 DEF Rollback, Protocol
  <2>3. ASSUME ~ finished, NEW heard \in BOOLEAN, ends' = Append(ends, heard)
        PROVE  EndedOnce'
    <3>1. Len(ends) <= 1 /\ ends \in Seq(BOOLEAN) /\ \A i \in 1 .. Len(ends) : ~ ends[i]
      BY <2>1, <2>3 DEF Protocol, TypeOK
    <3> QED
      BY <2>3, <3>1, Recorded
  <2>4. CASE ~ finished
    <3>1. \/ Ended("rolledback")
          \/ EndUnknown("rolledback", "rollback")
      BY <1>12, <2>4 DEF Rollback
    <3>2. EndedOnce'
      BY <2>3, <2>4, <3>1 DEF Ended, EndUnknown
    <3>3. errors # {} /\ errors \subseteq errors'
      BY <2>1, <2>4, <3>1 DEF Protocol, Ended, EndUnknown
    <3>4. tx' = tx \/ tx' = "rolledback"
      BY <3>1 DEF Ended, EndUnknown
    <3>5. errors' # {} /\ UNCHANGED <<truncated, readOnly, lost>>
      BY <3>1, <3>3 DEF Ended, EndUnknown
    <3> QED
      BY <2>1, <3>2, <3>4, <3>5 DEF Protocol
  <2> QED
    BY <2>2, <2>4
<1>13. CASE Close
  BY <1>13 DEF Protocol, Close, Cleaned
<1>14. CASE at # "returned" /\ Expire
  BY <1>14 DEF Protocol, Expire
<1>15. CASE at # "returned" /\ Lose
  BY <1>15 DEF Protocol, Lose
<1>16. CASE UNCHANGED vars
  BY <1>16 DEF Protocol, vars
<1> QED
  BY <1>1, <1>2, <1>3, <1>5, <1>6, <1>7, <1>8, <1>9, <1>10, <1>11, <1>12, <1>13, <1>14, <1>15, <1>16
  DEF Next

-----------------------------------------------------------------------------
\* The initial states satisfy the invariant.
LEMMA InitIInv == Init => IInv
<1> SUFFICES ASSUME Init PROVE IInv
  OBVIOUS
<1>1. Len(<<>>) = 0 /\ 1 .. 0 = {}
  OBVIOUS
<1>2. TypeOK
  <2>1. /\ <<>> \in Seq(Row) /\ <<>> \in Seq(SUBSET Entity) /\ <<>> \in Seq(BOOLEAN)
        /\ {} \subseteq Entity
    OBVIOUS
  <2> QED
    BY <2>1 DEF Init, TypeOK
<1>3. RowsWhole
  BY <1>1 DEF Init, RowsWhole
<1>4. Collected
  BY <1>1, <1>3 DEF Init, Collected
<1>5. Protocol
  BY <1>1 DEF Init, Protocol, Working, EndedOnce, NothingLeftOpen
<1> QED
  BY <1>2, <1>4, <1>5 DEF IInv

\* The invariant holds throughout an execution.
THEOREM Invariance == Spec => []IInv
<1>1. IInv /\ [Next]_vars => IInv'
  BY TypeStep, CollectedStep, ProtocolStep DEF IInv
<1> QED
  BY InitIInv, <1>1, PTL DEF Spec

\* The variables keep their types (neo4j.go Execute, rowCollector).
THEOREM TypeCorrect == Spec => []TypeOK
<1>1. IInv => TypeOK
  BY DEF IInv
<1> QED
  BY Invariance, <1>1, PTL

\* A row is kept with the graph entities it introduces, each drawn once, or not at all (neo4j.go
\* rowCollector.add).
THEOREM KeepsRowsWhole == Spec => []RowsWhole
<1>1. IInv => RowsWhole
  BY DEF IInv, Collected
<1> QED
  BY Invariance, <1>1, PTL

\* Without truncation the rows kept are the rows that were read.
LEMMA NothingDropped ==
  ASSUME TypeOK, Collected, ~ truncated
  PROVE  rows = stream
<1>1. rows \in Seq(Row) /\ stream \in Seq(Row) /\ Len(rows) = Len(stream)
  BY LenProperties DEF TypeOK, Collected
<1>2. \A i \in 1 .. Len(rows) : rows[i] = stream[i]
  BY DEF Collected, RowsWhole
<1> QED
  BY <1>1, <1>2, SeqEqual

\* A query is committed only after all of it was read and classified as read-only (neo4j.go Execute,
\* the order of Consume, the classification and Commit).
THEOREM CommitsOnlyReads == Spec => []OnlyReadsCommit
<1>1. IInv => OnlyReadsCommit
  BY NothingDropped DEF IInv, Protocol, OnlyReadsCommit
<1> QED
  BY Invariance, <1>1, PTL

\* The caller who sees no error has the complete result, or the rows up to the limit of a query that
\* was rolled back (neo4j.go Execute, its returns and deferred functions).
THEOREM CleanIsComplete == Spec => []CleanMeansComplete
<1>1. IInv => CleanMeansComplete
  <2> SUFFICES ASSUME IInv, at = "returned", errors = {}
               PROVE  IF truncated THEN tx = "rolledback" /\ Len(rows) < Len(stream)
                                   ELSE tx = "committed" /\ readOnly /\ rows = stream
    BY DEF CleanMeansComplete
  <2>1. tx = IF truncated THEN "rolledback" ELSE "committed"
    BY DEF IInv, Protocol
  <2>2. CASE truncated
    <3>1. Len(stream) = Len(rows) + 1 /\ Len(rows) \in Nat
      BY <2>2, LenProperties DEF IInv, Collected, TypeOK
    <3> QED
      BY <2>1, <2>2, <3>1
  <2>3. CASE ~ truncated
    BY <2>1, <2>3, NothingDropped DEF IInv, Protocol
  <2> QED
    BY <2>2, <2>3
<1> QED
  BY Invariance, <1>1, PTL

\* A transaction that is known to have ended is not ended again (neo4j.go Execute, finished).
THEOREM EndsOnce == Spec => []EndedOnce
<1>1. IInv => EndedOnce
  BY DEF IInv, Protocol
<1> QED
  BY Invariance, <1>1, PTL

\* With a connection no transaction stays open, also after the deadline or a failed rollback
\* (neo4j.go Execute, the deferred functions and their own contexts).
THEOREM LeavesNothingOpen == Spec => []NothingLeftOpen
<1>1. IInv => NothingLeftOpen
  BY DEF IInv, Protocol
<1> QED
  BY Invariance, <1>1, PTL

-----------------------------------------------------------------------------
(***************************************************************************)
(* The limits.  The bytes used are the sum of what the rows add, each with *)
(* the entities it drew when it was kept: that a later row may hold the    *)
(* same entities changes nothing about it.                                 *)
(***************************************************************************)

\* What row i of the result adds to it.
Encoding(i) == rows[i].cells + IF rows[i].entities = {}
                                 THEN 0 ELSE GraphSize(drawn[i], rows[i].entities)

Encodings == [i \in 1 .. Len(rows) |-> Encoding(i)]

Counted ==
  /\ bytesUsed = Total(Encodings, 1 .. Len(rows))
  /\ bytesUsed <= MaxBytes
  /\ Len(rows) <= MaxRows

LEMMA EncodingSizes == IInv => Weighs(Encodings, 1 .. Len(rows))
<1> SUFFICES ASSUME IInv, NEW i \in 1 .. Len(rows) PROVE Encoding(i) \in Nat
  BY DEF Weighs, Encodings
<1>1. rows[i] \in Row /\ drawn[i] \in SUBSET Entity
  BY DEF IInv, TypeOK, Collected, RowsWhole
<1>2. rows[i].cells \in Nat /\ GraphSize(drawn[i], rows[i].entities) \in Nat
  BY <1>1, RowAssumption
<1> HIDE DEF IInv
<1> QED BY <1>2 DEF Encoding

LEMMA CountedKeep ==
  ASSUME IInv, IInv', Counted, NEW row \in Row, Fits(row), Keep(row)
  PROVE  Counted'
<1> DEFINE n == Len(rows)
<1>1. /\ rows \in Seq(Row) /\ drawn \in Seq(SUBSET Entity) /\ n \in Nat /\ Len(drawn) = n
  BY DEF IInv, TypeOK, Collected, RowsWhole
<1>2. /\ rows' = Append(rows, row) /\ drawn' = Append(drawn, Claimed(row))
      /\ bytesUsed' = bytesUsed + RowSize(row)
  BY DEF Keep
<1>3. Claimed(row) \in SUBSET Entity
  BY RowAssumption DEF Claimed
<1>4. /\ Len(rows') = n + 1 /\ rows'[n + 1] = row /\ drawn'[n + 1] = Claimed(row)
      /\ \A i \in 1 .. n : rows'[i] = rows[i] /\ drawn'[i] = drawn[i]
  BY <1>1, <1>2, <1>3, Longer
<1>5. Encodings'[n + 1] = RowSize(row)
  BY <1>1, <1>4 DEF Encodings, Encoding, RowSize
<1>6. \A i \in 1 .. n : Encodings'[i] = Encodings[i]
  BY <1>1, <1>4 DEF Encodings, Encoding
<1>7. Weighs(Encodings', 1 .. (n + 1))
  <2>1. Weighs(Encodings, 1 .. Len(rows))'
    BY EncodingSizes, PTL
  <2> QED BY <1>4, <2>1
<1>8. Total(Encodings', 1 .. (n + 1)) = Total(Encodings, 1 .. n) + Encodings'[n + 1]
  BY <1>1, <1>6, <1>7, TotalAppend
<1>9. bytesUsed' = Total(Encodings', 1 .. Len(rows'))
  BY <1>2, <1>4, <1>5, <1>8 DEF Counted
<1>10. bytesUsed' <= MaxBytes /\ Len(rows') <= MaxRows
  BY <1>1, <1>2, <1>4, LimitAssumption DEF Fits
<1> QED BY <1>9, <1>10 DEF Counted

LEMMA CountedStep == IInv /\ IInv' /\ Counted /\ [Next]_vars => Counted'
<1> SUFFICES ASSUME IInv, IInv', Counted, [Next]_vars PROVE Counted'
  OBVIOUS
<1>1. ASSUME UNCHANGED collector PROVE Counted'
  BY <1>1 DEF Counted, Encodings, Encoding, collector
<1>2. ASSUME NEW row \in Row, ReadRow(row) PROVE Counted'
  BY <1>1, <1>2, CountedKeep DEF ReadRow, Cut, Counted, Encodings, Encoding
<1>3. CASE Begin \/ BeginFails \/ Run \/ RunFails \/ ReadLast \/ ReadFails
  BY <1>1, <1>3 DEF Begin, BeginFails, Run, RunFails, ReadLast, ReadFails, Proceed, Fail
<1>4. CASE Cancel \/ Commit \/ Rollback
  BY <1>1, <1>4 DEF Cancel, Commit, Rollback, Ended, EndUnknown
<1>5. CASE Consume \/ ConsumeFails \/ Classify
  BY <1>1, <1>5 DEF Consume, ConsumeFails, Classify, Proceed, Fail
<1>6. CASE Close \/ Expire \/ Lose
  BY <1>1, <1>6 DEF Close, Expire, Lose
<1>7. CASE UNCHANGED vars
  BY <1>1, <1>7 DEF vars, collector
<1> QED BY <1>2, <1>3, <1>4, <1>5, <1>6, <1>7 DEF Next

\* What Execute returns, encoded again, keeps to the configured numbers of rows and bytes.
THEOREM StaysWithinLimits == Spec => []WithinLimits
<1>1. Init => Counted
  <2> SUFFICES ASSUME Init PROVE Counted
    OBVIOUS
  <2>1. rows = <<>> /\ bytesUsed = 0 /\ Len(rows) = 0 /\ 1 .. Len(rows) = {}
    BY DEF Init
  <2> QED BY <2>1, LimitAssumption, TotalEmpty DEF Counted
<1>2. Counted => WithinLimits
  <2>1. WithinLimits = (Len(rows) <= MaxRows /\ FoldFunction(+, 0, Encodings) <= MaxBytes)
    BY DEF WithinLimits, Encodings, Encoding
  <2>2. FoldFunction(+, 0, Encodings) = Total(Encodings, DOMAIN Encodings)
    BY FoldedSum
  <2>3. DOMAIN Encodings = 1 .. Len(rows)
    BY DEF Encodings
  <2> QED BY <2>1, <2>2, <2>3 DEF Counted
<1> QED BY Invariance, <1>1, <1>2, CountedStep, PTL DEF Spec

-----------------------------------------------------------------------------
(***************************************************************************)
(* The generations, and what is handed to the execution.                   *)
(*                                                                         *)
(* An investigation implements Generation's specification and              *)
(* QueryExecutor's.  What the two say to each other is in Handed.          *)
(***************************************************************************)

\* The client and its mutex.
Shared ==
  /\ client \in {NoClient, 1}
  /\ \A r \in Request : step[r] = "creating" <=> holder = r
  /\ \A r \in Request : step[r] = "creating" => client = NoClient
  /\ OneClient

\* What is returned with success is what is a success.
Honest == \A r \in Request : outcome[r] = "success" => OutcomeOf(answer[r]) = "success"

GInv == GenerationTypeOK /\ Shared /\ Honest

-----------------------------------------------------------------------------
(***************************************************************************)
(* Generation.                                                             *)
(***************************************************************************)
LEMMA OutcomeTypes == \A a \in Answer : OutcomeOf(a) \in Outcome
<1> SUFFICES ASSUME NEW a \in Answer PROVE OutcomeOf(a) \in Outcome
  OBVIOUS
<1>1. a.kind = "response" => ResponseOutcome(a) \in Outcome
  BY DEF ResponseOutcome, Outcome
<1>2. a.kind = "api" => ApiOutcome(a.code) \in Outcome
  BY DEF ApiOutcome, Outcome
<1> QED BY <1>1, <1>2 DEF OutcomeOf, Outcome

LEMMA InitGInv == GenerationInit => GInv
BY NobodyAssumption
   DEF GenerationInit, GInv, GenerationTypeOK, Shared, Honest, OneClient, NoClient, Answer, NoAnswer,
       Outcome

\* Only the last step of a Generate has an answer; the other ways out are errors.
LEMMA ReturnTypes ==
  ASSUME GInv, NEW r \in Request, NEW a \in Answer, ModelReturns(r),
         GenerationReturns(r, "calling", OutcomeOf(a)),
         answer' = [answer EXCEPT ![r] = IF OutcomeOf(a) = "success" THEN a ELSE NoAnswer]
  PROVE  GInv'
<1>1. OutcomeOf(a) \in Outcome
  BY OutcomeTypes
<1>2. answer' \in [Request -> Answer]
  BY DEF GInv, GenerationTypeOK, Answer
<1>3. GenerationTypeOK'
  BY <1>1, <1>2 DEF GInv, GenerationTypeOK, GenerationReturns, Goto, ModelReturns, NoClient
<1>4. Shared'
  BY DEF GInv, GenerationTypeOK, Shared, OneClient, GenerationReturns, Goto, ModelReturns, NoClient
<1>5. Honest'
  BY <1>1 DEF GInv, GenerationTypeOK, Honest, GenerationReturns
<1> QED BY <1>3, <1>4, <1>5 DEF GInv

LEMMA GenerationStep == GInv /\ [GenerationNext]_generation => GInv'
<1> SUFFICES ASSUME GInv, [GenerationNext]_generation PROVE GInv'
  OBVIOUS
<1> USE DEF GInv
<1>1. ASSUME NEW r \in Request, StartGeneration(r) \/ SnapshotRead(r)
      PROVE  GInv'
  <2>1. GenerationTypeOK'
    BY <1>1 DEF GenerationTypeOK, StartGeneration, SnapshotRead, Goto
  <2>2. Shared' /\ Honest'
    BY <1>1 DEF GenerationTypeOK, Shared, OneClient, Honest, StartGeneration, SnapshotRead, Goto
  <2> QED BY <2>1, <2>2
<1>2. ASSUME NEW r \in Request, SnapshotNotRead(r)
      PROVE  GInv'
  <2>1. GenerationTypeOK'
    BY <1>2 DEF GenerationTypeOK, SnapshotNotRead, GenerationReturns, Goto, Outcome, NoClient
  <2>2. Shared' /\ Honest'
    BY <1>2 DEF GenerationTypeOK, Shared, OneClient, Honest, SnapshotNotRead, GenerationReturns, Goto,
                NoClient
  <2> QED BY <2>1, <2>2
<1>3. ASSUME NEW r \in Request, GetClient(r)
      PROVE  GInv'
  <2>1. GenerationTypeOK'
    BY <1>3 DEF GenerationTypeOK, GetClient, Goto
  <2>2. Shared'
    BY <1>3, NobodyAssumption DEF GenerationTypeOK, Shared, OneClient, GetClient, Goto, NoClient
  <2>3. Honest'
    BY <1>3 DEF Honest, GetClient
  <2> QED BY <2>1, <2>2, <2>3
<1>4. ASSUME NEW r \in Request, ClientCreated(r)
      PROVE  GInv'
  <2>1. client = 0 /\ client' = 1
    BY <1>4 DEF Shared, ClientCreated, Goto, NoClient
  <2>2. GenerationTypeOK'
    BY <1>4, <2>1 DEF GenerationTypeOK, ClientCreated, Goto
  <2>3. Shared'
    BY <1>4, <2>1, NobodyAssumption DEF GenerationTypeOK, Shared, OneClient, ClientCreated, Goto, NoClient
  <2>4. Honest'
    BY <1>4 DEF Honest, ClientCreated
  <2> QED BY <2>2, <2>3, <2>4
<1>5. ASSUME NEW r \in Request, ClientFails(r)
      PROVE  GInv'
  <2>1. GenerationTypeOK'
    BY <1>5 DEF GenerationTypeOK, ClientFails, GenerationReturns, Goto, Outcome, NoClient
  <2>2. Shared'
    BY <1>5, NobodyAssumption
       DEF GenerationTypeOK, Shared, OneClient, ClientFails, GenerationReturns, Goto, NoClient
  <2>3. Honest'
    BY <1>5 DEF GenerationTypeOK, Honest, ClientFails, GenerationReturns
  <2> QED BY <2>1, <2>2, <2>3
<1>6. ASSUME NEW r \in Request, ModelReturns(r)
      PROVE  GInv'
  <2>1. PICK a \in {Broken} \cup
                   IF over[r] = "no" THEN Response \cup ApiError ELSE {GivenUp(over[r])} :
          /\ GenerationReturns(r, "calling", OutcomeOf(a))
          /\ answer' = [answer EXCEPT ![r] = IF OutcomeOf(a) = "success" THEN a ELSE NoAnswer]
    BY <1>6 DEF ModelReturns
  <2>2. over[r] \in {"no", "deadline", "canceled"}
    BY DEF GenerationTypeOK
  <2>3. a \in Answer
    BY <2>2 DEF Answer
  <2> QED BY <1>6, <2>1, <2>3, ReturnTypes
<1>7. ASSUME NEW r \in Request, NEW why \in {"deadline", "canceled"}, ContextEnds(r, why)
      PROVE  GInv'
  <2>1. GenerationTypeOK'
    BY <1>7 DEF GenerationTypeOK, ContextEnds
  <2>2. Shared' /\ Honest'
    BY <1>7 DEF Shared, OneClient, Honest, ContextEnds
  <2> QED BY <2>1, <2>2
<1>8. CASE UNCHANGED generation
  BY <1>8 DEF generation, GenerationTypeOK, Shared, OneClient, Honest
<1> QED BY <1>1, <1>2, <1>3, <1>4, <1>5, <1>6, <1>7, <1>8 DEF GenerationNext, Generate

\* The types of Generation, one client, and no success that is none.
THEOREM GenerationHolds == GenerationSpec => []GInv
BY InitGInv, GenerationStep, PTL DEF GenerationSpec

-----------------------------------------------------------------------------
(***************************************************************************)
(* The parts together.                                                     *)
(***************************************************************************)

\* Nothing is executed before the Cypher was generated and accepted.
Handed ==
  /\ stage \in {"generate", "validate", "execute"}
  /\ stage # "execute" => at = "beginning"
  /\ stage = "generate" => ~ expired
  /\ stage # "generate" => Generated
  /\ stage = "execute" => answer[Followed].text # "forbidden"

\* A question that is answered stays so.
LEMMA GeneratedStays ==
  ASSUME GInv, Generated, GenerationNext
  PROVE  Generated' /\ answer'[Followed] = answer[Followed]
<1> USE FollowedAssumption DEF GInv
<1>1. step[Followed] = "done"
  BY DEF Generated
<1>2. ASSUME NEW r \in Request, StartGeneration(r) \/ Generate(r)
      PROVE  r # Followed
  BY <1>1, <1>2 DEF StartGeneration, Generate, SnapshotRead, SnapshotNotRead, GetClient, ClientCreated,
                    ClientFails, ModelReturns, GenerationReturns, Goto
<1>3. ASSUME NEW r \in Request, r # Followed, StartGeneration(r) \/ Generate(r)
      PROVE  Generated' /\ answer'[Followed] = answer[Followed]
  BY <1>3 DEF GenerationTypeOK, Generated, StartGeneration, Generate, SnapshotRead, SnapshotNotRead,
              GetClient, ClientCreated, ClientFails, ModelReturns, GenerationReturns, Goto
<1>4. ASSUME NEW r \in Request, NEW why \in {"deadline", "canceled"}, ContextEnds(r, why)
      PROVE  Generated' /\ answer'[Followed] = answer[Followed]
  BY <1>4 DEF Generated, ContextEnds
<1> QED BY <1>2, <1>3, <1>4 DEF GenerationNext

\* A step of an investigation is one of its generations or of its execution.
LEMMA PartSteps ==
  ASSUME Handed, GInv, IInv, [InvestigationNext]_investigation
  PROVE  /\ [GenerationNext]_generation
         /\ [Next]_vars
         /\ Handed'
<1>1. ASSUME NEW r \in Request,
             NEW why \in {"deadline", "canceled"},
             \/ StartGeneration(r) /\ UNCHANGED <<vars, stage>>
             \/ GenerateBeside(r)
             \/ ContextEndsBeside(r, why)
      PROVE  [GenerationNext]_generation /\ [Next]_vars /\ Handed'
  <2>1. GenerationNext /\ UNCHANGED <<vars, stage>>
    BY <1>1 DEF GenerationNext, GenerateBeside, ContextEndsBeside
  <2>2. Generated => Generated' /\ answer'[Followed] = answer[Followed]
    BY <2>1, GeneratedStays
  <2> QED BY <2>1, <2>2 DEF Handed, vars
<1>2. CASE Validate
  <2>1. UNCHANGED generation /\ at' = at /\ at = "beginning" /\ ~ expired
    BY <1>2 DEF Validate, Handed
  <2>2. [GenerationNext]_generation
    BY <2>1
  <2>3. [Next]_vars
    <3>1. CASE over[Followed] = "canceled"
      BY <1>2, <2>1, <3>1 DEF Validate, Expire, Next
    <3>2. CASE over[Followed] # "canceled"
      <4>1. expired' = FALSE /\ expired = FALSE
        BY <1>2, <2>1, <3>2, Zenon DEF Validate, IInv, TypeOK
      <4> QED BY <1>2, <2>1, <4>1 DEF Validate, vars, collector
    <3> QED BY <3>1, <3>2
  <2>4. Generated /\ Generated'
    BY <1>2, <2>1 DEF Validate, Generated, generation
  <2>5. Handed'
    BY <1>2, <2>1, <2>4 DEF Validate, Handed, generation
  <2> QED BY <2>2, <2>3, <2>5
<1>3. CASE Execute
  <2>1. UNCHANGED generation /\ stage' = stage /\ stage = "execute" /\ Next
    BY <1>3 DEF Execute
  <2> QED BY <2>1 DEF Handed, Generated, generation
<1>4. CASE UNCHANGED investigation
  BY <1>4 DEF investigation, generation, vars, Handed, Generated
<1> QED BY <1>1, <1>2, <1>3, <1>4 DEF InvestigationNext

LEMMA InitHanded == InvestigationInit => Handed /\ GInv /\ IInv
<1> SUFFICES ASSUME InvestigationInit PROVE Handed /\ GInv /\ IInv
  OBVIOUS
<1>1. GInv /\ IInv
  BY InitGInv, InitIInv DEF InvestigationInit
<1>2. Handed
  BY DEF InvestigationInit, Init, Handed
<1> QED BY <1>1, <1>2

\* Every step keeps what the parts know, of themselves and of each other.
THEOREM Together == InvestigationSpec => [](Handed /\ GInv /\ IInv)
<1>1. Handed /\ GInv /\ IInv /\ [InvestigationNext]_investigation => (Handed /\ GInv /\ IInv)'
  <2> SUFFICES ASSUME Handed, GInv, IInv, [InvestigationNext]_investigation
               PROVE  Handed' /\ GInv' /\ IInv'
    OBVIOUS
  <2>1. Handed' /\ [GenerationNext]_generation /\ [Next]_vars
    BY PartSteps
  <2>2. GInv'
    BY <2>1, GenerationStep
  <2>3. IInv'
    BY <2>1, TypeStep, CollectedStep, ProtocolStep DEF IInv
  <2> QED BY <2>1, <2>2, <2>3
<1> QED BY InitHanded, <1>1, PTL DEF InvestigationSpec

\* The generations of an investigation are those of Generation, its execution one of QueryExecutor.
THEOREM ImplementsParts == InvestigationSpec => GenerationSpec /\ Spec
<1>1. Handed /\ GInv /\ IInv /\ [InvestigationNext]_investigation =>
        [GenerationNext]_generation /\ [Next]_vars
  BY PartSteps
<1>2. InvestigationInit => GenerationInit /\ Init
  BY DEF InvestigationInit
<1> QED BY Together, <1>1, <1>2, PTL DEF InvestigationSpec, GenerationSpec, Spec

\* The variables keep their types (workspace.go Ask and what it calls).
THEOREM InvestigationTypeCorrect == InvestigationSpec => []InvestigationTypeOK
<1>1. Handed /\ GInv /\ IInv => InvestigationTypeOK
  BY DEF Handed, GInv, IInv, InvestigationTypeOK
<1> QED BY Together, <1>1, PTL

\* However many first questions race, one client is created and used (gemini.go getClient).
THEOREM CreatesOneClient == InvestigationSpec => []OneClient
<1>1. Handed /\ GInv /\ IInv => OneClient
  BY DEF GInv, Shared
<1> QED BY Together, <1>1, PTL

\* Only Cypher the model finished, that decodes and that was accepted reaches the database
\* (gemini.go Generate, workspace.go Ask and validateAndExecute).
THEOREM ExecutesOnlyComplete == InvestigationSpec => []RunsOnlyComplete
<1>1. Handed /\ GInv /\ IInv => RunsOnlyComplete
  <2> SUFFICES ASSUME Handed, GInv, at # "beginning"
               PROVE  LET a == answer[Followed]
                      IN  a.kind = "response" /\ ~ a.blocked /\ a.finish \in {"", "STOP"} /\ a.text = "fit"
    BY DEF RunsOnlyComplete
  <2> DEFINE a == answer[Followed]
  <2>1. a \in Answer /\ a.text # "forbidden" /\ a.text # "long" /\ OutcomeOf(a) = "success"
    BY FollowedAssumption DEF Handed, GInv, GenerationTypeOK, Honest, Generated
  <2>2. a.kind = "response" /\ ResponseOutcome(a) = "success"
    BY <2>1 DEF OutcomeOf, ApiOutcome
  <2>3. a \in Response
    BY <2>1, <2>2 DEF Answer, ApiError, NoAnswer, Broken, GivenUp
  <2>4. ~ a.blocked /\ a.finish \in {"", "STOP"} /\ a.text # "none" /\ a.text # "malformed"
    BY <2>2, <2>3 DEF ResponseOutcome, Response, Finish
  <2>5. a.text \in {"none", "malformed"} \cup Cypher
    BY <2>3 DEF Response
  <2> QED BY <2>1, <2>2, <2>4, <2>5 DEF Cypher
<1> QED BY Together, <1>1, PTL

\* No two of the notices other than the one about the limit are shown.
LEMMA OneNotice == \A S, x : S \subseteq {x} => Cardinality(S) <= 1
<1> SUFFICES ASSUME NEW S, NEW x, S \subseteq {x} PROVE Cardinality(S) <= 1
  OBVIOUS
<1>1. S = {} \/ S = {x}
  OBVIOUS
<1>2. Cardinality({}) = 0 /\ Cardinality({x}) = 1
  BY FS_EmptySet, FS_Singleton
<1>3. Cardinality(S) = 0 \/ Cardinality(S) = 1
  BY <1>1, <1>2, Zenon
<1> QED BY <1>3

\* What the page says of a question that ran, that failed or that did not run is so (view.go
\* investigationView).
THEOREM PageIsHonest == InvestigationSpec => []PageTellsAll
<1>1. Handed /\ GInv /\ IInv /\ CleanMeansComplete => PageTellsAll
  <2> SUFFICES ASSUME Handed, IInv, CleanMeansComplete, Returned
               PROVE  /\ Notices = {} => tx = "committed" /\ readOnly /\ rows = stream /\ rows # <<>>
                      /\ "matched_nothing" \in Notices =>
                           Notices = {"matched_nothing"} /\ stream = <<>> /\ tx = "committed"
                      /\ Notices \cap {"not_generated", "not_executed", "rejected"} # {} => tx = "none"
                      /\ Cardinality(Notices \ {"truncated"}) <= 1
    BY DEF PageTellsAll
  <2>1. CASE stage # "execute"
    <3>1. \E x \in {"not_generated", "not_executed", "rejected"} : Notices = {x}
      BY <2>1 DEF Notices, Handed
    <3>2. tx = "none"
      BY <2>1 DEF Handed, IInv, Protocol
    <3> QED BY <3>1, <3>2, OneNotice
  <2>2. CASE stage = "execute"
    <3> DEFINE only == IF errors = {} THEN "matched_nothing"
                       ELSE IF rows = <<>> THEN "failed" ELSE "partial"
    <3>1. Notices = ExecutionNotices /\ at = "returned"
      BY <2>2 DEF Notices, Returned
    <3>2. Notices \ {"truncated"} \subseteq {only}
      <4>1. CASE errors = {}
        BY <3>1, <4>1 DEF ExecutionNotices
      <4>2. CASE errors # {} /\ rows = <<>>
        BY <3>1, <4>2 DEF ExecutionNotices
      <4>3. CASE errors # {} /\ rows # <<>>
        BY <3>1, <4>3 DEF ExecutionNotices
      <4> QED BY <4>1, <4>2, <4>3
    <3>3. Notices = {} => errors = {} /\ ~ truncated /\ rows # <<>>
      BY <3>1 DEF ExecutionNotices
    <3>4. "matched_nothing" \in Notices => errors = {} /\ ~ truncated /\ rows = <<>>
      BY <3>1 DEF ExecutionNotices
    <3>5. "matched_nothing" \in Notices => Notices = {"matched_nothing"}
      BY <3>1, <3>4 DEF ExecutionNotices
    <3>6. errors = {} /\ ~ truncated => tx = "committed" /\ readOnly /\ rows = stream
      BY <3>1 DEF CleanMeansComplete
    <3>7. Notices \cap {"not_generated", "not_executed", "rejected"} = {}
      BY <3>1 DEF ExecutionNotices
    <3>8. Cardinality(Notices \ {"truncated"}) <= 1
      BY <3>2, OneNotice
    <3> QED BY <3>3, <3>4, <3>5, <3>6, <3>7, <3>8
  <2> QED BY <2>1, <2>2
<1> QED BY Together, ImplementsParts, CleanIsComplete, <1>1, PTL

-----------------------------------------------------------------------------
(***************************************************************************)
(* The graph of the page.                                                  *)
(*                                                                         *)
(* The rows share no entity in what they draw, so the two lists the graph  *)
(* is drawn from hold each entity of the result once, and what is counted  *)
(* along a list is what is counted in the result.                          *)
(***************************************************************************)

\* Each row draws finitely many entities.
DrawsFinitely == \A i \in 1 .. Len(drawn) : IsFiniteSet(drawn[i])

LEMMA DrawsStep == TypeOK /\ DrawsFinitely /\ [Next]_vars => DrawsFinitely'
<1> SUFFICES ASSUME TypeOK, DrawsFinitely, [Next]_vars PROVE DrawsFinitely'
  OBVIOUS
<1>1. ASSUME NEW row \in Row, ReadRow(row), Fits(row) PROVE DrawsFinitely'
  <2> DEFINE e == row.entities \ seen
  <2>1. e \in SUBSET Entity /\ IsFiniteSet(e)
    BY RowAssumption, FS_Subset
  <2>2. drawn' = Append(drawn, e) /\ drawn \in Seq(SUBSET Entity)
    BY <1>1 DEF ReadRow, Keep, Claimed, TypeOK
  <2> HIDE DEF e
  <2>3. /\ 1 .. Len(drawn') = 1 .. Len(drawn) \cup {Len(drawn) + 1}
        /\ \A i \in 1 .. Len(drawn) : drawn'[i] = drawn[i]
        /\ drawn'[Len(drawn) + 1] = e
    BY <2>1, <2>2, Longer
  <2> QED BY <2>1, <2>3 DEF DrawsFinitely
<1>2. ASSUME NEW row \in Row, ReadRow(row), ~ Fits(row) PROVE drawn' = drawn
  BY <1>2 DEF ReadRow, Cut
<1>3. CASE UNCHANGED drawn
  BY <1>3 DEF DrawsFinitely
<1>4. CASE Begin \/ BeginFails \/ Run \/ RunFails \/ ReadLast \/ ReadFails
  BY <1>3, <1>4 DEF Begin, BeginFails, Run, RunFails, ReadLast, ReadFails, Proceed, Fail, collector
<1>5. CASE Cancel \/ Commit \/ Rollback
  BY <1>3, <1>5 DEF Cancel, Commit, Rollback, Ended, EndUnknown, collector
<1>6. CASE Consume \/ ConsumeFails \/ Classify
  BY <1>3, <1>6 DEF Consume, ConsumeFails, Classify, Proceed, Fail, collector
<1>7. CASE Close \/ Expire \/ Lose \/ UNCHANGED vars
  BY <1>3, <1>7 DEF Close, Expire, Lose, vars, collector
<1> QED BY <1>1, <1>2, <1>3, <1>4, <1>5, <1>6, <1>7 DEF Next

LEMMA DrawsAlways == Spec => []DrawsFinitely
<1>1. Init => DrawsFinitely
  BY DEF Init, DrawsFinitely
<1> QED BY <1>1, DrawsStep, TypeCorrect, PTL DEF Spec

\* The entities of a kind are gathered each once.
LEMMA GatheredOnce ==
  ASSUME TypeOK, RowsWhole, DrawsFinitely, NEW kind
  PROVE  /\ Gathered(kind) \in Seq(Entity)
         /\ ToSet(Gathered(kind)) = seen \cap kind
         /\ Distinct(Gathered(kind))
<1> DEFINE k == Len(drawn)
           parts == [i \in DOMAIN drawn |-> SetToSeq(drawn[i] \cap kind)]
<1>1. k \in Nat /\ DOMAIN drawn = 1 .. k /\ \A i \in 1 .. k : drawn[i] \in SUBSET Entity
  BY LenProperties, ElementOfSeq DEF TypeOK
<1>2. ASSUME NEW i \in 1 .. k
      PROVE  /\ parts[i] \in Seq(Entity)
             /\ ToSet(parts[i]) = drawn[i] \cap kind
             /\ Distinct(parts[i])
  <2> DEFINE e == drawn[i] \cap kind
  <2>1. IsFiniteSet(e) /\ e \in SUBSET Entity
    BY <1>1, FS_Intersection DEF DrawsFinitely
  <2>2. parts[i] = SetToSeq(e)
    BY <1>1
  <2> HIDE DEF e, parts
  <2>3. parts[i] \in Seq(e) /\ ToSet(parts[i]) = e /\ Distinct(parts[i])
    BY <2>1, <2>2, AsList
  <2>4. parts[i] \in Seq(Entity)
    BY <2>1, <2>3, SeqMonotonic
  <2> QED BY <2>3, <2>4 DEF e
<1>3. parts \in Seq(Seq(Entity)) /\ Len(parts) = k
  <2>1. parts \in [1 .. k -> Seq(Entity)]
    BY <1>1, <1>2
  <2> HIDE DEF parts
  <2> QED BY SMTT(30), <1>1, <2>1, SeqDef
<1> HIDE DEF parts
<1>4. \A i, j \in 1 .. k : i # j => ToSet(parts[i]) \cap ToSet(parts[j]) = {}
  BY ZenonT(40), <1>2 DEF RowsWhole
<1>5. /\ FlattenSeq(parts) \in Seq(Entity)
      /\ ToSet(FlattenSeq(parts)) = Held(parts, k)
      /\ Distinct(FlattenSeq(parts))
  BY <1>2, <1>3, <1>4, Flattened
<1>6. Held(parts, k) = seen \cap kind
  <2>1. Held(parts, k) = UNION {drawn[i] \cap kind : i \in 1 .. k}
    BY <1>2 DEF Held
  <2>2. seen = UNION {drawn[i] : i \in 1 .. k}
    BY DEF RowsWhole
  <2> QED BY <2>1, <2>2
<1> QED BY <1>5, <1>6 DEF Gathered, parts

\* What a limit leaves of a list.
LEMMA LimitLeaves ==
  ASSUME NEW S, NEW s \in Seq(S), NEW limit \in Nat
  PROVE  /\ ToSet(UpTo(limit, s)) \subseteq ToSet(s)
         /\ ~ (Len(s) > limit) => ToSet(UpTo(limit, s)) = ToSet(s)
<1> DEFINE n == IF Len(s) < limit THEN Len(s) ELSE limit
           t == SubSeq(s, 1, n)
<1>1. n \in Nat /\ Len(s) \in Nat /\ n <= Len(s) /\ (~ (Len(s) > limit) => n = Len(s))
  BY LenProperties
<1>2. \A i \in 1 .. n : s[i] \in S
  BY <1>1, ElementOfSeq
<1> HIDE DEF n
<1>3. /\ t \in Seq(S) /\ Len(t) = n
      /\ \A i \in 1 .. n : t[i] = s[i]
  BY <1>1, <1>2, SubSeqProperties
<1>4. ToSet(t) = {s[i] : i \in 1 .. n} /\ ToSet(s) = {s[i] : i \in 1 .. Len(s)}
  BY <1>3, LenProperties DEF ToSet
<1>5. UpTo(limit, s) = t
  BY DEF UpTo, n
<1> QED BY <1>1, <1>4, <1>5

\* Every relationship that is not drawn is accounted for, whatever was returned.
LEMMA UndrawnAccounted ==
  ASSUME TypeOK, RowsWhole, DrawsFinitely
  PROVE  LET Said(what) == \E n \in GraphNotices : n[1] = what
             undrawn == ToSet(Relationships) \ DrawnEdges
             cut == {r \in undrawn : Ends(r) \subseteq seen}
         IN  /\ \A r \in DrawnEdges : Ends(r) \subseteq ToSet(DrawnNodes)
             /\ ToSet(Nodes) # ToSet(DrawnNodes) => Said("nodes")
             /\ cut # {} => Said("nodes") \/ Said("relationships")
             /\ \/ Said("not_drawable")
                \/ Cardinality(undrawn \ cut) = 0 /\ ~ Said("missing")
                \/ <<"missing", Cardinality(undrawn \ cut)>> \in GraphNotices
<1> DEFINE Said(what) == \E n \in GraphNotices : n[1] = what
           undrawn == ToSet(Relationships) \ DrawnEdges
           cut == {r \in undrawn : Ends(r) \subseteq seen}
           k == Len(Relationships)
           left == {Relationships[i] : i \in Missing}
<1>1. /\ Nodes \in Seq(Entity) /\ ToSet(Nodes) = seen \ Relationship
      /\ Relationships \in Seq(Entity) /\ ToSet(Relationships) = seen \cap Relationship
      /\ Distinct(Relationships)
  <2>1. seen \cap (Entity \ Relationship) = seen \ Relationship
    BY DEF TypeOK
  <2> QED BY <2>1, GatheredOnce DEF Nodes, Relationships
<1>2. /\ Len(Nodes) \in Nat /\ k \in Nat
      /\ DOMAIN Relationships = 1 .. k
      /\ ToSet(Relationships) = {Relationships[i] : i \in 1 .. k}
      /\ Nodes # <<>> => Len(Nodes) # 0
  BY <1>1, LenProperties, EmptySeq DEF ToSet
<1>3. /\ ToSet(DrawnNodes) \subseteq ToSet(Nodes)
      /\ ~ (Len(Nodes) > MaxDrawnNodes) => ToSet(DrawnNodes) = ToSet(Nodes)
  BY <1>1, LimitLeaves, DrawingAssumption DEF DrawnNodes
<1>4. \A r \in ToSet(Relationships) : Ends(r) # {} /\ Ends(r) \subseteq Entity \ Relationship
  BY <1>1, RelationshipAssumption
<1>5. \A r \in ToSet(Relationships) : Ends(r) \subseteq seen <=> Ends(r) \subseteq ToSet(Nodes)
  BY <1>1, <1>4
<1>6. /\ Eligible \subseteq 1 .. k /\ Missing \subseteq 1 .. k
      /\ \A i \in Eligible : Ends(Relationships[i]) \subseteq ToSet(DrawnNodes)
  BY <1>2 DEF Eligible, Missing
<1>7. /\ IsFiniteSet(Eligible) /\ Cardinality(Eligible) \in Nat
      /\ IsFiniteSet(Missing) /\ Cardinality(Missing) \in Nat
      /\ Cardinality(left) = Cardinality(Missing)
  <2>1. ASSUME NEW P \in SUBSET (1 .. k)
        PROVE  /\ IsFiniteSet(P) /\ Cardinality(P) \in Nat
               /\ Cardinality({Relationships[i] : i \in P}) = Cardinality(P)
    <3>0. /\ Relationships \in Seq(Entity) /\ Distinct(Relationships)
          /\ P \in SUBSET (1 .. Len(Relationships))
      BY <1>1
    <3> HIDE DEF k, left, undrawn, cut
    <3>1. IsFiniteSet(P)
      BY <3>0, PlacesCount
    <3>2. Cardinality({Relationships[i] : i \in P}) = Cardinality(P)
      BY <3>0, PlacesCount
    <3> QED BY <3>1, <3>2, FS_CardinalityType
  <2> QED BY <1>6, <2>1
<1>8. \A r \in DrawnEdges : Ends(r) \subseteq ToSet(DrawnNodes)
  BY <1>6 DEF DrawnEdges
<1>9. Nodes # <<>> => /\ Len(Nodes) > MaxDrawnNodes => Said("nodes")
                      /\ Cardinality(Eligible) > MaxDrawnRelationships => Said("relationships")
  <2> SUFFICES ASSUME Nodes # <<>>
               PROVE  /\ Len(Nodes) > MaxDrawnNodes => Said("nodes")
                      /\ Cardinality(Eligible) > MaxDrawnRelationships => Said("relationships")
    OBVIOUS
  <2>1. Len(Nodes) > MaxDrawnNodes => <<"nodes", Len(Nodes)>> \in GraphNotices
    BY DEF GraphNotices
  <2>2. Cardinality(Eligible) > MaxDrawnRelationships =>
          <<"relationships", Cardinality(Eligible)>> \in GraphNotices
    BY DEF GraphNotices
  <2>3. <<"nodes", Len(Nodes)>>[1] = "nodes"
    OBVIOUS
  <2>4. <<"relationships", Cardinality(Eligible)>>[1] = "relationships"
    OBVIOUS
  <2> QED BY <2>1, <2>2, <2>3, <2>4
<1>10. ToSet(Nodes) # {} => Nodes # <<>>
  BY DEF ToSet
<1>11. ToSet(Nodes) # ToSet(DrawnNodes) => Said("nodes")
  BY <1>3, <1>9, <1>10
<1>12. ASSUME NEW r \in cut PROVE Said("nodes") \/ Said("relationships")
  <2>1. /\ r \in ToSet(Relationships) /\ r \notin DrawnEdges
        /\ Ends(r) \subseteq ToSet(Nodes) /\ ToSet(Nodes) # {}
    BY <1>4, <1>5, <1>12
  <2>2. CASE Len(Nodes) > MaxDrawnNodes
    BY <1>9, <1>10, <2>1, <2>2
  <2>3. CASE ~ (Len(Nodes) > MaxDrawnNodes)
    <3>1. PICK i \in 1 .. k : r = Relationships[i]
      BY <1>2, <2>1
    <3>2. i \in Eligible
      BY <1>2, <1>3, <2>1, <2>3, <3>1 DEF Eligible
    <3> DEFINE before == {j \in Eligible : j <= i}
    <3>3. ~ (Cardinality(before) <= MaxDrawnRelationships)
      BY <2>1, <3>1, <3>2 DEF DrawnEdges
    <3>4. Cardinality(before) \in Nat /\ Cardinality(before) <= Cardinality(Eligible)
      <4>1. before \in SUBSET Eligible
        OBVIOUS
      <4> HIDE DEF before
      <4> QED BY <1>7, <4>1, FS_Subset, FS_CardinalityType
    <3> HIDE DEF before
    <3>5. Cardinality(Eligible) > MaxDrawnRelationships
      BY <1>7, <3>3, <3>4, DrawingAssumption
    <3> QED BY <1>9, <1>10, <2>1, <3>5
  <2> QED BY <2>2, <2>3
<1>13. undrawn \ cut = left
  <2>1. ASSUME NEW r \in undrawn \ cut PROVE r \in left
    <3>1. PICK i \in 1 .. k : r = Relationships[i]
      BY <1>2
    <3>2. ~ (Ends(r) \subseteq ToSet(Nodes))
      BY <1>5
    <3> QED BY <1>2, <3>1, <3>2 DEF Missing
  <2>2. ASSUME NEW i \in Missing PROVE Relationships[i] \in undrawn \ cut
    <3>1. /\ Relationships[i] \in ToSet(Relationships)
          /\ ~ (Ends(Relationships[i]) \subseteq ToSet(Nodes))
      BY <1>2, <1>6 DEF Missing
    <3>2. Relationships[i] \notin DrawnEdges
      BY <1>3, <1>8, <3>1
    <3> QED BY <1>5, <3>1, <3>2
  <2> QED BY <2>1, <2>2
<1>14. \/ Said("not_drawable")
       \/ Cardinality(undrawn \ cut) = 0 /\ ~ Said("missing")
       \/ <<"missing", Cardinality(undrawn \ cut)>> \in GraphNotices
  <2> HIDE DEF undrawn, cut, left
  <2>1. CASE Nodes = <<>> /\ Relationships = <<>>
    <3>1. Missing = {}
      BY <2>1 DEF Missing
    <3>2. GraphNotices = {} /\ Cardinality(undrawn \ cut) = 0
      BY <1>7, <1>13, <2>1, <3>1, FS_EmptySet DEF GraphNotices
    <3> QED BY <3>2
  <2>2. CASE Nodes = <<>> /\ Relationships # <<>>
    BY <2>2 DEF GraphNotices
  <2>3. CASE Nodes # <<>> /\ Cardinality(Missing) = 0
    BY <1>7, <1>13, <2>3 DEF GraphNotices
  <2>4. CASE Nodes # <<>> /\ Cardinality(Missing) # 0
    <3>1. <<"missing", Cardinality(Missing)>> \in GraphNotices
      BY <1>7, <2>4 DEF GraphNotices
    <3> QED BY <1>7, <1>13, <3>1
  <2> QED BY <2>1, <2>2, <2>3, <2>4
<1> QED BY <1>8, <1>11, <1>12, <1>14

\* The graph draws a relationship only between nodes it draws, and its notices account for whatever
\* it does not draw, under every limit (graph.go newGraphView).
THEOREM AccountsForGraph == InvestigationSpec => []GraphAccounted
<1>1. TypeOK /\ RowsWhole /\ DrawsFinitely => GraphAccounted
  BY UndrawnAccounted DEF GraphAccounted
<1> QED BY ImplementsParts, TypeCorrect, KeepsRowsWhole, DrawsAlways, <1>1, PTL

=============================================================================
