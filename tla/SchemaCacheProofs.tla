------------------------- MODULE SchemaCacheProofs -------------------------
(***************************************************************************)
(* Proofs about the schema cache: its types, what generation reads only    *)
(* improves, and the status line hides no failure.                         *)
(***************************************************************************)
EXTENDS SchemaCache, TLAPS

Good == [at : Nat, text : Usable]

\* Some row is the latest (rows are finitely many, but this is what the steps keep).
HasLatest(rows) == rows # <<>> => \E i \in 1 .. Len(rows) : IsLatest(rows, i)

\* Only usable texts are saved, also by an insert that lands late.
AllUsable ==
  /\ snapshots \in Seq(Good)
  /\ landing \subseteq Good
  /\ loop \in {"saving", "saved"} => captured \in Good

\* What the loop knows at each point of an attempt.
Underway ==
  /\ loop \in {"loading", "discovering", "saving", "saved"} => begun <= now
  /\ loop \in {"saving", "saved"} => captured.at >= begun
  /\ loop = "saved" => Latest(snapshots).at >= captured.at

\* A clear flag means the last attempt found or made a snapshot of its day.
FlagHonest ==
  ~ refreshFailed /\ ended # Never => Latest(snapshots).at >= Midnight(ended)

\* The same for a flag a request has read, although the loop has moved on since.
FlagReadHonest ==
  status.read = "flag" /\ ~ status.failed /\ status.attempt # Never =>
    Latest(snapshots).at >= Midnight(status.attempt)

IInv ==
  /\ TypeOK
  /\ HasLatest(snapshots)
  /\ AllUsable
  /\ Underway
  /\ FlagHonest
  /\ FlagReadHonest
  /\ NoFailureHidden

-----------------------------------------------------------------------------
\* A midnight is not later than the moments of its day.
LEMMA MidnightBefore ==
  ASSUME NEW t \in 0 .. MaxTime
  PROVE  Midnight(t) \in Nat /\ Midnight(t) <= t
<1>1. PICK m \in Midnights : m <= t /\ \A n \in Midnights : n <= t => n <= m
  BY MidnightAssumption
<1>2. Midnight(t) \in Midnights /\ Midnight(t) <= t
  BY <1>1 DEF Midnight
<1> QED  BY <1>2, MidnightAssumption

\* The next midnight is a moment.
LEMMA NextMidnightType ==
  ASSUME NEW t \in 0 .. MaxTime
  PROVE  NextMidnight(t) \in Nat
<1>1. PICK m \in Midnights : m > t /\ \A n \in Midnights : n > t => n >= m
  BY MidnightAssumption
<1>2. NextMidnight(t) \in Midnights
  BY <1>1 DEF NextMidnight
<1> QED  BY <1>2, MidnightAssumption

\* Rows have times.
LEMMA RowTimes ==
  ASSUME NEW rows \in Seq(Good)
  PROVE  \A j \in 1 .. Len(rows) : rows[j] \in Good /\ rows[j].at \in Nat
<1>1. \A row \in Good : row.at \in Nat
  BY DEF Good
<1>2. \A j \in 1 .. Len(rows) : rows[j] \in Good
  OBVIOUS
<1> QED  BY <1>1, <1>2

\* The latest row of a table that is not empty is one of its rows, and none was captured after it.
LEMMA LatestRow ==
  ASSUME NEW rows \in Seq(Good), HasLatest(rows), rows # <<>>
  PROVE  /\ Latest(rows) \in Good
         /\ \A j \in 1 .. Len(rows) : rows[j].at <= Latest(rows).at
<1> DEFINE i == CHOOSE k \in 1 .. Len(rows) : IsLatest(rows, k)
<1>1. i \in 1 .. Len(rows) /\ IsLatest(rows, i)
  BY DEF HasLatest
<1>2. Latest(rows) = rows[i]
  BY DEF Latest
<1>3. \A j \in 1 .. Len(rows) : rows[j] \in Good /\ rows[j].at \in Nat
  BY RowTimes
<1> HIDE DEF i
<1>4. \A j \in 1 .. Len(rows) : rows[j].at <= rows[i].at
  BY <1>1, <1>3 DEF IsLatest
<1> QED  BY <1>1, <1>2, <1>3, <1>4

\* Latest always has a time.
LEMMA LatestTime ==
  ASSUME NEW rows \in Seq(Good), HasLatest(rows)
  PROVE  Latest(rows).at \in {Never} \cup Nat
<1>1. CASE rows = <<>>
  BY <1>1 DEF Latest, NoSnapshot
<1>2. CASE rows # <<>>
  BY <1>2, LatestRow DEF Good
<1> QED  BY <1>1, <1>2

\* Appending a row keeps a latest row, which is no older than the one before and the one appended.
LEMMA LatestGrows ==
  ASSUME NEW rows \in Seq(Good), HasLatest(rows), NEW row \in Good
  PROVE  /\ HasLatest(Append(rows, row))
         /\ Latest(Append(rows, row)) \in Good
         /\ Latest(Append(rows, row)).at >= Latest(rows).at
         /\ Latest(Append(rows, row)).at >= row.at
<1> DEFINE more == Append(rows, row)
<1>1. /\ more \in Seq(Good)
      /\ more # <<>>
      /\ Len(more) = Len(rows) + 1
      /\ more[Len(rows) + 1] = row
      /\ \A j \in 1 .. Len(rows) : more[j] = rows[j]
      /\ Len(rows) \in Nat
  OBVIOUS
<1>2. \A j \in 1 .. Len(rows) : rows[j].at \in Nat
  BY RowTimes
<1>3. row.at \in Nat
  BY DEF Good
<1>4. HasLatest(more)
  <2>1. CASE rows = <<>>
    <3>1. IsLatest(more, 1)
      BY <1>1, <1>3, <2>1 DEF IsLatest
    <3> QED  BY <1>1, <2>1, <3>1 DEF HasLatest
  <2>2. CASE rows # <<>>
    <3>1. PICK i \in 1 .. Len(rows) : IsLatest(rows, i)
      BY <2>2 DEF HasLatest
    <3>2. CASE row.at >= rows[i].at
      <4>1. \A j \in 1 .. Len(rows) : rows[j].at <= rows[i].at
        BY <1>2, <3>1 DEF IsLatest
      <4>2. \A j \in 1 .. Len(more) :
              more[j].at < row.at \/ (more[j].at = row.at /\ j <= Len(rows) + 1)
        BY <1>1, <1>2, <1>3, <3>2, <4>1
      <4>3. IsLatest(more, Len(rows) + 1)
        BY <1>1, <4>2 DEF IsLatest
      <4> QED  BY <1>1, <4>3 DEF HasLatest
    <3>3. CASE row.at < rows[i].at
      <4>1. \A j \in 1 .. Len(rows) :
              rows[j].at < rows[i].at \/ (rows[j].at = rows[i].at /\ j <= i)
        BY <3>1 DEF IsLatest
      <4>2. \A j \in 1 .. Len(more) : j \in 1 .. Len(rows) \/ j = Len(rows) + 1
        BY <1>1
      <4>3. more[i] = rows[i]
        BY <1>1
      <4>4. \A j \in 1 .. Len(more) :
              more[j].at < more[i].at \/ (more[j].at = more[i].at /\ j <= i)
        BY <1>1, <3>3, <4>1, <4>2, <4>3
      <4>5. i \in 1 .. Len(more)
        BY <1>1
      <4> QED  BY <4>4, <4>5 DEF HasLatest, IsLatest
    <3> QED  BY <1>2, <1>3, <3>2, <3>3
  <2> QED  BY <2>1, <2>2
<1>5. Latest(more) \in Good /\ \A j \in 1 .. Len(more) : more[j].at <= Latest(more).at
  BY <1>1, <1>4, LatestRow
<1>6. Latest(more).at >= row.at
  <2>1. more[Len(rows) + 1].at <= Latest(more).at
    BY <1>1, <1>5
  <2> QED  BY <1>1, <1>3, <1>5, <2>1 DEF Good
<1>7. Latest(more).at >= Latest(rows).at
  <2>1. CASE rows = <<>>
    <3>1. Latest(rows).at = Never
      BY <2>1 DEF Latest, NoSnapshot
    <3>2. Latest(more).at \in Nat
      BY <1>5 DEF Good
    <3> QED  BY <3>1, <3>2 DEF Never
  <2>2. CASE rows # <<>>
    <3>1. \E i \in 1 .. Len(rows) : Latest(rows) = rows[i]
      BY <2>2 DEF Latest, HasLatest
    <3> QED  BY <1>1, <1>2, <1>5, <3>1 DEF Good
  <2> QED  BY <2>1, <2>2
<1> QED  BY <1>4, <1>5, <1>6, <1>7

-----------------------------------------------------------------------------
\* Initially nothing is known and nothing is claimed.
LEMMA InitIInv == Init => IInv
<1> SUFFICES ASSUME Init PROVE IInv
  OBVIOUS
<1>1. TypeOK
  <2>1. now \in 0 .. MaxTime /\ begun \in 0 .. MaxTime
    BY ClockAssumption DEF Init
  <2>2. snapshots \in Seq(Snapshot) /\ landing \subseteq Snapshot
    BY DEF Init
  <2>3. status = Unasked /\ captured = NoSnapshot /\ ended = Never
    BY DEF Init
  <2> QED  BY <2>1, <2>2, <2>3 DEF Init, TypeOK
<1>2. HasLatest(snapshots) /\ AllUsable /\ Underway
  BY DEF Init, HasLatest, AllUsable, Underway
<1>3. FlagHonest /\ FlagReadHonest /\ NoFailureHidden
  BY DEF Init, FlagHonest, FlagReadHonest, NoFailureHidden, Unasked
<1> QED  BY <1>1, <1>2, <1>3 DEF IInv

\* Ending an attempt keeps the invariant, if one that ends well leaves a snapshot of its day.
LEMMA EndKeepsIInv ==
  ASSUME IInv, NEW failed \in BOOLEAN, AttemptEnds(failed),
         ~ failed => Latest(snapshots).at >= Midnight(begun),
         landing' \subseteq Good, UNCHANGED <<now, snapshots, begun, wake, status>>
  PROVE  IInv'
<1>1. TypeOK'
  <2>1. landing' \subseteq Snapshot
    BY TextAssumption DEF Good, Snapshot
  <2> QED  BY <2>1 DEF IInv, TypeOK, AttemptEnds, Forget
<1>2. HasLatest(snapshots)' /\ AllUsable' /\ Underway'
  BY DEF IInv, HasLatest, AllUsable, Underway, AttemptEnds
<1>3. FlagHonest'
  BY DEF FlagHonest, AttemptEnds
<1>4. FlagReadHonest' /\ NoFailureHidden'
  BY DEF IInv, FlagReadHonest, NoFailureHidden
<1> QED  BY <1>1, <1>2, <1>3, <1>4 DEF IInv

\* A row more keeps what flags and status lines promise.
LEMMA AppendKeepsPromises ==
  ASSUME IInv, NEW row \in Good, snapshots' = Append(snapshots, row),
         UNCHANGED <<refreshFailed, ended, status>>
  PROVE  /\ snapshots' \in Seq(Good) /\ snapshots' \in Seq(Snapshot)
         /\ HasLatest(snapshots)' /\ FlagHonest' /\ FlagReadHonest' /\ NoFailureHidden'
         /\ Latest(snapshots').at >= Latest(snapshots).at
         /\ Latest(snapshots').at >= row.at
         /\ Latest(snapshots') \in Good
<1>1. snapshots \in Seq(Good) /\ HasLatest(snapshots)
  BY DEF IInv, AllUsable
<1>2. /\ HasLatest(Append(snapshots, row))
      /\ Latest(Append(snapshots, row)) \in Good
      /\ Latest(Append(snapshots, row)).at >= Latest(snapshots).at
      /\ Latest(Append(snapshots, row)).at >= row.at
  BY <1>1, LatestGrows
<1>3. Latest(snapshots).at \in Int /\ Latest(snapshots').at \in Int
  <2>1. Latest(snapshots).at \in Int
    BY <1>1, LatestTime DEF Never
  <2>2. Latest(snapshots').at \in Int
    BY <1>2 DEF Good
  <2> QED  BY <2>1, <2>2
<1>4. snapshots' \in Seq(Good) /\ snapshots' \in Seq(Snapshot)
  <2>1. row \in Snapshot
    BY TextAssumption DEF Good, Snapshot
  <2>2. snapshots \in Seq(Snapshot)
    BY DEF IInv, TypeOK
  <2> QED  BY <1>1, <2>1, <2>2
<1>5. HasLatest(snapshots)'
  BY <1>2 DEF HasLatest
<1>6. FlagHonest'
  <2>1. SUFFICES ASSUME ~ refreshFailed, ended # Never
                 PROVE  Latest(snapshots').at >= Midnight(ended)
    BY DEF FlagHonest
  <2>2. Midnight(ended) \in Nat
    BY <2>1, MidnightBefore DEF IInv, TypeOK
  <2>3. Latest(snapshots).at >= Midnight(ended)
    BY <2>1 DEF IInv, FlagHonest
  <2> QED  BY <1>2, <1>3, <2>2, <2>3
<1>7. FlagReadHonest'
  <2>1. SUFFICES ASSUME status.read = "flag", ~ status.failed, status.attempt # Never
                 PROVE  Latest(snapshots').at >= Midnight(status.attempt)
    BY DEF FlagReadHonest
  <2>2. status.attempt \in 0 .. MaxTime
    BY <2>1 DEF IInv, TypeOK, Unasked
  <2>3. Midnight(status.attempt) \in Nat
    BY <2>2, MidnightBefore
  <2>4. Latest(snapshots).at >= Midnight(status.attempt)
    BY <2>1 DEF IInv, FlagReadHonest
  <2> QED  BY <1>2, <1>3, <2>3, <2>4
<1>8. NoFailureHidden'
  BY DEF IInv, NoFailureHidden
<1> QED  BY <1>2, <1>4, <1>5, <1>6, <1>7, <1>8

\* Reading the flag and then the snapshot hides no failure.
LEMMA StatusKeepsIInv ==
  ASSUME IInv, Status
  PROVE  IInv'
<1>1. CASE status'.read = "flag"
  <2>1. status' = [read |-> "flag", failed |-> refreshFailed, attempt |-> ended]
    BY <1>1 DEF Status
  <2>2. UNCHANGED <<now, snapshots, landing, loop, begun, captured, deadline, wake,
                    refreshFailed, ended>>
    BY DEF Status
  <2>3. TypeOK'
    BY <2>1, <2>2 DEF IInv, TypeOK
  <2>4. (HasLatest(snapshots) /\ AllUsable /\ Underway /\ FlagHonest)'
    BY <2>2 DEF IInv, HasLatest, AllUsable, Underway, FlagHonest
  <2>5. FlagReadHonest'
    BY <2>1, <2>2 DEF IInv, FlagHonest, FlagReadHonest
  <2>6. NoFailureHidden'
    BY <2>1 DEF NoFailureHidden
  <2> QED  BY <2>3, <2>4, <2>5, <2>6 DEF IInv
<1>2. CASE status'.read # "flag"
  <2>1. /\ status.read = "flag"
        /\ status' = [read |-> "both", failed |-> status.failed,
                      at |-> Latest(snapshots).at, attempt |-> status.attempt]
    BY <1>2 DEF Status
  <2>2. UNCHANGED <<now, snapshots, landing, loop, begun, captured, deadline, wake,
                    refreshFailed, ended>>
    BY DEF Status
  <2>3. TypeOK'
    <3>1. Latest(snapshots).at \in {Never} \cup Nat
      BY LatestTime DEF IInv, AllUsable
    <3>2. status.failed \in BOOLEAN /\ status.attempt \in {Never} \cup 0 .. MaxTime
      BY <2>1 DEF IInv, TypeOK, Unasked
    <3> QED  BY <2>1, <2>2, <3>1, <3>2 DEF IInv, TypeOK
  <2>4. (HasLatest(snapshots) /\ AllUsable /\ Underway /\ FlagHonest)'
    BY <2>2 DEF IInv, HasLatest, AllUsable, Underway, FlagHonest
  <2>5. FlagReadHonest'
    BY <2>1 DEF FlagReadHonest
  <2>6. NoFailureHidden'
    BY <2>1 DEF IInv, FlagReadHonest, NoFailureHidden
  <2> QED  BY <2>3, <2>4, <2>5, <2>6 DEF IInv
<1> QED  BY <1>1, <1>2

\* Every step of the loop keeps the invariant.
LEMMA LoopKeepsIInv ==
  ASSUME IInv, Loop
  PROVE  IInv'
<1> USE DEF IInv
<1>1. CASE Attempt
  <2>1. TypeOK'
    BY <1>1 DEF Attempt, TypeOK
  <2>2. (HasLatest(snapshots) /\ AllUsable /\ Underway)'
    BY <1>1 DEF Attempt, TypeOK, HasLatest, AllUsable, Underway
  <2>3. (FlagHonest /\ FlagReadHonest /\ NoFailureHidden)'
    BY <1>1 DEF Attempt, FlagHonest, FlagReadHonest, NoFailureHidden
  <2> QED  BY <2>1, <2>2, <2>3
<1>2. CASE LoadFails
  <2>1. landing \subseteq Good
    BY DEF AllUsable
  <2> QED  BY <1>2, <2>1, EndKeepsIInv DEF LoadFails
<1>3. CASE NotDue
  <2>1. landing \subseteq Good /\ refreshFailed \in BOOLEAN
    BY DEF AllUsable, TypeOK
  <2> QED  BY <1>3, <2>1, EndKeepsIInv DEF NotDue
<1>4. CASE Due
  <2>1. TypeOK'
    BY <1>4, ClockAssumption DEF Due, TypeOK
  <2>2. (HasLatest(snapshots) /\ AllUsable /\ Underway)'
    BY <1>4 DEF Due, HasLatest, AllUsable, Underway
  <2>3. (FlagHonest /\ FlagReadHonest /\ NoFailureHidden)'
    BY <1>4 DEF Due, FlagHonest, FlagReadHonest, NoFailureHidden
  <2> QED  BY <2>1, <2>2, <2>3
<1>5. CASE Discovered
  <2>1. PICK text \in Usable : captured' = [at |-> now, text |-> text]
    BY <1>5 DEF Discovered
  <2>2. now \in Nat
    BY DEF TypeOK
  <2>3. captured' \in Good /\ captured' \in Snapshot /\ captured'.at = now
    BY <2>1, <2>2, TextAssumption DEF Good, Snapshot
  <2>4. TypeOK'
    BY <1>5, <2>3 DEF Discovered, TypeOK
  <2>5. (HasLatest(snapshots) /\ AllUsable /\ Underway)'
    BY <1>5, <2>3 DEF Discovered, HasLatest, AllUsable, Underway
  <2>6. (FlagHonest /\ FlagReadHonest /\ NoFailureHidden)'
    BY <1>5 DEF Discovered, FlagHonest, FlagReadHonest, NoFailureHidden
  <2> QED  BY <2>4, <2>5, <2>6
<1>6. CASE DiscoveryFails
  <2>1. landing \subseteq Good
    BY DEF AllUsable
  <2> QED  BY <1>6, <2>1, EndKeepsIInv DEF DiscoveryFails
<1>7. CASE Inserted
  <2>1. captured \in Good
    BY <1>7 DEF Inserted, AllUsable
  <2>2. /\ snapshots' \in Seq(Good) /\ snapshots' \in Seq(Snapshot)
        /\ HasLatest(snapshots)' /\ FlagHonest' /\ FlagReadHonest' /\ NoFailureHidden'
        /\ Latest(snapshots').at >= captured.at
    BY <1>7, <2>1, AppendKeepsPromises DEF Inserted
  <2>3. TypeOK'
    BY <1>7, <2>2 DEF Inserted, TypeOK
  <2>4. AllUsable'
    BY <1>7, <2>1, <2>2 DEF Inserted, AllUsable
  <2>5. Underway'
    BY <1>7, <2>2 DEF Inserted, Underway
  <2> QED  BY <2>2, <2>3, <2>4, <2>5
<1>8. CASE Refreshed
  <2>1. landing \subseteq Good /\ captured \in Good
    BY <1>8 DEF Refreshed, AllUsable
  <2>2. Latest(snapshots).at >= captured.at /\ captured.at >= begun
    BY <1>8 DEF Refreshed, Underway
  <2>3. begun \in 0 .. MaxTime
    BY DEF TypeOK
  <2>4. Midnight(begun) \in Nat /\ Midnight(begun) <= begun
    BY <2>3, MidnightBefore
  <2>5. Latest(snapshots).at \in Int
    BY LatestTime DEF AllUsable, Never
  <2>6. captured.at \in Nat
    BY <2>1 DEF Good
  <2>7. Latest(snapshots).at >= Midnight(begun)
    BY <2>2, <2>3, <2>4, <2>5, <2>6
  <2> QED  BY <1>8, <2>1, <2>7, EndKeepsIInv DEF Refreshed
<1>9. CASE SaveFails
  <2>1. landing' \subseteq Good
    BY <1>9 DEF SaveFails, AllUsable
  <2> QED  BY <1>9, <2>1, EndKeepsIInv DEF SaveFails
<1>10. CASE Sleep
  <2>1. wake' \in Nat
    BY <1>10, NextMidnightType DEF Sleep, TypeOK
  <2>2. TypeOK'
    BY <1>10, <2>1 DEF Sleep, TypeOK
  <2>3. (HasLatest(snapshots) /\ AllUsable /\ Underway)'
    BY <1>10 DEF Sleep, HasLatest, AllUsable, Underway
  <2>4. (FlagHonest /\ FlagReadHonest /\ NoFailureHidden)'
    BY <1>10 DEF Sleep, FlagHonest, FlagReadHonest, NoFailureHidden
  <2> QED  BY <2>2, <2>3, <2>4
<1>11. CASE Wake
  <2>1. TypeOK'
    BY <1>11 DEF Wake, TypeOK
  <2>2. (HasLatest(snapshots) /\ AllUsable /\ Underway)'
    BY <1>11 DEF Wake, HasLatest, AllUsable, Underway
  <2>3. (FlagHonest /\ FlagReadHonest /\ NoFailureHidden)'
    BY <1>11 DEF Wake, FlagHonest, FlagReadHonest, NoFailureHidden
  <2> QED  BY <2>1, <2>2, <2>3
<1> QED
  BY <1>1, <1>2, <1>3, <1>4, <1>5, <1>6, <1>7, <1>8, <1>9, <1>10, <1>11 DEF Loop

\* The steps of the world keep the invariant.
LEMMA WorldKeepsIInv ==
  ASSUME IInv, Tick \/ Land \/ Down \/ Start \/ UNCHANGED vars
  PROVE  IInv'
<1> USE DEF IInv
<1>1. CASE Tick
  <2>1. TypeOK'
    BY <1>1, ClockAssumption DEF Tick, TypeOK
  <2>2. (HasLatest(snapshots) /\ AllUsable /\ Underway)'
    BY <1>1 DEF Tick, TypeOK, HasLatest, AllUsable, Underway
  <2>3. (FlagHonest /\ FlagReadHonest /\ NoFailureHidden)'
    BY <1>1 DEF Tick, FlagHonest, FlagReadHonest, NoFailureHidden
  <2> QED  BY <2>1, <2>2, <2>3
<1>2. CASE Land
  <2>1. PICK row \in landing : snapshots' = Append(snapshots, row) /\ landing' = landing \ {row}
    BY <1>2 DEF Land
  <2>2. row \in Good
    BY <2>1 DEF AllUsable
  <2>3. /\ snapshots' \in Seq(Good) /\ snapshots' \in Seq(Snapshot)
        /\ HasLatest(snapshots)' /\ FlagHonest' /\ FlagReadHonest' /\ NoFailureHidden'
        /\ Latest(snapshots').at >= Latest(snapshots).at
        /\ Latest(snapshots') \in Good
    BY <1>2, <2>1, <2>2, AppendKeepsPromises DEF Land
  <2>4. TypeOK'
    BY <1>2, <2>1, <2>3 DEF Land, TypeOK
  <2>5. AllUsable'
    BY <1>2, <2>1, <2>3 DEF Land, AllUsable
  <2>6. Underway'
    <3>1. Latest(snapshots).at \in Int /\ Latest(snapshots').at \in Int
      <4>1. Latest(snapshots).at \in Int
        BY LatestTime DEF AllUsable, Never
      <4>2. Latest(snapshots').at \in Int
        BY <2>3 DEF Good
      <4> QED  BY <4>1, <4>2
    <3>2. loop = "saved" => captured.at \in Int
      BY DEF AllUsable, Good
    <3>3. loop = "saved" => Latest(snapshots').at >= captured.at
      BY <2>3, <3>1, <3>2 DEF Underway
    <3>4. UNCHANGED <<now, loop, begun, captured>>
      BY <1>2 DEF Land
    <3> QED  BY <3>3, <3>4 DEF Underway
  <2> QED  BY <2>3, <2>4, <2>5, <2>6
<1>3. CASE Down
  <2>1. landing' \subseteq Good
    BY <1>3 DEF Down, AllUsable
  <2>2. TypeOK'
    <3>1. landing' \subseteq Snapshot
      BY <2>1, TextAssumption DEF Good, Snapshot
    <3>2. status' = Unasked /\ captured' = NoSnapshot /\ ended' = Never
      BY <1>3 DEF Down, Forget
    <3>3. begun' \in 0 .. MaxTime /\ wake' \in Nat /\ deadline' \in Nat
      BY <1>3, ClockAssumption DEF Down, Forget
    <3>4. loop' = "down" /\ refreshFailed' = FALSE /\ UNCHANGED <<now, snapshots>>
      BY <1>3 DEF Down
    <3> QED  BY <3>1, <3>2, <3>3, <3>4 DEF TypeOK
  <2>3. (HasLatest(snapshots) /\ AllUsable /\ Underway)'
    BY <1>3, <2>1 DEF Down, HasLatest, AllUsable, Underway
  <2>4. (FlagHonest /\ FlagReadHonest /\ NoFailureHidden)'
    BY <1>3 DEF Down, Unasked, FlagHonest, FlagReadHonest, NoFailureHidden
  <2> QED  BY <2>2, <2>3, <2>4
<1>4. CASE Start
  <2>1. TypeOK'
    BY <1>4 DEF Start, TypeOK
  <2>2. (HasLatest(snapshots) /\ AllUsable /\ Underway)'
    BY <1>4 DEF Start, HasLatest, AllUsable, Underway
  <2>3. (FlagHonest /\ FlagReadHonest /\ NoFailureHidden)'
    BY <1>4 DEF Start, FlagHonest, FlagReadHonest, NoFailureHidden
  <2> QED  BY <2>1, <2>2, <2>3
<1>5. CASE UNCHANGED vars
  BY <1>5 DEF vars, TypeOK, HasLatest, AllUsable, Underway, FlagHonest, FlagReadHonest,
              NoFailureHidden
<1> QED  BY <1>1, <1>2, <1>3, <1>4, <1>5

LEMMA StepIInv == IInv /\ [Next]_vars => IInv'
  BY LoopKeepsIInv, StatusKeepsIInv, WorldKeepsIInv DEF Next

-----------------------------------------------------------------------------
\* The invariant holds in every reachable state.
THEOREM Invariance == Spec => []IInv
<1>1. Init => IInv
  BY InitIInv
<1>2. IInv /\ [Next]_vars => IInv'
  BY StepIInv
<1> QED  BY <1>1, <1>2, PTL DEF Spec

\* The variables keep their types, for any time zone, deadline and texts.
THEOREM TypeCorrect == Spec => []TypeOK
<1>1. IInv => TypeOK
  BY DEF IInv
<1> QED  BY <1>1, Invariance, PTL

\* A status line without a failure shows a snapshot of the day of the loop's last attempt or later,
\* however the request's two reads and the loop interleave.
THEOREM StatusHidesNoFailure == Spec => []NoFailureHidden
<1>1. IInv => NoFailureHidden
  BY DEF IInv
<1> QED  BY <1>1, Invariance, PTL

\* What generation reads only improves: only an append changes the table, and of a longer table the
\* row captured last is a usable one that is no older.
THEOREM SnapshotsImprove == Spec => SnapshotOnlyImproves
<1> DEFINE Improves ==
      LET old == Latest(snapshots)
          new == Latest(snapshots')
      IN  old # new => new.at >= old.at /\ new.text \in Usable
<1>1. IInv /\ [Next]_vars => [Improves]_vars
  <2> SUFFICES ASSUME IInv, [Next]_vars
               PROVE  Improves
    OBVIOUS
  <2>1. CASE snapshots' = snapshots
    BY <2>1
  <2>2. CASE snapshots' # snapshots
    <3>1. Inserted \/ Land
      BY <2>2 DEF Next, Loop, Attempt, LoadFails, NotDue, Due, Discovered, DiscoveryFails, Refreshed,
                  SaveFails, Sleep, Wake, Status, Tick, Down, Start, vars
    <3>2. \E row \in Good : snapshots' = Append(snapshots, row)
      BY <3>1 DEF Inserted, Land, IInv, AllUsable
    <3>3. Latest(snapshots').at >= Latest(snapshots).at /\ Latest(snapshots') \in Good
      BY <3>2, LatestGrows DEF IInv, AllUsable
    <3>4. Latest(snapshots').text \in Usable
      BY <3>3 DEF Good
    <3> QED  BY <3>3, <3>4
  <2> QED  BY <2>1, <2>2
<1> QED  BY <1>1, Invariance, PTL DEF Spec, SnapshotOnlyImproves

=============================================================================
