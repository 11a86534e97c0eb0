--------------------------- MODULE LifecycleProofs ---------------------------
(***************************************************************************)
(* Proofs about the process, for every budget, every number of requests    *)
(* and whatever procedures return: no client is closed under its users,    *)
(* and the refresh loop cannot use up the time of the requests.            *)
(*                                                                         *)
(* Both rest on what main has waited for (Ordered) and on how far the loop *)
(* can be at each moment of the shutdown (Late): it does not begin another *)
(* refresh, so only the closing of one session can take time.              *)
(***************************************************************************)
EXTENDS Lifecycle, SequenceTheorems, FoldProofs

AfterLoop == {"draining", "closing driver", "closing store", "flushing"}

\* What main has done before the phase it is in.
Ordered ==
  /\ main \in AfterLoop => loop = "ended" /\ server = "closed"
  /\ main \in {"closing driver", "closing store", "flushing"} => requests = 0 \/ clock = Budget
  /\ driver = "closed" \/ store = "closed" =>
       /\ main \in {"closing store", "flushing", "exited"}
       /\ server = "closed"
       /\ loop = "ended"
       /\ requests = 0 \/ clock = Budget
  /\ main = "starting" => server = "none" /\ loop = "none" /\ requests = 0

\* The loop only discovers where it should.
Placed == phase # "none" => loop = "discovering"

\* The time main has waited for the loop.
Late ==
  main = "cancelling" =>
    /\ loop = "loading" => clock = 0
    /\ phase \in {"running", "reading", "composing"} => clock = 0
    /\ phase = "closing" => clock <= waited
    /\ clock <= CloseTime

IInv == LifecycleTypeOK /\ Ordered /\ Placed /\ Late

-----------------------------------------------------------------------------
(***************************************************************************)
(* The discovery.                                                          *)
(***************************************************************************)
LEMMA EmptyTypes ==
  /\ Nothing \in [Procedure -> SUBSET Line]
  /\ <<>> \in Seq([procedure : Procedure, row : MetadataRow])
  /\ 1 \in Procedure
  /\ 0 \in 0 .. MaxMetadata
BY MetadataLimits DEF Nothing, Procedure

LEMMA ReadTypes ==
  ASSUME DiscoveryTypeOK, Reads
  PROVE  /\ DiscoveryTypeOK'
         /\ phase \in {"running", "reading", "composing"}
         /\ phase' \in {"running", "reading", "composing", "closing"}
<1>0. CASE RunProcedure \/ Compose
  BY <1>0 DEF DiscoveryTypeOK, RunProcedure, Compose
<1>1. CASE ReadToEnd
  <2>1. procedure' \in Procedure /\ phase' \in {"running", "composing"}
    BY <1>1 DEF DiscoveryTypeOK, ReadToEnd, Procedure
  <2> QED BY <1>1, <2>1 DEF DiscoveryTypeOK, ReadToEnd
<1>2. CASE \E row \in MetadataRow : ReadMetadata(row)
  <2>1. PICK row \in MetadataRow : ReadMetadata(row)
    BY <1>2
  <2>2. row.size \in Nat /\ row.lines \subseteq Line
    BY MetadataAssumption DEF Line
  <2>3. bytesRead' \in 0 .. MaxMetadata
    BY <2>1, <2>2, MetadataLimits DEF DiscoveryTypeOK, ReadMetadata, Within
  <2>4. collected' \in [Procedure -> SUBSET Line]
    BY <2>1, <2>2 DEF DiscoveryTypeOK, ReadMetadata
  <2>5. sent' \in Seq([procedure : Procedure, row : MetadataRow])
    BY <2>1 DEF DiscoveryTypeOK, ReadMetadata
  <2> QED BY <2>1, <2>3, <2>4, <2>5 DEF DiscoveryTypeOK, ReadMetadata
<1>3. CASE RunProcedureFails \/ ReadBreaksOff \/ ComposeFails \/
           \E row \in MetadataRow : RefuseMetadata(row)
  BY <1>3 DEF DiscoveryTypeOK, RunProcedureFails, ReadBreaksOff, ComposeFails, RefuseMetadata,
              DiscoveryFails
<1> QED BY <1>0, <1>1, <1>2, <1>3 DEF Reads

LEMMA CallTypes ==
  ASSUME DiscoveryTypeOK,
         \/ Discover(RefreshOver) /\ RefreshOver \in BOOLEAN
         \/ CloseSession
         \/ DiscoveryExpires
         \/ CancelDiscovery
         \/ UNCHANGED discovery
  PROVE  DiscoveryTypeOK'
<1>1. CASE Discover(RefreshOver) /\ RefreshOver \in BOOLEAN
  BY <1>1, EmptyTypes DEF DiscoveryTypeOK, Discover
<1>2. CASE CloseSession \/ DiscoveryExpires \/ CancelDiscovery
  BY <1>2 DEF DiscoveryTypeOK, CloseSession, DiscoveryExpires, CancelDiscovery
<1>3. CASE UNCHANGED discovery
  BY <1>3 DEF DiscoveryTypeOK, discovery
<1> QED BY <1>1, <1>2, <1>3

-----------------------------------------------------------------------------
(***************************************************************************)
(* The process.                                                            *)
(***************************************************************************)
\* The numbers the clocks and counters can be.
LEMMA Numbers ==
  /\ 0 \in 0 .. Budget /\ 0 \in 0 .. CloseTime /\ 0 \in 0 .. MaxRequests
  /\ \A n \in 0 .. Budget : 0 <= n /\ (n < Budget => n + 1 \in 0 .. Budget)
  /\ \A n \in 0 .. CloseTime : n <= CloseTime /\ (n < CloseTime => n + 1 \in 0 .. CloseTime)
  /\ \A n \in 0 .. MaxRequests : /\ n < MaxRequests => n + 1 \in 0 .. MaxRequests
                                /\ n > 0 => n - 1 \in 0 .. MaxRequests
  /\ 0 <= CloseTime
BY TimeAssumption, RequestAssumption

LEMMA InitOrdered == LifecycleInit => IInv
<1> SUFFICES ASSUME LifecycleInit PROVE IInv
  OBVIOUS
<1>1. DiscoveryTypeOK
  BY EmptyTypes DEF LifecycleInit, DiscoveryInit, DiscoveryTypeOK
<1>3. LifecycleTypeOK
  BY <1>1, Numbers DEF LifecycleInit, LifecycleTypeOK
<1>4. Ordered /\ Placed /\ Late
  BY DEF LifecycleInit, DiscoveryInit, Ordered, Placed, Late, AfterLoop
<1> QED BY <1>3, <1>4 DEF IInv

\* What stays as it is keeps its type.
LEMMA SameTypes ==
  ASSUME LifecycleTypeOK,
         UNCHANGED <<main, signalled, server, serverErr, loop, requests, store, driver, exit>>
  PROVE  /\ main' \in {"starting", "serving", "cancelling", "draining", "closing driver",
                       "closing store", "flushing", "exited"}
         /\ signalled' \in BOOLEAN
         /\ server' \in {"none", "listening", "failed", "closed"}
         /\ serverErr' \in BOOLEAN
         /\ loop' \in {"none", "loading", "discovering", "saving", "asleep", "ended"}
         /\ requests' \in 0 .. MaxRequests
         /\ store' \in {"none", "open", "closed"}
         /\ driver' \in {"none", "open", "closed"}
         /\ exit' \in {Running, 0, 1}
<1>1. signalled' = signalled /\ serverErr' = serverErr
  OBVIOUS
<1>2. signalled' \in BOOLEAN /\ serverErr' \in BOOLEAN
  BY <1>1, Zenon DEF LifecycleTypeOK
<1> QED BY ZenonT(40), <1>2 DEF LifecycleTypeOK

LEMMA LoopStep ==
  ASSUME IInv, main # "exited", Loop
  PROVE  IInv'
<1> USE DEF IInv
<1>1. RefreshOver \in BOOLEAN
  BY DEF LifecycleTypeOK, RefreshOver, Stopping
<1>2. CASE NoRefresh \/ WakeUp \/ StopLoop
  <2>1. LifecycleTypeOK'
    BY <1>2, CallTypes DEF LifecycleTypeOK, NoRefresh, WakeUp, StopLoop, LoopGoes
  <2>2. Ordered' /\ Placed' /\ Late'
    BY <1>2 DEF Ordered, Placed, Late, NoRefresh, WakeUp, StopLoop, LoopGoes, discovery, AfterLoop,
                RefreshOver, Stopping
  <2> QED BY <2>1, <2>2
<1>3. CASE Refresh
  <2>1. LifecycleTypeOK'
    BY ZenonT(40), <1>1, <1>3, CallTypes DEF LifecycleTypeOK, Refresh, LoopGoes
  <2>2. Ordered' /\ Placed' /\ Late'
    BY <1>3 DEF Ordered, Placed, Late, Refresh, LoopGoes, Discover, AfterLoop
  <2> QED BY <2>1, <2>2
<1>4. CASE Discovering
  <2>1. DiscoveryTypeOK' /\ phase \in {"running", "reading", "composing"}
        /\ phase' \in {"running", "reading", "composing", "closing"}
    BY <1>4, ReadTypes DEF LifecycleTypeOK, Discovering
  <2>2. LifecycleTypeOK'
    BY ZenonT(40), <1>4, <2>1, Numbers DEF LifecycleTypeOK, Discovering
  <2>3. Ordered' /\ Placed'
    BY <1>4, <2>1 DEF Ordered, Placed, Discovering, AfterLoop
  <2>4. Late'
    <3> SUFFICES ASSUME main = "cancelling"
                 PROVE  Late'
      BY <1>4 DEF Late, Discovering
    <3>1. loop = "discovering" /\ loop' = loop /\ clock = 0 /\ clock' = 0 /\ waited' = 0
      BY <1>4, <2>1 DEF Late, Discovering
    <3> QED BY <3>1, Numbers DEF Late
  <2> QED BY <2>2, <2>3, <2>4
<1>5. CASE Closing
  <2>1. LifecycleTypeOK'
    BY <1>5, CallTypes DEF LifecycleTypeOK, Closing, process
  <2>2. Ordered' /\ Placed' /\ Late'
    BY <1>5 DEF Ordered, Placed, Late, Closing, CloseSession, process, AfterLoop
  <2> QED BY <2>1, <2>2
<1>6. CASE Discovered \/ NotDiscovered \/ Save
  <2>1. LifecycleTypeOK'
    <3>1. DiscoveryTypeOK'
      BY <1>6, EmptyTypes
         DEF LifecycleTypeOK, DiscoveryTypeOK, Discovered, NotDiscovered, Save, Returned
    <3> QED BY <1>6, <3>1 DEF LifecycleTypeOK, Discovered, NotDiscovered, Save, LoopGoes
  <2>2. Ordered' /\ Placed' /\ Late'
    BY <1>6 DEF Ordered, Placed, Late, Discovered, NotDiscovered, Save, LoopGoes, Returned, AfterLoop
  <2> QED BY <2>1, <2>2
<1> QED BY <1>2, <1>3, <1>4, <1>5, <1>6 DEF Loop

LEMMA MainStep ==
  ASSUME IInv, Main
  PROVE  IInv'
<1> USE DEF IInv
<1>1. CASE Stop
  <2>1. LifecycleTypeOK'
    <3>1. DiscoveryTypeOK'
      BY <1>1, CallTypes DEF LifecycleTypeOK, Stop
    <3> QED BY <1>1, <3>1, Numbers DEF LifecycleTypeOK, Stop
  <2>2. Ordered' /\ Placed' /\ Late'
    <3>0. waited \in 0 .. CloseTime
      BY DEF LifecycleTypeOK
    <3>1. 0 <= waited
      BY <3>0, TimeAssumption
    <3> QED BY <1>1, <3>1, Numbers DEF Ordered, Placed, Late, Stop, CancelDiscovery, AfterLoop
  <2> QED BY <2>1, <2>2
<1>2. CASE CloseListener \/ Drain \/ CloseDriver \/ CloseStore \/ Exit
  <2>1. LifecycleTypeOK'
    BY <1>2, CallTypes
       DEF LifecycleTypeOK, CloseListener, Drain, CloseDriver, CloseStore, Exit, MainGoes
  <2>2. Ordered' /\ Placed' /\ Late'
    BY <1>2 DEF Ordered, Placed, Late, CloseListener, Drain, CloseDriver, CloseStore, Exit, MainGoes,
                AfterLoop, discovery
  <2> QED BY <2>1, <2>2
<1> QED BY <1>1, <1>2 DEF Main

LEMMA OtherStep ==
  ASSUME IInv,
         \/ OpenStore \/ OpenDriver \/ StartFails \/ Serve
         \/ Arrive \/ Answer \/ Signal \/ ServerFails
         \/ DiscoveryTimesOut
         \/ UNCHANGED lifecycle
  PROVE  IInv'
<1> USE DEF IInv
<1>1. CASE OpenStore \/ OpenDriver \/ StartFails \/ Serve
  <2>1. LifecycleTypeOK'
    BY <1>1, CallTypes DEF LifecycleTypeOK, OpenStore, OpenDriver, StartFails, Serve
  <2>2. Ordered' /\ Placed' /\ Late'
    BY <1>1 DEF Ordered, Placed, Late, OpenStore, OpenDriver, StartFails, Serve, AfterLoop, discovery
  <2> QED BY <2>1, <2>2
<1>2. CASE Arrive \/ Answer
  <2>1. requests \in 0 .. MaxRequests
    BY DEF LifecycleTypeOK
  <2>2. /\ requests' \in 0 .. MaxRequests
        /\ Arrive => server = "listening"
        /\ Answer => requests # 0
    <3>1. CASE Arrive
      <4>1. requests' = requests + 1 /\ requests < MaxRequests /\ server = "listening"
        BY <3>1 DEF Arrive
      <4>2. requests' \in 0 .. MaxRequests /\ (Answer => requests # 0)
        BY <2>1, <4>1, RequestAssumption DEF Answer
      <4> QED BY <4>1, <4>2
    <3>2. CASE Answer
      <4>1. requests' = requests - 1 /\ requests > 0
        BY <3>2 DEF Answer
      <4>2. requests' \in 0 .. MaxRequests /\ requests # 0
        BY <2>1, <4>1, RequestAssumption
      <4> QED BY <4>2 DEF Arrive
    <3> QED BY <1>2, <3>1, <3>2
  <2>3. LifecycleTypeOK'
    BY <1>2, <2>2, CallTypes DEF LifecycleTypeOK, Arrive, Answer
  <2>4. Ordered'
    BY <1>2, <2>2 DEF Ordered, Arrive, Answer, AfterLoop
  <2>5. Placed' /\ Late'
    BY <1>2 DEF Placed, Late, Arrive, Answer, discovery
  <2> QED BY <2>3, <2>4, <2>5
<1>3. CASE Signal \/ ServerFails \/ DiscoveryTimesOut
  <2>1. LifecycleTypeOK'
    BY <1>3, CallTypes DEF LifecycleTypeOK, Signal, ServerFails, DiscoveryTimesOut, process
  <2>2. Ordered' /\ Placed' /\ Late'
    BY <1>3 DEF Ordered, Placed, Late, Signal, ServerFails, DiscoveryTimesOut, CancelDiscovery,
                DiscoveryExpires, process, discovery, AfterLoop
  <2> QED BY <2>1, <2>2
<1>4. CASE UNCHANGED lifecycle
  <2>1. LifecycleTypeOK'
    <3>1. UNCHANGED discovery /\ UNCHANGED process
      BY <1>4 DEF lifecycle
    <3>2. DiscoveryTypeOK'
      BY <3>1, CallTypes DEF LifecycleTypeOK
    <3>3. clock' \in 0 .. Budget /\ waited' \in 0 .. CloseTime
      BY <3>1 DEF process, LifecycleTypeOK
    <3> QED BY <3>1, <3>2, <3>3, SameTypes DEF LifecycleTypeOK, process
  <2>2. Ordered' /\ Placed' /\ Late'
    BY <1>4 DEF Ordered, Placed, Late, lifecycle, process, discovery
  <2> QED BY <2>1, <2>2
<1> QED BY <1>1, <1>2, <1>3, <1>4

LEMMA TickStep ==
  ASSUME IInv, Tick
  PROVE  IInv'
<1> USE DEF IInv
<1>0. clock \in 0 .. Budget /\ waited \in 0 .. CloseTime
  BY DEF LifecycleTypeOK
<1>1. clock' \in 0 .. Budget /\ waited' \in 0 .. CloseTime
  BY <1>0, Numbers DEF Tick
<1>2. LifecycleTypeOK'
  <2>1. DiscoveryTypeOK'
    BY CallTypes DEF LifecycleTypeOK, Tick
  <2>2. UNCHANGED <<main, signalled, server, serverErr, loop, requests, store, driver, exit>>
    BY DEF Tick
  <2> QED BY <1>1, <2>1, <2>2, SameTypes DEF LifecycleTypeOK
<1>3. Ordered'
  <2>1. clock = Budget => clock' = Budget
    BY <1>0, TimeAssumption DEF Tick
  <2> QED BY <2>1 DEF Ordered, Tick, AfterLoop
<1>4. Placed'
  BY DEF Placed, Tick, discovery
<1>5. Late'
  <2> SUFFICES ASSUME main = "cancelling"
               PROVE  Late'
    BY DEF Late, Tick
  <2>1. phase = "closing" /\ waited # CloseTime
    BY DEF Tick, RefreshOver, Stopping, CloseOverdue
  <2>2. loop = "discovering" /\ clock <= waited
    BY <2>1 DEF Placed, Late
  <2>3. waited < CloseTime
    BY <1>0, <2>1, TimeAssumption
  <2>4. waited' = waited + 1 /\ (clock' = clock + 1 \/ clock' = clock)
    BY <2>1, <2>3 DEF Tick
  <2>5. clock' <= waited' /\ clock' <= CloseTime
    BY <1>0, <2>2, <2>3, <2>4, TimeAssumption
  <2>6. phase' = "closing" /\ loop' = "discovering" /\ main' = "cancelling"
    BY <2>1, <2>2 DEF Tick, discovery
  <2> QED BY <2>5, <2>6 DEF Late
<1> QED BY <1>2, <1>3, <1>4, <1>5

LEMMA StepOrdered == IInv /\ [LifecycleNext]_lifecycle => IInv'
BY LoopStep, MainStep, OtherStep, TickStep DEF LifecycleNext

\* What main has waited for, and how far the loop is.
THEOREM OrderHolds == LifecycleSpec => []IInv
BY InitOrdered, StepOrdered, PTL DEF LifecycleSpec

\* The variables of discovery and process keep their types, for all rows and bounds.
THEOREM LifecycleTypeCorrect == LifecycleSpec => []LifecycleTypeOK
<1>1. IInv => LifecycleTypeOK
  BY DEF IInv
<1> QED BY <1>1, OrderHolds, PTL

\* No client is closed under the refresh loop, nor under a request before the budget is used up.
THEOREM ClientsClosedLast == LifecycleSpec => []ClientsOutliveUsers
<1>1. IInv => ClientsOutliveUsers
  BY DEF IInv, Ordered, ClientsOutliveUsers
<1> QED BY <1>1, OrderHolds, PTL

\* The wait for the refresh loop takes no longer than the closing of one session.
THEOREM RefreshLeavesTime == LifecycleSpec => DrainGetsTime
<1>1. IInv /\ [LifecycleNext]_lifecycle =>
        [main = "cancelling" /\ main' = "draining" => clock <= CloseTime]_lifecycle
  BY DEF IInv, Late
<1> QED BY <1>1, OrderHolds, PTL DEF LifecycleSpec, DrainGetsTime

-----------------------------------------------------------------------------
(***************************************************************************)
(* The rows of a discovery.                                                *)
(***************************************************************************)
\* What the rows of a procedure said.
Heard(p) == UNION {s.row.lines : s \in {i \in ToSet(sent) : i.procedure = p}}

\* The sizes of the rows that were sent.
SentSizes == [i \in 1 .. Len(sent) |-> sent[i].row.size]

\* What Discover has put together is what it was sent, so far; the procedures behind it were read
\* to their end.  A text without an error is whole, and stays so until it is saved.
Gathered ==
  /\ phase # "none" =>
       /\ bytesRead = Total(SentSizes, 1 .. Len(sent))
       /\ \A p \in Procedure : collected[p] = Heard(p)
       /\ \A s \in ToSet(sent) : s.row.valid
  /\ phase \in {"running", "reading"} => drained = 1 .. (procedure - 1)
  /\ phase = "composing" => drained = Procedure
  /\ phase \in {"closing", "returned"} /\ ~ failed => Whole(text)
  /\ loop = "saving" => Whole(text)

\* The sum of Whole is the total of the sizes.
LEMMA SentTotal ==
  ASSUME DiscoveryTypeOK
  PROVE  FoldSeq(LAMBDA s, sum : s.row.size + sum, 0, sent) = Total(SentSizes, 1 .. Len(sent))
<1> DEFINE E(g) == g = [s \in SUBSET (1 .. Len(sent)) |->
                          IF s = {} THEN 0
                          ELSE sent[CHOOSE x \in s : TRUE].row.size
                                 + g[s \ {CHOOSE x \in s : TRUE}]]
<1>1. DOMAIN sent = 1 .. Len(sent) /\ IsFiniteSet(1 .. Len(sent))
  BY FS_Interval DEF DiscoveryTypeOK
<1>2. FoldSeq(LAMBDA s, sum : s.row.size + sum, 0, sent) = (CHOOSE g : E(g))[1 .. Len(sent)]
  BY <1>1 DEF FoldSeq, FoldFunction, FoldFunctionOnSet, MapThenFoldSet
<1>3. \A g : E(g) <=> SumsUp(g, SentSizes, 1 .. Len(sent))
  <2> SUFFICES ASSUME NEW g PROVE E(g) <=> SumsUp(g, SentSizes, 1 .. Len(sent))
    OBVIOUS
  <2>1. ASSUME NEW s \in SUBSET (1 .. Len(sent)), s # {}
        PROVE  sent[CHOOSE x \in s : TRUE].row.size = SentSizes[Chosen(s)]
    <3>1. Chosen(s) \in 1 .. Len(sent)
      BY <2>1, ChosenIn
    <3> QED BY <3>1 DEF SentSizes, Chosen
  <2> QED BY <2>1 DEF SumsUp, Chosen
<1>4. SumsUp(CHOOSE g : E(g), SentSizes, 1 .. Len(sent))
  <2>1. SumsUp([s \in SUBSET (1 .. Len(sent)) |-> Total(SentSizes, s)], SentSizes, 1 .. Len(sent))
    BY <1>1, SumsUpExists
  <2> HIDE DEF E
  <2> QED BY <1>3, <2>1
<1> HIDE DEF E
<1> QED BY <1>1, <1>2, <1>4, SumsUpTotal

\* What it is for the text to be whole.
LEMMA WholeParts ==
  ASSUME DiscoveryTypeOK
  PROVE  Whole(text) <=>
           /\ drained = Procedure
           /\ \A p \in Procedure : text[p] = Heard(p)
           /\ \A s \in ToSet(sent) : s.row.valid
           /\ Total(SentSizes, 1 .. Len(sent)) <= MaxMetadata
           /\ text[1] # {}
<1>1. Whole(text) <=>
        /\ drained = Procedure
        /\ \A p \in Procedure : text[p] = Heard(p)
        /\ \A s \in ToSet(sent) : s.row.valid
        /\ FoldSeq(LAMBDA s, sum : s.row.size + sum, 0, sent) <= MaxMetadata
        /\ text[1] # {}
  BY DEF Whole, Heard, FoldSeq, FoldFunction, FoldFunctionOnSet, MapThenFoldSet
<1> QED BY <1>1, SentTotal

\* Where sent, text and drained stay, so does a whole text.
LEMMA WholeStays ==
  ASSUME DiscoveryTypeOK, DiscoveryTypeOK', UNCHANGED <<text, sent, drained>>, Whole(text)
  PROVE  Whole(text)'
<1>1. (/\ drained = Procedure
       /\ \A p \in Procedure : text[p] = Heard(p)
       /\ \A s \in ToSet(sent) : s.row.valid
       /\ Total(SentSizes, 1 .. Len(sent)) <= MaxMetadata
       /\ text[1] # {})'
  BY WholeParts DEF Heard, SentSizes
<1> QED BY <1>1, WholeParts, PTL

\* A row more: its size is counted, its lines are collected.
LEMMA GatheredRow ==
  ASSUME DiscoveryTypeOK, Gathered, loop # "saving", loop' # "saving",
         NEW row \in MetadataRow, ReadMetadata(row)
  PROVE  Gathered'
<1> DEFINE n == Len(sent)
           s0 == [procedure |-> procedure, row |-> row]
<1>1. /\ sent \in Seq([procedure : Procedure, row : MetadataRow]) /\ n \in Nat
      /\ s0 \in [procedure : Procedure, row : MetadataRow]
      /\ procedure \in Procedure /\ collected \in [Procedure -> SUBSET Line]
  BY DEF DiscoveryTypeOK, ReadMetadata
<1>2. /\ phase = "reading" /\ phase' = "reading" /\ procedure' = procedure /\ drained' = drained
      /\ row.valid
      /\ sent' = Append(sent, s0)
      /\ bytesRead' = bytesRead + row.size
      /\ collected' = [collected EXCEPT ![procedure] = @ \cup row.lines]
  BY DEF ReadMetadata
<1>3. /\ Len(sent') = n + 1 /\ sent'[n + 1] = s0
      /\ \A i \in 1 .. n : sent'[i] = sent[i]
      /\ DOMAIN sent = 1 .. n /\ DOMAIN sent' = 1 .. (n + 1)
  BY <1>1, <1>2
<1>4. ToSet(sent') = ToSet(sent) \cup {s0}
  <2>1. 1 .. (n + 1) = (1 .. n) \cup {n + 1}
    BY <1>1
  <2> QED BY <1>3, <2>1 DEF ToSet
<1>5. \A s \in ToSet(sent') : s.row.valid
  BY <1>2, <1>4 DEF Gathered
<1>6. \A p \in Procedure : collected'[p] = Heard(p)'
  <2> SUFFICES ASSUME NEW p \in Procedure PROVE collected'[p] = Heard(p)'
    OBVIOUS
  <2>1. collected[p] = Heard(p)
    BY <1>2 DEF Gathered
  <2>2. s0.procedure = procedure /\ s0.row = row
    OBVIOUS
  <2> HIDE DEF s0
  <2>3. CASE p = procedure
    <3>1. Heard(p)' = Heard(p) \cup row.lines
      BY <1>4, <2>2, <2>3 DEF Heard
    <3> QED BY <1>1, <1>2, <2>1, <2>3, <3>1
  <2>4. CASE p # procedure
    <3>1. Heard(p)' = Heard(p)
      BY <1>4, <2>2, <2>4 DEF Heard
    <3> QED BY <1>1, <1>2, <2>1, <2>4, <3>1
  <2> QED BY <2>3, <2>4
<1>7. bytesRead' = Total(SentSizes', 1 .. Len(sent'))
  <2>1. Weighs(SentSizes', 1 .. (n + 1))
    <3> SUFFICES ASSUME NEW i \in 1 .. (n + 1) PROVE SentSizes'[i] \in Nat
      BY DEF Weighs
    <3>1. sent' \in Seq([procedure : Procedure, row : MetadataRow])
      BY <1>1, <1>2
    <3>2. sent'[i].row \in MetadataRow
      <4>1. i \in 1 .. Len(sent')
        <5>1. Len(sent') = n + 1
          BY <1>3
        <5> HIDE DEF n, s0
        <5> QED BY <5>1
      <4>2. sent'[i] \in [procedure : Procedure, row : MetadataRow]
        BY <3>1, <4>1, ElementOfSeq
      <4> QED BY <4>2
    <3>3. SentSizes'[i] = sent'[i].row.size
      BY <1>3 DEF SentSizes
    <3> QED BY <3>2, <3>3, MetadataAssumption
  <2>2. \A i \in 1 .. n : SentSizes'[i] = SentSizes[i]
    BY <1>1, <1>3 DEF SentSizes
  <2>3. SentSizes'[n + 1] = row.size
    BY <1>1, <1>3 DEF SentSizes
  <2>4. bytesRead = Total(SentSizes, 1 .. n)
    BY <1>2 DEF Gathered
  <2>5. Total(SentSizes', 1 .. (n + 1)) = Total(SentSizes, 1 .. n) + SentSizes'[n + 1]
    BY <1>1, <2>1, <2>2, TotalAppend
  <2> QED BY <1>2, <1>3, <2>3, <2>4, <2>5
<1>8. drained' = 1 .. (procedure' - 1)
  BY <1>2 DEF Gathered
<1> QED BY <1>2, <1>5, <1>6, <1>7, <1>8 DEF Gathered

\* The rows that were collected make up the text.
LEMMA GatheredText ==
  ASSUME DiscoveryTypeOK, DiscoveryTypeOK', Gathered, Compose
  PROVE  Whole(text)'
<1>1. /\ phase = "composing" /\ collected[1] # {} /\ text' = collected
      /\ UNCHANGED <<bytesRead, sent, drained>>
  BY DEF Compose, Composes
<1>2. Total(SentSizes, 1 .. Len(sent)) <= MaxMetadata
  <2>1. bytesRead <= MaxMetadata
    BY MetadataLimits DEF DiscoveryTypeOK
  <2> QED BY <1>1, <2>1 DEF Gathered
<1>3. (/\ drained = Procedure
       /\ \A p \in Procedure : text[p] = Heard(p)
       /\ \A s \in ToSet(sent) : s.row.valid
       /\ Total(SentSizes, 1 .. Len(sent)) <= MaxMetadata
       /\ text[1] # {})'
  BY <1>1, <1>2 DEF Gathered, Heard, SentSizes
<1> QED BY <1>3, WholeParts, PTL

LEMMA GatheredReads ==
  ASSUME DiscoveryTypeOK, DiscoveryTypeOK', Gathered, Reads, loop = "discovering", loop' = "discovering"
  PROVE  Gathered'
<1>1. ASSUME NEW row \in MetadataRow, ReadMetadata(row)
      PROVE  Gathered'
  BY <1>1, GatheredRow
<1>2. ASSUME DiscoveryFails, phase # "none"
      PROVE  Gathered'
  BY <1>2 DEF Gathered, DiscoveryFails, Heard, SentSizes
<1>3. CASE RunProcedureFails \/ ReadBreaksOff \/ ComposeFails \/
           \E row \in MetadataRow : RefuseMetadata(row)
  BY <1>2, <1>3 DEF RunProcedureFails, ReadBreaksOff, ComposeFails, RefuseMetadata
<1>4. CASE RunProcedure
  BY <1>4 DEF Gathered, RunProcedure, Heard, SentSizes
<1>5. CASE ReadToEnd
  <2>1. /\ phase' \in {"running", "composing"}
        /\ phase' = "running" => drained' = 1 .. (procedure' - 1)
        /\ phase' = "composing" => drained' = Procedure
    <3>1. procedure \in 1 .. 3 /\ drained = 1 .. (procedure - 1)
      BY <1>5 DEF DiscoveryTypeOK, Procedure, Gathered, ReadToEnd
    <3>2. drained' = 1 .. procedure
      BY <1>5, <3>1 DEF ReadToEnd
    <3> QED BY <1>5, <3>1, <3>2 DEF ReadToEnd, Procedure
  <2> QED BY <1>5, <2>1 DEF Gathered, ReadToEnd, Heard, SentSizes
<1>6. CASE Compose
  <2>1. Whole(text)'
    BY <1>6, GatheredText
  <2> QED BY <1>6, <2>1 DEF Gathered, Compose, Heard, SentSizes
<1> QED BY <1>1, <1>3, <1>4, <1>5, <1>6 DEF Reads

\* A step that goes on with neither the discovery nor the loop.
LEMMA GatheredSame ==
  ASSUME Gathered, DiscoveryTypeOK, DiscoveryTypeOK',
         UNCHANGED <<phase, procedure, collected, bytesRead, failed, text, sent, drained>>,
         loop' = "saving" => loop = "saving"
  PROVE  Gathered'
BY WholeStays DEF Gathered, Heard, SentSizes

LEMMA GatheredLoop ==
  ASSUME IInv, IInv', Gathered, Loop
  PROVE  Gathered'
<1>0. DiscoveryTypeOK /\ DiscoveryTypeOK'
  BY DEF IInv, LifecycleTypeOK
<1>1. CASE NoRefresh \/ WakeUp \/ StopLoop
  BY <1>0, <1>1, GatheredSame DEF NoRefresh, WakeUp, StopLoop, LoopGoes, discovery
<1>2. CASE Refresh
  <2>1. /\ phase' = "running" /\ procedure' = 1 /\ drained' = {} /\ bytesRead' = 0
        /\ collected' = Nothing /\ sent' = <<>> /\ loop' = "discovering"
    BY <1>2 DEF Refresh, Discover, LoopGoes
  <2>2. ToSet(sent') = {} /\ 1 .. Len(sent') = {} /\ 1 .. (procedure' - 1) = {}
    BY <2>1 DEF ToSet
  <2>3. \A p \in Procedure : collected'[p] = Heard(p)'
    BY <2>1, <2>2 DEF Heard, Nothing
  <2>4. bytesRead' = Total(SentSizes', 1 .. Len(sent'))
    BY <2>1, <2>2, TotalEmpty
  <2> QED BY <2>1, <2>2, <2>3, <2>4 DEF Gathered
<1>3. CASE Discovering
  BY <1>0, <1>3, GatheredReads DEF Discovering
<1>4. CASE Closing
  <2>1. /\ phase = "closing" /\ phase' = "returned" /\ loop' = loop
        /\ UNCHANGED <<collected, bytesRead, text, sent, drained>>
    BY <1>4 DEF Closing, CloseSession, process
  <2>2. ~ failed' => ~ failed
    <3>1. failed' = failed \/ failed' = TRUE
      BY <1>4 DEF Closing, CloseSession
    <3> QED BY <3>1, Zenon
  <2>3. ~ failed' \/ loop' = "saving" => Whole(text)'
    BY <1>0, <2>1, <2>2, WholeStays DEF Gathered
  <2> QED BY <2>1, <2>3 DEF Gathered, Heard, SentSizes
<1>5. CASE Discovered
  <2>1. /\ phase = "returned" /\ phase' = "none" /\ UNCHANGED <<text, sent, drained>>
    BY <1>5 DEF Discovered, Returned
  <2>2. ~ failed
    <3>1. failed = ~ TRUE
      BY <1>5 DEF Discovered, Returned
    <3> QED BY <3>1, Zenon
  <2>3. Whole(text)'
    BY <1>0, <2>1, <2>2, WholeStays DEF Gathered
  <2> QED BY <2>1, <2>3 DEF Gathered
<1>6. CASE NotDiscovered \/ Save
  <2>1. phase' = "none" /\ loop' = "asleep"
    BY <1>6 DEF NotDiscovered, Save, Returned, LoopGoes, IInv, Placed
  <2> QED BY <2>1 DEF Gathered
<1> QED BY <1>1, <1>2, <1>3, <1>4, <1>5, <1>6 DEF Loop

LEMMA GatheredStep == IInv /\ IInv' /\ Gathered /\ [LifecycleNext]_lifecycle => Gathered'
<1> SUFFICES ASSUME IInv, IInv', Gathered, [LifecycleNext]_lifecycle PROVE Gathered'
  OBVIOUS
<1>0. DiscoveryTypeOK /\ DiscoveryTypeOK'
  BY DEF IInv, LifecycleTypeOK
<1>1. CASE Loop
  BY <1>1, GatheredLoop
<1>2. CASE OpenStore \/ OpenDriver \/ StartFails \/ Serve \/ Arrive \/ Answer \/ ServerFails
  BY <1>0, <1>2, GatheredSame
     DEF OpenStore, OpenDriver, StartFails, Serve, Arrive, Answer, ServerFails, discovery
<1>3. CASE Signal \/ DiscoveryTimesOut \/ Stop
  BY <1>0, <1>3, GatheredSame
     DEF Signal, DiscoveryTimesOut, Stop, CancelDiscovery, DiscoveryExpires, process
<1>4. CASE CloseListener \/ Drain \/ CloseDriver \/ CloseStore \/ Exit \/ Tick
  BY <1>0, <1>4, GatheredSame
     DEF CloseListener, Drain, CloseDriver, CloseStore, Exit, Tick, MainGoes, discovery
<1>5. CASE UNCHANGED lifecycle
  BY <1>0, <1>5, GatheredSame DEF lifecycle, process, discovery
<1> QED BY <1>1, <1>2, <1>3, <1>4, <1>5 DEF LifecycleNext, Main

\* The refresh loop saves whole schemas only: what all the rows of the three procedures said, within
\* the limit, and nothing of a discovery that failed or broke off.
THEOREM WholeSchemasSaved == LifecycleSpec => []SavedIsWhole
<1>1. LifecycleInit => Gathered
  BY DEF LifecycleInit, DiscoveryInit, Gathered
<1>2. Gathered => SavedIsWhole
  BY DEF Gathered, SavedIsWhole
<1> QED BY OrderHolds, <1>1, <1>2, GatheredStep, PTL DEF LifecycleSpec

=============================================================================
