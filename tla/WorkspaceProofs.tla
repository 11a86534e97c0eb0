--------------------------- MODULE WorkspaceProofs ---------------------------
(***************************************************************************)
(* Proofs about the handlers of the workspace, for every number of tabs,   *)
(* sessions, runs and rows.                                                *)
(*                                                                         *)
(* The invariant says what links the sessions, the requests under way, the *)
(* runs and the catalogue.  Most steps of the handlers touch neither the   *)
(* runs nor which of them a session refers to (Quiet), and so only have    *)
(* their types to prove; what is left are the steps that load a session,   *)
(* store a run, write a row or set a mark.                                 *)
(***************************************************************************)
EXTENDS Workspace, SequenceTheorems, TLAPS

\* id is a run of this session and this mode, or no run.
RunOf(id, session, mode) ==
  id # NoRun => /\ id \in 1 .. Len(runs)
                /\ runs[id].session = session
                /\ runs[id].mode = mode

\* A run is stored in the mode its kind belongs to, in a session that was created.
RunsPlaced ==
  \A id \in 1 .. Len(runs) :
    runs[id].session \in issued /\ runs[id].mode = KindMode(runs[id].made.kind)

\* Sessions refer to runs of their own.
SessionsLinked ==
  /\ DOMAIN held \subseteq issued
  /\ \A id \in DOMAIN held, mode \in Mode : RunOf(held[id].modes[mode].run, id, mode)

\* What a form carries was on a page, and what a handler read of its session still holds.
RequestLinked(r) ==
  /\ r.session \in issued
  /\ RunOf(r.run, r.session, r.mode)
  /\ r.op = "ask" => r.text \in Text("ask")
  /\ r.op = "written" => r.text \in Text("cypher")
  /\ r.op = "switch" => r.text # NoDraft
  /\ r.op = "rerun" => r.posted \in 1 .. Len(catalogue)
  /\ r.op = "open" => r.mode = "ask" /\ r.posted \in 1 .. Len(runs)
  /\ r.op \in {"save", "saving", "mark"} => r.posted \in 1 .. Len(runs)
  /\ r.op \in {"saving", "mark"} => r.run = r.posted
  /\ r.op = "mark" => \E row \in 1 .. Len(catalogue) : catalogue[row].posted = r.run

RequestsLinked ==
  \A tab \in Tab : request[tab].op # "idle" => RequestLinked(request[tab])

RowsLinked ==
  \A row \in 1 .. Len(catalogue) :
    LET posted == catalogue[row].posted
    IN  /\ posted \in 1 .. Len(runs)
        /\ catalogue[row] = Saved(runs[posted].made, posted)
        /\ Savable(runs[posted].made)

Linked ==
  /\ RunsPlaced
  /\ SessionsLinked
  /\ RequestsLinked
  /\ RowsLinked
  /\ LastRunIsKept
  /\ SavedMeansStored

IInv == TypeOK /\ Linked

-----------------------------------------------------------------------------
(***************************************************************************)
(* What a run can end as, and the steps the actions are made of.           *)
(***************************************************************************)
Draft == {NoText} \cup Question \cup Query

LEMMA ExecutionsMade ==
  ASSUME NEW i \in Investigation, NEW made \in Executions(i)
  PROVE  made \in Investigation /\ made.kind = i.kind
BY DEF Executions, Investigation

LEMMA AskedMade ==
  ASSUME NEW question \in Text("ask"), NEW made \in Asked(question)
  PROVE  made \in Investigation /\ KindMode(made.kind) = "ask"
<1> DEFINE begun == [source |-> "generated", kind |-> "question", question |-> question,
                     query |-> NoText, stage |-> "none"]
           generated == {[begun EXCEPT !.query = c, !.stage = "generate"] :
                           c \in Query \cup {NoText}}
<1>1. begun \in Investigation /\ begun.kind = "question"
  BY DEF Text, Investigation
<1>2. \A g \in generated : g \in Investigation /\ g.kind = "question"
  BY ZenonT(40), <1>1 DEF Investigation
<1>3. \/ made = begun
      \/ made \in generated
      \/ \E g \in generated : made \in Executions(g)
  BY DEF Asked
<1> HIDE DEF begun, generated
<1>4. made \in Investigation /\ made.kind = "question"
  BY <1>1, <1>2, <1>3, ExecutionsMade
<1> QED BY <1>4 DEF KindMode

LEMMA WrittenMade ==
  ASSUME NEW cypher \in Text("cypher"), NEW made \in Written(cypher)
  PROVE  made \in Investigation /\ KindMode(made.kind) = "cypher"
<1> DEFINE begun == [source |-> "written", kind |-> "cypher", question |-> NoText,
                     query |-> cypher, stage |-> "validate"]
<1>1. begun \in Investigation /\ begun.kind = "cypher"
  BY DEF Text, Investigation
<1>2. made = begun \/ made \in Executions(begun)
  BY DEF Written
<1> HIDE DEF begun
<1> QED BY <1>1, <1>2, ExecutionsMade DEF KindMode

LEMMA RerunMade ==
  ASSUME NEW row \in Row, NEW made \in Rerun(row)
  PROVE  made \in Investigation /\ KindMode(made.kind) = KindMode(row.kind)
<1> DEFINE begun == [source |-> "saved", kind |-> row.kind, question |-> row.question,
                     query |-> row.query, stage |-> "none"]
<1>1. begun \in Investigation /\ begun.kind = row.kind
  BY DEF Row, Investigation
<1>2. made \in Executions(begun)
  BY DEF Rerun
<1> HIDE DEF begun
<1> QED BY <1>1, <1>2, ExecutionsMade

\* An update changes one session, and only one that is held.
LEMMA ChangeOne ==
  ASSUME NEW id, NEW content, Change(id, content)
  PROVE  /\ DOMAIN held' = DOMAIN held
         /\ \A i \in DOMAIN held : held'[i] = IF i = id THEN content ELSE held[i]
         /\ issued' = issued
BY DEF Change, Contract!Change, Contract!Without

\* A tab that is not idle has a request.
LEMMA Busy ==
  ASSUME TypeOK, NEW tab \in Tab, request[tab].op # "idle"
  PROVE  request[tab] \in Request
BY DEF TypeOK, Idle

\* A response leaves the other requests alone.
LEMMA Responded ==
  ASSUME TypeOK, NEW tab \in Tab, request[tab].op # "idle", Respond(tab)
  PROVE  /\ request' \in [Tab -> Request \cup {Idle}]
         /\ cookie' \in SessionId \cup {NoCookie}
         /\ \A t \in Tab : request'[t] = IF t = tab THEN Idle ELSE request[t]
<1>1. request[tab] \in Request
  BY Busy
<1>2. request[tab].session \in SessionId
  BY <1>1 DEF Request
<1> QED BY <1>2 DEF TypeOK, Respond

-----------------------------------------------------------------------------
(***************************************************************************)
(* What stays linked.                                                      *)
(***************************************************************************)

\* Runs and rows are only ever added.
Grown ==
  /\ issued \subseteq issued'
  /\ Len(runs) \in Nat /\ Len(runs') \in Nat /\ Len(runs) <= Len(runs')
  /\ \A i \in 1 .. Len(runs) : runs'[i] = runs[i]
  /\ Len(catalogue) \in Nat /\ Len(catalogue') \in Nat /\ Len(catalogue) <= Len(catalogue')
  /\ \A i \in 1 .. Len(catalogue) : catalogue'[i] = catalogue[i]

\* No session refers to another run than before, or has another mark.
SameRuns ==
  /\ DOMAIN held' = DOMAIN held
  /\ \A id \in DOMAIN held, mode \in Mode :
       /\ held'[id].modes[mode].run = held[id].modes[mode].run
       /\ held'[id].modes[mode].saved = held[id].modes[mode].saved

LEMMA UnchangedGrows ==
  ASSUME TypeOK, UNCHANGED <<issued, runs, catalogue>>
  PROVE  Grown
BY DEF TypeOK, Grown

LEMMA RequestStays ==
  ASSUME Grown, NEW r, RequestLinked(r)
  PROVE  RequestLinked(r)'
<1>1. r.session \in issued'
  BY DEF Grown, RequestLinked
<1>2. RunOf(r.run, r.session, r.mode)'
  BY DEF Grown, RequestLinked, RunOf
<1>3. /\ r.op = "rerun" => r.posted \in 1 .. Len(catalogue')
      /\ r.op = "open" => r.posted \in 1 .. Len(runs')
      /\ r.op \in {"save", "saving", "mark"} => r.posted \in 1 .. Len(runs')
      /\ r.op = "mark" => \E row \in 1 .. Len(catalogue') : catalogue'[row].posted = r.run
  BY SMTT(30) DEF Grown, RequestLinked
<1> QED BY <1>1, <1>2, <1>3 DEF RequestLinked, Text

\* A step that answers one tab leaves the requests linked.
LEMMA RequestsStay ==
  ASSUME RequestsLinked, Grown, NEW tab \in Tab,
         \A t \in Tab : request'[t] = IF t = tab THEN Idle ELSE request[t]
  PROVE  RequestsLinked'
<1> SUFFICES ASSUME NEW t \in Tab, request'[t].op # "idle"
             PROVE  RequestLinked(request[t])'
  BY DEF RequestsLinked
<1>1. request'[t] = request[t] /\ request[t].op # "idle"
  BY DEF Idle
<1>2. RequestLinked(request[t])
  BY <1>1 DEF RequestsLinked
<1>3. \A r : RequestLinked(r) => RequestLinked(r)'
  BY RequestStays
<1> QED BY SMTT(30), <1>1, <1>2, <1>3 DEF RequestLinked, RunOf

\* So does one that moves a tab to a request that is linked.
LEMMA RequestMoves ==
  ASSUME RequestsLinked, Grown, NEW tab \in Tab, NEW v, RequestLinked(v)',
         \A t \in Tab : request'[t] = IF t = tab THEN v ELSE request[t]
  PROVE  RequestsLinked'
<1> SUFFICES ASSUME NEW t \in Tab, request'[t].op # "idle"
             PROVE  RequestLinked(request[t])'
  BY DEF RequestsLinked
<1>1. CASE t = tab
  BY <1>1 DEF RequestLinked, RunOf
<1>2. CASE t # tab
  <2>1. RequestLinked(request[t])
    BY <1>2 DEF RequestsLinked
  <2>2. \A r : RequestLinked(r) => RequestLinked(r)'
    BY RequestStays
  <2> QED BY SMTT(30), <1>2, <2>1, <2>2 DEF RequestLinked, RunOf
<1> QED BY <1>1, <1>2

\* Runs, sessions and rows stay linked when nothing but drafts and active modes change.
LEMMA QuietStays ==
  ASSUME IInv, SameRuns, UNCHANGED <<issued, runs, catalogue>>
  PROVE  /\ RunsPlaced' /\ SessionsLinked' /\ RowsLinked'
         /\ LastRunIsKept' /\ SavedMeansStored'
<1> USE DEF IInv, Linked, SameRuns
<1>1. RunsPlaced'
  BY DEF RunsPlaced
<1>2. SessionsLinked'
  BY DEF SessionsLinked, RunOf
<1>3. RowsLinked'
  BY DEF RowsLinked
<1>4. LastRunIsKept'
  BY DEF LastRunIsKept
<1>5. SavedMeansStored'
  BY DEF SavedMeansStored
<1> QED BY <1>1, <1>2, <1>3, <1>4, <1>5

\* A handler that changes nothing but drafts and active modes, and answers.
LEMMA QuietAnswer ==
  ASSUME IInv, NEW tab \in Tab, request[tab].op # "idle", Respond(tab),
         SameRuns, \A id \in DOMAIN held : held'[id] \in Content,
         UNCHANGED <<issued, runs, catalogue>>
  PROVE  IInv'
<1>1. /\ request' \in [Tab -> Request \cup {Idle}]
      /\ cookie' \in SessionId \cup {NoCookie}
      /\ \A t \in Tab : request'[t] = IF t = tab THEN Idle ELSE request[t]
  BY Responded DEF IInv
<1>2. TypeOK'
  BY <1>1 DEF IInv, TypeOK, SameRuns
<1>3. RequestsLinked'
  <2>1. Grown
    BY UnchangedGrows DEF IInv
  <2> QED BY <1>1, <2>1, RequestsStay DEF IInv, Linked
<1> QED BY <1>2, <1>3, QuietStays DEF IInv, Linked

\* A session with another draft, shown in this mode or as it was.
ShowDraft(c, active, m, d) == [c EXCEPT !.active = active, !.modes[m].draft = d]
PutDraft(c, m, d) == [c EXCEPT !.modes[m].draft = d]

SameModeRuns(new, c) ==
  \A mode \in Mode : /\ new.modes[mode].run = c.modes[mode].run
                     /\ new.modes[mode].saved = c.modes[mode].saved

\* Another draft keeps the runs of a session.
LEMMA DraftContent ==
  ASSUME NEW c \in Content, NEW active \in Mode, NEW m \in Mode, NEW d \in Draft
  PROVE  /\ ShowDraft(c, active, m, d) \in Content
         /\ SameModeRuns(ShowDraft(c, active, m, d), c)
         /\ PutDraft(c, m, d) \in Content
         /\ SameModeRuns(PutDraft(c, m, d), c)
<1> DEFINE modes == [c.modes EXCEPT ![m].draft = d]
           new == ShowDraft(c, active, m, d)
           here == PutDraft(c, m, d)
<1>1. c.modes \in [Mode -> ModeState] /\ c.active \in Mode /\ c = [active |-> c.active, modes |-> c.modes]
  BY DEF Content
<1>2. c.modes[m] \in ModeState
  BY <1>1
<1>3. [c.modes[m] EXCEPT !.draft = d] \in ModeState
  BY <1>2 DEF ModeState, Draft
<1>4. modes \in [Mode -> ModeState]
  BY <1>1, <1>3
<1>5. \A mode \in Mode : /\ modes[mode].run = c.modes[mode].run
                         /\ modes[mode].saved = c.modes[mode].saved
  BY <1>1, <1>2 DEF ModeState
<1>6. new = [[c EXCEPT !.active = active] EXCEPT !.modes = modes]
  BY <1>1 DEF ShowDraft
<1>7. here = [c EXCEPT !.modes = modes]
  BY <1>1 DEF PutDraft
<1> HIDE DEF modes, new, here
<1>8. /\ new \in Content /\ here \in Content
      /\ new.modes = modes /\ here.modes = modes
  BY <1>1, <1>4, <1>6, <1>7 DEF Content
<1>9. SameModeRuns(new, c) /\ SameModeRuns(here, c)
  BY <1>5, <1>8 DEF SameModeRuns
<1> QED BY <1>8, <1>9 DEF new, here

\* An update that keeps the runs of its session.
LEMMA ChangeQuietly ==
  ASSUME TypeOK, NEW id, NEW content, Change(id, content),
         id \in DOMAIN held => content \in Content /\ SameModeRuns(content, held[id])
  PROVE  SameRuns /\ issued' = issued /\ \A i \in DOMAIN held : held'[i] \in Content
BY ChangeOne DEF TypeOK, SameRuns, SameModeRuns

LEMMA NoChange ==
  ASSUME TypeOK, UNCHANGED <<held, issued>>
  PROVE  SameRuns /\ issued' = issued /\ \A i \in DOMAIN held : held'[i] \in Content
BY DEF TypeOK, SameRuns

-----------------------------------------------------------------------------
(***************************************************************************)
(* The steps.                                                              *)
(***************************************************************************)
LEMMA HomeStep ==
  ASSUME IInv, NEW tab \in Tab, Home(tab)
  PROVE  IInv'
<1> DEFINE r == request[tab]
           content == [held[r.session] EXCEPT !.active = r.mode]
<1>1. request[tab].op # "idle" /\ Respond(tab) /\ UNCHANGED <<runs, catalogue>>
  BY DEF Home
<1>2. r \in Request /\ TypeOK
  BY <1>1, Busy DEF IInv
<1>3. CASE Change(r.session, content)
  <2>1. r.session \in DOMAIN held =>
          content \in Content /\ SameModeRuns(content, held[r.session])
    BY <1>2 DEF TypeOK, Content, Request, SameModeRuns
  <2> QED BY <1>1, <1>2, <1>3, <2>1, ChangeQuietly, QuietAnswer
<1>4. CASE UNCHANGED <<held, issued>>
  BY <1>1, <1>2, <1>4, NoChange, QuietAnswer
<1> QED BY <1>3, <1>4 DEF Home

LEMMA SwitchStep ==
  ASSUME IInv, NEW tab \in Tab, Switch(tab)
  PROVE  IInv'
<1> DEFINE r == request[tab]
           other == CHOOSE m \in Mode : m # r.mode
           content == ShowDraft(held[r.session], other, r.mode, r.text)
<1>1. /\ request[tab].op # "idle" /\ Respond(tab) /\ UNCHANGED <<runs, catalogue>>
      /\ Change(r.session, content)
  BY DEF Switch, ShowDraft
<1>2. r \in Request /\ TypeOK
  BY <1>1, Busy DEF IInv
<1>3. r.mode \in Mode /\ r.text \in Draft
  <2>1. r.text # NoDraft
    BY DEF IInv, Linked, RequestsLinked, RequestLinked, Switch
  <2> QED BY <1>2, <2>1 DEF Request, Draft
<1>4. other \in Mode
  BY <1>3 DEF Mode
<1> HIDE DEF other
<1>5. r.session \in DOMAIN held =>
        content \in Content /\ SameModeRuns(content, held[r.session])
  BY <1>2, <1>3, <1>4, DraftContent DEF TypeOK
<1> QED BY <1>1, <1>2, <1>5, ChangeQuietly, QuietAnswer

LEMMA OpenStep ==
  ASSUME IInv, NEW tab \in Tab, OpenInCypher(tab)
  PROVE  IInv'
<1> DEFINE r == request[tab]
           text == runs[r.run].made.query
           content == ShowDraft(held[r.session], "cypher", "cypher", text)
<1>1. request[tab].op = "open" /\ Respond(tab) /\ UNCHANGED <<runs, catalogue>>
  BY DEF OpenInCypher
<1>2. r \in Request /\ TypeOK /\ RequestLinked(r)
  BY <1>1, Busy DEF IInv, Linked, RequestsLinked
<1>3. CASE r.run = r.posted /\ Change(r.session, content)
  <2>1. r.run \in 1 .. Len(runs)
    BY <1>1, <1>2, <1>3 DEF RequestLinked
  <2>2. text \in Draft
    <3>1. runs[r.run] \in Run
      BY <1>2, <2>1 DEF TypeOK
    <3>2. runs[r.run].made \in Investigation
      BY <3>1 DEF Run
    <3> QED BY <3>2 DEF Investigation, Draft
  <2> HIDE DEF text
  <2>3. r.session \in DOMAIN held =>
          content \in Content /\ SameModeRuns(content, held[r.session])
    BY <1>2, <2>2, DraftContent DEF TypeOK, Mode
  <2> QED BY <1>1, <1>2, <1>3, <2>3, ChangeQuietly, QuietAnswer
<1>4. CASE UNCHANGED <<held, issued>>
  BY <1>1, <1>2, <1>4, NoChange, QuietAnswer
<1> QED BY <1>3, <1>4 DEF OpenInCypher, ShowDraft

LEMMA RefuseStep ==
  ASSUME IInv, NEW tab \in Tab, RefuseSave(tab)
  PROVE  IInv'
<1>1. /\ request[tab].op # "idle" /\ Respond(tab)
      /\ UNCHANGED <<held, issued, runs, catalogue>>
  BY DEF RefuseSave
<1> QED BY <1>1, NoChange, QuietAnswer DEF IInv

LEMMA KeepDraftStep ==
  ASSUME IInv, NEW tab \in Tab, KeepDraft(tab)
  PROVE  IInv'
<1> DEFINE r == request[tab]
           content == PutDraft(held[r.session], r.mode, r.text)
<1>1. request[tab].op = "save" /\ UNCHANGED <<runs, catalogue>>
  BY DEF KeepDraft
<1>2. r \in Request /\ TypeOK /\ RequestLinked(r)
  BY <1>1, Busy DEF IInv, Linked, RequestsLinked
<1>3. SameRuns /\ issued' = issued /\ \A i \in DOMAIN held : held'[i] \in Content
  <2>1. CASE r.text # NoDraft /\ Change(r.session, content)
    <3>1. r.mode \in Mode /\ r.text \in Draft
      BY <1>2, <2>1 DEF Request, Draft
    <3>2. r.session \in DOMAIN held =>
            content \in Content /\ SameModeRuns(content, held[r.session])
      BY <1>2, <3>1, DraftContent DEF TypeOK
    <3> QED BY <1>2, <2>1, <3>2, ChangeQuietly
  <2>2. CASE UNCHANGED <<held, issued>>
    BY <1>2, <2>2, NoChange
  <2> QED BY <2>1, <2>2 DEF KeepDraft, PutDraft
<1>4. CASE Respond(tab)
  BY <1>1, <1>3, <1>4, QuietAnswer
<1>5. CASE r.run = r.posted /\ Become(tab, "saving") /\ UNCHANGED cookie
  <2>1. PICK v : v = [r EXCEPT !.op = "saving"]
    OBVIOUS
  <2>2. v \in Request /\ RequestLinked(v)
    BY <1>1, <1>2, <1>5, <2>1 DEF Request, RequestLinked
  <2>3. /\ request' \in [Tab -> Request \cup {Idle}]
        /\ \A t \in Tab : request'[t] = IF t = tab THEN v ELSE request[t]
    BY <1>2, <1>5, <2>1, <2>2 DEF Become, TypeOK
  <2>4. TypeOK'
    BY <1>1, <1>3, <1>5, <2>3 DEF IInv, TypeOK, SameRuns
  <2>5. Grown
    BY <1>1, <1>2, <1>3, UnchangedGrows
  <2>6. RequestLinked(v)'
    BY <2>2, <2>5, RequestStays
  <2>7. RequestsLinked'
    BY <2>3, <2>5, <2>6, RequestMoves DEF IInv, Linked
  <2> QED BY <1>1, <1>3, <2>4, <2>7, QuietStays DEF IInv, Linked
<1> QED BY <1>4, <1>5 DEF KeepDraft

\* A session in which a run was stored.
PutRun(c, m, d, run) ==
  [c EXCEPT !.active = m, !.modes[m] = [draft |-> d, run |-> run, saved |-> FALSE]]

LEMMA RunContent ==
  ASSUME NEW c \in Content, NEW m \in Mode, NEW d \in Draft, NEW run \in Nat
  PROVE  /\ PutRun(c, m, d, run) \in Content
         /\ \A mode \in Mode :
              PutRun(c, m, d, run).modes[mode] =
                IF mode = m THEN [draft |-> d, run |-> run, saved |-> FALSE] ELSE c.modes[mode]
<1> DEFINE state == [draft |-> d, run |-> run, saved |-> FALSE]
           modes == [c.modes EXCEPT ![m] = state]
           new == PutRun(c, m, d, run)
<1>1. c.modes \in [Mode -> ModeState] /\ c.active \in Mode
  BY DEF Content
<1>2. state \in ModeState
  BY DEF ModeState, Draft
<1>3. new = [[c EXCEPT !.active = m] EXCEPT !.modes = modes]
  BY <1>1 DEF PutRun
<1> HIDE DEF state, new
<1>4. modes \in [Mode -> ModeState] /\ \A mode \in Mode : modes[mode] = IF mode = m THEN state ELSE c.modes[mode]
  BY <1>1, <1>2
<1> HIDE DEF modes
<1>5. new \in Content /\ new.modes = modes
  BY <1>1, <1>3, <1>4 DEF Content
<1> QED BY <1>4, <1>5 DEF new, state

\* A handler that stores a run and answers.
LEMMA StoreStep ==
  ASSUME IInv, NEW tab \in Tab, request[tab].op # "idle", Respond(tab),
         NEW mode \in Mode, NEW draft \in Draft, NEW made \in Investigation,
         KindMode(made.kind) = mode,
         StoreRun(request[tab], mode, draft, made), UNCHANGED catalogue
  PROVE  IInv'
<1> DEFINE s == request[tab].session
           id == Len(runs) + 1
           run == [session |-> s, mode |-> mode, made |-> made]
<1>1. TypeOK /\ request[tab] \in Request /\ s \in SessionId
  BY Busy DEF IInv, Request
<1>2. CASE s \notin DOMAIN held
  <2>1. UNCHANGED <<held, issued, runs>>
    BY <1>2 DEF StoreRun
  <2> QED BY <1>1, <2>1, NoChange, QuietAnswer
<1>3. CASE s \in DOMAIN held
  <2> DEFINE content == PutRun(held[s], mode, draft, id)
  <2>1. runs' = Append(runs, run) /\ Change(s, content)
    BY <1>3 DEF StoreRun, PutRun
  <2>2. runs \in Seq(Run) /\ run \in Run /\ Len(runs) \in Nat
    BY <1>1 DEF TypeOK, Run
  <2>3. /\ runs' \in Seq(Run) /\ Len(runs') = id
        /\ \A i \in 1 .. Len(runs) : runs'[i] = runs[i]
        /\ runs'[id] = run
    BY <2>1, <2>2
  <2>4. /\ content \in Content
        /\ \A m \in Mode :
             content.modes[m] =
               IF m = mode THEN [draft |-> draft, run |-> id, saved |-> FALSE]
                           ELSE held[s].modes[m]
    <3>1. held[s] \in Content
      BY <1>1, <1>3 DEF TypeOK
    <3>2. id \in Nat
      BY <2>2
    <3> QED BY <3>1, <3>2, RunContent
  <2> HIDE DEF content
  <2>5. /\ DOMAIN held' = DOMAIN held /\ issued' = issued
        /\ \A i \in DOMAIN held : held'[i] = IF i = s THEN content ELSE held[i]
    BY <2>1, ChangeOne
  <2>6. /\ request' \in [Tab -> Request \cup {Idle}]
        /\ cookie' \in SessionId \cup {NoCookie}
        /\ \A t \in Tab : request'[t] = IF t = tab THEN Idle ELSE request[t]
    BY <1>1, Responded
  <2>7. TypeOK'
    BY <1>1, <2>3, <2>4, <2>5, <2>6 DEF TypeOK
  <2>8. Grown
    <3>1. Len(catalogue) \in Nat
      BY <1>1 DEF TypeOK
    <3> QED BY <2>2, <2>3, <2>5, <3>1 DEF Grown
  <2>9. RequestsLinked'
    BY <2>6, <2>8, RequestsStay DEF IInv, Linked
  <2>10. RunsPlaced'
    BY <1>3, <2>2, <2>3, <2>5 DEF IInv, Linked, RunsPlaced, SessionsLinked
  <2>11. \A i \in DOMAIN held, m \in Mode :
           held'[i].modes[m] =
             IF i = s /\ m = mode THEN [draft |-> draft, run |-> id, saved |-> FALSE]
                                  ELSE held[i].modes[m]
    BY <2>4, <2>5
  <2>12. SessionsLinked'
    <3>1. \A i \in DOMAIN held', m \in Mode : RunOf(held[i].modes[m].run, i, m)'
      <4> SUFFICES ASSUME NEW i \in DOMAIN held, NEW m \in Mode
                   PROVE  RunOf(held[i].modes[m].run, i, m)'
        BY <2>5
      <4>1. CASE i = s /\ m = mode
        <5>1. held'[i].modes[m].run = id
          BY <2>11, <4>1
        <5>2. id \in 1 .. Len(runs')
          BY <2>2, <2>3
        <5>3. runs'[id].session = i /\ runs'[id].mode = m
          BY <2>3, <4>1
        <5> HIDE DEF id
        <5> QED BY <5>1, <5>2, <5>3 DEF RunOf
      <4>2. CASE ~ (i = s /\ m = mode)
        BY <2>2, <2>3, <2>11, <4>2 DEF RunOf, IInv, Linked, SessionsLinked
      <4> QED BY <4>1, <4>2
    <3> QED BY <2>5, <3>1 DEF IInv, Linked, SessionsLinked
  <2>13. RowsLinked'
    BY <2>2, <2>3 DEF IInv, Linked, RowsLinked
  <2>14. LastRunIsKept'
    <3> SUFFICES ASSUME NEW i \in DOMAIN held, NEW m \in Mode,
                        NEW later \in (held'[i].modes[m].run + 1) .. Len(runs'),
                        runs'[later].session = i, runs'[later].mode = m
                 PROVE  FALSE
      BY <2>5 DEF LastRunIsKept
    <3>1. held[i].modes[m].run \in Nat
      BY <1>1 DEF TypeOK, Content, ModeState
    <3>2. CASE i = s /\ m = mode
      BY <2>2, <2>3, <2>11, <3>2
    <3>3. CASE ~ (i = s /\ m = mode)
      <4>1. later # id
        BY <2>3, <3>3
      <4>2. later \in (held[i].modes[m].run + 1) .. Len(runs) /\ runs'[later] = runs[later]
        BY SMTT(30), <2>2, <2>3, <2>11, <3>1, <3>3, <4>1
      <4> QED BY <4>2 DEF IInv, Linked, LastRunIsKept
    <3> QED BY <3>2, <3>3
  <2>15. SavedMeansStored'
    BY <2>5, <2>11 DEF IInv, Linked, SavedMeansStored
  <2> QED BY <2>7, <2>9, <2>10, <2>12, <2>13, <2>14, <2>15 DEF IInv, Linked
<1> QED BY <1>2, <1>3

LEMMA RunSteps ==
  ASSUME IInv, NEW tab \in Tab,
         \/ FinishAsk(tab) \/ FinishWritten(tab) \/ FinishRerun(tab) \/ FailRerun(tab)
  PROVE  IInv'
<1> DEFINE r == request[tab]
<1>1. r.op # "idle" /\ Respond(tab) /\ UNCHANGED catalogue
  BY DEF FinishAsk, FinishWritten, FinishRerun, FailRerun
<1>2. TypeOK /\ r \in Request /\ RequestLinked(r)
  BY <1>1, Busy DEF IInv, Linked, RequestsLinked
<1>3. CASE FinishAsk(tab)
  <2>1. PICK made \in Asked(r.text) : StoreRun(r, "ask", r.text, made)
    BY <1>3 DEF FinishAsk
  <2>2. r.text \in Text("ask") /\ r.text \in Draft
    BY <1>2, <1>3 DEF FinishAsk, RequestLinked, Text, Draft
  <2>3. made \in Investigation /\ KindMode(made.kind) = "ask"
    BY <2>2, AskedMade
  <2> QED BY <1>1, <2>1, <2>2, <2>3, StoreStep DEF Mode
<1>4. CASE FinishWritten(tab)
  <2>1. PICK made \in Written(r.text) : StoreRun(r, "cypher", r.text, made)
    BY <1>4 DEF FinishWritten
  <2>2. r.text \in Text("cypher") /\ r.text \in Draft
    BY <1>2, <1>4 DEF FinishWritten, RequestLinked, Text, Draft
  <2>3. made \in Investigation /\ KindMode(made.kind) = "cypher"
    BY <2>2, WrittenMade
  <2> QED BY <1>1, <2>1, <2>2, <2>3, StoreStep DEF Mode
<1>5. CASE FinishRerun(tab)
  <2> DEFINE row == catalogue[r.posted]
             draft == IF row.kind = "cypher" THEN row.query ELSE row.question
  <2>1. PICK made \in Rerun(row) : StoreRun(r, KindMode(row.kind), draft, made)
    BY <1>5 DEF FinishRerun
  <2>2. row \in Row
    BY <1>2, <1>5 DEF FinishRerun, RequestLinked, TypeOK
  <2>3. draft \in Draft /\ KindMode(row.kind) \in Mode
    BY <2>2 DEF Row, Draft, KindMode, Mode
  <2>4. made \in Investigation /\ KindMode(made.kind) = KindMode(row.kind)
    BY <2>2, RerunMade
  <2> HIDE DEF draft, row
  <2> QED BY <1>1, <2>1, <2>3, <2>4, StoreStep
<1>6. CASE FailRerun(tab)
  <2>1. StoreRun(r, KindMode(NotLoaded.kind), NotLoaded.question, NotLoaded)
    BY <1>6 DEF FailRerun
  <2>2. /\ NotLoaded \in Investigation /\ KindMode(NotLoaded.kind) \in Mode
        /\ NotLoaded.question \in Draft
    BY DEF NotLoaded, Investigation, KindMode, Mode, Draft
  <2> QED BY <1>1, <2>1, <2>2, StoreStep
<1> QED BY <1>3, <1>4, <1>5, <1>6

PutMark(c, m) == [c EXCEPT !.modes[m].saved = TRUE]

LEMMA MarkContent ==
  ASSUME NEW c \in Content, NEW m \in Mode
  PROVE  /\ PutMark(c, m) \in Content
         /\ \A mode \in Mode :
              /\ PutMark(c, m).modes[mode].run = c.modes[mode].run
              /\ PutMark(c, m).modes[mode].draft = c.modes[mode].draft
              /\ PutMark(c, m).modes[mode].saved <=> (mode = m \/ c.modes[mode].saved)
<1> DEFINE modes == [c.modes EXCEPT ![m].saved = TRUE]
           new == PutMark(c, m)
<1>1. c.modes \in [Mode -> ModeState] /\ c.active \in Mode
  BY DEF Content
<1>2. c.modes[m] \in ModeState
  BY <1>1
<1>3. [c.modes[m] EXCEPT !.saved = TRUE] \in ModeState
  BY <1>2 DEF ModeState
<1>4. modes \in [Mode -> ModeState]
  BY <1>1, <1>3
<1>5. \A mode \in Mode : /\ modes[mode].run = c.modes[mode].run
                         /\ modes[mode].draft = c.modes[mode].draft
                         /\ modes[mode].saved <=> (mode = m \/ c.modes[mode].saved)
  <2> TAKE mode \in Mode
  <2>1. CASE mode = m
    BY <1>1, <1>2, <2>1 DEF ModeState
  <2>2. CASE mode # m
    <3>1. modes[mode] = c.modes[mode]
      BY <1>1, <2>2
    <3> QED BY <2>2, <3>1
  <2> QED BY <2>1, <2>2
<1>6. new = [c EXCEPT !.modes = modes]
  BY <1>1 DEF PutMark
<1> HIDE DEF modes, new
<1>7. new \in Content /\ new.modes = modes
  BY <1>1, <1>4, <1>6 DEF Content
<1> QED BY <1>5, <1>7 DEF new

LEMMA MarkStep ==
  ASSUME IInv, NEW tab \in Tab, Mark(tab)
  PROVE  IInv'
<1> DEFINE r == request[tab]
           s == r.session
<1>1. r.op = "mark" /\ MarkRun(r) /\ Respond(tab) /\ UNCHANGED <<runs, catalogue>>
  BY DEF Mark
<1>2. TypeOK /\ r \in Request /\ RequestLinked(r) /\ s \in SessionId /\ r.mode \in Mode
  BY <1>1, Busy DEF IInv, Linked, RequestsLinked, Request
<1>3. CASE s \notin DOMAIN held \/ held[s].modes[r.mode].run # r.run
  <2>1. Change(s, held[s])
    BY <1>1, <1>3 DEF MarkRun, Change
  <2>2. s \in DOMAIN held => held[s] \in Content /\ SameModeRuns(held[s], held[s])
    BY <1>2 DEF TypeOK, SameModeRuns
  <2> QED BY <1>1, <1>2, <2>1, <2>2, ChangeQuietly, QuietAnswer
<1>4. CASE s \in DOMAIN held /\ held[s].modes[r.mode].run = r.run
  <2> DEFINE content == PutMark(held[s], r.mode)
  <2>1. Change(s, content)
    BY <1>1, <1>4 DEF MarkRun, PutMark
  <2>2. /\ content \in Content
        /\ \A m \in Mode : /\ content.modes[m].run = held[s].modes[m].run
                           /\ content.modes[m].saved <=> (m = r.mode \/ held[s].modes[m].saved)
    BY <1>2, <1>4, MarkContent DEF TypeOK
  <2> HIDE DEF content
  <2>3. /\ DOMAIN held' = DOMAIN held /\ issued' = issued
        /\ \A i \in DOMAIN held : held'[i] = IF i = s THEN content ELSE held[i]
    BY <2>1, ChangeOne
  <2>4. /\ request' \in [Tab -> Request \cup {Idle}]
        /\ cookie' \in SessionId \cup {NoCookie}
        /\ \A t \in Tab : request'[t] = IF t = tab THEN Idle ELSE request[t]
    BY <1>1, <1>2, Responded
  <2>5. TypeOK'
    BY <1>1, <1>2, <2>2, <2>3, <2>4 DEF TypeOK
  <2>6. RequestsLinked'
    BY <1>1, <1>2, <2>3, <2>4, UnchangedGrows, RequestsStay DEF IInv, Linked
  <2>7. RunsPlaced' /\ RowsLinked'
    BY <1>1, <2>3 DEF IInv, Linked, RunsPlaced, RowsLinked
  <2>8. \A i \in DOMAIN held, m \in Mode : held'[i].modes[m].run = held[i].modes[m].run
    BY <2>2, <2>3
  <2>9. SessionsLinked'
    BY <1>1, <2>3, <2>8 DEF IInv, Linked, SessionsLinked, RunOf
  <2>10. LastRunIsKept'
    BY <1>1, <2>3, <2>8 DEF IInv, Linked, LastRunIsKept
  <2>11. SavedMeansStored'
    <3> SUFFICES ASSUME NEW i \in DOMAIN held, NEW m \in Mode, held'[i].modes[m].saved
                 PROVE  \E row \in 1 .. Len(catalogue) :
                          catalogue[row].posted = held[i].modes[m].run
      BY <1>1, <2>3, <2>8 DEF SavedMeansStored
    <3>1. CASE i = s /\ m = r.mode
      BY <1>1, <1>2, <1>4, <3>1 DEF RequestLinked
    <3>2. CASE ~ (i = s /\ m = r.mode)
      BY <2>2, <2>3, <3>2 DEF IInv, Linked, SavedMeansStored
    <3> QED BY <3>1, <3>2
  <2> QED BY <2>5, <2>6, <2>7, <2>9, <2>10, <2>11 DEF IInv, Linked
<1> QED BY <1>3, <1>4

\* What a row that is inserted leaves linked, whatever the handler does next.
LEMMA InsertLinks ==
  ASSUME IInv, NEW r \in Request, RequestLinked(r), r.op = "saving", Insert(r),
         UNCHANGED <<held, issued, runs>>
  PROVE  /\ catalogue' \in Seq(Row) /\ Grown
         /\ \E row \in 1 .. Len(catalogue') : catalogue'[row].posted = r.run
         /\ RunsPlaced' /\ SessionsLinked' /\ RowsLinked'
         /\ LastRunIsKept' /\ SavedMeansStored'
<1> DEFINE made == runs[r.run].made
           row == Saved(made, r.posted)
           last == Len(catalogue) + 1
<1>1. TypeOK /\ r.posted \in 1 .. Len(runs) /\ r.run = r.posted
  BY DEF IInv, RequestLinked
<1>2. made \in Investigation
  <2>1. runs[r.run] \in Run
    BY <1>1 DEF TypeOK
  <2> QED BY <2>1 DEF Run
<1>3. catalogue' = Append(catalogue, row) /\ Savable(made)
  BY DEF Insert
<1>4. row \in Row /\ row.posted = r.posted
  BY <1>1, <1>2, <1>3 DEF Row, Saved, Savable, Investigation, TypeOK
<1>5. /\ catalogue \in Seq(Row) /\ Len(catalogue) \in Nat
      /\ catalogue' \in Seq(Row) /\ Len(catalogue') = last /\ catalogue'[last] = row
      /\ \A i \in 1 .. Len(catalogue) : catalogue'[i] = catalogue[i]
  <2>1. catalogue \in Seq(Row)
    BY <1>1 DEF TypeOK
  <2> HIDE DEF row
  <2> QED BY <1>3, <1>4, <2>1
<1> HIDE DEF row
<1>6. Grown
  BY <1>1, <1>5 DEF Grown, TypeOK
<1>7. \E i \in 1 .. Len(catalogue') : catalogue'[i].posted = r.run
  BY <1>1, <1>4, <1>5
<1>8. RunsPlaced' /\ SessionsLinked' /\ LastRunIsKept'
  BY DEF IInv, Linked, RunsPlaced, SessionsLinked, RunOf, LastRunIsKept
<1>9. RowsLinked'
  <2> SUFFICES ASSUME NEW i \in 1 .. Len(catalogue')
               PROVE  LET posted == catalogue'[i].posted
                      IN  /\ posted \in 1 .. Len(runs)
                          /\ catalogue'[i] = Saved(runs[posted].made, posted)
                          /\ Savable(runs[posted].made)
    BY DEF RowsLinked
  <2>1. CASE i = last
    BY <1>1, <1>3, <1>4, <1>5, <2>1 DEF row
  <2>2. CASE i # last
    BY <1>5, <2>2 DEF IInv, Linked, RowsLinked
  <2> QED BY <2>1, <2>2
<1>10. SavedMeansStored'
  BY <1>5 DEF IInv, Linked, SavedMeansStored
<1> QED BY <1>5, <1>6, <1>7, <1>8, <1>9, <1>10

LEMMA SaveRowStep ==
  ASSUME IInv, NEW tab \in Tab, SaveRow(tab)
  PROVE  IInv'
<1> DEFINE r == request[tab]
<1>1. /\ r.op = "saving" /\ Insert(r) /\ Become(tab, "mark")
      /\ UNCHANGED <<held, issued, cookie, runs>>
  BY DEF SaveRow
<1>2. TypeOK /\ r \in Request /\ RequestLinked(r)
  BY <1>1, Busy DEF IInv, Linked, RequestsLinked
<1>3. PICK v : v = [r EXCEPT !.op = "mark"]
  OBVIOUS
<1>4. /\ v \in Request
      /\ request' \in [Tab -> Request \cup {Idle}]
      /\ \A t \in Tab : request'[t] = IF t = tab THEN v ELSE request[t]
  <2>1. v \in Request
    BY <1>2, <1>3 DEF Request
  <2> QED BY <1>1, <1>2, <1>3, <2>1 DEF Become, TypeOK
<1>5. /\ catalogue' \in Seq(Row) /\ Grown
      /\ \E row \in 1 .. Len(catalogue') : catalogue'[row].posted = r.run
      /\ RunsPlaced' /\ SessionsLinked' /\ RowsLinked'
      /\ LastRunIsKept' /\ SavedMeansStored'
  BY <1>1, <1>2, InsertLinks
<1>6. TypeOK'
  BY <1>1, <1>2, <1>4, <1>5 DEF TypeOK
<1>7. RequestLinked(v)'
  <2>1. PICK old : old = r
    OBVIOUS
  <2>2. RequestLinked(old)'
    BY <1>2, <1>5, <2>1, RequestStays
  <2>3. v = [old EXCEPT !.op = "mark"] /\ old \in Request /\ old.op = "saving"
    BY <1>1, <1>2, <1>3, <2>1
  <2>4. \E row \in 1 .. Len(catalogue') : catalogue'[row].posted = old.run
    BY <1>5, <2>1
  <2> QED BY <2>2, <2>3, <2>4 DEF RequestLinked, Request
<1>8. RequestsLinked'
  BY <1>4, <1>5, <1>7, RequestMoves DEF IInv, Linked
<1> QED BY <1>5, <1>6, <1>8 DEF IInv, Linked

LEMMA SaveRowUnheardStep ==
  ASSUME IInv, NEW tab \in Tab, SaveRowUnheard(tab)
  PROVE  IInv'
<1> DEFINE r == request[tab]
<1>1. r.op = "saving" /\ Insert(r) /\ Respond(tab) /\ UNCHANGED <<held, issued, runs>>
  BY DEF SaveRowUnheard
<1>2. TypeOK /\ r \in Request /\ RequestLinked(r)
  BY <1>1, Busy DEF IInv, Linked, RequestsLinked
<1>3. /\ request' \in [Tab -> Request \cup {Idle}]
      /\ cookie' \in SessionId \cup {NoCookie}
      /\ \A t \in Tab : request'[t] = IF t = tab THEN Idle ELSE request[t]
  BY <1>1, <1>2, Responded
<1>4. /\ catalogue' \in Seq(Row) /\ Grown
      /\ RunsPlaced' /\ SessionsLinked' /\ RowsLinked'
      /\ LastRunIsKept' /\ SavedMeansStored'
  BY <1>1, <1>2, InsertLinks
<1>5. TypeOK'
  BY <1>1, <1>2, <1>3, <1>4 DEF TypeOK
<1>6. RequestsLinked'
  BY <1>3, <1>4, RequestsStay DEF IInv, Linked
<1> QED BY <1>4, <1>5, <1>6 DEF IInv, Linked

\* A form the pages offer.
Form(op, mode, text, posted) ==
  /\ op \in {"home", "ask", "written", "rerun", "switch", "open", "save"}
  /\ mode \in Mode /\ text \in Draft \cup {NoDraft} /\ posted \in Nat
  /\ op = "ask" => text \in Text("ask")
  /\ op = "written" => text \in Text("cypher")
  /\ op = "switch" => text # NoDraft
  /\ op = "rerun" => posted \in 1 .. Len(catalogue)
  /\ op = "open" => mode = "ask" /\ posted \in 1 .. Len(runs)
  /\ op = "save" => posted \in 1 .. Len(runs)

LEMMA LoadStep ==
  ASSUME IInv, NEW tab \in Tab, NEW op, NEW mode, NEW text, NEW posted,
         Form(op, mode, text, posted), Load(tab, op, mode, text, posted)
  PROVE  IInv'
<1> DEFINE Loading(id, new, view) ==
             [op |-> op, mode |-> mode, text |-> text, posted |-> posted,
              session |-> id, new |-> new,
              active |-> IF op = "home" THEN view.active ELSE mode,
              run |-> IF op \in {"open", "save"} THEN view.modes[mode].run ELSE NoRun]
<1>1. TypeOK /\ UNCHANGED <<cookie, runs, catalogue>>
  BY DEF IInv, Load
<1>2. ASSUME NEW id \in SessionId, NEW new \in BOOLEAN, NEW view \in Content
      PROVE  Loading(id, new, view) \in Request
  BY DEF Request, Form, Draft, Content, ModeState, NoRun
<1>3. ASSUME NEW id \in issued, NEW new, NEW view, RunOf(view.modes[mode].run, id, mode)
      PROVE  RequestLinked(Loading(id, new, view))
  BY <1>3 DEF RequestLinked, RunOf, Form, NoRun
<1> HIDE DEF Loading
<1>4. CASE /\ cookie \in DOMAIN held
           /\ request' = [request EXCEPT ![tab] = Loading(cookie, FALSE, held[cookie])]
           /\ UNCHANGED <<held, issued>>
  <2>1. PICK v : v = Loading(cookie, FALSE, held[cookie])
    OBVIOUS
  <2>2. v \in Request
    BY <1>1, <1>2, <1>4, <2>1 DEF TypeOK
  <2>3. RequestLinked(v)
    BY <1>3, <1>4, <2>1 DEF IInv, Linked, SessionsLinked, Form
  <2>4. /\ request' \in [Tab -> Request \cup {Idle}]
        /\ \A t \in Tab : request'[t] = IF t = tab THEN v ELSE request[t]
    BY <1>1, <1>4, <2>1, <2>2 DEF TypeOK
  <2>5. TypeOK'
    BY <1>1, <1>4, <2>4 DEF TypeOK
  <2>6. Grown
    BY <1>1, <1>4, UnchangedGrows
  <2>7. RequestLinked(v)'
    BY <2>3, <2>6, RequestStays
  <2>8. RequestsLinked'
    BY <2>4, <2>6, <2>7, RequestMoves DEF IInv, Linked
  <2> QED BY <1>1, <1>4, <2>5, <2>8, NoChange, QuietStays DEF IInv, Linked
<1>5. CASE \E id \in SessionId :
             /\ Contract!Open(id, {})
             /\ request' = [request EXCEPT ![tab] = Loading(id, TRUE, NewContent)]
  <2>1. PICK id \in SessionId :
          /\ Contract!Open(id, {})
          /\ request' = [request EXCEPT ![tab] = Loading(id, TRUE, NewContent)]
    BY <1>5
  <2>2. /\ id \notin issued /\ issued' = issued \cup {id}
        /\ DOMAIN held' = DOMAIN held \cup {id}
        /\ \A i \in DOMAIN held' : held'[i] = IF i = id THEN NewContent ELSE held[i]
    BY <2>1 DEF Contract!Open
  <2>3. /\ NewContent \in Content
        /\ \A m \in Mode : NewContent.modes[m].run = NoRun /\ ~ NewContent.modes[m].saved
    BY DEF NewContent, Content, ModeState, Mode, NoRun
  <2>4. PICK v : v = Loading(id, TRUE, NewContent)
    OBVIOUS
  <2>5. v \in Request
    BY <1>2, <2>3, <2>4
  <2>6. RequestLinked(v)'
    <3>1. RunOf(NewContent.modes[mode].run, id, mode)
      BY <2>3 DEF RunOf, Form
    <3>2. v.session = id /\ v.run = NoRun
      BY <2>3, <2>4 DEF Loading, Form
    <3>3. /\ v.op = op /\ v.mode = mode /\ v.text = text /\ v.posted = posted
      BY <2>4 DEF Loading
    <3> QED BY <1>1, <2>2, <3>2, <3>3 DEF RequestLinked, RunOf, Form
  <2>7. /\ request' \in [Tab -> Request \cup {Idle}]
        /\ \A t \in Tab : request'[t] = IF t = tab THEN v ELSE request[t]
    BY <1>1, <2>1, <2>4, <2>5 DEF TypeOK
  <2>8. TypeOK'
    BY <1>1, <2>2, <2>3, <2>7 DEF TypeOK
  <2>9. Grown
    BY <1>1, <2>2 DEF Grown, TypeOK
  <2>10. RequestsLinked'
    BY <2>6, <2>7, <2>9, RequestMoves DEF IInv, Linked
  <2>11. RunsPlaced' /\ RowsLinked'
    BY <1>1, <2>2 DEF IInv, Linked, RunsPlaced, RowsLinked
  <2>12. SessionsLinked'
    BY <1>1, <2>2, <2>3 DEF IInv, Linked, SessionsLinked, RunOf
  <2>13. LastRunIsKept'
    <3> SUFFICES ASSUME NEW i \in DOMAIN held', NEW m \in Mode,
                        NEW later \in (held'[i].modes[m].run + 1) .. Len(runs),
                        runs[later].session = i, runs[later].mode = m
                 PROVE  FALSE
      BY <1>1 DEF LastRunIsKept
    <3>1. CASE i = id
      <4>1. later \in 1 .. Len(runs)
        BY <2>2, <2>3, <3>1 DEF NoRun
      <4> QED BY <2>2, <3>1, <4>1 DEF IInv, Linked, RunsPlaced
    <3>2. CASE i # id
      BY <2>2, <3>2 DEF IInv, Linked, LastRunIsKept
    <3> QED BY <3>1, <3>2
  <2>14. SavedMeansStored'
    BY <1>1, <2>2, <2>3 DEF IInv, Linked, SavedMeansStored
  <2> QED BY <2>8, <2>10, <2>11, <2>12, <2>13, <2>14 DEF IInv, Linked
<1> QED BY <1>4, <1>5 DEF Load, Loading

LEMMA SubmitStep ==
  ASSUME IInv, NEW tab \in Tab, Submit(tab)
  PROVE  IInv'
<1>1. PICK op, mode, text, posted :
        Form(op, mode, text, posted) /\ Load(tab, op, mode, text, posted)
  <2>1. runs \in Seq(Run) /\ Len(runs) \in Nat /\ Len(catalogue) \in Nat
    BY DEF IInv, TypeOK
  <2>2. CASE \E mode \in Mode : Load(tab, "home", mode, NoText, NoRun)
    BY <2>2 DEF Form, Draft, NoRun
  <2>3. CASE \E text \in Text("ask") : Load(tab, "ask", "ask", text, NoRun)
    BY <2>3 DEF Form, Draft, Text, Mode, NoRun
  <2>4. CASE \E text \in Text("cypher") : Load(tab, "written", "cypher", text, NoRun)
    BY <2>4 DEF Form, Draft, Text, Mode, NoRun
  <2>5. CASE \E row \in 1 .. Len(catalogue) : Load(tab, "rerun", "ask", NoText, row)
    BY <2>1, <2>5 DEF Form, Draft, Mode
  <2>6. CASE \E mode \in Mode : \E text \in Text(mode) : Load(tab, "switch", mode, text, NoRun)
    BY <2>6, TextAssumption DEF Form, Draft, Text, NoRun
  <2>7. CASE \E id \in 1 .. Len(runs) : runs[id].mode = "ask" /\ Load(tab, "open", "ask", NoText, id)
    BY <2>1, <2>7 DEF Form, Draft, Mode
  <2>8. CASE \E id \in 1 .. Len(runs) : \E text \in Text(runs[id].mode) \cup {NoDraft} :
               Load(tab, "save", runs[id].mode, text, id)
    <3>1. PICK id \in 1 .. Len(runs) : \E text \in Text(runs[id].mode) \cup {NoDraft} :
            Load(tab, "save", runs[id].mode, text, id)
      BY <2>8
    <3>2. runs[id].mode \in Mode
      <4>1. runs[id] \in Run
        BY <2>1
      <4> QED BY <4>1 DEF Run
    <3> QED BY <2>1, <3>1, <3>2 DEF Form, Draft, Text
  <2> QED BY <2>2, <2>3, <2>4, <2>5, <2>6, <2>7, <2>8 DEF Submit
<1> QED BY <1>1, LoadStep

\* Sessions end, with or without the requests that use them.
LEMMA EndStep ==
  ASSUME IInv, NEW ended, Contract!End(ended),
         UNCHANGED request \/ request' = [t \in Tab |-> Idle],
         UNCHANGED <<cookie, runs, catalogue>>
  PROVE  IInv'
<1>1. /\ DOMAIN held' = DOMAIN held \ ended /\ issued' = issued
      /\ \A i \in DOMAIN held' : held'[i] = held[i]
  BY DEF Contract!End, Contract!Without
<1>2. TypeOK'
  BY <1>1 DEF IInv, TypeOK
<1>3. RunsPlaced' /\ SessionsLinked' /\ RowsLinked' /\ LastRunIsKept' /\ SavedMeansStored'
  BY <1>1 DEF IInv, Linked, RunsPlaced, SessionsLinked, RunOf, RowsLinked, LastRunIsKept,
              SavedMeansStored
<1>4. RequestsLinked'
  <2>1. CASE UNCHANGED request
    BY <1>1, <2>1 DEF IInv, Linked, RequestsLinked, RequestLinked, RunOf
  <2>2. CASE request' = [t \in Tab |-> Idle]
    BY <2>2 DEF RequestsLinked, Idle
  <2> QED BY <2>1, <2>2
<1> QED BY <1>2, <1>3, <1>4 DEF IInv, Linked

-----------------------------------------------------------------------------
(***************************************************************************)
(* The theorems.                                                           *)
(***************************************************************************)

\* The invariant holds at the start ...
LEMMA InitLinked == Init => IInv
<1> SUFFICES ASSUME Init PROVE IInv
  OBVIOUS
<1>1. TypeOK
  BY DEF Init, TypeOK, Contract!Init
<1>2. Linked
  BY DEF Init, Contract!Init, Linked, RunsPlaced, SessionsLinked, RequestsLinked, RowsLinked,
         LastRunIsKept, SavedMeansStored, Idle
<1> QED BY <1>1, <1>2 DEF IInv

\* ... and every step keeps it.
LEMMA StepLinked == IInv /\ [Next]_vars => IInv'
<1> SUFFICES ASSUME IInv, [Next]_vars PROVE IInv'
  OBVIOUS
<1>1. ASSUME NEW tab \in Tab, Submit(tab) PROVE IInv'
  BY <1>1, SubmitStep
<1>2. ASSUME NEW tab \in Tab, Handle(tab) PROVE IInv'
  <2>1. CASE Home(tab)
    BY <2>1, HomeStep
  <2>2. CASE FinishAsk(tab) \/ FinishWritten(tab) \/ FinishRerun(tab) \/ FailRerun(tab)
    BY <2>2, RunSteps
  <2>3. CASE Switch(tab)
    BY <2>3, SwitchStep
  <2>4. CASE OpenInCypher(tab)
    BY <2>4, OpenStep
  <2>5. CASE KeepDraft(tab)
    BY <2>5, KeepDraftStep
  <2>6. CASE SaveRow(tab)
    BY <2>6, SaveRowStep
  <2>7. CASE SaveRowUnheard(tab)
    BY <2>7, SaveRowUnheardStep
  <2>8. CASE RefuseSave(tab)
    BY <2>8, RefuseStep
  <2>9. CASE Mark(tab)
    BY <2>9, MarkStep
  <2> QED BY <1>2, <2>1, <2>2, <2>3, <2>4, <2>5, <2>6, <2>7, <2>8, <2>9 DEF Handle
<1>3. CASE SessionsEnd
  BY <1>3, EndStep DEF SessionsEnd
<1>4. CASE Restart
  BY <1>4, EndStep DEF Restart
<1>5. CASE UNCHANGED vars
  <2>1. TypeOK'
    BY <1>5 DEF vars, IInv, TypeOK
  <2>2. Linked'
    BY <1>5 DEF vars, IInv, Linked, RunsPlaced, SessionsLinked, RunOf, RequestsLinked,
                RequestLinked, RowsLinked, LastRunIsKept, SavedMeansStored
  <2> QED BY <2>1, <2>2 DEF IInv
<1> QED BY <1>1, <1>2, <1>3, <1>4, <1>5 DEF Next

\* What links sessions, requests, runs and rows always holds.
THEOREM InvariantHolds == Spec => []IInv
BY InitLinked, StepLinked, PTL DEF Spec

\* The variables keep their types, for every set of tabs, sessions and texts.
THEOREM TypeCorrect == Spec => []TypeOK
<1>1. IInv => TypeOK
  BY DEF IInv
<1> QED BY <1>1, InvariantHolds, PTL

\* A run stays in the session its request loaded and in the mode of its kind, also when the cookie
\* of the browser changes, the session ends or another one is opened while it runs.
THEOREM RunsStay == Spec => []RunsStayHome
<1>1. IInv => RunsStayHome
  BY DEF IInv, Linked, SessionsLinked, RunsPlaced, RunOf, RunsStayHome
<1> QED BY <1>1, InvariantHolds, PTL

\* No handler brings back a run that was replaced.
THEOREM KeepsLastRun == Spec => []LastRunIsKept
<1>1. IInv => LastRunIsKept
  BY DEF IInv, Linked
<1> QED BY <1>1, InvariantHolds, PTL

\* What is shown as saved is in the catalogue.
THEOREM SavedIsStored == Spec => []SavedMeansStored
<1>1. IInv => SavedMeansStored
  BY DEF IInv, Linked
<1> QED BY <1>1, InvariantHolds, PTL

\* A row is the run whose id the form named.
THEOREM SavesRuns == Spec => []RowsAreRuns
<1>1. IInv => RowsAreRuns
  BY DEF IInv, Linked, RowsLinked, RowsAreRuns
<1> QED BY <1>1, InvariantHolds, PTL

-----------------------------------------------------------------------------
(***************************************************************************)
(* Reruns.  A run of a question has no other text than its question, one   *)
(* of the Cypher tab has none, and one that is of no kind, the rerun of a  *)
(* row that could not be read, has no Cypher: so the row keeps all there   *)
(* is to run again.                                                        *)
(***************************************************************************)
WellMade(made) ==
  /\ made.kind = "cypher" => made.question = NoText
  /\ made.kind = "none" => made.query = NoText

RunsWellMade == \A id \in 1 .. Len(runs) : WellMade(runs[id].made)

\* The investigation is that of the run saved as this row, run again.
Repeats(made, row) ==
  LET first == runs[catalogue[row].posted].made
  IN  /\ made.kind = first.kind /\ made.question = first.question /\ made.query = first.query
      /\ made.stage = "execute"

LEMMA AskedWell ==
  ASSUME NEW question \in Text("ask"), NEW made \in Asked(question)
  PROVE  WellMade(made) /\ made.source # "saved"
<1> DEFINE begun == [source |-> "generated", kind |-> "question", question |-> question,
                     query |-> NoText, stage |-> "none"]
           generated == {[begun EXCEPT !.query = c, !.stage = "generate"] :
                           c \in Query \cup {NoText}}
<1>1. begun.kind = "question" /\ begun.source = "generated"
  OBVIOUS
<1>2. \A g \in generated : g.kind = "question" /\ g.source = "generated"
  OBVIOUS
<1>3. \A g \in generated : \A i \in Executions(g) : i.kind = "question" /\ i.source = "generated"
  BY DEF Executions
<1>4. \/ made = begun
      \/ made \in generated
      \/ \E g \in generated : made \in Executions(g)
  BY DEF Asked
<1> HIDE DEF begun, generated
<1> QED BY <1>1, <1>2, <1>3, <1>4 DEF WellMade

LEMMA WrittenWell ==
  ASSUME NEW cypher \in Text("cypher"), NEW made \in Written(cypher)
  PROVE  WellMade(made) /\ made.source # "saved"
BY DEF Written, Executions, WellMade

\* A rerun of a row is the run that was saved as the row, for Save let nothing through that the
\* validation would refuse.
LEMMA RerunRepeats ==
  ASSUME IInv, RunsWellMade, NEW row \in 1 .. Len(catalogue), NEW made \in Rerun(catalogue[row])
  PROVE  WellMade(made) /\ Repeats(made, row)
<1> DEFINE posted == catalogue[row].posted
           first == runs[posted].made
<1>1. /\ posted \in 1 .. Len(runs)
      /\ catalogue[row] = Saved(first, posted) /\ Savable(first)
  BY DEF IInv, Linked, RowsLinked
<1>2. first \in Investigation /\ WellMade(first)
  <2>1. runs[posted] \in Run
    BY <1>1 DEF IInv, TypeOK
  <2> QED BY <1>1, <2>1 DEF Run, RunsWellMade
<1> HIDE DEF first
<1>3. first.kind # "none"
  BY <1>1, <1>2 DEF WellMade, Savable
<1>4. /\ catalogue[row].kind = first.kind
      /\ catalogue[row].question = first.question
      /\ catalogue[row].query = first.query
  BY <1>1, <1>2, <1>3 DEF Saved, WellMade, Investigation
<1>5. made = [source |-> "saved", kind |-> first.kind, question |-> first.question,
              query |-> first.query, stage |-> "execute"]
  BY <1>1, <1>4 DEF Rerun, Executions, Savable
<1>6. /\ made.kind = first.kind /\ made.question = first.question /\ made.query = first.query
      /\ made.stage = "execute"
  BY <1>5
<1>7. WellMade(made)
  BY <1>2, <1>3, <1>5 DEF WellMade
<1> QED BY <1>6, <1>7 DEF Repeats, first

Repeating == IInv /\ RunsWellMade /\ RerunsRepeatRuns

\* The only run that can break this is a new one.
LEMMA StoreRepeats ==
  ASSUME Repeating, NEW r, NEW mode, NEW draft, NEW made,
         StoreRun(r, mode, draft, made), UNCHANGED catalogue, WellMade(made),
         made.source = "saved" => \E row \in 1 .. Len(catalogue) : Repeats(made, row)
  PROVE  RunsWellMade' /\ RerunsRepeatRuns'
<1> USE DEF Repeating
<1>1. CASE UNCHANGED runs
  BY <1>1 DEF RunsWellMade, WellMade, RerunsRepeatRuns
<1>2. CASE runs' = Append(runs, [session |-> r.session, mode |-> mode, made |-> made])
  <2>1. /\ Len(runs) \in Nat /\ Len(runs') = Len(runs) + 1
        /\ \A id \in 1 .. Len(runs) : runs'[id] = runs[id]
        /\ runs'[Len(runs) + 1].made = made
    BY <1>2 DEF IInv, TypeOK
  <2>2. \A row \in 1 .. Len(catalogue) :
          /\ catalogue[row].posted \in 1 .. Len(runs)
          /\ runs'[catalogue[row].posted] = runs[catalogue[row].posted]
    BY <2>1 DEF IInv, Linked, RowsLinked
  <2>3. RunsWellMade'
    BY <2>1 DEF RunsWellMade, WellMade
  <2>4. RerunsRepeatRuns'
    <3> SUFFICES ASSUME NEW id \in 1 .. Len(runs'), runs'[id].made.source = "saved"
                 PROVE  \E row \in 1 .. Len(catalogue) :
                          catalogue[row].posted < id /\ Repeats(runs[id].made, row)'
      BY DEF RerunsRepeatRuns, Repeats
    <3>1. ASSUME NEW any \in 1 .. Len(runs'), NEW row \in 1 .. Len(catalogue),
                 Repeats(runs'[any].made, row)
          PROVE  Repeats(runs[any].made, row)'
      BY <2>2, <3>1 DEF Repeats
    <3>2. CASE id = Len(runs) + 1
      <4>1. PICK row \in 1 .. Len(catalogue) : Repeats(made, row)
        BY <2>1, <3>2
      <4>2. catalogue[row].posted < id
        BY <2>1, <2>2, <3>2
      <4> QED BY <2>1, <3>2, <3>1, <4>1, <4>2
    <3>3. CASE id # Len(runs) + 1
      <4>1. id \in 1 .. Len(runs) /\ runs'[id] = runs[id]
        BY <2>1, <3>3
      <4>2. PICK row \in 1 .. Len(catalogue) :
              catalogue[row].posted < id /\ Repeats(runs'[id].made, row)
        BY <4>1 DEF RerunsRepeatRuns, Repeats
      <4> QED BY <3>1, <4>2
    <3> QED BY <3>2, <3>3
  <2> QED BY <2>3, <2>4
<1> QED BY <1>1, <1>2 DEF StoreRun

\* A row more leaves the reruns what they are.
LEMMA InsertRepeats ==
  ASSUME Repeating, NEW r, Insert(r), UNCHANGED runs
  PROVE  RunsWellMade' /\ RerunsRepeatRuns'
<1>1. PICK new : catalogue' = Append(catalogue, new)
  BY DEF Insert
<1>2. /\ Len(catalogue') = Len(catalogue) + 1 /\ Len(catalogue) \in Nat
      /\ \A row \in 1 .. Len(catalogue) : catalogue'[row] = catalogue[row]
  BY <1>1 DEF Repeating, IInv, TypeOK
<1>3. RunsWellMade'
  BY DEF Repeating, RunsWellMade, WellMade
<1>4. RerunsRepeatRuns'
  <2> SUFFICES ASSUME NEW id \in 1 .. Len(runs), runs[id].made.source = "saved"
               PROVE  \E row \in 1 .. Len(catalogue') :
                        /\ catalogue'[row].posted < id
                        /\ Repeats(runs[id].made, row)'
    BY DEF RerunsRepeatRuns, Repeats
  <2>1. PICK row \in 1 .. Len(catalogue) :
          catalogue[row].posted < id /\ Repeats(runs[id].made, row)
    BY DEF Repeating, RerunsRepeatRuns, Repeats
  <2>2. row \in 1 .. Len(catalogue') /\ catalogue'[row] = catalogue[row]
    BY <1>2, <2>1
  <2> QED BY <2>1, <2>2 DEF Repeats
<1> QED BY <1>3, <1>4

LEMMA HandleRepeats ==
  ASSUME Repeating, NEW tab \in Tab, Handle(tab)
  PROVE  RunsWellMade' /\ RerunsRepeatRuns'
<1> DEFINE r == request[tab]
<1>1. r.op # "idle" => RequestLinked(r)
  BY DEF Repeating, IInv, Linked, RequestsLinked
<1>2. CASE FinishAsk(tab)
  <2>1. PICK made \in Asked(r.text) : StoreRun(r, "ask", r.text, made)
    BY <1>2 DEF FinishAsk
  <2>2. r.text \in Text("ask") /\ UNCHANGED catalogue
    BY <1>1, <1>2 DEF FinishAsk, RequestLinked
  <2> QED BY <2>1, <2>2, AskedWell, StoreRepeats
<1>3. CASE FinishWritten(tab)
  <2>1. PICK made \in Written(r.text) : StoreRun(r, "cypher", r.text, made)
    BY <1>3 DEF FinishWritten
  <2>2. r.text \in Text("cypher") /\ UNCHANGED catalogue
    BY <1>1, <1>3 DEF FinishWritten, RequestLinked
  <2> QED BY <2>1, <2>2, WrittenWell, StoreRepeats
<1>4. CASE FinishRerun(tab)
  <2> DEFINE row == catalogue[r.posted]
             draft == IF row.kind = "cypher" THEN row.query ELSE row.question
  <2>1. PICK made \in Rerun(row) : StoreRun(r, KindMode(row.kind), draft, made)
    BY <1>4 DEF FinishRerun
  <2>2. r.posted \in 1 .. Len(catalogue) /\ UNCHANGED catalogue
    BY <1>1, <1>4 DEF FinishRerun, RequestLinked
  <2>3. WellMade(made) /\ Repeats(made, r.posted)
    BY <2>1, <2>2, RerunRepeats DEF Repeating
  <2> HIDE DEF draft, row
  <2> QED BY <2>1, <2>2, <2>3, StoreRepeats
<1>5. CASE FailRerun(tab)
  <2>1. StoreRun(r, KindMode(NotLoaded.kind), NotLoaded.question, NotLoaded) /\ UNCHANGED catalogue
    BY <1>5 DEF FailRerun
  <2>2. WellMade(NotLoaded) /\ NotLoaded.source # "saved"
    BY DEF WellMade, NotLoaded
  <2> QED BY <2>1, <2>2, StoreRepeats
<1>6. CASE SaveRow(tab) \/ SaveRowUnheard(tab)
  BY <1>6, InsertRepeats DEF SaveRow, SaveRowUnheard
<1>7. CASE \/ Home(tab) \/ Switch(tab) \/ OpenInCypher(tab)
           \/ KeepDraft(tab) \/ RefuseSave(tab) \/ Mark(tab)
  <2>1. UNCHANGED <<runs, catalogue>>
    BY <1>7 DEF Home, Switch, OpenInCypher, KeepDraft, RefuseSave, Mark
  <2> QED BY <2>1 DEF Repeating, RunsWellMade, WellMade, RerunsRepeatRuns
<1> QED BY <1>2, <1>3, <1>4, <1>5, <1>6, <1>7 DEF Handle

LEMMA NextRepeats == Repeating /\ [Next]_vars => Repeating'
<1> SUFFICES ASSUME Repeating, [Next]_vars PROVE Repeating'
  OBVIOUS
<1>1. IInv'
  BY StepLinked DEF Repeating
<1>2. CASE UNCHANGED <<runs, catalogue>>
  BY <1>1, <1>2 DEF Repeating, RunsWellMade, WellMade, RerunsRepeatRuns
<1>3. ASSUME NEW tab \in Tab, Handle(tab) PROVE Repeating'
  BY <1>1, <1>3, HandleRepeats DEF Repeating
<1>4. ASSUME NEW tab \in Tab, Submit(tab) PROVE UNCHANGED <<runs, catalogue>>
  BY <1>4 DEF Submit, Load
<1> QED BY <1>2, <1>3, <1>4 DEF Next, SessionsEnd, Restart, vars

\* Whatever runs are posted to be saved, a rerun is an earlier run that was saved, run again to the
\* end: for every number of tabs, sessions, texts, runs and rows.
THEOREM SavedRunsAgain == Spec => []RerunsRepeatRuns
<1>1. Init => Repeating
  BY InitLinked DEF Repeating, Init, RunsWellMade, RerunsRepeatRuns
<1>2. Repeating => RerunsRepeatRuns
  BY DEF Repeating
<1> QED BY <1>1, <1>2, NextRepeats, PTL DEF Spec

-----------------------------------------------------------------------------
\* A step of one tab leaves the requests of the others alone.
LEMMA OthersWait ==
  ASSUME TypeOK, NEW tab \in Tab, NEW other \in Tab \ {tab}, Submit(other) \/ Handle(other)
  PROVE  request'[tab] = request[tab]
<1>1. CASE Submit(other)
  BY <1>1 DEF Submit, Load, TypeOK
<1>2. CASE Handle(other)
  BY <1>2 DEF Handle, Home, FinishAsk, FinishWritten, FinishRerun, FailRerun, Switch, OpenInCypher,
              KeepDraft, SaveRow, SaveRowUnheard, RefuseSave, Mark, Respond, Become, TypeOK
<1> QED BY <1>1, <1>2

\* The end of a save leaves every draft as it is.
THEOREM KeepsDrafts == Spec => SavingKeepsDrafts
<1>1. IInv /\ [Next]_vars =>
        [\A tab \in Tab :
           request[tab].op = "mark" /\ request'[tab].op = "idle" =>
             \A id \in DOMAIN held', mode \in Mode :
               held'[id].modes[mode].draft = held[id].modes[mode].draft]_vars
  <2> SUFFICES ASSUME IInv, Next, NEW tab \in Tab,
                      request[tab].op = "mark", request'[tab].op = "idle",
                      NEW id \in DOMAIN held', NEW mode \in Mode
               PROVE  held'[id].modes[mode].draft = held[id].modes[mode].draft
    OBVIOUS
  <2>1. TypeOK
    BY DEF IInv
  <2>2. CASE Submit(tab)
    <3>1. request[tab] = Idle
      BY <2>2 DEF Submit, Load
    <3> QED BY <3>1 DEF Idle
  <2>3. CASE Handle(tab)
    <3> DEFINE r == request[tab]
    <3>1. MarkRun(r)
      BY <2>3 DEF Handle, Home, FinishAsk, FinishWritten, FinishRerun, FailRerun, Switch,
                  OpenInCypher, KeepDraft, SaveRow, SaveRowUnheard, RefuseSave, Mark
    <3>2. r.mode \in Mode
      BY <2>1, Busy DEF Request
    <3>3. CASE r.session \in DOMAIN held
      <4> DEFINE c == held[r.session]
      <4>1. PICK content \in {c, PutMark(c, r.mode)} : Change(r.session, content)
        BY <3>1, <3>3 DEF MarkRun, PutMark
      <4>2. content.modes[mode].draft = c.modes[mode].draft
        BY <2>1, <3>2, <3>3, <4>1, MarkContent DEF TypeOK
      <4> HIDE DEF c
      <4>3. id \in DOMAIN held /\ held'[id] = IF id = r.session THEN content ELSE held[id]
        BY <4>1, ChangeOne
      <4> QED BY <4>2, <4>3 DEF c
    <3>4. CASE r.session \notin DOMAIN held
      BY <3>1, <3>4 DEF MarkRun, Change
    <3> QED BY <3>3, <3>4
  <2>4. CASE \E other \in Tab \ {tab} : Submit(other) \/ Handle(other)
    BY <2>1, <2>4, OthersWait
  <2>5. CASE SessionsEnd
    BY <2>5 DEF SessionsEnd
  <2>6. CASE Restart
    BY <2>6 DEF Restart, Contract!End, Contract!Without
  <2> QED BY <2>2, <2>3, <2>4, <2>5, <2>6 DEF Next
<1> QED BY <1>1, InvariantHolds, PTL DEF Spec, SavingKeepsDrafts

=============================================================================
