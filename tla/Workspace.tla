----------------------------- MODULE Workspace -----------------------------
(***************************************************************************)
(* The request handlers of the query workspace                             *)
(* (query-workspace/internal/workspace/http.go and workspace.go) for one   *)
(* browser with several tabs.                                              *)
(*                                                                         *)
(* A handler loads a copy of the browser's session, works outside any lock *)
(* (generates, executes, reads or writes the catalogue) and then updates   *)
(* the session.  Each access to the session store is a step of its own, so *)
(* the handlers of several tabs interleave between them, sessions end and  *)
(* the process restarts.  Sessions are those of SessionContract, which     *)
(* SessionStore implements.                                                *)
(*                                                                         *)
(* A run never changes once it has finished, so it is kept in runs, where  *)
(* its index is its id; a session refers to it.  Questions and Cypher are  *)
(* model values; a draft of the Cypher tab stands for the Cypher and its   *)
(* parameters, which travel together everywhere.                           *)
(***************************************************************************)
EXTENDS Integers, Sequences

CONSTANTS
  Tab,        \* requests of the browser that can be in flight at once
  SessionId,  \* the ids rand.Text() can return
  NoCookie,   \* the browser has no session cookie yet
  Question,   \* what can be asked
  Query,      \* Cypher that can be generated or written
  Rejected,   \* the Cypher validateReadQuery rejects
  NoText,     \* the empty string
  NoDraft,    \* a save form that carries no composer text (no JavaScript)
  MaxRuns,    \* bound of the number of stored runs
  MaxRows     \* bound of the number of saved queries

ASSUME TextAssumption ==
  /\ Rejected \subseteq Query
  /\ NoText \notin Question \cup Query
  /\ NoDraft \notin Question \cup Query \cup {NoText}
ASSUME CookieAssumption == NoCookie \notin SessionId
ASSUME BoundAssumption == MaxRuns \in Nat /\ MaxRows \in Nat

VARIABLES
  held,       \* the sessions the server holds
  issued,     \* every session id ever created
  cookie,     \* the session id the browser presents
  request,    \* what each tab's handler is at, with its copy of the session
  runs,       \* every run that was stored with an id
  catalogue   \* the rows of saved_queries

vars == <<held, issued, cookie, request, runs, catalogue>>

Mode == {"ask", "cypher"}
NoRun == 0

Text(mode) == {NoText} \cup IF mode = "ask" THEN Question ELSE Query

ModeState == [draft : {NoText} \cup Question \cup Query, run : Nat, saved : BOOLEAN]
Content == [active : Mode, modes : [Mode -> ModeState]]
NewContent ==
  [active |-> "ask",
   modes  |-> [m \in Mode |-> [draft |-> NoText, run |-> NoRun, saved |-> FALSE]]]

Contract == INSTANCE SessionContract

Investigation ==
  [source : {"none", "generated", "saved", "written"},
   kind : {"none", "question", "cypher"},
   question : Question \cup {NoText}, query : Query \cup {NoText},
   stage : {"none", "generate", "validate", "execute"}]
Run == [session : SessionId, mode : Mode, made : Investigation]
Row == [kind : {"question", "cypher"}, question : Question \cup {NoText},
        query : Query, posted : Nat]

Idle == [op |-> "idle"]

\* kind.mode()
KindMode(kind) == IF kind = "cypher" THEN "cypher" ELSE "ask"

-----------------------------------------------------------------------------
(***************************************************************************)
(* The service: what a run can end as.                                     *)
(***************************************************************************)

\* validateAndExecute.  An execution that fails or is cut short is kept and offered all the same.
Executions(investigation) ==
  {[investigation EXCEPT !.stage =
      IF investigation.query \in Rejected THEN "validate" ELSE "execute"]}

\* Ask: the question is refused; the generator fails, with or without Cypher; it succeeds.
Asked(question) ==
  LET begun == [source |-> "generated", kind |-> "question", question |-> question,
                query |-> NoText, stage |-> "none"]
  IN  IF question = NoText
        THEN {begun}
        ELSE LET generated == {[begun EXCEPT !.query = c, !.stage = "generate"] :
                                 c \in Query \cup {NoText}}
             IN  {begun} \cup generated \cup
                   UNION {Executions(i) : i \in {g \in generated : g.query # NoText}}

\* RunWritten: no Cypher, or parameters that do not decode; otherwise it is executed.
Written(cypher) ==
  LET begun == [source |-> "written", kind |-> "cypher", question |-> NoText,
                query |-> cypher, stage |-> "validate"]
  IN  {begun} \cup IF cypher = NoText THEN {} ELSE Executions(begun)

\* RunSaved, when the catalogue returned the row.
Rerun(row) ==
  Executions([source |-> "saved", kind |-> row.kind, question |-> row.question,
              query |-> row.query, stage |-> "none"])

\* RunSaved, when the catalogue could not be read: the zero value.
NotLoaded ==
  [source |-> "none", kind |-> "none", question |-> NoText, query |-> NoText, stage |-> "none"]

\* Save: the row for an investigation.
Saved(made, posted) ==
  [kind     |-> IF made.kind = "cypher" THEN "cypher" ELSE "question",
   question |-> IF made.kind = "cypher" THEN NoText ELSE made.question,
   query    |-> made.query,
   posted   |-> posted]

\* Mutant: Save trusts the page to offer only what was accepted.
SavableUnchecked(made) == made.query # NoText

Savable(made) == made.query \notin Rejected \cup {NoText}

\* render: the page has a save form for this run.  Two of the properties are about such runs.
OffersSave(made) == made.stage = "execute" /\ made.source # "saved"

-----------------------------------------------------------------------------
(***************************************************************************)
(* The handlers.  A tab's request is a record: op says what the handler    *)
(* does next; mode, text and posted are its form; new is TRUE when the     *)
(* response carries a new session cookie; active and run are what the      *)
(* handler reads again of its copy of the session (sessionView): the       *)
(* active mode (home) and the last run of the form's mode (open, save).    *)
(***************************************************************************)
Request ==
  [op : {"home", "ask", "written", "rerun", "switch", "open", "save", "saving", "mark"},
   mode : Mode, text : {NoText, NoDraft} \cup Question \cup Query, posted : Nat,
   session : SessionId, new : BOOLEAN, active : Mode, run : Nat]

\* load: the handler copies the session the browser presents, or gets a new one.
Load(tab, op, mode, text, posted) ==
  LET Loaded(id, new, view) ==
        request' = [request EXCEPT ![tab] =
                      [op |-> op, mode |-> mode, text |-> text, posted |-> posted,
                       session |-> id, new |-> new,
                       active |-> IF op = "home" THEN view.active ELSE mode,
                       run |-> IF op \in {"open", "save"} THEN view.modes[mode].run ELSE NoRun]]
  IN  /\ request[tab] = Idle
      /\ \/ /\ cookie \in DOMAIN held
            /\ Loaded(cookie, FALSE, held[cookie])
            /\ UNCHANGED <<held, issued>>
         \/ /\ cookie \notin DOMAIN held
            /\ \E id \in SessionId :
                 /\ Contract!Open(id, {})
                 /\ Loaded(id, TRUE, NewContent)
      /\ UNCHANGED <<cookie, runs, catalogue>>

\* update: nothing is stored in a session that ended.
Change(id, content) ==
  IF id \in DOMAIN held THEN Contract!Change(id, content, {}) ELSE UNCHANGED <<held, issued>>

Become(tab, op) == request' = [request EXCEPT ![tab].op = op]

\* The response, which may not reach the browser, sets the cookie of a new session.
Respond(tab) ==
  /\ request' = [request EXCEPT ![tab] = Idle]
  /\ cookie' \in {cookie} \cup IF request[tab].new THEN {request[tab].session} ELSE {}

\* Mutant: the run goes to the tab the user is on.
StoreRunInActive(r, mode, draft, made) ==
  /\ Len(runs) < MaxRuns
  /\ IF r.session \in DOMAIN held
       THEN /\ runs' = Append(runs, [session |-> r.session, mode |-> mode, made |-> made])
            /\ Change(r.session,
                      [held[r.session] EXCEPT
                         !.active = mode,
                         !.modes[held[r.session].active] =
                            [draft |-> draft, run |-> Len(runs) + 1, saved |-> FALSE]])
       ELSE UNCHANGED <<held, issued, runs>>

\* storeRun: the mode's draft and last run are replaced; a run of an ended session gets no id.
StoreRun(r, mode, draft, made) ==
  /\ Len(runs) < MaxRuns
  /\ IF r.session \in DOMAIN held
       THEN /\ runs' = Append(runs, [session |-> r.session, mode |-> mode, made |-> made])
            /\ Change(r.session,
                      [held[r.session] EXCEPT
                         !.active = mode,
                         !.modes[mode] =
                            [draft |-> draft, run |-> Len(runs) + 1, saved |-> FALSE]])
       ELSE UNCHANGED <<held, issued, runs>>

\* A page is loaded, perhaps for the other mode.  Malformed forms and reruns of an unknown saved
\* query do the same without changing the mode.
Home(tab) ==
  LET r == request[tab]
  IN  /\ r.op = "home"
      /\ IF r.mode # r.active
           THEN Change(r.session, [held[r.session] EXCEPT !.active = r.mode])
           ELSE UNCHANGED <<held, issued>>
      /\ Respond(tab)
      /\ UNCHANGED <<runs, catalogue>>

\* ask
FinishAsk(tab) ==
  LET r == request[tab]
  IN  /\ r.op = "ask"
      /\ \E made \in Asked(r.text) : StoreRun(r, "ask", r.text, made)
      /\ Respond(tab)
      /\ UNCHANGED catalogue

\* runWritten
FinishWritten(tab) ==
  LET r == request[tab]
  IN  /\ r.op = "written"
      /\ \E made \in Written(r.text) : StoreRun(r, "cypher", r.text, made)
      /\ Respond(tab)
      /\ UNCHANGED catalogue

\* runSaved, when the row was read.
FinishRerun(tab) ==
  LET r == request[tab]
      row == catalogue[r.posted]
  IN  /\ r.op = "rerun"
      /\ \E made \in Rerun(row) :
           StoreRun(r, KindMode(row.kind),
                    IF row.kind = "cypher" THEN row.query ELSE row.question, made)
      /\ Respond(tab)
      /\ UNCHANGED catalogue

\* runSaved, when the catalogue could not be read: the zero query has the mode of a question.
FailRerun(tab) ==
  LET r == request[tab]
  IN  /\ r.op = "rerun"
      /\ StoreRun(r, KindMode(NotLoaded.kind), NotLoaded.question, NotLoaded)
      /\ Respond(tab)
      /\ UNCHANGED catalogue

\* switchMode keeps the draft of the tab the form came from and shows the other tab.
Switch(tab) ==
  LET r == request[tab]
      other == CHOOSE m \in Mode : m # r.mode
  IN  /\ r.op = "switch"
      /\ Change(r.session,
                [held[r.session] EXCEPT !.active = other, !.modes[r.mode].draft = r.text])
      /\ Respond(tab)
      /\ UNCHANGED <<runs, catalogue>>

\* openInCypher copies the Cypher of the Ask run the form names into the Cypher draft.
OpenInCypher(tab) ==
  LET r == request[tab]
  IN  /\ r.op = "open"
      /\ IF r.run = r.posted /\ runs[r.run].made.query # NoText
           THEN Change(r.session,
                       [held[r.session] EXCEPT
                          !.active = "cypher",
                          !.modes["cypher"].draft = runs[r.run].made.query])
           ELSE UNCHANGED <<held, issued>>
      /\ Respond(tab)
      /\ UNCHANGED <<runs, catalogue>>

\* save, up to the catalogue: the draft a form with JavaScript carries is kept (keepDraft), and a
\* run that is not the last of the handler's copy of the session is refused.
KeepDraft(tab) ==
  LET r == request[tab]
  IN  /\ r.op = "save"
      /\ IF r.text # NoDraft
           THEN Change(r.session, [held[r.session] EXCEPT !.modes[r.mode].draft = r.text])
           ELSE UNCHANGED <<held, issued>>
      /\ IF r.run = r.posted
           THEN Become(tab, "saving") /\ UNCHANGED cookie
           ELSE Respond(tab)
      /\ UNCHANGED <<runs, catalogue>>

\* Mutant: the run to save is looked up in the session again when the row is written.
InsertLastRun(r) ==
  LET last == IF r.session \in DOMAIN held THEN held[r.session].modes[r.mode].run ELSE r.run
      made == runs[last].made
  IN  /\ Len(catalogue) < MaxRows
      /\ Savable(made)
      /\ catalogue' = Append(catalogue, Saved(made, r.posted))

Insert(r) ==
  LET made == runs[r.run].made
  IN  /\ Len(catalogue) < MaxRows
      /\ Savable(made)
      /\ catalogue' = Append(catalogue, Saved(made, r.posted))

\* Save inserts the row.
SaveRow(tab) ==
  LET r == request[tab]
  IN  /\ r.op = "saving"
      /\ Insert(r)
      /\ Become(tab, "mark")
      /\ UNCHANGED <<held, issued, cookie, runs>>

\* The row is inserted but the answer of the database is lost: the handler reports a failure.
SaveRowUnheard(tab) ==
  LET r == request[tab]
  IN  /\ r.op = "saving"
      /\ Insert(r)
      /\ Respond(tab)
      /\ UNCHANGED <<held, issued, runs>>

\* Save refuses the name, the folder or the query, or the insert fails.
RefuseSave(tab) ==
  /\ request[tab].op = "saving"
  /\ Respond(tab)
  /\ UNCHANGED <<held, issued, runs, catalogue>>

\* Mutant: the mark goes to whatever run the mode holds now.
MarkLastRun(r) ==
  Change(r.session, [held[r.session] EXCEPT !.modes[r.mode].saved = TRUE])

\* Mutant: the handler's copy of the mode, with the mark, is written back.
MarkCopy(r) ==
  Change(r.session,
         [held[r.session] EXCEPT
            !.modes[r.mode] = [draft |-> IF r.text = NoDraft THEN @.draft ELSE r.text,
                               run |-> r.run, saved |-> TRUE]])

\* The run is marked as saved, if it is still the last one of its mode.
MarkRun(r) ==
  Change(r.session,
         IF held[r.session].modes[r.mode].run = r.run
           THEN [held[r.session] EXCEPT !.modes[r.mode].saved = TRUE]
           ELSE held[r.session])

\* save, after the catalogue.
Mark(tab) ==
  /\ request[tab].op = "mark"
  /\ MarkRun(request[tab])
  /\ Respond(tab)
  /\ UNCHANGED <<runs, catalogue>>

-----------------------------------------------------------------------------
(***************************************************************************)
(* What happens to the handlers from outside.                              *)
(***************************************************************************)

\* Sessions expire or are evicted by the requests of other browsers.
SessionsEnd ==
  /\ \E ended \in SUBSET DOMAIN held \ {{}} : Contract!End(ended)
  /\ UNCHANGED <<cookie, request, runs, catalogue>>

\* The process restarts: sessions and requests are gone, the catalogue stays.
Restart ==
  /\ Contract!End(DOMAIN held)
  /\ request' = [tab \in Tab |-> Idle]
  /\ UNCHANGED <<cookie, runs, catalogue>>

\* The requests of the browser.  An old page, a second tab or the back button can post a run that
\* has been replaced or saved; and save looks at nothing but the id, so any run can be posted, also
\* one that failed or is a rerun and gets no save form from the pages.
Submit(tab) ==
  \/ \E mode \in Mode : Load(tab, "home", mode, NoText, NoRun)
  \/ \E text \in Text("ask") : Load(tab, "ask", "ask", text, NoRun)
  \/ \E text \in Text("cypher") : Load(tab, "written", "cypher", text, NoRun)
  \/ \E row \in 1 .. Len(catalogue) : Load(tab, "rerun", "ask", NoText, row)
  \/ \E mode \in Mode : \E text \in Text(mode) : Load(tab, "switch", mode, text, NoRun)
  \/ \E id \in 1 .. Len(runs) :
       /\ runs[id].mode = "ask"
       /\ Load(tab, "open", "ask", NoText, id)
  \/ \E id \in 1 .. Len(runs) : \E text \in Text(runs[id].mode) \cup {NoDraft} :
       Load(tab, "save", runs[id].mode, text, id)

Handle(tab) ==
  \/ Home(tab)
  \/ FinishAsk(tab) \/ FinishWritten(tab) \/ FinishRerun(tab) \/ FailRerun(tab)
  \/ Switch(tab) \/ OpenInCypher(tab)
  \/ KeepDraft(tab) \/ SaveRow(tab) \/ SaveRowUnheard(tab) \/ RefuseSave(tab) \/ Mark(tab)

Init ==
  /\ Contract!Init
  /\ cookie = NoCookie
  /\ request = [tab \in Tab |-> Idle]
  /\ runs = <<>>
  /\ catalogue = <<>>

Next ==
  \/ \E tab \in Tab : Submit(tab) \/ Handle(tab)
  \/ SessionsEnd
  \/ Restart

Spec == Init /\ [][Next]_vars

-----------------------------------------------------------------------------
(***************************************************************************)
(* Properties.                                                             *)
(***************************************************************************)

\* The types of the variables.
TypeOK ==
  /\ DOMAIN held \subseteq SessionId
  /\ \A id \in DOMAIN held : held[id] \in Content
  /\ issued \subseteq SessionId
  /\ cookie \in SessionId \cup {NoCookie}
  /\ request \in [Tab -> Request \cup {Idle}]
  /\ runs \in Seq(Run)
  /\ catalogue \in Seq(Row)

\* A run is only ever seen in the session and the tab it was submitted from (a rerun: in the tab of
\* its kind), whatever the user switches to while it runs.
RunsStayHome ==
  \A id \in DOMAIN held, mode \in Mode :
    LET run == held[id].modes[mode].run
    IN  run # NoRun => /\ runs[run].session = id
                       /\ KindMode(runs[run].made.kind) = mode

\* A mode's last run is the one that finished last: no handler that worked on an older copy of the
\* session brings a replaced run back.
LastRunIsKept ==
  \A id \in DOMAIN held, mode \in Mode :
    \A later \in (held[id].modes[mode].run + 1) .. Len(runs) :
      ~ (runs[later].session = id /\ runs[later].mode = mode)

\* A run that is shown as saved, and so has no save form any more, is in the catalogue: the mark of
\* a slow save never lands on a run that replaced the saved one.
SavedMeansStored ==
  \A id \in DOMAIN held, mode \in Mode :
    held[id].modes[mode].saved =>
      \E row \in 1 .. Len(catalogue) : catalogue[row].posted = held[id].modes[mode].run

\* A row is the run whose id the form named, as it ran: never the draft, never a run that replaced
\* it while the form was open or the save under way.
RowsAreRuns ==
  \A row \in 1 .. Len(catalogue) :
    LET posted == catalogue[row].posted
    IN  catalogue[row] = Saved(runs[posted].made, posted)

\* Whatever was posted to be saved, also a run that was refused or is a rerun itself, what got into
\* the catalogue can be run again: a rerun is of the kind, the question and the Cypher of an earlier
\* run that was saved, and it reaches the database.
RerunsRepeatRuns ==
  \A id \in 1 .. Len(runs) :
    LET made == runs[id].made
    IN  made.source = "saved" =>
          \E row \in 1 .. Len(catalogue) :
            LET first == runs[catalogue[row].posted].made
            IN  /\ catalogue[row].posted < id
                /\ made.kind = first.kind /\ made.question = first.question
                /\ made.query = first.query
                /\ made.stage = "execute"

\* Finishing a save leaves every draft alone, also one that was stored while the save was under way.
SavingKeepsDrafts ==
  [][\A tab \in Tab :
       request[tab].op = "mark" /\ request'[tab].op = "idle" =>
         \A id \in DOMAIN held', mode \in Mode :
           held'[id].modes[mode].draft = held[id].modes[mode].draft]_vars

\* README: each mode keeps its own draft and last result; rerunning saved Cypher is a run of the
\* Cypher tab.  Whatever comes of the rerun of a row that was saved from its page, it should leave the
\* Ask tab alone.
RerunsKeepOtherMode ==
  [][\A tab \in Tab :
       request[tab].op = "rerun" /\ request'[tab].op = "idle" =>
         LET row == catalogue[request[tab].posted]
         IN  row.kind = "cypher" /\ OffersSave(runs[row.posted].made) =>
               \A id \in DOMAIN held' : held'[id].modes["ask"] = held[id].modes["ask"]]_vars

\* README: a run that is no longer current is rejected.  A row added for a held session, of a run
\* that had a save form, should be that of a run that is still the last of its mode.
SavesOnlyCurrentRuns ==
  [][Len(catalogue') > Len(catalogue) =>
       LET posted == catalogue'[Len(catalogue')].posted
           run == runs[posted]
       IN  OffersSave(run.made) /\ run.session \in DOMAIN held =>
             held[run.session].modes[run.mode].run = posted]_vars

=============================================================================
