# Verification of tpt-graph

TLA+ models of the two Go programs of this repository, the TLC runs that check them on small instances, and
proofs that TLAPS checks for every value of the constants. Every definition is read off the source; `PROJECT.json`
maps each one to the lines it stands for.

- **query-workspace** (`src/query-workspace`): a person asks a question, a model turns it into Cypher, the Cypher
  is validated, run read-only against Neo4j and shown; questions and hand-written Cypher can be saved and run again.
- **tpt-graph** (`src/cmd`, `src/internal`): pages and a graph explorer over the same database.

## 1. Inventory

| Component | State | Operations | Module |
|---|---|---|---|
| Session store `workspace/session.go` | map of sessions, list in order of use, bytes used, all under one mutex | `load`, `update`; `expire`, `evict`, `touch`, `remove` within them | `SessionStore`, `SessionContract` |
| Handlers and service `workspace/http.go`, `workspace.go`, `view.go` | none of their own: a copy of the session per request | `home`, `ask`, `runWritten`, `runSaved`, `switchMode`, `openInCypher`, `save` | `Workspace` |
| Saved queries `catalog/postgres.go` | table `saved_queries` | `Save`, `Get`, `List` | `Workspace` |
| Schema cache `schema/cache.go`, `catalog/schema.go` | table `schema_snapshots`, the flag `refreshFailed`, a timer | `Run`, `RefreshIfDue`, `Refresh`, `Status`, `Current` | `SchemaCache` |
| Query execution `queryengine/neo4j.go` | a driver session, a transaction, `rowCollector` | `Execute` with its deferred functions, `add` | `QueryExecutor` |
| Read-only policy and text `workspace.go`, `params.go`, `format.go` | none: functions of a text | `validateReadQuery`, `inlineParameters`, `formatCypher` | `CypherText` |
| Graph explorer `handler/graph.html`, `graphapi/neo4j.go` | the canvas, `expandedNodes`, `childrenOf`, `expanding` | submit, expand, collapse, reveal a summary | `GraphExplorer` |
| Schema discovery `queryengine/schema.go` | none outside one `Discover`: rows read, bytes, lines | three metadata procedures in one transaction under one byte limit | `SchemaDiscovery` |
| Generation `generation/gemini.go` | a shared client under a mutex | `getClient`, `Generate`, the outcome of a call | `Generation`, `Investigation` |
| Lifecycle `cmd/query-workspace/main.go` | main, the refresh loop, the server, the clients | start, serve, shut down | `Lifecycle` |
| Result display `view.go`, `graph.go` | none: functions of what was executed | the notices of a page, the graph within its caps | `ResultPage` |
| `network.go`, `diagnostics.go`, `catalogue.go` | none | timings of HTTP attempts, durations, folder tree | not modelled |
| Parameter decoding, configuration, observability, statistics pages, who-is client, browser script, `main` of tpt-graph | none that matters between requests | – | not modelled |

How they interact. A handler calls the session store twice, to load a copy of its session and, after the slow
part (generate, execute, read or write a row), to update it; no lock is held in between, so the requests of several tabs
interleave there. The service calls generation (which reads the latest schema snapshot), the validator, the executor
and the catalogue. The refresh loop runs beside the requests and shares with them only the snapshots table and the
flag. A page of the explorer runs alone in its browser; its event handlers interleave at every `fetch`.

What is hard, and what makes each component correct:

- *Session store.* The recency list must agree with the map and stay in order, or expiry stops too early; `used` is
  kept by deltas through any sequence of calls; eviction must free enough, in order, and spare the session of the
  request; a late update must never reach a session under a reused id.
- *Handlers.* A run that finishes late must land in the session and mode it came from; saving must store the run that was
  posted and mark no other; sessions end and the process restarts between any two accesses; the insert may succeed
  although its answer is lost.
- *Schema cache.* The loop goes on after every failure; a late insert must not displace a newer snapshot; a status
  request reads flag and snapshot in two steps and should not hide a failure; attempts cross midnight.
- *Execution.* Every call can fail with or without effect; the deadline passes in the middle; a truncated result is
  rolled back and a complete one committed once it is known to be read-only; a row is kept whole or not at all.
- *Generation.* The first questions race to create the client; one that fails must leave the mutex and the chance to the
  next. A response can hold Cypher that decodes although the model was stopped at its limit or blocked.
- *Result page.* A page without rows can mean nothing matched, the first row did not fit, the query failed or was never
  run; what the two caps of the graph leave out must be said.
- *Discovery and lifecycle.* Rows that break off look like rows that are over; three procedures share one limit. The
  budget for shutting down starts before the wait for the refresh loop; clients must outlive everybody who uses them; the
  process must end whatever hangs.
- *Text.* Three scanners must agree on where strings, escaped names and comments end.
- *Explorer.* Answers arrive late, after the canvas was cleared or the hub collapsed; a collapse takes back what an
  expand introduced although both it and its neighbours changed meanwhile.

`PROJECT.json` lists each hazard at its line, with the properties that watch it.

## 2. Modules

```
SessionContract ◀─ implements ── SessionStore ◀── MCSessionStore
       ▲                              ▲── SessionStoreProofs
       └── uses ── Workspace ◀── MCWorkspace
                   ▲── WorkspaceProofs

Generation ────────────────────────┐
QueryExecutor ◀── ResultPage ◀──── Investigation ◀── MCInvestigation
                                         ▲── InvestigationProofs

SchemaDiscovery ◀── Lifecycle ◀── MCLifecycle,   LifecycleProofs
SchemaCache   ◀── MCSchemaCache,   SchemaCacheProofs
GraphExplorer ◀── MCGraphExplorer, GraphExplorerProofs
CypherText    ◀── MCCypherText,    CypherTextProofs

FoldProofs ◀── SessionStoreProofs, LifecycleProofs, InvestigationProofs, CypherTextProofs
```

**SessionContract** is what the handlers rely on: sessions may end at any time, an ended id never comes back, and only
the operation about a session changes it. `Workspace` takes its session steps from it.

**SessionStore** is the store itself. The private methods are functions from store values to store values (`Expired`,
`Evicted`, `Touched`, `Added`, `Changed`, `Remeasured`), and each public method chains them in the order of the code:
`LoadHeld` and `LoadNew` are the two ways through `load`, `Update` and `UpdateEnded` those through `update`. The byte
sizes of contents are a constant function; the clock ticks between operations.

**Workspace** has one browser and the requests it has in flight. `Submit` is a form being posted, `Load` the session
being read (or created, when the cookie names none), then one `Finish…` action per handler with its work and its update.
`save` has three steps: keep the draft (`KeepDraft`), write the row (`SaveRow`, `SaveRowUnheard` when the answer is lost,
`RefuseSave`), mark the run (`MarkRun`). `SessionsEnd` and `Restart` happen at any time. A load or update that ends other
sessions is a `SessionsEnd` followed by it. A form posts the id of any run that was ever stored, a superset of what the
pages hold: `save` looks at the id only, so also runs that failed or are reruns, which get no save form, can be posted,
and what the model says of the catalogue does not lean on the pages. Only the two properties that the code does not
keep are about runs with a save form (`OffersSave`), so that their counterexamples are ones the pages allow. A draft of the Cypher tab stands for the text with
its parameters, and the handler `home` also for requests that are refused before they touch anything (malformed forms,
unknown saved queries).

**SchemaCache** walks `Run`, `RefreshIfDue` and `Refresh` as the steps `starting → loading → discovering → saving →
saved → planning → asleep`, with a failure at each call. `Status` is two steps, as in the code. An insert that
was given up may `Land` later. `Down` and `Start` restart the process.

**QueryExecutor** follows one `Execute` from `BeginTransaction` to the deferred close. `Answered` and `Cleaned` say
which context a call has: the query's, which expires, or one of its own. A failed call may have had its effect. `Row` and
`GraphSize` are constants: what counts is how many bytes a row adds. All that is encoded is text by then, so encoding
does not fail. The driver and the database are external.

**Generation** has every question that is under way. A `Generate` goes `reading → locking → creating → calling → done`;
its context ends at its deadline or with its caller, which reading and calling heed, while the mutex and the creation of the
client do not. `OutcomeOf` is the classification of what the model or the library reports, in the order of the code.

**ResultPage** adds to `QueryExecutor` what the page says of the result: `ExecutionNotices` (investigationView) and
`GraphNotices`, `DrawnNodes`, `DrawnEdges` (newGraphView).

**Investigation** is `Ask` for one question among those of `Generation`: its text is judged (`Validate`) and executed
(the actions of `QueryExecutor`), and `Notices` are those of its page at whatever stage it ended. The verdict of the
validator is part of the answer here; `CypherText` says what it depends on.

**SchemaDiscovery** is `Discover`: `RunProcedure`, `ReadMetadata`, `ReadToEnd` for each procedure, then `Compose`, with a
failure at each call, and the closing of the session, which has a time limit of its own. The driver is configured not to
retry, so there is one attempt. Rows are told apart by size, by whether they decode and by the lines they add.

**Lifecycle** is the process: `main` from opening the clients to its exit, the refresh loop with a `SchemaDiscovery`
inside, the requests in flight, the signal and the failure of the server. Time only counts from the decision to stop: a
step that waits for nobody takes none, so `Tick` is possible while a session is being closed or requests are drained.
Here a refresh may be due at any time and the insert is one step; when it is due and what lands is `SchemaCache`'s subject.

**CypherText** has texts of symbols (a word is one symbol). `TokenEnd`, `InlineEnd` and `FormatEnd` are the cases of
the three scanners, `Scan` their common loop (`Spans` the stretches the validator's loop takes one after the other);
`Accepted`, `Inlined` and `Formatted` are validateReadQuery, inlineParameters and formatCypher (`FormatStep` is one turn of
its loop, `LineBreak` its lineBreak). The text is displayed
as `Inlined(Formatted(text))` and copied as `Inlined(text)`. The state machine only types texts.

**GraphExplorer** has the canvas, and one action per event handler up to and after its fetch (`Submit`, `SeedAnswered`,
`SeedFails`; `Expand`, `ExpandAnswered`, `ExpandAddsNothing`, `ExpandFails`; `Collapse`; `Reveal`). The endpoints
are operators that give the set of payloads the queries can return (`LIMIT` without an order is a choice). The database
does not change while the page is open. Ids of summary nodes have a prefix, so that they are no ids of the database. `undo` is history: the last expand, as long as nothing but reveals of its summaries changed the canvas since.

## 3. Runs

Each passing run checks its properties in all reachable states of the instance; each property has a mutant (a
plausible bug of the code, defined next to the definition it replaces) that the same run catches.

| Run | Question | Bounds and why they are enough |
|---|---|---|
| `sessions` | Does the store keep order, accounting, budget, expiry and order of eviction, and implement the contract? | 4 ids, budget 8, contents of size 1, 2, 4 and 9, idle period 2, clock up to 5. Three sessions exceed the budget when two of them hold a run, and a fourth id lets a new session evict two; one content exceeds it alone; time allows two generations of idle sessions |
| `tabs` | Do interleaved requests lose or misplace anything? | one session, 2 requests in flight, 2 stored runs, one row, one question, two texts of Cypher that can be saved and one that is rejected. Two runs are the least in which one replaces another or is a rerun of it, two texts tell them apart in a row, and a run with the rejected one can be posted to be saved. One session id shows that a mode keeps its runs; that a session does, for any number of ids, and what a second row adds (a retry after a lost answer) is in the theorems of `WorkspaceProofs` |
| `schema` | Does refreshing go on, and is what is read and shown honest? | days of 2 and of 3 units, a refresh of at most 1, clock up to 5, 2 inserts: an attempt can cross a midnight, an insert can be late by one |
| `explorer` | Do expands, collapses and reveals keep the canvas consistent? | four nodes, of which two are grouped, two expanded ones share a neighbour, and a cap of 2 drops one; one submit can be under way with an expand |
| `query` | Does a question end, does only complete Cypher run, whatever fails, and does the page say what happened? | 2 questions, one of them followed to its page, so that they race for the client; rows of 4 kinds, one larger than all limits, the others sharing nodes and relationships; streams of up to 3 rows, limits of 2 rows and 13 bytes, so either cuts; a canvas of 2 nodes and 1 relationship. Deadlock is not checked, because questions end |
| `lifecycle` | Is only a whole schema saved, are clients closed last, and does the process end? | rows of 1 and 2 bytes and one that does not decode, a limit of 3 bytes and of 2 lines; 2 requests; a budget of 3 units, a session that closes within 1, so that time for requests is left. Deadlock is not checked, because the process ends |
| `cypher` | Do the scanners agree? | all 800 000 texts of up to five pieces out of 15; five pieces put each kind of literal or comment around a keyword, a parameter or a quote, behind `RETURN` |
| `replaced_run`, `failed_rerun`, `midnight`, `explorer_collapse`, `explorer_late` | Where the code departs from what its documents say, see below | the instances above, cut down |

`tabs` and `schema` leave the type invariants of their modules out, which are proved (section 4).

What the passing runs show:

- `sessions`: `RecencyList`, `Accounting`, `WithinBudget`, `NoneOverstays`, `EvictsOldestForSpace`, and `ContractSpec`
  (the store refines `SessionContract`, with `held` as the content of the live sessions).
- `tabs`: `RunsStayHome` and `LastRunIsKept` (no update is misplaced or undone by an older copy),
  `SavedMeansStored` (a run marked as saved is in the catalogue), `RowsAreRuns` (a row is the run whose id was posted, never
  the draft or a run that replaced it), `RerunsRepeatRuns` (whatever is posted to be saved, also a run that was refused or is
  a rerun itself: a rerun has the kind, question and Cypher of an earlier run that was saved, and reaches the database),
  `SavingKeepsDrafts`.
- `schema`: `SnapshotOnlyImproves` (also with late inserts), `NoFailureHidden` (a clear status is as new as the last
  attempt that had ended when the request looked), `TriesEveryMidnight` (liveness).
- `explorer`: `OneExpandAtATime` (the flag is set exactly while one expand waits), `SummaryKeepsHub`, and
  `CollapseUndoesExpand`.
- `query`: of the execution, `RowsWhole`, `WithinLimits`, `CleanMeansComplete` (no error means everything, committed, or
  truncated and rolled back), `OnlyReadsCommit`, `EndedOnce`, `NothingLeftOpen`; of the whole question, `OneClient`,
  `RunsOnlyComplete` (nothing but finished, accepted Cypher reaches the database), `PageTellsAll` (no notice means all rows
  of a committed read, "matched nothing" an empty one, and what was not run left no trace), `GraphAccounted` (whatever is
  not drawn is explained, with the right number for missing nodes) and `QuestionsEnd` (liveness).
- `lifecycle`: `SavedIsWhole`, `ClientsOutliveUsers`, `DrainGetsTime` (waiting for the loop costs at most the closing of
  one session, so the budget that started before it is not used up) and `SignalEnds` (liveness, with the exit code).
- `cypher`: `FormattingKeepsCode`, `InliningKeepsCode` (for a parameter that does not touch a string or another
  parameter, which Cypher does not allow), `LiteralMeansValue`.

### Where the code and its documents differ

1. `replaced_run`: the README says a run that is no longer current is rejected when it is saved; the check is made on the
   copy loaded at the start, so a run that another tab replaces after that is saved all the same.
2. `failed_rerun`: when the row of a saved query cannot be read, the zero `SavedQuery` counts as a question, and the
   rerun of saved Cypher empties draft and result of the Ask tab.
3. `midnight`: the next refresh is planned from the end of the last attempt; one that began before midnight and ends
   after it uses up the refresh of the new day.
4. `explorer_collapse`: a collapse removes every edge the expand introduced, also edges between nodes that stay, where
   the comment speaks of dangling ones.
5. `explorer_late`: an expand answered after its hub left the canvas leaves a summary node without an edge.

### Fairness

Three properties need it; all others are safety.

- `TriesEveryMidnight`: `SchemaCache` assumes weak fairness of `Tick` (time passes) and of the loop's own steps (a call
  returns or fails, the timer fires, and the goroutine is scheduled). The discovery and the insert run under the deadline
  of the refresh, so a call that hangs fails. The load before it has no deadline in the code: that it returns at all is
  an assumption about PostgreSQL, and how long it takes is left open.
- `QuestionsEnd`: weak fairness of each question's own steps. Reading the snapshot and calling the model return, by
  themselves or because the context ends. The mutex is held only while the client is created, which looks up
  credentials; that this returns is an assumption, for it does not heed the context. `GetClient` is weakly fair although it
  waits for the mutex: each question passes it once, so there is no starvation to exclude.
- `SignalEnds`: weak fairness of `main`'s steps, of `Tick`, and of the loop once its context is over. Requests may never
  be answered and a discovery that is not cancelled may take any time.

## 4. Proofs

| Module | Theorems | Argument |
|---|---|---|
| `SessionStoreProofs` | `TypeCorrect`, `RecencyCorrect`, `SweepComplete`, `ImplementsContract`; `AccountingCorrect`, `BudgetCorrect`, `EvictionCorrect` | Each private method keeps a store value `Sound` (typed, list and map agree, list in order, no use in the future) and says what it leaves alone (`Shrinks`); operations follow by chaining. `AllFresh` after the sweep gives `SweepComplete`; ids of live sessions are issued ones gives the refinement. `BudgetInv` adds the bytes, see below |
| `SchemaCacheProofs` | `TypeCorrect`, `StatusHidesNoFailure`, `SnapshotsImprove` | `AllUsable` (only usable texts are ever inserted, late ones included), `Underway` (what the loop knows at each step), `FlagHonest` (a clear flag means the last attempt left a snapshot of its day) and `FlagReadHonest` (the same of a flag a request has read while the loop moved on, which makes the property inductive across its two steps) |
| `WorkspaceProofs` | `TypeCorrect`, `RunsStay`, `KeepsLastRun`, `SavedIsStored`, `SavesRuns`, `SavedRunsAgain`, `KeepsDrafts` | `Linked`: the runs a session holds are its own and of the mode; what a form carries was once stored (`RequestLinked`); a handler that is saving has a copy whose run is the posted one, one that is marking has its row in the catalogue; each row is the run it was posted for, and passed the validation (`RowsLinked`). Most steps change none of these links (`Quiet`). `SavedRunsAgain` adds `RunsWellMade` (a run of the Cypher tab has no question, a rerun of a row that could not be read no Cypher), so that the row loses nothing a rerun needs |
| `InvestigationProofs`, an execution by itself | `TypeCorrect`, `KeepsRowsWhole`, `CommitsOnlyReads`, `CleanIsComplete`, `EndsOnce`, `LeavesNothingOpen`, `StaysWithinLimits` | Three layers: types; `Collected` (the rows are a prefix of what was read, and exactly the row that did not fit is missing); `Protocol` (what is known of the transaction at each point of `Execute`), which needs the other two. `Counted` adds the bytes |
| `InvestigationProofs`, a whole question | `ImplementsParts`, `InvestigationTypeCorrect`, `CreatesOneClient`, `ExecutesOnlyComplete`, `PageIsHonest`, `AccountsForGraph` | `Shared` (who holds the mutex is creating the client, and there is none yet), `Honest` (a success has an answer that is one) and `Handed` (nothing runs before the text is generated and accepted). Each step of an investigation is one of `Generation` or one of `QueryExecutor`, so all theorems about the executor hold of it; `PageIsHonest` rests on `CleanIsComplete`, `AccountsForGraph` on `KeepsRowsWhole` |
| `LifecycleProofs` | `LifecycleTypeCorrect`, `ClientsClosedLast`, `RefreshLeavesTime`, `WholeSchemasSaved` | `Ordered` (what main has done and waited for before each phase) and `Late` (while main waits for the loop no time passes but for the closing of one session, and the loop does not start another refresh). `Gathered` is about the discovery within, see below |
| `GraphExplorerProofs` | `TypeCorrect`, `OneExpand`, `SummariesKeepHubs`, `CollapseRestores` | `Single` (the flag goes with the one fetch) and `Recorded` (the record of an expand holds summaries of its own hub, each with its edge, and never the hub). A collapse then takes a summary whenever it takes the edge, and no hub of a summary it leaves. `Undone` says what the last expand added |
| `CypherTextProofs` | `LiteralsMeanValues`, `InliningKeepsTokens`, `FormattingKeepsTokens` | Where the symbols of each character of a value stand in its literal (`Places`), and what a scanner does from one such place to the next; that a token is one wherever its symbols stand, if what follows does not belong to it (`TokenMoves`); what the text written and the text pending say together (`Keeps`), see below |
| `FoldProofs` | lemmas only | What the folds of the community modules compute: sums over finite sets and over sequences (`Total`), and lists put one after the other (`Flattened`, `FlattenedPlaces`) |

They hold for every value of the constants under the named assumptions of the modules: any budget, idle period,
number of sessions and measure of content; any number of tabs, runs, rows and questions; any calendar in which every moment
lies between two midnights; any set of rows and any limits; any graph; texts of any length. The assumptions are evaluated
in every run.

The newer arguments, where the invariant is not the property:

- *Bytes of the session store.* `Accounting` is not inductive: `used` follows the sizes stored with the sessions
  (`Charged`), and a stored size is the measure of the content only between operations (`Measured`; within `update` the
  content changes first). `BudgetInv` holds both and `InBudget`, that the limit is kept or one session is left.
  Eviction walks the list from its end, so that what it removes is the least recently used part (`OldestStep`), and the
  sum of what is left is the sum before less what was removed, whatever the order of the fold.
- *Bytes of an execution.* `Counted`: the count is the sum over the rows that were kept. A row is added only if the sum
  stays within the limit, so `WithinLimits` follows.
- *A discovery.* `Gathered`: what a procedure has collected is what the rows sent so far say and the bytes are their sum;
  a procedure counts as drained only when its rows ended without an error. A text that is composed without a failure is
  therefore `Whole`, and it stays whole until it is saved, because a failure after that is reported and stops the saving.
- *An expand and its collapse.* `Undone`: as long as an expand can be taken back, the canvas is what it was before the
  expand together with the nodes and edges the record names, those of revealed summaries included, and the record names
  nothing older. So removing what it names restores the nodes and the edges of the database.
- *The graph of a page.* The lists of nodes and relationships are the rows' entities in order, each once (`Flattened`,
  from `RowsWhole`), so that cutting a list cuts a set, and counting positions counts entities.
- *Literals.* `QuotedEnd` and `Meaning` are recursive functions that look ahead; that they exist, and what they are at
  each place, is shown from the end of the text backwards (`LooksAheadExists`). At the place of a character both step over
  exactly the symbols it was written with, so neither stops early nor reads past the closing quote.
- *The text inlined.* Two scanners are never compared with each other: both are followed along the tokens of the query.
  `InlineEnd` takes each token for what it is, except a word, through which it goes symbol by symbol
  (`InlineTokens`, `InlinesTokens`). Where a token comes to stand in the text inlined it is a token again, because `TokenEnd`
  depends only on its symbols and on what follows (`TokenMoves`, `Ends`), and what follows begins as before, or
  with the quote of a value in the place of a `$` (`InlinedHead`). A literal in the place of `$x` is one token
  (`QuotedToTheEnd`) unless a quote follows, which is what `Touching` excludes. `Agrees` says all this from a place
  of the query on, and carries over from the end of each token to its beginning (`InlinedStep`, `FromTheEnd`).
- *The text formatted.* The invariant of formatCypher is about what it will have written: `Keeps` says that the text written
  with the pending text behind it, and anything behind both that could follow there, reads as the tokens before the
  place reached, and that it reads so too when the spaces at the end of the pending text are taken off and a new line comes
  next (`Said`). A token more keeps it (`TokenSaid`): nothing of a token is lost with the spaces at its end but of a
  comment, which the new line ends as well (`TrimmedToken`), and the new line is part of no token (`NewLineEnds`). So a line
  may begin at any place between two tokens (`KeepsBroken`), and formatCypher begins one only there: it sees the tokens
  TokenEnd sees, but for a parameter, which it takes for a dollar and a word, and before that word it never breaks because
  of `Name`. `Holds` has this one place as its second case. The fold over the spans becomes a sequence of states and
  places (`FormattedSteps`), along which `Holds` is carried (`StepHolds`).

A recursive function is a `CHOOSE` of a function that satisfies its equation: nothing is known of it until one is shown to
exist. The library's induction theorems cannot be instantiated here, but its theorem of the smallest element (`WFMin`) can,
and each induction of these modules looks for a smallest counterexample: a smallest set, a smallest number, a
last position. `FoldProofs` does it once for the folds.

Only model-checked:

- `TriesEveryMidnight`, `QuestionsEnd`, `SignalEnds`: liveness.

Every other property of a passing run is stated by a theorem.

## 5. Not modelled

- Layout, wording, captions, colours, sidebar, cookies of the sidebar, the folder tree and search of the catalogue,
  diagnostics, durations and the timings of single HTTP attempts (`network.go`): presentation.
- Parameter decoding, configuration: pure functions read once or per request, without state between calls.
- Observability: no effect on behaviour.
- The statistics pages, the who-is client and `main` of tpt-graph: stateless requests and wiring.
- The prompt and what the model makes of it: external. The labels, properties and patterns of a schema text are opaque lines.
- Two answers on their way to one page of the explorer (two submits) are added in any order; the page promises nothing
  about it.
- In `CypherText`: numbers, parameter values other than strings, and letters outside ASCII. The scanners end a word at any
  byte above 0x7f, so a name such as `blåskip` is broken before `skip` on display and one such as `blåset` is refused;
  a number put in the place of the parameter in `RETURN$x` merges with the word. Both are listed as hazards.

## 6. Plan

Built, in this order: `SessionContract`, `SessionStore` and its proofs, `Workspace`, `SchemaCache` and its proofs,
`GraphExplorer`, `QueryExecutor` and its proofs, `CypherText`; then `Generation`, `ResultPage`, `Investigation`,
`SchemaDiscovery`, `Lifecycle`, and the proofs of `Workspace`, `Investigation`, `Lifecycle` and `GraphExplorer`; then
`FoldProofs` with all that rests on sums and lists, the collapse of the explorer, and `CypherTextProofs`.

Next, most important first:

1. Composition of `Workspace` with `SessionStore` in place of the contract; `ImplementsContract` already says that the
   store allows nothing the contract does not.
2. `CypherText` with literals of all types and words of more than ASCII letters.
3. The folder tree of the catalogue as a pure operator.
