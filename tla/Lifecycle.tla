----------------------------- MODULE Lifecycle -----------------------------
(***************************************************************************)
(* The process of the query workspace                                      *)
(* (query-workspace/cmd/query-workspace/main.go): main, the goroutine of   *)
(* the HTTP server, the refresh loop (schema/cache.go, Run and Refresh)    *)
(* with the discovery it calls, and the requests the server handles.       *)
(*                                                                         *)
(* The clock matters from the moment main decides to stop.  A unit of it   *)
(* is longer than any step that waits for nobody; a call whose context is  *)
(* over is such a step.  Whether a refresh is due is SchemaCache's         *)
(* question and left open here.                                            *)
(***************************************************************************)
EXTENDS SchemaDiscovery

CONSTANTS
  Budget,      \* time for the shutdown of server and driver, from the decision to stop
  CloseTime,   \* time for closing the session of a discovery
  MaxRequests  \* bound of the requests in flight

ASSUME TimeAssumption == CloseTime \in Nat /\ Budget \in Nat /\ CloseTime < Budget
ASSUME RequestAssumption == MaxRequests \in Nat

VARIABLES
  main,       \* what main is at
  signalled,  \* SIGINT or SIGTERM was received
  server,     \* the HTTP server
  serverErr,  \* its failure, if main heard of it
  loop,       \* what the refresh loop is at
  requests,   \* how many requests are in flight
  store,      \* the clients of PostgreSQL
  driver,     \* and of Neo4j
  clock,      \* time since main decided to stop, up to Budget
  waited,     \* how long the closing of a session has taken
  exit        \* the exit code

process ==
  <<main, signalled, server, serverErr, loop, requests, store, driver, clock, waited, exit>>
lifecycle == <<discovery, process>>

Stopping == main \in {"cancelling", "draining", "closing driver", "closing store", "flushing"}

\* refreshCtx, which is derived from the context of the signals.
RefreshOver == signalled \/ Stopping

Running == -1

LifecycleInit ==
  /\ DiscoveryInit
  /\ main = "starting" /\ signalled = FALSE
  /\ server = "none" /\ serverErr = FALSE
  /\ loop = "none" /\ requests = 0
  /\ store = "none" /\ driver = "none"
  /\ clock = 0 /\ waited = 0 /\ exit = Running

-----------------------------------------------------------------------------
(***************************************************************************)
(* Starting.                                                               *)
(***************************************************************************)
OpenStore ==
  /\ main = "starting" /\ store = "none"
  /\ store' = "open"
  /\ UNCHANGED <<discovery, main, signalled, server, serverErr, loop, requests, driver, clock,
                 waited, exit>>

OpenDriver ==
  /\ main = "starting" /\ store = "open" /\ driver = "none"
  /\ driver' = "open"
  /\ UNCHANGED <<discovery, main, signalled, server, serverErr, loop, requests, store, clock,
                 waited, exit>>

\* Configuration, a client, the check of the connection, metrics or tracing fails.
StartFails ==
  /\ main = "starting"
  /\ main' = "exited" /\ exit' = 1
  /\ UNCHANGED <<discovery, signalled, server, serverErr, loop, requests, store, driver, clock,
                 waited>>

\* Signals are heard from now on; the refresh loop and the server run beside main.
Serve ==
  /\ main = "starting" /\ driver = "open"
  /\ main' = "serving" /\ server' = "listening" /\ loop' = "loading"
  /\ UNCHANGED <<discovery, signalled, serverErr, requests, store, driver, clock, waited, exit>>

-----------------------------------------------------------------------------
(***************************************************************************)
(* The refresh loop.                                                       *)
(***************************************************************************)
LoopGoes(from, to) ==
  /\ loop = from
  /\ loop' = to
  /\ UNCHANGED <<main, signalled, server, serverErr, requests, store, driver, clock, waited, exit>>

\* The snapshot is of today, or it cannot be loaded.
NoRefresh == LoopGoes("loading", "asleep") /\ UNCHANGED discovery

Refresh == LoopGoes("loading", "discovering") /\ Discover(RefreshOver)

Discovering ==
  /\ loop = "discovering"
  /\ Reads
  /\ waited' = 0
  /\ UNCHANGED <<main, signalled, server, serverErr, loop, requests, store, driver, clock, exit>>

Closing == loop = "discovering" /\ CloseSession /\ UNCHANGED process

Discovered ==
  /\ LoopGoes("discovering", "saving")
  /\ Returned(TRUE)
  /\ UNCHANGED <<text, sent, drained>>

NotDiscovered ==
  /\ LoopGoes("discovering", "asleep")
  /\ Returned(FALSE)
  /\ text' = Nothing /\ sent' = <<>> /\ drained' = {}

\* SaveSchema succeeds or fails.
Save ==
  /\ LoopGoes("saving", "asleep")
  /\ text' = Nothing /\ sent' = <<>> /\ drained' = {}
  /\ UNCHANGED <<phase, procedure, collected, bytesRead, expired, failed>>

\* Midnight, unless the context ended first.
WakeUp == ~ RefreshOver /\ LoopGoes("asleep", "loading") /\ UNCHANGED discovery

StopLoop == RefreshOver /\ LoopGoes("asleep", "ended") /\ UNCHANGED discovery

Loop ==
  \/ NoRefresh \/ Refresh \/ Discovering \/ Closing
  \/ Discovered \/ NotDiscovered \/ Save \/ WakeUp \/ StopLoop

-----------------------------------------------------------------------------
(***************************************************************************)
(* Requests, signals and the server.                                       *)
(***************************************************************************)
Arrive ==
  /\ main # "exited"
  /\ server = "listening"
  /\ requests < MaxRequests
  /\ requests' = requests + 1
  /\ UNCHANGED <<discovery, main, signalled, server, serverErr, loop, store, driver, clock,
                 waited, exit>>

Answer ==
  /\ main # "exited"
  /\ requests > 0
  /\ requests' = requests - 1
  /\ UNCHANGED <<discovery, main, signalled, server, serverErr, loop, store, driver, clock,
                 waited, exit>>

\* The context of a discovery under way ends with refreshCtx.
CancelDiscovery ==
  /\ expired' = (expired \/ phase # "none")
  /\ UNCHANGED <<phase, procedure, collected, bytesRead, failed, text, sent, drained>>

\* The first signal counts.
Signal ==
  /\ main \notin {"starting", "exited"}
  /\ ~ signalled
  /\ signalled' = TRUE
  /\ CancelDiscovery
  /\ UNCHANGED <<main, server, serverErr, loop, requests, store, driver, clock, waited, exit>>

\* ListenAndServe returns: the port is taken, or the listener breaks.
ServerFails ==
  /\ main \in {"serving", "cancelling"}
  /\ server = "listening"
  /\ server' = "failed"
  /\ UNCHANGED <<discovery, main, signalled, serverErr, loop, requests, store, driver, clock,
                 waited, exit>>

DiscoveryTimesOut ==
  /\ loop = "discovering"
  /\ DiscoveryExpires
  /\ UNCHANGED process

-----------------------------------------------------------------------------
(***************************************************************************)
(* Stopping.                                                               *)
(***************************************************************************)

\* main hears of the signal or of the failure; of both, either.  The budget starts, and the
\* refresh loop is told to end.
Stop ==
  /\ main = "serving"
  /\ \/ signalled /\ UNCHANGED serverErr
     \/ server = "failed" /\ serverErr' = TRUE
  /\ main' = "cancelling" /\ clock' = 0
  /\ CancelDiscovery
  /\ UNCHANGED <<signalled, server, loop, requests, store, driver, waited, exit>>

MainGoes(from, to) ==
  /\ main = from
  /\ main' = to
  /\ UNCHANGED <<discovery, signalled, serverErr, loop, requests, clock, waited>>

\* Mutant: nobody waits for the refresh loop.
CloseListenerAtOnce ==
  /\ MainGoes("cancelling", "draining")
  /\ server' = "closed"
  /\ UNCHANGED <<store, driver, exit>>

\* The refresh loop has ended: server.Shutdown takes no more requests ...
CloseListener ==
  /\ loop = "ended"
  /\ MainGoes("cancelling", "draining")
  /\ server' = "closed"
  /\ UNCHANGED <<store, driver, exit>>

\* Mutant: server.Shutdown has no budget.
DrainAll ==
  /\ requests = 0
  /\ MainGoes("draining", "closing driver")
  /\ UNCHANGED <<server, store, driver, exit>>

\* ... and waits for those in flight until the budget is used up.
Drain ==
  /\ requests = 0 \/ clock = Budget
  /\ MainGoes("draining", "closing driver")
  /\ UNCHANGED <<server, store, driver, exit>>

CloseDriver ==
  /\ MainGoes("closing driver", "closing store")
  /\ driver' = "closed"
  /\ UNCHANGED <<server, store, exit>>

CloseStore ==
  /\ MainGoes("closing store", "flushing")
  /\ store' = "closed"
  /\ UNCHANGED <<server, driver, exit>>

\* Spans are flushed, which has a budget of its own.
Exit ==
  /\ MainGoes("flushing", "exited")
  /\ exit' = IF serverErr THEN 1 ELSE 0
  /\ UNCHANGED <<server, store, driver>>

Main == Stop \/ CloseListener \/ Drain \/ CloseDriver \/ CloseStore \/ Exit

\* Mutant: the session is closed without a timeout.
CloseWithoutTimeout == FALSE

\* The context the session is closed with is over.
CloseOverdue == phase = "closing" /\ waited = CloseTime

\* Time passes only while every step that is due waits for something.
Tick ==
  /\ main \notin {"starting", "exited"}
  /\ ~ CloseOverdue
  /\ RefreshOver => phase = "closing" \/ loop = "ended"
  /\ ~ (main = "cancelling" /\ loop = "ended")
  /\ ~ (main = "draining" /\ clock = Budget)
  /\ clock' = IF Stopping /\ clock < Budget THEN clock + 1 ELSE clock
  /\ waited' = IF phase = "closing" /\ waited < CloseTime THEN waited + 1 ELSE waited
  /\ UNCHANGED <<discovery, main, signalled, server, serverErr, loop, requests, store, driver,
                 exit>>

LifecycleNext ==
  \/ OpenStore \/ OpenDriver \/ StartFails \/ Serve
  \/ main # "exited" /\ Loop
  \/ Arrive \/ Answer
  \/ Signal \/ ServerFails
  \/ main # "exited" /\ DiscoveryTimesOut
  \/ Main
  \/ Tick

\* main runs, the loop goes on once its context is over, and time passes.  Requests may never be
\* answered.
Fairness ==
  /\ WF_lifecycle(Main)
  /\ WF_lifecycle(RefreshOver /\ Loop)
  /\ WF_lifecycle(Tick)

LifecycleSpec == LifecycleInit /\ [][LifecycleNext]_lifecycle /\ Fairness

-----------------------------------------------------------------------------
(***************************************************************************)
(* Properties.                                                             *)
(***************************************************************************)

\* The types of the variables.
LifecycleTypeOK ==
  /\ DiscoveryTypeOK
  /\ main \in {"starting", "serving", "cancelling", "draining", "closing driver", "closing store",
               "flushing", "exited"}
  /\ signalled \in BOOLEAN
  /\ server \in {"none", "listening", "failed", "closed"}
  /\ serverErr \in BOOLEAN
  /\ loop \in {"none", "loading", "discovering", "saving", "asleep", "ended"}
  /\ requests \in 0 .. MaxRequests
  /\ store \in {"none", "open", "closed"}
  /\ driver \in {"none", "open", "closed"}
  /\ clock \in 0 .. Budget
  /\ waited \in 0 .. CloseTime
  /\ exit \in {Running, 0, 1}

\* README: refresh shuts down before database clients close.  No client is closed under the refresh
\* loop, nor under a request, unless the budget is used up.
ClientsOutliveUsers ==
  driver = "closed" \/ store = "closed" => loop = "ended" /\ (requests = 0 \/ clock = Budget)

\* The budget starts before the wait for the refresh loop: whatever the loop is at, no more of it
\* is lost for the requests than the closing of a session takes.
DrainGetsTime ==
  [][main = "cancelling" /\ main' = "draining" => clock <= CloseTime]_lifecycle

\* Nothing but a whole schema is saved, and a failed discovery saves nothing.
SavedIsWhole == loop = "saving" => Whole(text)

\* A signal or the failure of the server ends the process, whatever requests and refreshes are
\* under way, and the exit code hides no failure: without a signal it is 1.
SignalEnds ==
  signalled \/ server = "failed" ~> main = "exited" /\ (exit = 0 => signalled)

=============================================================================
