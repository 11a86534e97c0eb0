----------------------------- MODULE Generation -----------------------------
(***************************************************************************)
(* Turning questions into Cypher with the model                            *)
(* (query-workspace/internal/generation/gemini.go): Generate for every     *)
(* question under way, and getClient, through which they share one client. *)
(*                                                                         *)
(* Each Generate has a context that ends after 45 seconds, or earlier when *)
(* its caller goes away.  Reading the snapshot and calling the model heed  *)
(* it; waiting for the mutex of the generator and creating the client do   *)
(* not.  The model and the library that calls it are external: a call is   *)
(* answered, or it breaks, or it returns because its context has ended.    *)
(* Texts are told apart by what becomes of them; sizes, hashes, token      *)
(* counts and the diagnostics of single HTTP attempts are left out.        *)
(***************************************************************************)
EXTENDS Integers

CONSTANTS
  Request,   \* the questions that can be under way at once
  Nobody     \* nobody holds the mutex

ASSUME NobodyAssumption == Nobody \notin Request

VARIABLES
  step,      \* what each Generate does next
  over,      \* why its context has ended, if it has
  holder,    \* who holds the mutex of the generator
  client,    \* the shared client: how many were created, 0 for none
  using,     \* the client each Generate calls the model through
  answer,    \* the answer of the model it returns
  outcome    \* the outcome in its diagnostics, once it has returned

generation == <<step, over, holder, client, using, answer, outcome>>

NoClient == 0

\* The Cypher in an answer: too long, not accepted by validateReadQuery, or fit to run.
Cypher == {"long", "forbidden", "fit"}
Finish == {"", "STOP", "MAX_TOKENS", "SAFETY", "OTHER"}

\* A response has no candidate, when the prompt was blocked or for no stated reason, or one whose
\* text does not decode (decodeGeneratedQuery), or one with Cypher.
Response ==
  [kind : {"response"}, blocked : BOOLEAN, finish : {""}, text : {"none"}] \cup
  [kind : {"response"}, blocked : {FALSE}, finish : Finish, text : {"malformed"} \cup Cypher]

\* What Google reports: a deadline of its own has a code or a status, the others a code.
ApiError ==
  [kind : {"api"}, code : {"504", "DEADLINE_EXCEEDED", "429", "500", "503", "400"}]

NoAnswer == [kind |-> "none"]
Broken == [kind |-> "broken"]
GivenUp(why) == [kind |-> "context", why |-> why]

Answer == Response \cup ApiError \cup {NoAnswer, Broken, GivenUp("deadline"), GivenUp("canceled")}

Outcome ==
  {"success", "error", "upstream_timeout", "rate_limited", "unavailable", "api_error",
   "local_timeout", "canceled", "blocked", "output_limit", "incomplete", "empty_response",
   "invalid_response"}

-----------------------------------------------------------------------------
(***************************************************************************)
(* The outcome of a call.                                                  *)
(***************************************************************************)
ApiOutcome(code) ==
  CASE code \in {"504", "DEADLINE_EXCEEDED"} -> "upstream_timeout"
    [] code = "429"                          -> "rate_limited"
    [] code \in {"500", "503"}               -> "unavailable"
    [] OTHER                                 -> "api_error"

\* Mutant: a text that decodes counts, although the model ran into its limit.
DecodedOutcome(response) ==
  IF response.blocked \/ response.finish = "SAFETY" THEN "blocked"
  ELSE IF response.finish = "OTHER" THEN "incomplete"
  ELSE IF response.text = "none" THEN "empty_response"
  ELSE IF response.text = "malformed" THEN "invalid_response"
  ELSE "success"

\* The first that applies: only a text that is complete and decodes is a success.
ResponseOutcome(response) ==
  IF response.blocked THEN "blocked"
  ELSE IF response.finish = "MAX_TOKENS" THEN "output_limit"
  ELSE IF response.finish = "SAFETY" THEN "blocked"
  ELSE IF response.finish \notin {"", "STOP"} THEN "incomplete"
  ELSE IF response.text = "none" THEN "empty_response"
  ELSE IF response.text = "malformed" THEN "invalid_response"
  ELSE "success"

OutcomeOf(a) ==
  CASE a.kind = "response" -> ResponseOutcome(a)
    [] a.kind = "api"      -> ApiOutcome(a.code)
    [] a.kind = "context"  -> IF a.why = "deadline" THEN "local_timeout" ELSE "canceled"
    [] OTHER               -> "error"

-----------------------------------------------------------------------------
(***************************************************************************)
(* Generate.                                                               *)
(***************************************************************************)
GenerationInit ==
  /\ step = [r \in Request |-> "idle"]
  /\ over = [r \in Request |-> "no"]
  /\ holder = Nobody
  /\ client = NoClient
  /\ using = [r \in Request |-> NoClient]
  /\ answer = [r \in Request |-> NoAnswer]
  /\ outcome = [r \in Request |-> "none"]

Goto(r, from, to) == step[r] = from /\ step' = [step EXCEPT ![r] = to]

\* Generate returns.  Its deadline is gone with it, the context of its caller is not.
GenerationReturns(r, from, as) ==
  /\ Goto(r, from, "done")
  /\ outcome' = [outcome EXCEPT ![r] = as]
  /\ over' = [over EXCEPT ![r] = IF @ = "canceled" THEN @ ELSE "no"]
  /\ using' = [using EXCEPT ![r] = NoClient]

StartGeneration(r) ==
  /\ Goto(r, "idle", "reading")
  /\ UNCHANGED <<over, holder, client, using, answer, outcome>>

\* The latest snapshot is read and is neither empty nor too large.
SnapshotRead(r) ==
  /\ over[r] = "no"
  /\ Goto(r, "reading", "locking")
  /\ UNCHANGED <<over, holder, client, using, answer, outcome>>

\* There is none, it is not usable, or it cannot be read (in time).
SnapshotNotRead(r) ==
  /\ GenerationReturns(r, "reading", "error")
  /\ UNCHANGED <<holder, client, answer>>

\* Mutant: the mutex is not taken.
GetClientUnlocked(r) ==
  /\ IF client # NoClient
       THEN Goto(r, "locking", "calling") /\ using' = [using EXCEPT ![r] = client]
       ELSE Goto(r, "locking", "creating") /\ UNCHANGED using
  /\ UNCHANGED <<over, holder, client, answer, outcome>>

\* getClient, once it has the mutex: the client that is there is used, or one has to be created,
\* while the others wait.
GetClient(r) ==
  /\ holder = Nobody
  /\ IF client # NoClient
       THEN /\ Goto(r, "locking", "calling")
            /\ using' = [using EXCEPT ![r] = client]
            /\ UNCHANGED holder
       ELSE /\ Goto(r, "locking", "creating")
            /\ holder' = r
            /\ UNCHANGED using
  /\ UNCHANGED <<over, client, answer, outcome>>

\* The client is created and shared ...
ClientCreated(r) ==
  /\ Goto(r, "creating", "calling")
  /\ client' = client + 1
  /\ using' = [using EXCEPT ![r] = client']
  /\ holder' = Nobody
  /\ UNCHANGED <<over, answer, outcome>>

\* Mutant: the mutex is kept when there are no credentials.
KeepLockOnFailure(r) ==
  /\ GenerationReturns(r, "creating", "error")
  /\ UNCHANGED <<holder, client, answer>>

\* ... or there are no credentials or creating it fails, which leaves it to the next one.
ClientFails(r) ==
  /\ GenerationReturns(r, "creating", "error")
  /\ holder' = Nobody
  /\ UNCHANGED <<client, answer>>

\* GenerateContent returns: answered in time, broken, or given up with its context.  Only a success
\* returns what was generated.
ModelReturns(r) ==
  \E a \in {Broken} \cup IF over[r] = "no" THEN Response \cup ApiError ELSE {GivenUp(over[r])} :
    /\ GenerationReturns(r, "calling", OutcomeOf(a))
    /\ answer' = [answer EXCEPT ![r] = IF OutcomeOf(a) = "success" THEN a ELSE NoAnswer]
    /\ UNCHANGED <<holder, client>>

\* The context of a Generate under way ends: its time is up, or its caller has gone.
ContextEnds(r, why) ==
  /\ step[r] \notin {"idle", "done"}
  /\ over[r] = "no"
  /\ over' = [over EXCEPT ![r] = why]
  /\ UNCHANGED <<step, holder, client, using, answer, outcome>>

Generate(r) ==
  \/ SnapshotRead(r) \/ SnapshotNotRead(r)
  \/ GetClient(r) \/ ClientCreated(r) \/ ClientFails(r)
  \/ ModelReturns(r)

GenerationNext ==
  \E r \in Request :
    \/ StartGeneration(r)
    \/ Generate(r)
    \/ \E why \in {"deadline", "canceled"} : ContextEnds(r, why)

GenerationSpec == GenerationInit /\ [][GenerationNext]_generation

-----------------------------------------------------------------------------
(***************************************************************************)
(* Properties.                                                             *)
(***************************************************************************)

\* The types of the variables.
GenerationTypeOK ==
  /\ step \in [Request -> {"idle", "reading", "locking", "creating", "calling", "done"}]
  /\ over \in [Request -> {"no", "deadline", "canceled"}]
  /\ holder \in Request \cup {Nobody}
  /\ client \in Nat
  /\ using \in [Request -> Nat]
  /\ answer \in [Request -> Answer]
  /\ outcome \in [Request -> Outcome \cup {"none"}]

\* First questions that race create one client between them, and every call goes through it.
OneClient == \A r \in Request : using[r] # NoClient => client = 1 /\ using[r] = 1

=============================================================================
