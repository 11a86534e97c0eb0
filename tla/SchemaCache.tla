---------------------------- MODULE SchemaCache ----------------------------
(***************************************************************************)
(* The daily schema cache of the query workspace                           *)
(* (query-workspace/internal/schema/cache.go and internal/catalog/schema.go).*)
(*                                                                         *)
(* One background loop (Run) discovers the Neo4j schema when the latest    *)
(* snapshot predates today's midnight, appends it to schema_snapshots, and *)
(* sleeps until the next midnight.  Requests read the latest snapshot and, *)
(* for the status line, the in-memory flag refreshFailed; nothing orders   *)
(* these reads against the loop.  The process may go down at any point and *)
(* an insert the database has received may land after the loop gave it up. *)
(*                                                                         *)
(* One unit of the clock is longer than any step that waits for nobody;    *)
(* loading, discovering and saving may take any number of units that the   *)
(* deadline of the refresh allows (loading has none).                      *)
(***************************************************************************)
EXTENDS Integers, Sequences

CONSTANTS
  Midnights,  \* the midnights of the configured time zone
  Text,       \* what discovery can return
  Usable,     \* the texts that are neither empty nor larger than MaxBytes
  Budget,     \* the deadline of one refresh, from its start
  MaxTime,    \* bound of the clock
  MaxRows     \* bound of the number of inserts

ASSUME TextAssumption == Usable \subseteq Text
ASSUME ClockAssumption == Budget \in Nat /\ MaxTime \in Nat /\ MaxRows \in Nat

\* Every moment lies between two midnights.
ASSUME MidnightAssumption ==
  /\ Midnights \subseteq Nat
  /\ \A t \in 0 .. MaxTime :
       /\ \E m \in Midnights : m <= t /\ \A n \in Midnights : n <= t => n <= m
       /\ \E m \in Midnights : m > t /\ \A n \in Midnights : n > t => n >= m

VARIABLES
  now,            \* the clock
  snapshots,      \* the rows of schema_snapshots
  landing,        \* inserts the database received and the process gave up
  loop,           \* what Run is at
  begun,          \* the time RefreshIfDue was called with
  captured,       \* the snapshot Refresh is about to save
  deadline,       \* when the context of Refresh expires
  wake,           \* when the timer fires
  refreshFailed,  \* the flag
  ended,          \* the time RefreshIfDue was last called with in an attempt that ended
  status          \* a request in Status, or what it answered last

vars == <<now, snapshots, landing, loop, begun, captured, deadline, wake,
          refreshFailed, ended, status>>

Never == -1
NoSnapshot == [at |-> Never, text |-> "none"]
Snapshot == [at : Nat, text : Text]

Unasked == [read |-> "nothing"]

-----------------------------------------------------------------------------
\* Midnight of the day t belongs to.
Midnight(t) == CHOOSE m \in Midnights : m <= t /\ \A n \in Midnights : n <= t => n <= m

\* nextMidnight
NextMidnight(t) == CHOOSE m \in Midnights : m > t /\ \A n \in Midnights : n > t => n >= m

\* Row i of the table is the one LatestSchema selects: captured last, and of these inserted last.
IsLatest(rows, i) ==
  \A j \in 1 .. Len(rows) :
    rows[j].at < rows[i].at \/ (rows[j].at = rows[i].at /\ j <= i)

\* Mutant: the row inserted last.
LatestInserted(rows) == IF rows = <<>> THEN NoSnapshot ELSE rows[Len(rows)]

\* LatestSchema
Latest(rows) ==
  IF rows = <<>> THEN NoSnapshot ELSE rows[CHOOSE i \in 1 .. Len(rows) : IsLatest(rows, i)]

-----------------------------------------------------------------------------
(***************************************************************************)
(* The loop.  An attempt begins in Attempt and ends in AttemptEnds, where  *)
(* the local variables of Refresh go out of scope.                         *)
(***************************************************************************)
Forget == captured' = NoSnapshot /\ deadline' = 0

\* Mutant: the loop gives up when an attempt fails.
AttemptEndsLoop(failed) ==
  /\ refreshFailed' = failed
  /\ ended' = begun
  /\ loop' = IF failed THEN "stopped" ELSE "planning"
  /\ Forget

AttemptEnds(failed) ==
  /\ refreshFailed' = failed
  /\ ended' = begun
  /\ loop' = "planning"
  /\ Forget

\* Run calls RefreshIfDue with the current time.
Attempt ==
  /\ loop = "starting"
  /\ loop' = "loading"
  /\ begun' = now
  /\ UNCHANGED <<now, snapshots, landing, captured, deadline, wake, refreshFailed, ended, status>>

\* RefreshIfDue cannot load the latest snapshot.
LoadFails ==
  /\ loop = "loading"
  /\ AttemptEnds(TRUE)
  /\ UNCHANGED <<now, snapshots, landing, begun, wake, status>>

\* RefreshIfDue finds a snapshot of the day of the attempt.
NotDue ==
  /\ loop = "loading"
  /\ Latest(snapshots).at >= Midnight(begun)
  /\ AttemptEnds(refreshFailed)
  /\ UNCHANGED <<now, snapshots, landing, begun, wake, status>>

\* RefreshIfDue finds none: Refresh starts, with a deadline.
Due ==
  /\ loop = "loading"
  /\ Latest(snapshots).at < Midnight(begun)
  /\ loop' = "discovering"
  /\ deadline' = now + Budget
  /\ UNCHANGED <<now, snapshots, landing, begun, captured, wake, refreshFailed, ended, status>>

\* The discovered text is usable and stamped with the current time.
Discovered ==
  /\ loop = "discovering"
  /\ \E text \in Usable : captured' = [at |-> now, text |-> text]
  /\ loop' = "saving"
  /\ UNCHANGED <<now, snapshots, landing, begun, deadline, wake, refreshFailed, ended, status>>

\* Discovery fails, runs out of time, or returns a text that is not usable.
DiscoveryFails ==
  /\ loop = "discovering"
  /\ AttemptEnds(TRUE)
  /\ UNCHANGED <<now, snapshots, landing, begun, wake, status>>

\* SaveSchema inserts the row ...
Inserted ==
  /\ loop = "saving"
  /\ Len(snapshots) < MaxRows
  /\ snapshots' = Append(snapshots, captured)
  /\ loop' = "saved"
  /\ UNCHANGED <<now, landing, begun, captured, deadline, wake, refreshFailed, ended, status>>

\* ... and Refresh returns without an error.
Refreshed ==
  /\ loop = "saved"
  /\ AttemptEnds(FALSE)
  /\ UNCHANGED <<now, snapshots, landing, begun, wake, status>>

\* SaveSchema fails: the row was inserted, or it was not, or it still may be.
SaveFails ==
  /\ \/ loop = "saved" /\ UNCHANGED landing
     \/ loop = "saving" /\ landing' \in {landing, landing \cup {captured}}
  /\ AttemptEnds(TRUE)
  /\ UNCHANGED <<now, snapshots, begun, wake, status>>

\* Run plans the next attempt and sleeps.
Sleep ==
  /\ loop = "planning"
  /\ wake' = NextMidnight(now)
  /\ loop' = "asleep"
  /\ UNCHANGED <<now, snapshots, landing, begun, captured, deadline, refreshFailed, ended, status>>

Wake ==
  /\ loop = "asleep"
  /\ now >= wake
  /\ loop' = "starting"
  /\ wake' = 0
  /\ UNCHANGED <<now, snapshots, landing, begun, captured, deadline,
                 refreshFailed, ended, status>>

Loop ==
  \/ Attempt \/ LoadFails \/ NotDue \/ Due
  \/ Discovered \/ DiscoveryFails \/ Inserted \/ Refreshed \/ SaveFails
  \/ Sleep \/ Wake

-----------------------------------------------------------------------------
(***************************************************************************)
(* A request that renders the status line (Status).                        *)
(***************************************************************************)

\* Mutant: the snapshot is read before the flag.
SnapshotFirst ==
  \/ /\ status.read # "snapshot"
     /\ status' = [read |-> "snapshot", at |-> Latest(snapshots).at]
     /\ UNCHANGED <<now, snapshots, landing, loop, begun, captured, deadline, wake,
                    refreshFailed, ended>>
  \/ /\ status.read = "snapshot"
     /\ status' = [read |-> "both", failed |-> refreshFailed, at |-> status.at, attempt |-> ended]
     /\ UNCHANGED <<now, snapshots, landing, loop, begun, captured, deadline, wake,
                    refreshFailed, ended>>

\* Status loads the flag and then, unless the database fails, the latest snapshot.
Status ==
  \/ /\ status.read # "flag"
     /\ status' = [read |-> "flag", failed |-> refreshFailed, attempt |-> ended]
     /\ UNCHANGED <<now, snapshots, landing, loop, begun, captured, deadline, wake,
                    refreshFailed, ended>>
  \/ /\ status.read = "flag"
     /\ status' = [read |-> "both", failed |-> status.failed,
                   at |-> Latest(snapshots).at, attempt |-> status.attempt]
     /\ UNCHANGED <<now, snapshots, landing, loop, begun, captured, deadline, wake,
                    refreshFailed, ended>>

-----------------------------------------------------------------------------
(***************************************************************************)
(* The world.                                                              *)
(***************************************************************************)
Refreshing == loop \in {"discovering", "saving", "saved"}

\* Time passes, but not past a deadline or the timer the loop waits for.
Tick ==
  /\ now < MaxTime
  /\ loop \notin {"starting", "planning"}
  /\ Refreshing => now < deadline
  /\ loop = "asleep" => now < wake
  /\ now' = now + 1
  /\ UNCHANGED <<snapshots, landing, loop, begun, captured, deadline, wake,
                 refreshFailed, ended, status>>

\* A late insert reaches the table.
Land ==
  /\ Len(snapshots) < MaxRows
  /\ \E row \in landing :
       /\ snapshots' = Append(snapshots, row)
       /\ landing' = landing \ {row}
  /\ UNCHANGED <<now, loop, begun, captured, deadline, wake, refreshFailed, ended, status>>

\* The process goes down with its memory; an insert under way may land.
Down ==
  /\ loop # "down"
  /\ loop' = "down"
  /\ landing' \in {landing} \cup IF loop = "saving" THEN {landing \cup {captured}} ELSE {}
  /\ status' = Unasked
  /\ refreshFailed' = FALSE
  /\ ended' = Never
  /\ begun' = 0
  /\ wake' = 0
  /\ Forget
  /\ UNCHANGED <<now, snapshots>>

\* A process starts.
Start ==
  /\ loop = "down"
  /\ loop' = "starting"
  /\ UNCHANGED <<now, snapshots, landing, begun, captured, deadline, wake,
                 refreshFailed, ended, status>>

Init ==
  /\ now = 0
  /\ snapshots = <<>>
  /\ landing = {}
  /\ loop = "starting"
  /\ begun = 0
  /\ captured = NoSnapshot
  /\ deadline = 0
  /\ wake = 0
  /\ refreshFailed = FALSE
  /\ ended = Never
  /\ status = Unasked

Next == Loop \/ Status \/ Tick \/ Land \/ Down \/ Start

\* Time passes; the database and Neo4j answer, with an error or not, and the loop is scheduled.
Fairness == WF_vars(Tick) /\ WF_vars(Loop)

Spec == Init /\ [][Next]_vars /\ Fairness

-----------------------------------------------------------------------------
(***************************************************************************)
(* Properties.                                                             *)
(***************************************************************************)

\* The types of the variables.
TypeOK ==
  /\ now \in 0 .. MaxTime
  /\ snapshots \in Seq(Snapshot)
  /\ landing \subseteq Snapshot
  /\ loop \in {"starting", "loading", "discovering", "saving", "saved", "planning", "asleep", "down"}
  /\ begun \in 0 .. MaxTime
  /\ captured \in Snapshot \cup {NoSnapshot}
  /\ deadline \in Nat
  /\ wake \in Nat
  /\ refreshFailed \in BOOLEAN
  /\ ended \in {Never} \cup 0 .. MaxTime
  /\ status \in {Unasked}
       \cup [read : {"flag"}, failed : BOOLEAN, attempt : {Never} \cup 0 .. MaxTime]
       \cup [read : {"both"}, failed : BOOLEAN, at : {Never} \cup Nat,
             attempt : {Never} \cup 0 .. MaxTime]

\* What generation reads never gets worse: a failed refresh keeps the last successful snapshot, and
\* an insert that lands late does not displace a snapshot captured after it.
SnapshotOnlyImproves ==
  [][LET old == Latest(snapshots)
         new == Latest(snapshots')
     IN  old # new => new.at >= old.at /\ new.text \in Usable]_vars

\* A status line without a failure is never older than the loop's last attempt: if an attempt had
\* ended when the request read the flag, the snapshot it shows is of the day of that attempt or later.
NoFailureHidden ==
  status.read = "both" /\ ~ status.failed /\ status.attempt # Never =>
    status.at >= Midnight(status.attempt)

\* Refreshing goes on: a process that stays up begins an attempt at or after every midnight, whatever
\* became of the earlier ones (unless the bound of the clock cuts it off).
TriesEveryMidnight ==
  \A m \in Midnights :
    (loop # "down" /\ now < m) ~>
      \/ loop = "down"
      \/ begun >= m
      \/ loop = "asleep" /\ wake > MaxTime

\* README: the schema is refreshed at 00:00 every day.  When the loop goes to sleep after an attempt
\* within its budget, the attempt should have been made today, or the snapshot be of today.
NoDaySkipped ==
  loop = "asleep" /\ now < wake /\ now <= begun + Budget =>
    begun >= Midnight(now) \/ Latest(snapshots).at >= Midnight(now)

=============================================================================
