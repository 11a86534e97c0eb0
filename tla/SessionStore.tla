---------------------------- MODULE SessionStore ----------------------------
(***************************************************************************)
(* The in-memory session store of the query workspace                      *)
(* (query-workspace/internal/workspace/session.go).                        *)
(*                                                                         *)
(* The store keeps one session per browser.  A session ends when it has    *)
(* been idle for TTL, or when the memory budget is exceeded and it is the  *)
(* least recently used one.  Every operation runs under the store's mutex, *)
(* so each of them is one action here.  Nothing runs in the background: a  *)
(* session that is idle for longer than TTL stays in memory until the next *)
(* operation of any request sweeps it.                                     *)
(*                                                                         *)
(* A session's content (drafts and last runs) is an element of Content;    *)
(* Measure is the size the code computes for it.                           *)
(***************************************************************************)
EXTENDS Integers, Sequences, FiniteSetsExt

CONSTANTS
  SessionId,   \* the ids rand.Text() can return
  NoCookie,    \* a request that presents no session cookie
  Content,     \* what a session can remember
  NewContent,  \* the content of a session just created
  Measure,     \* Measure[c]: approximate bytes retained by content c
  Budget,      \* sessionMemoryCap
  TTL,         \* sessionIdleTTL
  MaxTime      \* bound of the clock

ASSUME ContentAssumption ==
  /\ NewContent \in Content
  /\ Measure \in [Content -> Nat]
ASSUME LimitAssumption == Budget \in Nat /\ TTL \in Nat \ {0} /\ MaxTime \in Nat
ASSUME CookieAssumption == NoCookie \notin SessionId

VARIABLES
  now,       \* the clock read by s.now()
  sessions,  \* the map from live ids to sessions
  recency,   \* the list of live ids, most recently used first
  used,      \* accounted bytes
  issued     \* every id ever created (rand.Text never repeats one)

vars == <<now, sessions, recency, used, issued>>

Session == [lastUsed : Nat, content : Content, size : Nat]

Live == DOMAIN sessions

-----------------------------------------------------------------------------
(***************************************************************************)
(* A store value is the part of the state the mutex protects.  The helpers *)
(* below are the code's private methods, as operators from store values to *)
(* store values, so that an action can chain them as the code does.        *)
(***************************************************************************)
Store == [sessions |-> sessions, recency |-> recency, used |-> used]

Become(st) ==
  /\ sessions' = st.sessions
  /\ recency' = st.recency
  /\ used' = st.used

Idle(st, id) == now - st.sessions[id].lastUsed

SizeOf(st, ids) == MapThenSumSet(LAMBDA id : st.sessions[id].size, ids)

\* The ids behind position k of the recency list.
Behind(st, k) == {st.recency[i] : i \in (k + 1) .. Len(st.recency)}

\* Mutant: remove forgets to give the bytes back.
WithoutRefund(st, ids, list) ==
  [sessions |-> [id \in DOMAIN st.sessions \ ids |-> st.sessions[id]],
   recency  |-> list,
   used     |-> st.used]

\* remove, applied to every id of a set; list is what is left of the recency list.
Without(st, ids, list) ==
  [sessions |-> [id \in DOMAIN st.sessions \ ids |-> st.sessions[id]],
   recency  |-> list,
   used     |-> st.used - SizeOf(st, ids)]

\* expire walks from the back and returns at the first session that is not idle: position k.
ExpireStopsAt(st, k) ==
  /\ k > 0 => Idle(st, st.recency[k]) < TTL
  /\ \A i \in (k + 1) .. Len(st.recency) : Idle(st, st.recency[i]) >= TTL

Expired(st, k) == Without(st, Behind(st, k), SubSeq(st.recency, 1, k))

\* evict's second walk: what would be used if everything behind k but the current session went.
UsedDownTo(st, k, current) == st.used - SizeOf(st, Behind(st, k) \ {current})

\* Mutant: the walk goes on until there is room to spare.
EvictStopsBelow(st, k, current) ==
  /\ k > 0 => UsedDownTo(st, k, current) < Budget
  /\ \A i \in (k + 1) .. Len(st.recency) : UsedDownTo(st, i, current) >= Budget

\* It stops at the first position from the back where the budget is met, or at the front.
EvictStopsAt(st, k, current) ==
  /\ k > 0 => UsedDownTo(st, k, current) <= Budget
  /\ \A i \in (k + 1) .. Len(st.recency) : UsedDownTo(st, i, current) > Budget

Evicted(st, k, current) ==
  Without(st, Behind(st, k) \ {current},
          SubSeq(st.recency, 1, k) \o
            IF current \in Behind(st, k) THEN <<current>> ELSE <<>>)

\* Mutant: evict only frees memory when it runs out, and trusts load to sweep.
EvictWithoutSweep(st, current) ==
  \E j \in 0 .. Len(st.recency) :
    /\ EvictStopsAt(st, j, current)
    /\ Become(Evicted(st, j, current))

\* Mutant: evict sweeps and leaves the budget to the next operation.
SweepOnly(st, current) ==
  \E k \in 0 .. Len(st.recency) :
    /\ ExpireStopsAt(st, k)
    /\ Become(Expired(st, k))

\* evict: expired sessions go first, then the least recently used, never the current one.
EvictInto(st, current) ==
  \E k \in 0 .. Len(st.recency) :
    /\ ExpireStopsAt(st, k)
    /\ LET fresh == Expired(st, k)
       IN  \E j \in 0 .. Len(fresh.recency) :
             /\ EvictStopsAt(fresh, j, current)
             /\ Become(Evicted(fresh, j, current))

MoveToFront(list, id) ==
  LET p == CHOOSE i \in 1 .. Len(list) : list[i] = id
  IN  [i \in 1 .. Len(list) |->
        IF i = 1 THEN id ELSE IF i <= p THEN list[i - 1] ELSE list[i]]

\* Mutant: touch refreshes the time but leaves the list alone.
TouchedInPlace(st, id) ==
  [st EXCEPT !.sessions[id].lastUsed = now]

\* touch
Touched(st, id) ==
  [sessions |-> [st.sessions EXCEPT ![id].lastUsed = now],
   recency  |-> MoveToFront(st.recency, id),
   used     |-> st.used]

\* A session is charged for its content when it is created.
Added(st, id) ==
  [sessions |-> [i \in DOMAIN st.sessions \cup {id} |->
                   IF i = id
                     THEN [lastUsed |-> now, content |-> NewContent,
                           size |-> Measure[NewContent]]
                     ELSE st.sessions[i]],
   recency  |-> <<id>> \o st.recency,
   used     |-> st.used + Measure[NewContent]]

\* The change an update applies ...
Changed(st, id, content) ==
  [sessions |-> [st.sessions EXCEPT ![id].content = content],
   recency  |-> st.recency,
   used     |-> st.used]

\* Mutant: the session keeps the growth instead of its size.
RemeasuredByDelta(st, id) ==
  LET growth == Measure[st.sessions[id].content] - st.sessions[id].size
  IN  [sessions |-> [st.sessions EXCEPT ![id].size = growth],
       recency  |-> st.recency,
       used     |-> st.used + growth]

\* ... after which the session is measured again.
Remeasured(st, id) ==
  LET size == Measure[st.sessions[id].content]
  IN  [sessions |-> [st.sessions EXCEPT ![id].size = size],
       recency  |-> st.recency,
       used     |-> st.used - st.sessions[id].size + size]

-----------------------------------------------------------------------------
Init ==
  /\ now = 0
  /\ sessions = [id \in {} |-> [lastUsed |-> 0, content |-> NewContent, size |-> 0]]
  /\ recency = <<>>
  /\ used = 0
  /\ issued = {}

Tick ==
  /\ now < MaxTime
  /\ now' = now + 1
  /\ UNCHANGED <<sessions, recency, used, issued>>

\* load, for a cookie whose session is still held after the sweep.
LoadHeld(cookie) ==
  \E k \in 0 .. Len(recency) :
    /\ ExpireStopsAt(Store, k)
    /\ LET swept == Expired(Store, k)
       IN  /\ cookie \in DOMAIN swept.sessions
           /\ Become(Touched(swept, cookie))
    /\ UNCHANGED <<now, issued>>

\* Mutant: a browser whose session is gone gets a new one under the id it presented.
LoadNewReusingId(cookie, id) ==
  /\ IF cookie = NoCookie THEN id \notin issued ELSE id = cookie
  /\ \E k \in 0 .. Len(recency) :
       /\ ExpireStopsAt(Store, k)
       /\ LET swept == Expired(Store, k)
          IN  /\ cookie \notin DOMAIN swept.sessions
              /\ EvictInto(Added(swept, id), id)
  /\ issued' = issued \cup {id}
  /\ UNCHANGED now

\* load, for no cookie or one whose session is gone: a new session, which may evict others.
LoadNew(cookie, id) ==
  /\ id \notin issued
  /\ \E k \in 0 .. Len(recency) :
       /\ ExpireStopsAt(Store, k)
       /\ LET swept == Expired(Store, k)
          IN  /\ cookie \notin DOMAIN swept.sessions
              /\ EvictInto(Added(swept, id), id)
  /\ issued' = issued \cup {id}
  /\ UNCHANGED now

\* update, for a session that is still held: no sweep comes before the lookup.
Update(id, content) ==
  /\ id \in Live
  /\ EvictInto(Remeasured(Touched(Changed(Store, id, content), id), id), id)
  /\ UNCHANGED <<now, issued>>

\* update, for a session that ended since the request loaded it: nothing is stored.
UpdateEnded(id) ==
  /\ id \in issued \ Live
  /\ UNCHANGED vars

Next ==
  \/ Tick
  \/ \E cookie \in issued : LoadHeld(cookie)
  \/ \E cookie \in issued \cup {NoCookie}, id \in SessionId : LoadNew(cookie, id)
  \/ \E id \in SessionId, content \in Content : Update(id, content)
  \/ \E id \in SessionId : UpdateEnded(id)

Spec == Init /\ [][Next]_vars

-----------------------------------------------------------------------------
(***************************************************************************)
(* Properties.                                                             *)
(***************************************************************************)

\* The types of the variables.  The type of used follows from Accounting.
TypeOK ==
  /\ now \in Nat
  /\ DOMAIN sessions \subseteq SessionId
  /\ \A id \in DOMAIN sessions : sessions[id] \in Session
  /\ recency \in Seq(SessionId)
  /\ issued \subseteq SessionId

\* The recency list and the map hold the same sessions, each once: remove() deletes from both.
ListMatchesMap ==
  /\ \A i, j \in 1 .. Len(recency) : recency[i] = recency[j] => i = j
  /\ {recency[i] : i \in 1 .. Len(recency)} = DOMAIN sessions

\* The list is ordered by last use, which is what lets expire() stop at the first session that is
\* not idle: an out-of-order entry would shield idle sessions in front of it.
RecencyOrdered ==
  \A i, j \in 1 .. Len(recency) :
    i < j => sessions[recency[i]].lastUsed >= sessions[recency[j]].lastUsed

\* What expire() and evict() rely on when they walk the list from its back.
RecencyList == ListMatchesMap /\ RecencyOrdered

\* used is the sum over the live sessions of the size of what they now hold: no operation forgets
\* to charge, re-measure or refund, whatever the order of loads, updates and evictions.
Accounting ==
  /\ \A id \in Live : sessions[id].size = Measure[sessions[id].content]
  /\ used = MapThenSumSet(LAMBDA id : Measure[sessions[id].content], Live)

\* Memory stays within the budget; only a single session that is too large alone may exceed it,
\* since evict() never drops the current one.
WithinBudget == used <= Budget \/ Cardinality(Live) = 1

\* No session outlives a sweep: after any operation that changes the sessions, none that is left
\* has been idle for TTL, whether or not update() swept before its lookup.
NoneOverstays ==
  [][\A id \in DOMAIN sessions' : now - sessions'[id].lastUsed < TTL]_sessions

\* A session that is not idle is dropped only for space, and in order of use: of the sessions behind
\* it only the one the operation is about (now at the front) survives, and with the most recently
\* used of the dropped sessions kept the budget would have been exceeded.
EvictsOldestForSpace ==
  [][LET dropped == {i \in 1 .. Len(recency) :
                       /\ recency[i] \notin DOMAIN sessions'
                       /\ now - sessions[recency[i]].lastUsed < TTL}
     IN  \A i \in dropped :
           /\ \A j \in i .. Len(recency) :
                recency[j] \in DOMAIN sessions' => recency[j] = recency'[1]
           /\ (\A j \in dropped : i <= j) => used' + sessions[recency[i]].size > Budget]_sessions

\* The store is a correct implementation of what the handlers rely on.
Contract == INSTANCE SessionContract
              WITH held <- [id \in Live |-> sessions[id].content]
ContractSpec == Contract!Spec

=============================================================================
