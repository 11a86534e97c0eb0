-------------------------- MODULE SessionContract --------------------------
(***************************************************************************)
(* What the session store promises to the request handlers, without clock, *)
(* recency list or memory accounting:                                      *)
(*   - a session may end at any moment, except under the request using it; *)
(*   - a session that ended never comes back, its id is never issued again;*)
(*   - a new session starts empty;                                         *)
(*   - the content of a session changes only by an update of that session. *)
(* SessionStore implements this contract (SessionStoreProofs); Workspace   *)
(* is built on it.                                                         *)
(***************************************************************************)
CONSTANTS SessionId, Content, NewContent

VARIABLES
  held,    \* the content of every session the server holds
  issued   \* every id ever created

vars == <<held, issued>>

\* The sessions left when the ones in ended are gone.
Without(ended) == [id \in DOMAIN held \ ended |-> held[id]]

Init ==
  /\ held = [id \in {} |-> NewContent]
  /\ issued = {}

\* Sessions end: idle for too long, evicted, or lost with the process.
End(ended) ==
  /\ held' = Without(ended)
  /\ UNCHANGED issued

\* A request without a held session gets a new, empty one.
Open(id, ended) ==
  /\ id \in SessionId \ issued
  /\ held' = [i \in (DOMAIN held \ ended) \cup {id} |->
                IF i = id THEN NewContent ELSE held[i]]
  /\ issued' = issued \cup {id}

\* A request updates the session it uses.
Change(id, content, ended) ==
  /\ id \in DOMAIN held \ ended
  /\ held' = [Without(ended) EXCEPT ![id] = content]
  /\ UNCHANGED issued

Next ==
  \E ended \in SUBSET DOMAIN held :
    \/ End(ended)
    \/ \E id \in SessionId : Open(id, ended)
    \/ \E id \in DOMAIN held, content \in Content : Change(id, content, ended)

Spec == Init /\ [][Next]_vars

=============================================================================
