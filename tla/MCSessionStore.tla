--------------------------- MODULE MCSessionStore ---------------------------
(***************************************************************************)
(* A small session store: an empty session costs 1, a draft 2, a run 4,    *)
(* and the budget of 8 is exceeded by three sessions of which two hold a   *)
(* run, and by the large run alone.                                        *)
(***************************************************************************)
EXTENDS SessionStore, TLC

MCContent == {"empty", "draft", "run", "large"}
MCMeasure == [empty |-> 1, draft |-> 2, run |-> 4, large |-> 9]
MCSymmetry == Permutations(SessionId)

=============================================================================
