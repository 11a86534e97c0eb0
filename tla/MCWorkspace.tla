---------------------------- MODULE MCWorkspace ----------------------------
(***************************************************************************)
(* A browser with two requests in flight, which interleave in one session  *)
(* at a time: two stored runs are the least in which one can replace       *)
(* another or be a rerun of it, two texts of Cypher that can be saved tell *)
(* runs apart in a row, and one that is rejected must not become a row.    *)
(***************************************************************************)
EXTENDS Workspace, TLC

MCSymmetry ==
  Permutations(Tab) \cup Permutations(SessionId) \cup Permutations(Query \ Rejected)

=============================================================================
