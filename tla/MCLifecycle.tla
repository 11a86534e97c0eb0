---------------------------- MODULE MCLifecycle ----------------------------
(***************************************************************************)
(* A discovery with rows that fill the limit of the bytes alone or         *)
(* together, that add the same or different lines, or that do not decode;  *)
(* two requests; a budget that leaves time after a session took all of its *)
(* own to close.                                                           *)
(***************************************************************************)
EXTENDS Lifecycle

MCMetadataRow ==
  {[size |-> 1, valid |-> TRUE, lines |-> {"a"}], [size |-> 2, valid |-> TRUE, lines |-> {"b"}],
   [size |-> 1, valid |-> FALSE, lines |-> {}]}

=============================================================================
