--------------------------- MODULE MCSchemaCache ---------------------------
(***************************************************************************)
(* Days of two and of three units (a change to or from daylight saving     *)
(* time makes them differ), a refresh that may take one, and a bound short *)
(* of the third midnight after the start.                                  *)
(***************************************************************************)
EXTENDS SchemaCache

MCMidnights == {0, 2, 5, 8}

=============================================================================
