---------------------------- MODULE MCCypherText ----------------------------
(***************************************************************************)
(* Texts of a few pieces: enough to put each kind of literal, a comment, a *)
(* parameter and a clause into each other and side by side.                *)
(***************************************************************************)
EXTENDS CypherText

MCPiece == {<<"RETURN", " ">>, <<"ORDER", "\n", "BY">>, <<"x">>, <<"$", "x">>, <<"$">>, <<".">>,
            <<",", " ">>, <<"(">>, <<")">>, <<"/", "/">>, <<"\n">>, <<"tick">>, <<"\"">>, <<"\\">>,
            <<"\\", "\"">>}

MCValue == <<"\\", "\"", "\n", "$", "x">>

=============================================================================
