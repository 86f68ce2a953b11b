----------------------------- MODULE MCGenerator ------------------------------
(* Two stop sequences as the CLI passes them: a marker, and its bare form    *)
(* without the angle brackets.  A token is any text of up to two characters. *)
EXTENDS Generator

MCStops == {<<"<", "m", "m", ">">>, <<"m", "m">>}

MCCharacters == {"x", "<", "m", ">"}

MCPieces == UNION {[1..n -> MCCharacters] : n \in 0..2}

=============================================================================
