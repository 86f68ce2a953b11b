--------------------------- MODULE MCPromptBuilder ----------------------------
(* Texts of up to MaxText characters, in lists of up to MaxChunks; a         *)
(* std::size_t of five bits, and sizes that reach its limit.                 *)
EXTENDS PromptBuilder

CONSTANTS MaxText, MaxChunks

Text == UNION {[1..n -> Character] : n \in 0..MaxText}

\* Any one text of two more characters, several shorter ones, or one that is
\* more than SizeMax long when it is escaped and framed.
MCChunkLists ==
    UNION {[1..n -> Text] : n \in 0..MaxChunks} \cup
    [1..1 -> [1..(MaxText + 2) -> Character]] \cup
    [1..3 -> {<<"x">>, <<"<", "<", "<", "|">>}] \cup
    {<<<<"x">>, [i \in 1..15 |-> "<"]>>}

=============================================================================
