----------------------------- MODULE MCIndexQuery -----------------------------
(* Texts of up to two tokens fit the batch and one of three does not;       *)
(* documents of up to two chunks, commands with up to two inputs.           *)
EXTENDS IndexQuery

CONSTANTS a, b

MCTexts == {<<>>, <<a>>, <<b>>, <<a, b>>, <<b, a>>, <<a, b, a>>}
MCDocuments == {<<>>} \cup [1..1 -> MCTexts] \cup [1..2 -> MCTexts]
MCScaleLists == {<<>>, <<[bytes |-> 2, overlap |-> 0], [bytes |-> 2, overlap |-> 1]>>,
                 <<[bytes |-> 2, overlap |-> 2]>>}
=============================================================================
