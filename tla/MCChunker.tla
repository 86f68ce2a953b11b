------------------------------ MODULE MCChunker -------------------------------
(* Every text of up to six bytes, well formed or not, with every pair of   *)
(* options up to four bytes, some of them refused, and a few lists of two. *)
EXTENDS Chunker

CONSTANTS MaxText, MaxBytes

MCTexts == UNION {[1..n -> Byte] : n \in 0..MaxText}

OneScale == {<<[max |-> m, overlap |-> o]>> : m \in 0..MaxBytes, o \in 0..MaxBytes}

TwoScales == {<<[max |-> 4, overlap |-> 1], [max |-> 2, overlap |-> 1]>>,
              <<[max |-> 3, overlap |-> 2], [max |-> 1, overlap |-> 1]>>}

MCScaleLists == {<<>>} \cup OneScale \cup TwoScales

=============================================================================
