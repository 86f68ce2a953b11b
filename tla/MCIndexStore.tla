---------------------------- MODULE MCIndexStore -----------------------------
(* A small instance of IndexStore: two indexes of different lengths.       *)
EXTENDS IndexStore, TLC

CONSTANTS i1, i2, r1, r2, n1, n2, n3, n4

MCIndexes == {i1, i2}
MCLens == i1 :> 1 @@ i2 :> 2
MCMaxLen == 2

\* Files and readers are interchangeable.
Symmetric == Permutations({n1, n2, n3, n4} \cap Inodes) \cup Permutations(Readers)
=============================================================================
