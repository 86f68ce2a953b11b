---------------------------- MODULE RetrievalProofs ----------------------------
(***************************************************************************)
(* Proofs that the bounded heap of every scale holds the leaders of what   *)
(* has been scanned of that scale, and that what the heaps hold at the end *)
(* gives the best results with exact ranks, for every index, top_k and     *)
(* quota, and whichever of several weakest items a heap pops.              *)
(***************************************************************************)
EXTENDS VectorSearch, Evaluation, RecursionTheorems, FiniteSetTheorems

\* heap, a set of the items that found holds, has all of them, or is full of
\* items that score at least as much as each of the others.
Leads(heap, found) ==
    /\ heap \subseteq found
    /\ Cardinality(heap) <= HeapSize
    /\ \A i \in found \ heap : /\ Cardinality(heap) = HeapSize
                               /\ \A j \in heap : Score(j) >= Score(i)

\* The inductive invariant.
Inv ==
    /\ index \in Indexes /\ request \in Requests
    /\ pc \in {"start", "scan", "returned", "thrown"}
    /\ item \in 0..Len(index)
    /\ pc = "start" => item = 0
    /\ leaders \in [Scales -> SUBSET (1..Len(index))]
    /\ pc \in {"start", "scan"} => \A s \in Scales : Leads(leaders[s], Of(s, item))
    /\ pc \in {"returned", "thrown"} => leaders = [s \in Scales |-> {}]

LEMMA Inputs ==
    ASSUME Inv
    PROVE  /\ Len(index) \in Nat
           /\ \A i \in 1..Len(index) : index[i].scale \in Scales /\ Score(i) \in Int \cup {NonFinite}
           /\ request.top \in Nat /\ request.quota \in Nat
           /\ HeapSize \in Nat
<1> DEFINE S == [score : Int \cup {NonFinite}, scale : Scales]
<1>1. index \in Seq(S)
  BY SearchAssumption DEF Inv
<1>2. Len(index) \in Nat
  BY <1>1
<1> HIDE DEF S
<1>3. \A i \in 1..Len(index) : index[i] \in S
  BY <1>1, ElementOfSeq
<1>4. \A i \in 1..Len(index) : index[i].scale \in Scales /\ Score(i) \in Int \cup {NonFinite}
  BY <1>3 DEF S, Score
<1>5. request.top \in Nat /\ request.quota \in Nat
  BY SearchAssumption DEF Inv
<1>6. TopK \in Nat
  BY <1>2, <1>5 DEF TopK, Smaller
<1>7. HeapSize \in Nat
  BY <1>5, <1>6 DEF HeapSize, Smaller
<1> QED BY <1>2, <1>4, <1>5, <1>7

\* A scan step that changes the heap of the candidate's scale as it should.
LEMMA ScannedInv ==
    ASSUME Inv, Scanning, NEW heap, Scanned(heap),
           Leads(heap, Of(index[Candidate].scale, Candidate))
    PROVE  Inv'
<1> DEFINE scale == index[Candidate].scale
<1>1. /\ pc = "scan" /\ item < Len(index) /\ item \in 0..Len(index) /\ Len(index) \in Nat
      /\ UNCHANGED <<index, request, pc, results>> /\ item' = item + 1 /\ Candidate = item + 1
      /\ leaders' = [leaders EXCEPT ![scale] = heap]
      /\ leaders \in [Scales -> SUBSET (1..Len(index))]
  BY Inputs DEF Inv, Scanning, Scanned, Candidate
<1>2. item' \in 0..Len(index) /\ Candidate \in 1..Len(index)
  BY <1>1, SMT
<1>3. scale \in Scales
  BY <1>2, Inputs
<1>4. Of(scale, Candidate) \subseteq 1..Len(index)
  <2>1. 1..Candidate \subseteq 1..Len(index)
    BY <1>1, SMT
  <2> QED BY <2>1 DEF Of
<1> HIDE DEF scale
<1>5. heap \subseteq 1..Len(index)
  BY <1>4 DEF Leads, scale
<1>6. leaders' \in [Scales -> SUBSET (1..Len(index))]
  BY <1>1, <1>5
<1>7. ASSUME NEW s \in Scales PROVE Leads(leaders'[s], Of(s, item'))
  <2>1. CASE s = scale
    <3>1. leaders'[s] = heap
      BY <1>1, <1>3, <2>1
    <3> QED BY <1>1, <2>1, <3>1 DEF scale
  <2>2. CASE s # scale
    <3>1. leaders'[s] = leaders[s]
      BY <1>1, <2>2
    <3>2. 1..item' = (1..item) \cup {Candidate}
      BY <1>1, SMT
    <3>3. Of(s, item') = Of(s, item)
      BY <2>2, <3>2 DEF Of, scale
    <3> QED BY <1>1, <3>1, <3>3 DEF Inv
  <2> QED BY <2>1, <2>2
<1>8. \A s \in Scales : Leads(leaders[s], Of(s, item))'
  BY <1>1, <1>7 DEF Leads, Of, Score, Finite, HeapSize, TopK
<1> QED BY <1>1, <1>2, <1>6, <1>8 DEF Inv

\* What the heap is before a scan step, and what it should lead after it.
LEMMA BeforeStep ==
    ASSUME Inv, Scanning
    PROVE  LET scale == index[Candidate].scale
           IN  /\ Leads(Heap, Of(scale, item))
               /\ IsFiniteSet(Heap) /\ Candidate \notin Heap
               /\ Cardinality(Heap) \in Nat
               /\ Of(scale, Candidate) =
                     Of(scale, item) \cup (IF Finite(Candidate) THEN {Candidate} ELSE {})
               /\ \A i \in Of(scale, Candidate) : Score(i) \in Int
<1> DEFINE scale == index[Candidate].scale
<1>1. pc = "scan" /\ item < Len(index) /\ item \in 0..Len(index) /\ Len(index) \in Nat
  BY Inputs DEF Inv, Scanning
<1>2. Candidate \in 1..Len(index) /\ Candidate \notin 1..item /\ 1..Candidate = (1..item) \cup {Candidate}
  BY <1>1, SMT DEF Candidate
<1>3. scale \in Scales
  BY <1>2, Inputs
<1>4. Leads(Heap, Of(scale, item))
  BY <1>1, <1>3 DEF Inv, Heap
<1>5. Heap \subseteq 1..item
  BY <1>4 DEF Leads, Of
<1>6. IsFiniteSet(1..item)
  BY <1>1, FS_Interval
<1>7. IsFiniteSet(Heap)
  BY <1>5, <1>6, FS_Subset
<1>8. Cardinality(Heap) \in Nat
  BY <1>7, FS_CardinalityType
<1>9. Of(scale, Candidate) = Of(scale, item) \cup (IF Finite(Candidate) THEN {Candidate} ELSE {})
  BY <1>2 DEF Of
<1>10. 1..Candidate \subseteq 1..Len(index)
  BY <1>1, SMT DEF Candidate
<1>11. \A i \in Of(scale, Candidate) : Score(i) \in Int
  BY <1>10, Inputs DEF Of, Finite
<1> QED BY <1>2, <1>4, <1>5, <1>7, <1>8, <1>9, <1>11

LEMMA SkipInv == ASSUME Inv, Skip PROVE Inv'
<1>1. Scanning /\ ~Finite(Candidate) /\ Scanned(Heap)
  BY DEF Skip
<1>2. Leads(Heap, Of(index[Candidate].scale, Candidate))
  BY <1>1, BeforeStep
<1> QED BY <1>1, <1>2, ScannedInv

LEMMA PushInv == ASSUME Inv, Push PROVE Inv'
<1> DEFINE scale == index[Candidate].scale
<1> DEFINE heap == Heap \cup {Candidate}
<1>1. Scanning /\ Finite(Candidate) /\ Cardinality(Heap) < HeapSize /\ Scanned(heap)
  BY DEF Push
<1>2. /\ Leads(Heap, Of(scale, item)) /\ IsFiniteSet(Heap) /\ Candidate \notin Heap
      /\ Cardinality(Heap) \in Nat /\ HeapSize \in Nat
      /\ Of(scale, Candidate) = Of(scale, item) \cup {Candidate}
  BY <1>1, BeforeStep, Inputs
<1>3. Of(scale, item) \ Heap = {}
  <2>1. Cardinality(Heap) # HeapSize
    BY <1>1, <1>2, SMT
  <2> QED BY <1>2, <2>1 DEF Leads
<1>4. Cardinality(heap) = Cardinality(Heap) + 1
  BY <1>2, FS_AddElement
<1>5. Cardinality(heap) <= HeapSize
  BY <1>1, <1>2, <1>4, SMT
<1>6. heap \subseteq Of(scale, Candidate) /\ Of(scale, Candidate) \ heap = {}
  BY <1>2, <1>3 DEF Leads
<1>7. Leads(heap, Of(scale, Candidate))
  BY <1>5, <1>6 DEF Leads
<1> QED BY <1>1, <1>7, ScannedInv

\* What a full heap's weakest item is to what it holds, and to what it has
\* dropped before.
LEMMA FullHeap ==
    ASSUME Inv, Scanning, Finite(Candidate), Cardinality(Heap) >= HeapSize, NEW top \in Tops
    PROVE  LET scale == index[Candidate].scale
           IN  /\ Cardinality(Heap) = HeapSize
               /\ top \in Heap
               /\ \A j \in Heap : Score(j) \in Int /\ Score(j) >= Score(top)
               /\ \A i \in Of(scale, item) \ Heap : Score(i) \in Int /\ Score(top) >= Score(i)
               /\ Score(Candidate) \in Int
<1> DEFINE scale == index[Candidate].scale
<1>1. /\ Leads(Heap, Of(scale, item)) /\ Cardinality(Heap) \in Nat /\ HeapSize \in Nat
      /\ Of(scale, Candidate) = Of(scale, item) \cup {Candidate}
      /\ \A i \in Of(scale, Candidate) : Score(i) \in Int
  BY BeforeStep, Inputs
<1>2. Cardinality(Heap) <= HeapSize /\ Heap \subseteq Of(scale, item)
  BY <1>1 DEF Leads
<1>3. Cardinality(Heap) = HeapSize
  BY <1>1, <1>2, SMT
<1>4. top \in Heap /\ \A j \in Heap : Score(top) <= Score(j)
  BY DEF Tops
<1>5. \A j \in Heap : Score(j) \in Int
  BY <1>1, <1>2
<1>6. \A j \in Heap : Score(j) >= Score(top)
  BY <1>4, <1>5, SMT
<1>7. \A i \in Of(scale, item) \ Heap : Score(i) \in Int /\ Score(top) >= Score(i)
  BY <1>1, <1>4 DEF Leads
<1> QED BY <1>1, <1>3, <1>4, <1>5, <1>6, <1>7

LEMMA ReplaceInv == ASSUME Inv, Replace PROVE Inv'
<1> DEFINE scale == index[Candidate].scale
<1>1. /\ Scanning /\ Finite(Candidate) /\ Cardinality(Heap) >= HeapSize
  BY DEF Replace
<1>2. PICK top \in Tops : Score(Candidate) > Score(top) /\ Scanned((Heap \ {top}) \cup {Candidate})
  BY DEF Replace
<1> DEFINE heap == (Heap \ {top}) \cup {Candidate}
<1>3. /\ Cardinality(Heap) = HeapSize /\ top \in Heap
      /\ \A j \in Heap : Score(j) \in Int /\ Score(j) >= Score(top)
      /\ \A i \in Of(scale, item) \ Heap : Score(i) \in Int /\ Score(top) >= Score(i)
      /\ Score(Candidate) \in Int
  BY <1>1, FullHeap
<1>4. /\ Heap \subseteq Of(scale, item) /\ IsFiniteSet(Heap) /\ Candidate \notin Heap
      /\ Cardinality(Heap) \in Nat /\ Of(scale, Candidate) = Of(scale, item) \cup {Candidate}
  BY <1>1, BeforeStep DEF Leads
<1>5. Cardinality(heap) = HeapSize
  <2>1. IsFiniteSet(Heap \ {top}) /\ Cardinality(Heap \ {top}) = Cardinality(Heap) - 1
    BY <1>3, <1>4, FS_RemoveElement
  <2>2. Cardinality(heap) = Cardinality(Heap \ {top}) + 1
    BY <1>4, <2>1, FS_AddElement
  <2> QED BY <1>3, <1>4, <2>1, <2>2, SMT
<1>6. \A j \in heap : Score(j) \in Int /\ Score(j) >= Score(top)
  BY <1>2, <1>3, SMT
<1>7. ASSUME NEW i \in Of(scale, Candidate) \ heap PROVE Score(i) \in Int /\ Score(top) >= Score(i)
  <2>1. i = top \/ i \in Of(scale, item) \ Heap
    BY <1>4
  <2>2. CASE i = top
    BY <1>3, <2>2
  <2>3. CASE i \in Of(scale, item) \ Heap
    BY <1>3, <2>3
  <2> QED BY <2>1, <2>2, <2>3
<1>8. ASSUME NEW i \in Of(scale, Candidate) \ heap, NEW j \in heap PROVE Score(j) >= Score(i)
  <2>1. Score(i) \in Int /\ Score(top) >= Score(i) /\ Score(j) \in Int /\ Score(j) >= Score(top)
    BY <1>6, <1>7
  <2>2. Score(top) \in Int
    BY <1>3
  <2> QED BY <2>1, <2>2, SMT
<1>9. heap \subseteq Of(scale, Candidate)
  BY <1>4
<1>10. Cardinality(heap) <= HeapSize
  BY <1>3, <1>4, <1>5, SMT
<1>11. Leads(heap, Of(scale, Candidate))
  BY <1>5, <1>8, <1>9, <1>10 DEF Leads
<1> QED BY <1>1, <1>2, <1>11, ScannedInv

LEMMA DropInv == ASSUME Inv, Drop PROVE Inv'
<1> DEFINE scale == index[Candidate].scale
<1>1. /\ Scanning /\ Finite(Candidate) /\ Cardinality(Heap) >= HeapSize /\ Scanned(Heap)
  BY DEF Drop
<1>2. PICK top \in Tops : Score(Candidate) <= Score(top)
  BY DEF Drop
<1>3. /\ Cardinality(Heap) = HeapSize /\ top \in Heap
      /\ \A j \in Heap : Score(j) \in Int /\ Score(j) >= Score(top)
      /\ Score(Candidate) \in Int
  BY <1>1, FullHeap
<1>4. /\ Leads(Heap, Of(scale, item)) /\ Of(scale, Candidate) = Of(scale, item) \cup {Candidate}
  BY <1>1, BeforeStep
<1>5. \A j \in Heap : Score(j) >= Score(Candidate)
  BY <1>2, <1>3, SMT
<1>6. Leads(Heap, Of(scale, Candidate))
  BY <1>3, <1>4, <1>5 DEF Leads
<1> QED BY <1>1, <1>6, ScannedInv

------------------------------------------------------------------------------
(* The end of the scan.                                                    *)

AtEnd == Inv /\ pc = "scan" /\ item = Len(index)

\* What is drained from the heaps, how many of it come before an item in the
\* sorted results, and what remains after the cut.
Found == UNION {leaders[s] : s \in Scales}
Before(i) == Cardinality({j \in Found : Better(j, i)})
Chosen == {i \in Found : Before(i) < TopK}

LEMMA FoundItems ==
    ASSUME AtEnd
    PROVE  /\ Found \subseteq 1..Len(index) /\ IsFiniteSet(Found)
           /\ \A i \in Found : Score(i) \in Int
           /\ \A s \in Scales : /\ Leads(leaders[s], Of(s, Len(index)))
                                /\ leaders[s] = {i \in Found : index[i].scale = s}
           /\ \A s \in Scales : \A i \in Of(s, Len(index)) : Score(i) \in Int
<1>1. /\ leaders \in [Scales -> SUBSET (1..Len(index))]
      /\ \A s \in Scales : Leads(leaders[s], Of(s, Len(index)))
  BY DEF AtEnd, Inv
<1>2. Found \subseteq 1..Len(index)
  BY <1>1 DEF Found
<1>3. Len(index) \in Nat
  BY Inputs DEF AtEnd
<1>4. IsFiniteSet(Found)
  <2>1. IsFiniteSet(1..Len(index))
    BY <1>3, FS_Interval
  <2> QED BY <1>2, <2>1, FS_Subset
<1>5. \A s \in Scales : \A i \in Of(s, Len(index)) : Score(i) \in Int
  BY Inputs DEF AtEnd, Of, Finite
<1>6. \A s \in Scales : \A i \in leaders[s] : i \in Of(s, Len(index)) /\ index[i].scale = s
  BY <1>1 DEF Leads, Of
<1>7. \A i \in Found : Score(i) \in Int
  BY <1>5, <1>6 DEF Found
<1>8. \A s \in Scales : leaders[s] = {i \in Found : index[i].scale = s}
  BY <1>6 DEF Found
<1> QED BY <1>1, <1>2, <1>4, <1>5, <1>7, <1>8

\* better_result is a strict order of the items found, and Before counts along it.
LEMMA BeforeCounts ==
    ASSUME AtEnd
    PROVE  /\ \A i \in Found : Before(i) \in Nat
           /\ \A i, j \in Found : Better(i, j) => Before(i) < Before(j)
           /\ \A i, j \in Found : i # j => Better(i, j) \/ Better(j, i)
           /\ \A i, j \in Found : Before(i) = Before(j) => i = j
<1>1. IsFiniteSet(Found) /\ \A i \in Found : i \in Int /\ Score(i) \in Int
  BY FoundItems, Inputs DEF AtEnd
<1>2. ASSUME NEW i \in Found
      PROVE  IsFiniteSet({j \in Found : Better(j, i)}) /\ Before(i) \in Nat
  <2>1. {j \in Found : Better(j, i)} \in SUBSET Found
    OBVIOUS
  <2>2. IsFiniteSet({j \in Found : Better(j, i)})
    BY <1>1, <2>1, FS_Subset
  <2> QED BY <2>2, FS_CardinalityType DEF Before
<1>3. ASSUME NEW i \in Found, NEW j \in Found, Better(i, j) PROVE Before(i) < Before(j)
  <2> DEFINE A == {k \in Found : Better(k, i)}
  <2> DEFINE B == {k \in Found : Better(k, j)}
  <2>1. \A k \in Found : Better(k, i) => Better(k, j)
    BY <1>1, <1>3, SMT DEF Better
  <2>2. ~Better(i, i)
    BY <1>1, SMT DEF Better
  <2>3. A \in SUBSET B /\ i \in B /\ i \notin A
    BY <1>3, <2>1, <2>2
  <2>4. IsFiniteSet(B) /\ Cardinality(A) \in Nat /\ Cardinality(B) \in Nat
    BY <1>2 DEF Before
  <2> HIDE DEF A, B
  <2>5. Cardinality(A) <= Cardinality(B) /\ Cardinality(A) # Cardinality(B)
    BY <2>3, <2>4, FS_Subset
  <2>6. Cardinality(A) < Cardinality(B)
    BY <2>4, <2>5, SMT
  <2> QED BY <2>6 DEF Before, A, B
<1>4. ASSUME NEW i \in Found, NEW j \in Found, i # j PROVE Better(i, j) \/ Better(j, i)
  BY <1>1, <1>4, SMT DEF Better
<1>5. ASSUME NEW i \in Found, NEW j \in Found, Before(i) = Before(j) PROVE i = j
  <2>1. ~(Before(i) < Before(j)) /\ ~(Before(j) < Before(i))
    <3>1. Before(i) \in Nat /\ Before(j) \in Nat
      BY <1>2
    <3> HIDE DEF Before
    <3>2. \A m, n \in Nat : m = n => ~(m < n) /\ ~(n < m)
      BY SMT
    <3> QED BY <1>5, <3>1, <3>2
  <2> QED BY <1>3, <1>4, <2>1
<1> QED BY <1>2, <1>3, <1>4, <1>5

LEMMA Sizes ==
    ASSUME AtEnd
    PROVE  /\ TopK \in Nat /\ TopK <= request.top
           /\ HeapSize \in Nat
           /\ request.quota > 0 => HeapSize <= request.quota
           /\ HeapSize = TopK \/ (request.quota > 0 /\ HeapSize = request.quota)
<1>1. Len(index) \in Nat /\ request.top \in Nat /\ request.quota \in Nat
  BY Inputs DEF AtEnd
<1>2. TopK \in Nat /\ TopK <= request.top
  BY <1>1, SMT DEF TopK, Smaller
<1> HIDE DEF TopK
<1> QED BY <1>1, <1>2, SMT DEF HeapSize, Smaller

\* The cut leaves at most top_k.
LEMMA AtMostTopK == ASSUME AtEnd PROVE IsFiniteSet(Chosen) /\ Cardinality(Chosen) <= TopK
<1>1. Chosen \in SUBSET Found /\ IsFiniteSet(Found)
  BY FoundItems DEF Chosen
<1>2. IsFiniteSet(Chosen) /\ Cardinality(Chosen) \in Nat
  BY <1>1, FS_Subset, FS_CardinalityType
<1>3. TopK \in Nat
  BY Inputs DEF AtEnd, TopK, Smaller
<1> DEFINE Places == 0..(TopK - 1)
<1>4. IsFiniteSet(Places) /\ Cardinality(Places) = TopK
  BY <1>3, FS_Interval
<1> DEFINE place == [i \in Chosen |-> Before(i)]
<1>5. place \in [Chosen -> Places]
  <2>1. \A i \in Chosen : Before(i) \in Nat /\ Before(i) < TopK
    BY <1>1, BeforeCounts DEF Chosen
  <2>2. \A i \in Chosen : Before(i) \in Places
    BY <1>3, <2>1, SMT
  <2> QED BY <2>2
<1>6. \A i, j \in Chosen : place[i] = place[j] => i = j
  BY <1>1, BeforeCounts
<1> HIDE DEF Places, place
<1>7. ~(Cardinality(Places) < Cardinality(Chosen))
  BY <1>2, <1>4, <1>5, <1>6, FS_PigeonHole
<1> QED BY <1>2, <1>3, <1>4, <1>7, SMT

\* If the cut drops an item that was found, it leaves top_k, all of them better.
LEMMA CutIsFull ==
    ASSUME AtEnd, NEW i \in Found, i \notin Chosen
    PROVE  /\ Cardinality(Chosen) = TopK
           /\ \A j \in Chosen : Score(j) >= Score(i)
<1>1. /\ IsFiniteSet(Found) /\ Chosen \in SUBSET Found
      /\ \A j \in Found : Score(j) \in Int /\ Before(j) \in Nat
      /\ TopK \in Nat
  BY FoundItems, BeforeCounts, Inputs DEF Chosen, AtEnd, TopK, Smaller
<1>2. IsFiniteSet(Chosen) /\ Cardinality(Chosen) <= TopK /\ Cardinality(Chosen) \in Nat
  BY AtMostTopK, FS_CardinalityType
<1>3. ASSUME NEW j \in Chosen PROVE Score(j) >= Score(i)
  <2>1. Before(j) < TopK /\ ~(Before(i) < TopK)
    BY DEF Chosen
  <2>2. ~(Before(i) < Before(j))
    BY <1>1, <2>1, SMT
  <2>3. ~Better(i, j)
    BY <1>1, <2>2, BeforeCounts
  <2> QED BY <1>1, <2>3, SMT DEF Better
<1>4. Cardinality(Chosen) >= TopK
  <2> DEFINE Dropped == {Before(j) : j \in Found \ Chosen}
  <2>1. Dropped \in SUBSET Nat /\ Dropped # {}
    BY <1>1
  <2>2. PICK n \in Dropped : \A m \in Dropped : n <= m
    BY <2>1, SmallestExists
  <2>3. PICK w \in Found \ Chosen : n = Before(w)
    OBVIOUS
  <2> DEFINE Above == {j \in Found : Better(j, w)}
  <2>4. ASSUME NEW j \in Above PROVE j \in Chosen
    <3>1. j \in Found /\ Before(j) < Before(w)
      BY BeforeCounts
    <3>2. CASE j \notin Chosen
      <4>1. Before(w) <= Before(j)
        BY <2>2, <2>3, <3>1, <3>2
      <4> QED BY <1>1, <3>1, <4>1, SMT
    <3> QED BY <3>2
  <2>5. Above \in SUBSET Chosen
    BY <2>4
  <2>6. Cardinality(Above) <= Cardinality(Chosen)
    BY <1>2, <2>5, FS_Subset
  <2>7. Cardinality(Above) = Before(w)
    BY DEF Before
  <2>8. Before(w) \in Nat /\ ~(Before(w) < TopK)
    BY <1>1 DEF Chosen
  <2> HIDE DEF Above
  <2> QED BY <1>1, <1>2, <2>6, <2>7, <2>8, SMT
<1> QED BY <1>1, <1>2, <1>3, <1>4, SMT

\* If anything is not chosen and top_k are, top_k was not clamped.
LEMMA NotClamped ==
    ASSUME AtEnd, NEW i \in 1..Len(index), i \notin Chosen, Cardinality(Chosen) = TopK
    PROVE  TopK = request.top
<1>1. /\ Len(index) \in Nat /\ request.top \in Nat
      /\ Chosen \subseteq 1..Len(index)
  BY Inputs, FoundItems DEF AtEnd, Chosen
<1> DEFINE Others == (1..Len(index)) \ {i}
<1>2. IsFiniteSet(Others) /\ Cardinality(Others) = Len(index) - 1
  <2>1. IsFiniteSet(1..Len(index)) /\ Cardinality(1..Len(index)) = Len(index)
    <3>1. 1 \in Int /\ Len(index) \in Int
      BY <1>1
    <3>2. IsFiniteSet(1..Len(index))
          /\ Cardinality(1..Len(index)) = IF 1 > Len(index) THEN 0 ELSE Len(index) - 1 + 1
      BY <3>1, FS_Interval
    <3> QED BY <1>1, <3>2, SMT
  <2> QED BY <2>1, FS_RemoveElement
<1>3. Chosen \in SUBSET Others
  BY <1>1
<1> HIDE DEF Others
<1>4. Cardinality(Chosen) <= Len(index) - 1
  BY <1>2, <1>3, FS_Subset
<1>5. TopK # Len(index)
  BY <1>1, <1>4, SMT
<1> QED BY <1>1, <1>5 DEF TopK, Smaller

\* BestAreReturned, of a set of items in place of what is returned.
AreBest(chosen) ==
    /\ chosen \subseteq UNION {Of(s, Len(index)) : s \in Scales}
    /\ Cardinality(chosen) <= request.top
    /\ \A s \in Scales :
          LET here == {i \in chosen : index[i].scale = s}
          IN  /\ request.quota > 0 => Cardinality(here) <= request.quota
              /\ \A i \in Of(s, Len(index)) \ chosen :
                    \/ /\ Cardinality(chosen) = request.top
                       /\ \A j \in chosen : Score(j) >= Score(i)
                    \/ /\ request.quota > 0
                       /\ Cardinality(here) = request.quota
                       /\ \A j \in here : Score(j) >= Score(i)

LEMMA ChosenAreBest == ASSUME AtEnd PROVE AreBest(Chosen)
<1>1. /\ Found \subseteq 1..Len(index) /\ IsFiniteSet(Found)
      /\ \A i \in Found : Score(i) \in Int
      /\ \A s \in Scales : /\ Leads(leaders[s], Of(s, Len(index)))
                           /\ leaders[s] = {i \in Found : index[i].scale = s}
      /\ \A s \in Scales : \A i \in Of(s, Len(index)) : Score(i) \in Int
      /\ Chosen \subseteq Found
  BY FoundItems DEF Chosen
<1>2. IsFiniteSet(Chosen) /\ Cardinality(Chosen) <= TopK /\ Cardinality(Chosen) \in Nat
  BY AtMostTopK, FS_CardinalityType
<1>3. /\ TopK \in Nat /\ TopK <= request.top /\ HeapSize \in Nat
      /\ request.top \in Nat /\ request.quota \in Nat
      /\ request.quota > 0 => HeapSize <= request.quota
      /\ HeapSize = TopK \/ (request.quota > 0 /\ HeapSize = request.quota)
  BY Sizes, Inputs DEF AtEnd
<1>4. Chosen \subseteq UNION {Of(s, Len(index)) : s \in Scales}
  BY <1>1 DEF Found, Leads
<1>5. Cardinality(Chosen) <= request.top
  BY <1>2, <1>3, SMT
<1> SUFFICES ASSUME NEW s \in Scales
             PROVE  LET here == {i \in Chosen : index[i].scale = s}
                    IN  /\ request.quota > 0 => Cardinality(here) <= request.quota
                        /\ \A i \in Of(s, Len(index)) \ Chosen :
                              \/ /\ Cardinality(Chosen) = request.top
                                 /\ \A j \in Chosen : Score(j) >= Score(i)
                              \/ /\ request.quota > 0
                                 /\ Cardinality(here) = request.quota
                                 /\ \A j \in here : Score(j) >= Score(i)
  BY <1>4, <1>5 DEF AreBest
<1> DEFINE here == {i \in Chosen : index[i].scale = s}
<1>6. /\ leaders[s] = {i \in Found : index[i].scale = s}
      /\ Cardinality(leaders[s]) <= HeapSize
      /\ \A i \in Of(s, Len(index)) \ leaders[s] :
            /\ Cardinality(leaders[s]) = HeapSize
            /\ \A j \in leaders[s] : Score(j) >= Score(i)
  BY <1>1 DEF Leads
<1>7. /\ here \in SUBSET leaders[s] /\ here \in SUBSET Chosen
      /\ IsFiniteSet(leaders[s]) /\ Cardinality(leaders[s]) \in Nat
      /\ IsFiniteSet(here) /\ Cardinality(here) \in Nat
      /\ Cardinality(here) <= Cardinality(leaders[s])
  <2>1. here \in SUBSET leaders[s] /\ here \in SUBSET Chosen /\ leaders[s] \in SUBSET Found
    BY <1>1, <1>6
  <2>2. IsFiniteSet(leaders[s])
    BY <1>1, <2>1, FS_Subset
  <2> QED BY <2>1, <2>2, FS_Subset, FS_CardinalityType
<1>8. request.quota > 0 => Cardinality(here) <= request.quota
  BY <1>3, <1>6, <1>7, SMT
<1>9. ASSUME NEW i \in Of(s, Len(index)), i \notin Chosen
      PROVE  \/ /\ Cardinality(Chosen) = request.top
                /\ \A j \in Chosen : Score(j) >= Score(i)
             \/ /\ request.quota > 0
                /\ Cardinality(here) = request.quota
                /\ \A j \in here : Score(j) >= Score(i)
  <2>1. i \in 1..Len(index) /\ Score(i) \in Int /\ index[i].scale = s
    BY <1>1 DEF Of
  <2>2. ASSUME NEW m \in Found, m \notin Chosen, Score(m) >= Score(i)
        PROVE  Cardinality(Chosen) = request.top /\ \A j \in Chosen : Score(j) >= Score(i)
    <3>1. Cardinality(Chosen) = TopK /\ \A j \in Chosen : Score(j) >= Score(m)
      BY <2>2, CutIsFull
    <3>2. TopK = request.top
      BY <1>1, <2>2, <3>1, NotClamped
    <3>3. ASSUME NEW j \in Chosen PROVE Score(j) >= Score(i)
      <4>1. Score(j) \in Int /\ Score(m) \in Int /\ Score(j) >= Score(m)
        BY <1>1, <2>2, <3>1
      <4> QED BY <2>1, <2>2, <4>1, SMT
    <3> QED BY <3>1, <3>2, <3>3
  <2>3. CASE i \in Found
    <3>1. Score(i) >= Score(i)
      BY <2>1, SMT
    <3> QED BY <1>9, <2>2, <2>3, <3>1
  <2>4. CASE i \notin Found
    <3>1. Cardinality(leaders[s]) = HeapSize /\ \A j \in leaders[s] : Score(j) >= Score(i)
      BY <1>6, <1>9, <2>4
    <3>2. CASE leaders[s] \subseteq Chosen
      <4>1. here = leaders[s]
        BY <1>6, <1>7, <3>2
      <4>2. CASE HeapSize = TopK
        <5>1. Cardinality(leaders[s]) <= Cardinality(Chosen)
          BY <1>2, <3>2, FS_Subset
        <5>2. Cardinality(Chosen) = TopK /\ Cardinality(leaders[s]) = Cardinality(Chosen)
          BY <1>2, <1>3, <1>7, <3>1, <4>2, <5>1, SMT
        <5>3. leaders[s] = Chosen
          BY <1>2, <3>2, <5>2, FS_Subset
        <5>4. TopK = request.top
          BY <1>9, <2>1, <5>2, NotClamped
        <5> QED BY <3>1, <5>2, <5>3, <5>4
      <4>3. CASE request.quota > 0 /\ HeapSize = request.quota
        BY <3>1, <4>1, <4>3
      <4> QED BY <1>3, <4>2, <4>3
    <3>3. CASE ~(leaders[s] \subseteq Chosen)
      <4>1. PICK m \in leaders[s] : m \notin Chosen
        BY <3>3
      <4>2. m \in Found /\ Score(m) >= Score(i)
        BY <1>6, <3>1, <4>1
      <4> QED BY <2>2, <4>1, <4>2
    <3> QED BY <3>2, <3>3
  <2> QED BY <2>3, <2>4
<1> QED BY <1>8, <1>9

\* RanksAreExact, of one item and a rank.
IsExact(i, rank) ==
    LET all == Of(index[i].scale, Len(index))
        Above == Cardinality({j \in all : Score(j) > Score(i)})
        NotBelow == Cardinality({j \in all : Score(j) >= Score(i)})
    IN  Above < rank /\ rank <= NotBelow

LEMMA RankIsExact ==
    ASSUME AtEnd, NEW i \in Found
    PROVE  IsExact(i, RankIn(i, Found)) /\ RankIn(i, Found) \in 1..Len(index)
<1> DEFINE s == index[i].scale
<1> DEFINE all == Of(s, Len(index))
<1> DEFINE Before_s == {j \in Found : index[j].scale = s /\ Better(j, i)}
<1> DEFINE Above == {j \in all : Score(j) > Score(i)}
<1> DEFINE NotBelow == {j \in all : Score(j) >= Score(i)}
<1>1. /\ i \in 1..Len(index) /\ Score(i) \in Int /\ Len(index) \in Nat /\ s \in Scales
      /\ Leads(leaders[s], all) /\ leaders[s] = {j \in Found : index[j].scale = s}
      /\ \A j \in all : Score(j) \in Int
  BY FoundItems, Inputs DEF AtEnd
<1>2. i \in leaders[s] /\ leaders[s] \subseteq all /\ all \subseteq 1..Len(index)
  BY <1>1 DEF Leads, Of
<1>3. Above \in SUBSET Before_s
  <2>1. ASSUME NEW j \in all, Score(j) > Score(i) PROVE j \in leaders[s]
    <3>1. CASE j \notin leaders[s]
      <4>1. Score(i) >= Score(j)
        BY <1>1, <1>2, <3>1 DEF Leads
      <4> QED BY <1>1, <2>1, <4>1, SMT
    <3> QED BY <3>1
  <2> QED BY <1>1, <2>1 DEF Better
<1>4. (Before_s \cup {i}) \in SUBSET NotBelow
  <2>1. ASSUME NEW j \in Before_s PROVE j \in NotBelow
    <3>1. j \in all /\ Better(j, i)
      BY <1>1, <1>2
    <3> QED BY <1>1, <3>1, SMT DEF Better
  <2>2. i \in NotBelow
    BY <1>1, <1>2, SMT
  <2> QED BY <2>1, <2>2
<1>5. i \notin Before_s
  <2>1. ~Better(i, i)
    BY <1>1, SMT DEF Better
  <2> QED BY <2>1
<1>6. NotBelow \in SUBSET (1..Len(index))
  BY <1>2
<1>7. RankIn(i, Found) = 1 + Cardinality(Before_s)
  BY DEF RankIn
<1>8. IsExact(i, RankIn(i, Found))
      <=> /\ Cardinality(Above) < RankIn(i, Found)
          /\ RankIn(i, Found) <= Cardinality(NotBelow)
  BY DEF IsExact
<1> HIDE DEF s, all, Before_s, Above, NotBelow
<1>9. IsFiniteSet(1..Len(index)) /\ Cardinality(1..Len(index)) = Len(index)
  <2>1. 1 \in Int /\ Len(index) \in Int
    BY <1>1
  <2>2. IsFiniteSet(1..Len(index))
        /\ Cardinality(1..Len(index)) = IF 1 > Len(index) THEN 0 ELSE Len(index) - 1 + 1
    BY <2>1, FS_Interval
  <2> QED BY <1>1, <2>2, SMT
<1>10. /\ IsFiniteSet(NotBelow) /\ Cardinality(NotBelow) \in Nat
       /\ Cardinality(NotBelow) <= Len(index)
  BY <1>6, <1>9, FS_Subset, FS_CardinalityType
<1>11. /\ IsFiniteSet(Before_s) /\ Cardinality(Before_s) \in Nat
       /\ Cardinality(Before_s \cup {i}) <= Cardinality(NotBelow)
       /\ Cardinality(Before_s \cup {i}) = Cardinality(Before_s) + 1
  <2>1. Before_s \in SUBSET NotBelow
    BY <1>4
  <2>2. IsFiniteSet(Before_s)
    BY <1>10, <2>1, FS_Subset
  <2> QED BY <1>4, <1>5, <1>10, <2>2, FS_Subset, FS_CardinalityType, FS_AddElement
<1>12. Cardinality(Above) \in Nat /\ Cardinality(Above) <= Cardinality(Before_s)
  BY <1>3, <1>11, FS_Subset, FS_CardinalityType
<1> QED BY <1>1, <1>7, <1>8, <1>10, <1>11, <1>12, SMT

------------------------------------------------------------------------------
(* The invariant of the specification.                                     *)

LEMMA InitInv == Init => Inv
<1> SUFFICES ASSUME Init PROVE Inv
  OBVIOUS
<1>1. 0..(0 - 1) = {} /\ 1..0 = {}
  BY SMT
<1>2. Len(index) \in Nat
  BY SearchAssumption DEF Init
<1>3. request.top \in Nat /\ request.quota \in Nat
  BY SearchAssumption DEF Init
<1>4. HeapSize \in Nat
  BY <1>2, <1>3 DEF HeapSize, TopK, Smaller
<1>5. Cardinality({}) <= HeapSize
  BY <1>4, FS_EmptySet, SMT
<1>6. \A s \in Scales : leaders[s] = {} /\ Of(s, item) = {}
  BY <1>1 DEF Init, Of
<1>7. \A s \in Scales : Leads(leaders[s], Of(s, item))
  BY <1>5, <1>6 DEF Leads
<1>8. item \in 0..Len(index)
  BY <1>2, SMT DEF Init
<1> QED BY <1>7, <1>8 DEF Init, Inv

LEMMA NextInv == Inv /\ [Next]_vars => Inv'
<1> SUFFICES ASSUME Inv, [Next]_vars PROVE Inv'
  OBVIOUS
<1>1. CASE Throw \/ ReturnEmpty
  <2>1. /\ pc = "start" /\ pc' \in {"thrown", "returned"} /\ item = 0
        /\ UNCHANGED <<index, request, item, leaders, results>>
    BY <1>1 DEF Throw, ReturnEmpty, Inv
  <2>2. \A s \in Scales : leaders[s] = {}
    <3>1. 1..0 = {}
      BY SMT
    <3> QED BY <2>1, <3>1 DEF Inv, Leads, Of
  <2>3. leaders = [s \in Scales |-> {}]
    BY <2>2 DEF Inv
  <2> QED BY <2>1, <2>3 DEF Inv
<1>2. CASE StartScan
  BY <1>2 DEF StartScan, Inv, Leads, Of, Score, Finite, HeapSize, TopK
<1>3. CASE Return
  <2>1. /\ pc' = "returned" /\ leaders' = [s \in Scales |-> {}]
        /\ UNCHANGED <<index, request, item>>
    BY <1>3 DEF Return
  <2> QED BY <2>1 DEF Inv
<1>4. CASE Stopped \/ UNCHANGED vars
  BY <1>4 DEF Stopped, vars, Inv, Leads, Of, Score, Finite, HeapSize, TopK
<1> QED BY <1>1, <1>2, <1>3, <1>4, SkipInv, PushInv, ReplaceInv, DropInv DEF Next

ResultsOK == results \subseteq [index : 1..Len(index), rank : 1..Len(index)]

\* The inductive invariant, with what is said of the results.
FullInv == Inv /\ ResultsOK /\ BestAreReturned /\ RanksAreExact

\* Before the results are there, nothing is said of them.
LEMMA NotSearched ==
    ASSUME ~Searched PROVE BestAreReturned /\ RanksAreExact
  BY DEF BestAreReturned, RanksAreExact

\* Scores and scales are those of the index.
LEMMA SameItems ==
    ASSUME index' = index
    PROVE  /\ \A i : Score(i)' = Score(i)
           /\ \A s, n : Of(s, n)' = Of(s, n)
  BY DEF Score, Of, Finite

LEMMA ReturnIsRight ==
    ASSUME Inv, Return PROVE (ResultsOK /\ BestAreReturned /\ RanksAreExact)'
<1>1. AtEnd /\ UNCHANGED <<index, request>>
      /\ results' = {[index |-> i, rank |-> RankIn(i, Found)] : i \in Chosen}
  BY DEF Return, AtEnd, Found, Before, Chosen
<1>2. Chosen \subseteq Found /\ Found \subseteq 1..Len(index)
  BY <1>1, FoundItems DEF Chosen
<1> HIDE DEF Found, Chosen
<1>3. \A i \in Chosen : IsExact(i, RankIn(i, Found)) /\ RankIn(i, Found) \in 1..Len(index)
  BY <1>1, <1>2, RankIsExact
<1>4. \A r \in results' : \E i \in Chosen : r.index = i /\ r.rank = RankIn(i, Found)
  BY <1>1
<1>5. ResultsOK'
  BY <1>1, <1>2, <1>3 DEF ResultsOK
<1>6. {r.index : r \in results'} = Chosen
  <2>1. ASSUME NEW i \in Chosen PROVE \E r \in results' : r.index = i
    <3> DEFINE r == [index |-> i, rank |-> RankIn(i, Found)]
    <3>1. r \in results' /\ r.index = i
      BY <1>1
    <3> HIDE DEF r
    <3> QED BY <3>1
  <2> QED BY <1>4, <2>1
<1>7. BestAreReturned'
  <2>1. AreBest(Chosen)
    BY <1>1, ChosenAreBest
  <2>2. Returned' = Chosen
    BY <1>6 DEF Returned
  <2> DEFINE items == UNION {Of(s, Len(index)) : s \in Scales}
  <2>3. /\ Chosen \subseteq items /\ Cardinality(Chosen) <= request.top
        /\ items' = items /\ request' = request /\ index' = index
    BY <1>1, <2>1, SameItems DEF AreBest
  <2> HIDE DEF items
  <2>4. ASSUME NEW s \in Scales
        PROVE  /\ ReturnedOf(s)' = {i \in Chosen : index[i].scale = s}
               /\ Of(s, Len(index))' = Of(s, Len(index))
    BY <1>1, <2>2, SameItems DEF ReturnedOf
  <2>5. \A i : Score(i)' = Score(i)
    BY <1>1, SameItems
  <2>6. ASSUME NEW s \in Scales
        PROVE  /\ request.quota > 0 => Cardinality(ReturnedOf(s)') <= request.quota
               /\ \A i \in Of(s, Len(index))' \ Chosen :
                    \/ /\ Cardinality(Chosen) = request.top
                       /\ \A j \in Chosen : Score(j) >= Score(i)
                    \/ /\ request.quota > 0
                       /\ Cardinality(ReturnedOf(s)') = request.quota
                       /\ \A j \in ReturnedOf(s)' : Score(j) >= Score(i)
    BY <2>1, <2>4 DEF AreBest
  <2> QED BY <2>2, <2>3, <2>5, <2>6 DEF BestAreReturned, items
<1>8. RanksAreExact'
  <2>1. \A r \in results' : IsExact(r.index, r.rank)
    BY <1>3, <1>4
  <2> QED BY <1>1, <2>1 DEF RanksAreExact, IsExact, Of, Score, Finite
<1> QED BY <1>5, <1>7, <1>8

LEMMA InitFullInv == Init => FullInv
<1> SUFFICES ASSUME Init PROVE FullInv
  OBVIOUS
<1>1. ~Searched /\ ResultsOK
  BY DEF Init, Searched, ResultsOK
<1> QED BY <1>1, InitInv, NotSearched DEF FullInv

LEMMA NextFullInv == FullInv /\ [Next]_vars => FullInv'
<1> SUFFICES ASSUME FullInv, [Next]_vars PROVE FullInv'
  OBVIOUS
<1>1. Inv /\ Inv'
  BY NextInv DEF FullInv
<1>2. CASE Return
  BY <1>1, <1>2, ReturnIsRight DEF FullInv
<1>3. CASE Throw \/ ReturnEmpty \/ StartScan \/ Skip \/ Push \/ Replace \/ Drop
  <2>1. ~Searched' /\ UNCHANGED <<index, results>>
    BY <1>3 DEF Throw, ReturnEmpty, StartScan, Skip, Push, Replace, Drop, Scanning, Scanned,
                Searched
  <2>2. (BestAreReturned /\ RanksAreExact)'
    BY <2>1 DEF BestAreReturned, RanksAreExact
  <2> QED BY <1>1, <2>1, <2>2 DEF FullInv, ResultsOK
<1>4. CASE Stopped \/ UNCHANGED vars
  <2>1. UNCHANGED vars
    BY <1>4 DEF Stopped
  <2>2. UNCHANGED <<index, request, pc, results>>
    BY <2>1 DEF vars
  <2>3. (BestAreReturned /\ RanksAreExact)'
    <3>1. /\ Searched' = Searched /\ Returned' = Returned
          /\ \A s \in Scales : ReturnedOf(s)' = ReturnedOf(s)
      BY <2>2 DEF Searched, Returned, ReturnedOf
    <3>2. BestAreReturned /\ RanksAreExact
      BY DEF FullInv
    <3>3. BestAreReturned'
      BY <2>2, <3>1, <3>2, SameItems DEF BestAreReturned
    <3>4. RanksAreExact'
      <4>1. /\ \A i : Score(i)' = Score(i)
            /\ \A s, n : Of(s, n)' = Of(s, n)
        BY <2>2, SameItems
      <4> QED  BY <2>2, <3>1, <3>2, <4>1 DEF RanksAreExact
    <3> QED BY <3>3, <3>4
  <2> QED BY <1>1, <2>2, <2>3 DEF FullInv, ResultsOK
<1> QED BY <1>2, <1>3, <1>4 DEF Next

LEMMA Invariant == Spec => []FullInv
BY InitFullInv, NextFullInv, PTL DEF Spec

------------------------------------------------------------------------------
(* The theorems.                                                           *)

\* Every variable of search keeps its type; no heap outgrows heap_size, and a
\* rank is a place among the items.
THEOREM TypeCorrect == Spec => []TypeOK
<1>1. ASSUME FullInv PROVE TypeOK
  <2>1. ASSUME NEW s \in Scales PROVE Cardinality(leaders[s]) <= HeapSize
    <3>1. CASE pc \in {"start", "scan"}
      BY <1>1, <3>1 DEF FullInv, Inv, Leads
    <3>2. CASE pc \in {"returned", "thrown"}
      <4>1. leaders[s] = {} /\ HeapSize \in Nat
        BY <1>1, <3>2, Inputs DEF FullInv, Inv
      <4> QED BY <4>1, FS_EmptySet, SMT
    <3> QED BY <1>1, <3>1, <3>2 DEF FullInv, Inv
  <2> QED BY <1>1, <2>1 DEF FullInv, Inv, ResultsOK, TypeOK
<1> QED BY <1>1, Invariant, PTL

\* While the scan runs, no item of a scale that its heap has dropped is better
\* than any that it holds: what remains to be returned loses no leader.
THEOREM HeapsLead == Spec => []HeapsHoldLeaders
<1>1. FullInv => HeapsHoldLeaders
  BY DEF FullInv, Inv, Leads, HeapsHoldLeaders
<1> QED BY <1>1, Invariant, PTL

\* What search returns are the best items of the whole index, or of each scale
\* under a quota: the bounded heaps of the scales lose no result that belongs
\* to the answer, whatever ties they break.
THEOREM BestReturned == Spec => []BestAreReturned
<1>1. FullInv => BestAreReturned
  BY DEF FullInv
<1> QED BY <1>1, Invariant, PTL

\* rank_within_scale is the item's rank among all items of its scale, although
\* it is counted on what the heaps kept.
THEOREM ExactRanks == Spec => []RanksAreExact
<1>1. FullInv => RanksAreExact
  BY DEF FullInv
<1> QED BY <1>1, Invariant, PTL

------------------------------------------------------------------------------
(* What the evaluation makes of a printed result.                          *)

\* What a sequence holds when an element is put in at a place.
LEMMA Spliced ==
  ASSUME NEW S, NEW s \in Seq(S), NEW e \in S, NEW at \in 1..(Len(s) + 1)
  PROVE  /\ InsertAt(s, at, e) \in Seq(S) /\ Len(InsertAt(s, at, e)) = Len(s) + 1
         /\ \A m \in 1..(Len(s) + 1) :
               InsertAt(s, at, e)[m] = IF m = at THEN e
                                       ELSE IF m < at THEN s[m] ELSE s[m - 1]
  <1> DEFINE first == SubSeq(s, 1, at - 1)
             rest == SubSeq(s, at, Len(s))
             left == first \o <<e>>
  <1>1. Len(s) \in Nat /\ at \in Nat /\ 1 <= at /\ at <= Len(s) + 1  OBVIOUS
  <1>2. /\ first \in Seq(S) /\ Len(first) = at - 1
        /\ \A m \in 1..(at - 1) : first[m] = s[m]
    BY <1>1
  <1>3. /\ rest \in Seq(S) /\ Len(rest) = Len(s) - at + 1
        /\ \A m \in 1..(Len(s) - at + 1) : rest[m] = s[at + m - 1]
    BY <1>1
  <1>4. InsertAt(s, at, e) = left \o rest  BY DEF InsertAt
  <1> HIDE DEF first, rest
  <1>5. /\ left \in Seq(S) /\ Len(left) = at /\ left[at] = e
        /\ \A m \in 1..(at - 1) : left[m] = s[m]
    <2>1. <<e>> \in Seq(S) /\ Len(<<e>>) = 1  OBVIOUS
    <2>2. first \in Seq(S)  BY <1>2
    <2> DEFINE one == <<e>>
    <2>3. one[1] = e /\ one \in Seq(S) /\ Len(one) = 1  BY <2>1
    <2> HIDE DEF one
    <2>4. /\ first \o one \in Seq(S) /\ Len(first \o one) = Len(first) + Len(one)
          /\ \A p \in 1..Len(first) : (first \o one)[p] = first[p]
          /\ \A l \in 1..Len(one) : (first \o one)[Len(first) + l] = one[l]
      <3>1. first \in Seq(S) /\ one \in Seq(S)  BY <2>2, <2>3
      <3> QED  BY <3>1
    <2>5. 1 \in 1..Len(one)  BY <2>3
    <2>6. (first \o one)[Len(first) + 1] = e  BY <2>3, <2>4, <2>5
    <2>7. Len(first) + 1 = at  BY <1>1, <1>2
    <2>8. /\ first \o one \in Seq(S) /\ Len(first \o one) = at /\ (first \o one)[at] = e
      BY <2>3, <2>4, <2>6, <2>7
    <2>9. \A m \in 1..(at - 1) : (first \o one)[m] = s[m]  BY <1>2, <2>4
    <2> QED  BY <2>8, <2>9 DEF one
  <1> HIDE DEF left
  <1>6. /\ left \o rest \in Seq(S) /\ Len(left \o rest) = Len(left) + Len(rest)
        /\ \A p \in 1..Len(left) : (left \o rest)[p] = left[p]
        /\ \A l \in 1..Len(rest) : (left \o rest)[Len(left) + l] = rest[l]
    <2>1. left \in Seq(S) /\ rest \in Seq(S)  BY <1>3, <1>5
    <2> QED  BY <2>1
  <1>7. Len(left \o rest) = Len(s) + 1  BY <1>1, <1>3, <1>5, <1>6
  <1>8. ASSUME NEW m \in 1..(Len(s) + 1)
        PROVE  (left \o rest)[m] = IF m = at THEN e ELSE IF m < at THEN s[m] ELSE s[m - 1]
    <2>1. m \in Nat /\ 1 <= m /\ m <= Len(s) + 1  BY <1>1
    <2>2. CASE m <= at
      <3>1. m \in 1..Len(left)  BY <1>1, <1>5, <2>1, <2>2
      <3>2. (left \o rest)[m] = left[m]  BY <1>6, <3>1
      <3>3. m < at => m \in 1..(at - 1)  BY <1>1, <2>1
      <3>4. m < at => left[m] = s[m]  BY <1>5, <3>3
      <3>5. m = at \/ m < at  BY <1>1, <2>1, <2>2
      <3> QED  BY <1>5, <2>2, <3>2, <3>4, <3>5
    <2>3. CASE ~(m <= at)
      <3>1. m - at \in 1..Len(rest) /\ at + (m - at) = m /\ at + (m - at) - 1 = m - 1
            /\ m # at /\ ~(m < at)
        BY <1>1, <1>3, <2>1, <2>3
      <3>2. (left \o rest)[at + (m - at)] = rest[m - at]  BY <1>5, <1>6, <3>1
      <3>3. m - at \in 1..(Len(s) - at + 1)  BY <1>3, <3>1
      <3>4. rest[m - at] = s[at + (m - at) - 1]  BY <1>3, <3>3
      <3> QED  BY <3>1, <3>2, <3>4
    <2> QED  BY <2>2, <2>3
  <1> QED  BY <1>4, <1>6, <1>7, <1>8

\* Where the lines of the results are in the output of a quiet case: before them, and
\* at one place among them, there may be a line of a diagnostic.
LEMMA OutputLines ==
  ASSUME NEW c \in Case, c.quiet, NEW blocks \in Seq(Seq(Line)), NEW lines \in Outputs(c, blocks),
         FlattenSeq(blocks) \in Seq(Line)
  PROVE  \E b \in {0, 1} : \E at \in Nat :
            LET printed == FlattenSeq(blocks)
            IN  /\ lines \in Seq(Line) /\ Len(lines) = b + Len(printed) + 1
                /\ 1 <= at /\ at <= Len(printed) + 1
                /\ \A m \in 1..b : lines[m] = Bare
                /\ \A m \in 1..(Len(printed) + 1) :
                      lines[b + m] = IF m = at THEN Bare
                                     ELSE IF m < at THEN printed[m] ELSE printed[m - 1]
  <1> DEFINE printed == FlattenSeq(blocks)
  <1>1. PICK before \in {<<>>, <<Bare>>}, at \in 1..(Len(printed) + 1) :
           lines = before \o InsertAt(printed, at, Bare)
    <2>1. Noise(c) = {Bare}  BY DEF Noise
    <2>2. Disturbed(c, printed) = {InsertAt(printed, v, Bare) : v \in 1..(Len(printed) + 1)}
      <3>1. Disturbed(c, printed) = {InsertAt(printed, v, n) : v \in 1..(Len(printed) + 1), n \in {Bare}}
        BY <2>1 DEF Disturbed
      <3> QED  BY <3>1
    <2> DEFINE U == {<<>>, <<Bare>>}
               V == 1..(Len(printed) + 1)
    <2>3. U = {<<>>} \cup {<<n>> : n \in Noise(c)}  BY <2>1
    <2> DEFINE W == Disturbed(c, printed)
    <2>4. Outputs(c, blocks) = {u \o w : u \in U, w \in W}
      <3>1. Outputs(c, blocks) = {u \o w : u \in {<<>>} \cup {<<n>> : n \in Noise(c)}, w \in W}
        BY DEF Outputs
      <3> HIDE DEF U, W, printed
      <3> QED  BY <2>3, <3>1
    <2>5. lines \in Outputs(c, blocks)  OBVIOUS
    <2> HIDE DEF printed, U, V, W
    <2>6. PICK u \in U, w \in W : lines = u \o w  BY <2>4, <2>5
    <2>7. PICK v \in V : w = InsertAt(printed, v, Bare)  BY <2>2 DEF V, W
    <2> QED  BY <2>6, <2>7 DEF U, V
  <1>2. Bare \in Line  BY DEF Bare, Line
  <1>3. printed \in Seq(Line)  OBVIOUS
  <1> DEFINE tail == InsertAt(printed, at, Bare)
  <1> HIDE DEF printed
  <1>4. /\ tail \in Seq(Line) /\ Len(tail) = Len(printed) + 1
        /\ \A m \in 1..(Len(printed) + 1) :
              tail[m] = IF m = at THEN Bare ELSE IF m < at THEN printed[m] ELSE printed[m - 1]
    BY <1>2, <1>3, Spliced
  <1> DEFINE b == Len(before)
  <1>5. /\ before \in Seq(Line) /\ b \in {0, 1} /\ \A m \in 1..b : before[m] = Bare
    <2>1. CASE before = <<>>  BY <2>1
    <2>2. CASE before = <<Bare>>
      <3> DEFINE one == <<Bare>>
      <3>1. one \in Seq(Line) /\ Len(one) = 1 /\ one[1] = Bare  BY <1>2
      <3> HIDE DEF one
      <3>2. before = one  BY <2>2 DEF one
      <3>3. b = 1 /\ before[1] = Bare /\ before \in Seq(Line)  BY <3>1, <3>2
      <3> QED  BY <3>3
    <2> QED  BY <2>1, <2>2
  <1> HIDE DEF tail
  <1>6. /\ lines \in Seq(Line) /\ Len(lines) = b + Len(tail)
        /\ \A p \in 1..b : lines[p] = before[p]
        /\ \A m \in 1..Len(tail) : lines[b + m] = tail[m]
    <2>1. before \in Seq(Line) /\ tail \in Seq(Line) /\ lines = before \o tail
      BY <1>1, <1>4, <1>5 DEF tail
    <2> QED  BY <2>1
  <1>7. Len(printed) \in Nat /\ at \in Nat /\ 1 <= at /\ at <= Len(printed) + 1  BY <1>3
  <1> HIDE DEF b
  <1>8. Len(lines) = b + Len(printed) + 1
    <2>1. b \in Nat  BY <1>5
    <2>2. Len(tail) = Len(printed) + 1 /\ Len(lines) = b + Len(tail)  BY <1>4, <1>6
    <2> QED  BY <2>1, <2>2, <1>7
  <1>9. \A m \in 1..b : lines[m] = Bare  BY <1>5, <1>6
  <1>10. \A m \in 1..(Len(printed) + 1) :
            lines[b + m] = IF m = at THEN Bare
                           ELSE IF m < at THEN printed[m] ELSE printed[m - 1]
    BY <1>4, <1>6
  <1> QED  BY <1>5, <1>6, <1>7, <1>8, <1>9, <1>10 DEF printed

\* What is read is lines, whatever the diagnostics are.
LEMMA OutputsAreLines ==
  ASSUME NEW c \in Case, NEW blocks, FlattenSeq(blocks) \in Seq(Line),
         NEW lines \in Outputs(c, blocks)
  PROVE  lines \in Seq(Line)
  <1> DEFINE printed == FlattenSeq(blocks)
  <1>1. Noise(c) \subseteq Line
    <2>1. Bare \in Line  BY DEF Bare, Line
    <2> QED  BY <2>1 DEF Noise
  <1>2. \A w \in Disturbed(c, printed) : w \in Seq(Line)
    <2> SUFFICES ASSUME NEW w \in Disturbed(c, printed) PROVE w \in Seq(Line)  OBVIOUS
    <2>1. printed \in Seq(Line)  OBVIOUS
    <2> HIDE DEF printed
    <2>2. CASE w \in {InsertAt(printed, at, n) : at \in 1..(Len(printed) + 1), n \in Noise(c)}
      <3>1. PICK at \in 1..(Len(printed) + 1), n \in Noise(c) : w = InsertAt(printed, at, n)
        BY <2>2
      <3> QED  BY <1>1, <2>1, <3>1, Spliced
    <2>3. CASE w \in {InsertAt(ReplaceAt(printed, at, rest), at, n) :
                          at \in DOMAIN printed, rest \in Line, n \in Line}
      <3>1. PICK at \in DOMAIN printed, rest \in Line, n \in Line :
                w = InsertAt(ReplaceAt(printed, at, rest), at, n)
        BY <2>3
      <3> DEFINE left == ReplaceAt(printed, at, rest)
      <3>2. left \in Seq(Line) /\ Len(left) = Len(printed)  BY <2>1 DEF ReplaceAt
      <3>3. at \in 1..(Len(left) + 1)  BY <2>1, <3>2
      <3> HIDE DEF left
      <3>4. InsertAt(left, at, n) \in Seq(Line)  BY <3>2, <3>3, Spliced
      <3> QED  BY <3>1, <3>4 DEF left
    <2> QED  BY <2>2, <2>3 DEF Disturbed
  <1>3. PICK before \in {<<>>} \cup {<<n>> : n \in Noise(c)}, w \in Disturbed(c, printed) :
            lines = before \o w
    BY DEF Outputs
  <1>4. before \in Seq(Line)
    <2>1. CASE before = <<>>  BY <2>1
    <2>2. CASE before \in {<<n>> : n \in Noise(c)}
      <3>1. PICK n \in Noise(c) : before = <<n>>  BY <2>2
      <3>2. n \in Line  BY <1>1
      <3> QED  BY <3>1, <3>2
    <2> QED  BY <2>1, <2>2
  <1>5. w \in Seq(Line)  BY <1>2
  <1> QED  BY <1>3, <1>4, <1>5

\* lines is the beginning of output, but for its last line, of which there is a part.
IsCut(lines, output) ==
  /\ lines \in Seq(Line) /\ Len(lines) <= Len(output)
  /\ \A m \in 1..Len(lines) : /\ m < Len(lines) => lines[m] = output[m]
                              /\ lines[m].hit => output[m].hit

LEMMA Cuts ==
  ASSUME NEW output \in Seq(Line)
  PROVE  /\ IsCut(output, output)
         /\ \A lines \in CutsOf(output) : IsCut(lines, output)
  <1>1. IsCut(output, output)  BY DEF IsCut
  <1>2. ASSUME NEW lines \in CutsOf(output) PROVE IsCut(lines, output)
    <2>1. CASE lines = <<>>  BY <2>1 DEF IsCut
    <2>2. CASE lines # <<>>
      <3>1. PICK t \in DOMAIN output : lines \in {Append(SubSeq(output, 1, t - 1), part) :
                                                      part \in Parts(output[t])}
        BY <2>2 DEF CutsOf
      <3>2. PICK part \in Parts(output[t]) : lines = Append(SubSeq(output, 1, t - 1), part)
        BY <3>1
      <3>3. part \in Line /\ (part.hit => output[t].hit)  BY DEF Parts
      <3>4. t \in Nat /\ 1 <= t /\ t <= Len(output) /\ Len(output) \in Nat  OBVIOUS
      <3> DEFINE first == SubSeq(output, 1, t - 1)
      <3>5. /\ first \in Seq(Line) /\ Len(first) = t - 1
            /\ \A m \in 1..(t - 1) : first[m] = output[m]
        BY <3>4
      <3> HIDE DEF first
      <3>6. /\ lines \in Seq(Line) /\ Len(lines) = t /\ lines[t] = part
            /\ \A m \in 1..(t - 1) : lines[m] = first[m]
        <4>1. lines = Append(first, part)  BY <3>2 DEF first
        <4> QED  BY <3>3, <3>4, <3>5, <4>1
      <3>7. ASSUME NEW m \in 1..Len(lines)
            PROVE  /\ m < Len(lines) => lines[m] = output[m]
                   /\ lines[m].hit => output[m].hit
        <4>1. m \in 1..(t - 1) \/ m = t  BY <3>4, <3>6
        <4>2. m = t => ~(m < Len(lines))  BY <3>4, <3>6
        <4> QED  BY <3>3, <3>5, <3>6, <4>1, <4>2
      <3> QED  BY <3>4, <3>6, <3>7 DEF IsCut
    <2> QED  BY <2>1, <2>2
  <1> QED  BY <1>1, <1>2

\* Some line of a result's text has the expected substring.
Has(block) == \E l \in DOMAIN block : l # 1 /\ block[l].hit

\* No header of the results has the substring; no text looks like a header.
AreBare(blocks) == \A i \in DOMAIN blocks : ~blocks[i][1].hit
ArePlain(blocks) == \A i \in DOMAIN blocks : \A l \in DOMAIN blocks[i] :
                        l # 1 => blocks[i][l].score = "none"

\* Line m is printed after the header of result i and before that of the next.
Under(head, n, m, i) == head[i] <= m /\ \A j \in 1..n : i < j => m < head[j]

\* The headers of the n results are printed at the lines head, in their order, and
\* between them nothing has the substring but lines of the results.
Printed(lines, blocks, head) ==
  LET n == Len(blocks)
  IN  /\ head \in [1..n -> 1..Len(lines)]
      /\ \A i, j \in 1..n : i < j => head[i] < head[j]
      /\ \A i \in 1..n : lines[head[i]].score = "start"
      /\ \A m \in 1..Len(lines) :
            lines[m].hit => \E i \in 1..n :
                                Has(blocks[i]) /\ Under(head, n, m, i) /\ head[i] < m
      /\ \A i \in 1..n : Has(blocks[i]) =>
            \E m \in 1..Len(lines) : lines[m].hit /\ Under(head, n, m, i)
      /\ \A m \in 1..Len(lines) : n > 0 /\ m < head[1] => lines[m].score = "none"
      /\ ArePlain(blocks) =>
            \A m \in 1..Len(lines) : lines[m].score = "start" => \E i \in 1..n : m = head[i]

\* What is read of a quiet case is the printed results, one after the other.
LEMMA OutputsArePrinted ==
  ASSUME NEW c \in Case, c.quiet, NEW blocks \in Seq(Result), AreBare(blocks),
         NEW lines \in Outputs(c, blocks)
  PROVE  lines \in Seq(Line) /\ \E head : Printed(lines, blocks, head)
  <1> DEFINE n == Len(blocks)
             printed == FlattenSeq(blocks)
  <1>1. n \in Nat /\ blocks \in [1..n -> Seq(Line)] /\ blocks \in Seq(Seq(Line))
        /\ \A i \in 1..n : Len(blocks[i]) \in Nat \ {0} /\ blocks[i][1].score = "start"
                           /\ DOMAIN blocks[i] = 1..Len(blocks[i])
    BY DEF Result
  <1>0. /\ printed \in Seq(Line)
        /\ \E ends \in [0..n -> Nat] : PartsEnd(ends, blocks, n)
    <2>1. n \in Nat /\ blocks \in [1..n -> Seq(Line)]  BY <1>1
    <2> HIDE DEF n
    <2> QED  BY <2>1, FlattenPlaces
  <1>2. PICK ends \in [0..n -> Nat] :
            /\ ends[0] = 0 /\ \A i \in 1..n : ends[i] = ends[i - 1] + Len(blocks[i])
            /\ printed \in Seq(Line) /\ Len(printed) = ends[n]
            /\ \A i \in 1..n : \A l \in 1..Len(blocks[i]) :
                  /\ ends[i - 1] + l \in 1..ends[n]
                  /\ printed[ends[i - 1] + l] = blocks[i][l]
            /\ \A p \in 1..ends[n] :
                  \E i \in 1..n : \E l \in 1..Len(blocks[i]) : p = ends[i - 1] + l
    <2>1. PICK ends \in [0..n -> Nat] : PartsEnd(ends, blocks, n)  BY <1>0
    <2> HIDE DEF n
    <2> QED  BY <1>0, <2>1 DEF PartsEnd
  <1>3. PICK b \in {0, 1}, at \in Nat :
           /\ lines \in Seq(Line) /\ Len(lines) = b + Len(printed) + 1
           /\ 1 <= at /\ at <= Len(printed) + 1
           /\ \A m \in 1..b : lines[m] = Bare
           /\ \A m \in 1..(Len(printed) + 1) :
                 lines[b + m] = IF m = at THEN Bare
                                ELSE IF m < at THEN printed[m] ELSE printed[m - 1]
    <2>1. FlattenSeq(blocks) \in Seq(Line)  BY <1>2
    <2>2. \E b \in {0, 1} : \E at \in Nat :
            LET shown == FlattenSeq(blocks)
            IN  /\ lines \in Seq(Line) /\ Len(lines) = b + Len(shown) + 1
                /\ 1 <= at /\ at <= Len(shown) + 1
                /\ \A m \in 1..b : lines[m] = Bare
                /\ \A m \in 1..(Len(shown) + 1) :
                      lines[b + m] = IF m = at THEN Bare
                                     ELSE IF m < at THEN shown[m] ELSE shown[m - 1]
      BY <1>1, <2>1, OutputLines, Zenon
    <2> QED  BY <2>2
  <1> DEFINE size == Len(printed)
             place(p) == b + p + (IF p < at THEN 0 ELSE 1)
  <1>4. size \in Nat /\ b \in Nat /\ size = ends[n]  BY <1>2
  <1> HIDE DEF printed, n, size
  <1>5. ASSUME NEW p \in 1..size
        PROVE  place(p) \in 1..Len(lines) /\ lines[place(p)] = printed[p]
    <2>1. p \in Nat /\ 1 <= p /\ p <= size  BY <1>4
    <2>2. CASE p < at
      <3>1. p \in 1..(size + 1) /\ p # at /\ place(p) = b + p  BY <1>4, <2>1, <2>2
      <3>2. lines[b + p] = printed[p]
        <4>1. lines[b + p] = IF p = at THEN Bare ELSE IF p < at THEN printed[p] ELSE printed[p - 1]
          BY <1>3, <3>1, Zenon DEF size
        <4> QED  BY <2>2, <3>1, <4>1, Zenon
      <3>3. b + p \in 1..(b + size + 1)  BY <1>4, <2>1
      <3> QED  BY <1>3, <3>1, <3>2, <3>3 DEF size
    <2>3. CASE ~(p < at)
      <3>1. p + 1 \in 1..(size + 1) /\ p + 1 # at /\ ~(p + 1 < at) /\ (p + 1) - 1 = p
            /\ place(p) = b + (p + 1)
        BY <1>4, <2>1, <2>3
      <3>2. lines[b + (p + 1)] = printed[(p + 1) - 1]
        <4>1. lines[b + (p + 1)] =
                IF p + 1 = at THEN Bare ELSE IF p + 1 < at THEN printed[p + 1] ELSE printed[(p + 1) - 1]
          BY <1>3, <3>1, Zenon DEF size
        <4> QED  BY <3>1, <4>1, Zenon
      <3>3. b + (p + 1) \in 1..(b + size + 1)  BY <1>4, <2>1
      <3> QED  BY <1>3, <3>1, <3>2, <3>3 DEF size
    <2> QED  BY <2>2, <2>3
  <1>6. ASSUME NEW m \in 1..Len(lines)
        PROVE  lines[m] = Bare \/ \E p \in 1..size : m = place(p)
    <2>1. m \in Nat /\ 1 <= m /\ m <= b + size + 1  BY <1>3, <1>4 DEF size
    <2>2. CASE m <= b  BY <1>3, <1>4, <2>1, <2>2
    <2>3. CASE ~(m <= b)
      <3> DEFINE q == m - b
      <3>1. q \in Nat /\ q \in 1..(size + 1) /\ m = b + q  BY <1>4, <2>1, <2>3
      <3>2. CASE q = at  BY <1>3, <3>1, <3>2 DEF size
      <3>3. CASE q < at
        <4>1. q \in 1..size  BY <1>3, <1>4, <3>1, <3>3 DEF size
        <4>2. m = place(q)  BY <3>1, <3>3
        <4> QED  BY <4>1, <4>2
      <3>4. CASE q > at
        <4>1. q - 1 \in 1..size  BY <1>3, <1>4, <3>1, <3>4 DEF size
        <4>2. m = place(q - 1)  BY <1>4, <3>1, <3>4
        <4> QED  BY <4>1, <4>2
      <3> QED  BY <3>1, <3>2, <3>3, <3>4
    <2> QED  BY <2>2, <2>3
  <1>7. \A p, q \in Nat : /\ p < q => place(p) < place(q)
                          /\ p <= q => place(p) <= place(q)
                          /\ place(p) \in Nat
    BY <1>4
  <1> HIDE DEF place
  <1> DEFINE head == [i \in 1..n |-> place(ends[i - 1] + 1)]
  <1>8. ASSUME NEW i \in 1..n
        PROVE  /\ i - 1 \in 0..n /\ ends[i - 1] \in Nat /\ ends[i - 1] + 1 \in 1..size
               /\ printed[ends[i - 1] + 1] = blocks[i][1]
               /\ head[i] = place(ends[i - 1] + 1)
               /\ ends[i - 1] + 1 <= ends[i] /\ ends[i] \in Nat
    <2>1. i - 1 \in 0..n /\ i \in 0..n  BY <1>1
    <2>2. 1 \in 1..Len(blocks[i])  BY <1>1
    <2>3. ends[i - 1] \in Nat /\ ends[i] \in Nat  BY <2>1
    <2>4. Len(blocks[i]) \in Nat \ {0} /\ ends[i] = ends[i - 1] + Len(blocks[i])  BY <1>1, <1>2
    <2>5. ends[i - 1] + 1 <= ends[i]  BY <2>3, <2>4
    <2> QED  BY <1>2, <1>4, <2>1, <2>2, <2>3, <2>5
  <1>9. ASSUME NEW i \in 1..n, NEW j \in 1..n, i < j
        PROVE  ends[i] < ends[j - 1] + 1
    <2>1. i \in 0..n /\ j - 1 \in 0..n /\ i <= j - 1  BY <1>1, <1>9
    <2>2. ASSUME NEW k \in 1..n PROVE ends[k - 1] <= ends[k]
      <3>1. ends[k - 1] \in Nat /\ ends[k - 1] + 1 <= ends[k] /\ ends[k] \in Nat  BY <1>8
      <3> QED  BY <3>1
    <2>3. ends[i] <= ends[j - 1]  BY <1>1, <2>1, <2>2, Grows
    <2>4. ends[i] \in Nat /\ ends[j - 1] \in Nat  BY <2>1
    <2> QED  BY <2>3, <2>4
  <1> HIDE DEF head
  <1>10. ASSUME NEW i \in 1..n, NEW l \in 1..Len(blocks[i])
         PROVE  /\ ends[i - 1] + l \in 1..size /\ printed[ends[i - 1] + l] = blocks[i][l]
                /\ Under(head, n, place(ends[i - 1] + l), i)
                /\ l = 1 => place(ends[i - 1] + l) = head[i]
    <2>1. ends[i - 1] + l \in 1..size /\ printed[ends[i - 1] + l] = blocks[i][l]
      BY <1>2, <1>4
    <2> DEFINE p == ends[i - 1] + l
    <2>2. p \in Nat /\ ends[i - 1] + 1 \in Nat /\ ends[i - 1] + 1 <= p /\ p <= ends[i]
      <3>1. l \in Nat /\ 1 <= l /\ l <= Len(blocks[i]) /\ Len(blocks[i]) \in Nat  BY <1>1
      <3>2. ends[i] = ends[i - 1] + Len(blocks[i])  BY <1>2
      <3>3. ends[i - 1] \in Nat /\ ends[i] \in Nat  BY <1>8
      <3> DEFINE before == ends[i - 1]
                 block == Len(blocks[i])
      <3>4. before \in Nat /\ block \in Nat /\ l \in Nat /\ 1 <= l /\ l <= block
            /\ ends[i] = before + block /\ p = before + l
        BY <3>1, <3>2, <3>3
      <3> HIDE DEF p, before, block
      <3>5. p \in Nat /\ before + 1 \in Nat /\ before + 1 <= p /\ p <= ends[i]  BY <3>4
      <3> QED  BY <3>5 DEF before
    <2> HIDE DEF p
    <2>3. head[i] <= place(p)  BY <1>7, <1>8, <2>2
    <2>4. ASSUME NEW j \in 1..n, i < j PROVE place(p) < head[j]
      <3>1. ends[i] < ends[j - 1] + 1 /\ ends[i] \in Nat /\ ends[j - 1] \in Nat
        BY <1>8, <1>9, <2>4
      <3>2. p < ends[j - 1] + 1 /\ ends[j - 1] + 1 \in Nat
        <4>1. p \in Nat /\ p <= ends[i]  BY <2>2
        <4>2. \A u, v, w \in Nat : u <= v /\ v < w + 1 => u < w + 1 /\ w + 1 \in Nat
          OBVIOUS
        <4> QED  BY <3>1, <4>1, <4>2
      <3>3. place(p) < place(ends[j - 1] + 1)  BY <1>7, <2>2, <3>2
      <3> QED  BY <1>8, <3>3
    <2>5. Under(head, n, place(p), i)  BY <2>3, <2>4 DEF Under
    <2> QED  BY <1>8, <2>1, <2>5 DEF p
  <1>11. head \in [1..n -> 1..Len(lines)]
    <2>1. \A i \in 1..n : place(ends[i - 1] + 1) \in 1..Len(lines)  BY <1>5, <1>8
    <2> QED  BY <2>1 DEF head
  <1>12. \A i, j \in 1..n : i < j => head[i] < head[j]
    <2> SUFFICES ASSUME NEW i \in 1..n, NEW j \in 1..n, i < j PROVE head[i] < head[j]
      OBVIOUS
    <2>1. ends[i - 1] + 1 < ends[j - 1] + 1
          /\ ends[i - 1] + 1 \in Nat /\ ends[j - 1] + 1 \in Nat
      BY <1>8, <1>9
    <2> QED  BY <1>7, <1>8, <2>1
  <1>13. ASSUME NEW i \in 1..n PROVE lines[head[i]].score = "start"
    <2>1. lines[head[i]] = blocks[i][1]  BY <1>5, <1>8
    <2> QED  BY <1>1, <2>1
  <1>14. ~Bare.hit /\ Bare.score = "none"  BY DEF Bare
  <1>15. ASSUME NEW m \in 1..Len(lines), lines[m] # Bare
         PROVE  \E i \in 1..n : \E l \in 1..Len(blocks[i]) :
                   /\ lines[m] = blocks[i][l] /\ Under(head, n, m, i)
                   /\ m = place(ends[i - 1] + l)
    <2>1. PICK p \in 1..size : m = place(p)  BY <1>6, <1>15
    <2>2. PICK i \in 1..n : \E l \in 1..Len(blocks[i]) : p = ends[i - 1] + l  BY <1>2, <1>4
    <2>3. PICK l \in 1..Len(blocks[i]) : p = ends[i - 1] + l  BY <2>2
    <2>4. printed[p] = blocks[i][l] /\ Under(head, n, place(p), i)  BY <1>10, <2>3
    <2>5. lines[m] = printed[p]  BY <1>5, <2>1
    <2> QED  BY <2>1, <2>3, <2>4, <2>5
  <1>16. ASSUME NEW m \in 1..Len(lines), lines[m].hit
         PROVE  \E i \in 1..n : Has(blocks[i]) /\ Under(head, n, m, i) /\ head[i] < m
    <2>1. lines[m] # Bare  BY <1>14, <1>16
    <2>2. PICK i \in 1..n : \E l \in 1..Len(blocks[i]) :
                   /\ lines[m] = blocks[i][l] /\ Under(head, n, m, i)
                   /\ m = place(ends[i - 1] + l)
      BY <1>15, <2>1
    <2>3. PICK l \in 1..Len(blocks[i]) :
                   /\ lines[m] = blocks[i][l] /\ Under(head, n, m, i)
                   /\ m = place(ends[i - 1] + l)
      BY <2>2
    <2>4. l # 1
      <3>1. ~blocks[i][1].hit  BY <1>1 DEF AreBare
      <3> QED  BY <1>16, <2>3, <3>1
    <2>5. Has(blocks[i])  BY <1>1, <1>16, <2>3, <2>4 DEF Has
    <2>6. head[i] < m
      <3>1. ends[i - 1] \in Nat /\ head[i] = place(ends[i - 1] + 1)  BY <1>8
      <3> DEFINE before == ends[i - 1]
      <3>2. l \in Nat /\ 1 < l
        <4>1. Len(blocks[i]) \in Nat  BY <1>1
        <4> QED  BY <2>4, <4>1
      <3> HIDE DEF before
      <3>3. before \in Nat  BY <3>1 DEF before
      <3>4. before + 1 \in Nat /\ before + l \in Nat /\ before + 1 < before + l  BY <3>2, <3>3
      <3>5. place(before + 1) < place(before + l)  BY <1>7, <3>4
      <3> QED  BY <2>3, <3>1, <3>5 DEF before
    <2> QED  BY <2>3, <2>5, <2>6
  <1>17. ASSUME NEW i \in 1..n, Has(blocks[i])
         PROVE  \E m \in 1..Len(lines) : lines[m].hit /\ Under(head, n, m, i)
    <2>1. PICK l \in 1..Len(blocks[i]) : blocks[i][l].hit  BY <1>1, <1>17 DEF Has
    <2>2. /\ ends[i - 1] + l \in 1..size /\ printed[ends[i - 1] + l] = blocks[i][l]
          /\ Under(head, n, place(ends[i - 1] + l), i)
      BY <1>10
    <2>3. place(ends[i - 1] + l) \in 1..Len(lines)
          /\ lines[place(ends[i - 1] + l)] = blocks[i][l]
      BY <1>5, <2>2
    <2> QED  BY <2>1, <2>2, <2>3
  <1>18. ASSUME NEW m \in 1..Len(lines), n > 0, m < head[1] PROVE lines[m].score = "none"
    <2>1. CASE lines[m] = Bare  BY <1>14, <2>1
    <2>2. CASE lines[m] # Bare
      <3>1. PICK i \in 1..n : Under(head, n, m, i)  BY <1>15, <2>2
      <3>2. head[i] <= m  BY <3>1 DEF Under
      <3>3. 1 \in 1..n /\ (i = 1 \/ 1 < i)  BY <1>1, <1>18
      <3>4. head[1] <= head[i] /\ head[1] \in Nat /\ head[i] \in Nat
        <4>1. head[1] \in 1..Len(lines) /\ head[i] \in 1..Len(lines)  BY <1>11, <3>3
        <4> QED  BY <1>12, <3>3, <4>1
      <3>5. m \in Nat  OBVIOUS
      <3> QED  BY <1>18, <3>2, <3>4, <3>5
    <2> QED  BY <2>1, <2>2
  <1>19. ASSUME ArePlain(blocks), NEW m \in 1..Len(lines), lines[m].score = "start"
         PROVE  \E i \in 1..n : m = head[i]
    <2>1. lines[m] # Bare  BY <1>14, <1>19
    <2>2. PICK i \in 1..n : \E l \in 1..Len(blocks[i]) :
                   lines[m] = blocks[i][l] /\ m = place(ends[i - 1] + l)
      BY <1>15, <2>1
    <2>3. PICK l \in 1..Len(blocks[i]) :
                   lines[m] = blocks[i][l] /\ m = place(ends[i - 1] + l)
      BY <2>2
    <2>4. l = 1
      <3>1. l \in DOMAIN blocks[i] /\ i \in DOMAIN blocks  BY <1>1
      <3> QED  BY <1>19, <2>3, <3>1 DEF ArePlain
    <2> QED  BY <1>10, <2>3, <2>4
  <1>20. Printed(lines, blocks, head)
    BY <1>11, <1>12, <1>13, <1>16, <1>17, <1>18, <1>19 DEF Printed, n
  <1> QED  BY <1>3, <1>20

LEMMA RankFacts ==
  ASSUME NEW blocks \in Seq(Result)
  PROVE  LET n == Len(blocks)
         IN  /\ n \in Nat /\ Rank(blocks) \in Nat
             /\ Rank(blocks) # 0 => Rank(blocks) \in 1..n /\ Has(blocks[Rank(blocks)])
             /\ \A i \in 1..n : Has(blocks[i]) => Rank(blocks) # 0 /\ Rank(blocks) <= i
  <1> DEFINE n == Len(blocks)
             hit == {i \in 1..n : Has(blocks[i])}
  <1>1. n \in Nat /\ DOMAIN blocks = 1..n  OBVIOUS
  <1>2. Rank(blocks) = IF hit = {} THEN 0 ELSE Min(hit)  BY <1>1 DEF Rank, Has
  <1>3. hit \in SUBSET Nat /\ \A i \in hit : i # 0  BY <1>1
  <1>4. \A i \in 1..n : i \in hit <=> Has(blocks[i])  OBVIOUS
  <1>5. hit \subseteq 1..n  OBVIOUS
  <1> HIDE DEF hit, n
  <1>6. hit # {} => Min(hit) \in hit /\ \A i \in hit : Min(hit) <= i  BY <1>3, MinIsLeast
  <1>7. Rank(blocks) \in Nat
    <2>1. CASE hit = {}  BY <1>2, <2>1
    <2>2. CASE hit # {}  BY <1>2, <1>3, <1>6, <2>2
    <2> QED  BY <2>1, <2>2
  <1>8. Rank(blocks) # 0 => Rank(blocks) \in hit  BY <1>2, <1>6
  <1>9. \A i \in hit : Rank(blocks) # 0 /\ Rank(blocks) <= i  BY <1>2, <1>3, <1>6
  <1> QED  BY <1>1, <1>4, <1>5, <1>7, <1>8, <1>9 DEF n

\* A set that k different elements are numbered of has at least k, and k if these
\* are all.
LEMMA Numbered ==
  ASSUME NEW T, IsFiniteSet(T), NEW k \in Nat, NEW f \in [1..k -> T],
         \A i, j \in 1..k : f[i] = f[j] => i = j
  PROVE  /\ Cardinality(T) \in Nat /\ k <= Cardinality(T)
         /\ (\A t \in T : \E i \in 1..k : t = f[i]) => Cardinality(T) = k
  <1>1. Cardinality(T) \in Nat  BY FS_CardinalityType
  <1>2. Cardinality(1..k) = k
    <2>1. 1 \in Int /\ k \in Int  OBVIOUS
    <2> QED  BY <2>1, FS_Interval
  <1>3. f \in Injection(1..k, T)  BY DEF Injection, IsInjective
  <1>4. (\A t \in T : \E i \in 1..k : t = f[i]) => f \in Surjection(1..k, T)
    BY DEF Surjection
  <1> QED  BY <1>1, <1>2, <1>3, <1>4, FS_Injection

\* A first hit is a number of pieces, or 0.
LEMMA FirstHitType == ASSUME NEW lines \in Seq(Line) PROVE FirstHit(lines) \in Nat
  <1> DEFINE hit == {l \in Pieces(lines) : PieceHits(lines, l)}
             Starts == {l \in Pieces(lines) : l <= Min(hit)}
             size == Len(lines)
  <1>1. size \in Nat /\ DOMAIN lines = 1..size  OBVIOUS
  <1>2. IsFiniteSet(1..size)  BY <1>1, FS_Interval
  <1>3. Pieces(lines) \in SUBSET (1..size)  BY <1>1 DEF Pieces, HeaderStarts
  <1>4. Starts \in SUBSET (1..size)  BY <1>3
  <1>5. FirstHit(lines) = IF hit = {} THEN 0 ELSE Cardinality(Starts)  BY DEF FirstHit
  <1> HIDE DEF Starts, hit
  <1>6. Cardinality(Starts) \in Nat  BY <1>2, <1>4, FS_Subset, FS_CardinalityType
  <1> QED  BY <1>5, <1>6

\* What the rank of a query can be, whatever is printed, and that it is right if the
\* whole output is read and no text looks like a header.
LEMMA RankIsKept ==
  ASSUME NEW c \in Case, c.quiet, NEW blocks \in Seq(Result), AreBare(blocks),
         NEW output \in Outputs(c, blocks), NEW lines, IsCut(lines, output)
  PROVE  /\ FirstHit(lines) # 0 => Rank(blocks) # 0 /\ Rank(blocks) <= FirstHit(lines)
         /\ lines = output /\ ArePlain(blocks) => FirstHit(lines) = Rank(blocks)
  <1> DEFINE n == Len(blocks)
             hit == {l \in Pieces(lines) : PieceHits(lines, l)}
             first == Min(hit)
             size == Len(lines)
             all == Len(output)
             Starts == {l \in Pieces(lines) : l <= first}
  <1>1. DOMAIN blocks = 1..n /\ n \in Nat  OBVIOUS
  <1>2. lines \in Seq(Line) /\ output \in Seq(Line)  BY OutputsArePrinted DEF IsCut
  <1>3. PICK head : Printed(output, blocks, head)  BY OutputsArePrinted
  <1>4. size \in Nat /\ DOMAIN lines = 1..size /\ all \in Nat /\ size <= all
    BY <1>2 DEF IsCut
  <1>5. Pieces(lines) \in SUBSET (1..size)
    BY <1>4 DEF Pieces, HeaderStarts
  <1>6. hit \in SUBSET Nat /\ hit \subseteq Pieces(lines)  BY <1>4, <1>5
  <1>7. FirstHit(lines) = IF hit = {} THEN 0 ELSE Cardinality(Starts)
    BY DEF FirstHit
  <1>8. \A l \in Pieces(lines) : l \in hit <=> PieceHits(lines, l)  OBVIOUS
  <1>9. hit # {} => first \in hit /\ \A l \in hit : first <= l
    <2> HIDE DEF hit
    <2> QED  BY <1>6, MinIsLeast
  <1>10. /\ head \in [1..n -> 1..all]
         /\ \A i, j \in 1..n : i < j => head[i] < head[j]
         /\ \A i \in 1..n : output[head[i]].score = "start"
         /\ \A m \in 1..all :
               output[m].hit => \E i \in 1..n :
                                   Has(blocks[i]) /\ Under(head, n, m, i) /\ head[i] < m
         /\ \A i \in 1..n : Has(blocks[i]) =>
               \E m \in 1..all : output[m].hit /\ Under(head, n, m, i)
         /\ \A m \in 1..all : n > 0 /\ m < head[1] => output[m].score = "none"
    BY <1>3 DEF Printed
  <1>11. ArePlain(blocks) =>
            \A m \in 1..all : output[m].score = "start" => \E i \in 1..n : m = head[i]
    BY <1>3 DEF Printed
  <1>0. \A m \in 1..size : /\ m \in 1..all
                           /\ m < size => lines[m] = output[m]
                           /\ lines[m].hit => output[m].hit
    BY <1>4 DEF IsCut
  <1> HIDE DEF n, hit, size, all
  <1>12. FirstIsHeader(lines) =>
            \A l \in 1..size : l \in Pieces(lines) <=> lines[l].score = "start"
    BY <1>4 DEF Pieces, HeaderStarts
  <1>13. Pieces(lines) # {} => FirstIsHeader(lines)  BY DEF Pieces
  <1>14. ASSUME hit # {}
         PROVE  \E i \in 1..n : /\ Has(blocks[i]) /\ head[i] <= first
                                /\ \A k \in 1..i : head[k] \in Pieces(lines) /\ head[k] <= first
    <2>1. first \in hit /\ first \in Pieces(lines) /\ PieceHits(lines, first)
      BY <1>6, <1>8, <1>9, <1>14
    <2>2. PICK m \in first..Len(lines) :
             lines[m].hit /\ \A l \in (first + 1)..m : l \notin Pieces(lines)
      BY <2>1 DEF PieceHits
    <2>3. first \in 1..size /\ m \in 1..size /\ first <= m  BY <1>4, <1>5, <2>1 DEF size
    <2>4. m \in 1..all /\ output[m].hit  BY <1>0, <2>2, <2>3
    <2>5. PICK i \in 1..n : Has(blocks[i]) /\ Under(head, n, m, i) /\ head[i] < m
      BY <1>10, <2>4
    <2>6. ASSUME NEW k \in 1..i
          PROVE  head[k] \in Pieces(lines) /\ head[k] \in Nat /\ head[k] <= head[i]
      <3>1. k \in 1..n /\ (k = i \/ k < i)  BY <1>1
      <3>2. head[k] \in Nat /\ 1 <= head[k] /\ head[i] \in Nat /\ head[k] <= head[i]
        <4>1. head[k] \in 1..all /\ head[i] \in 1..all  BY <1>10, <3>1
        <4>2. k < i => head[k] < head[i]  BY <1>10, <3>1
        <4> QED  BY <1>4, <3>1, <4>1, <4>2
      <3>3. head[k] \in 1..size /\ head[k] < size
        <4>1. m \in Nat /\ m <= size  BY <1>4, <2>3
        <4> QED  BY <1>4, <2>5, <3>2, <4>1
      <3>4. lines[head[k]] = output[head[k]]  BY <1>0, <3>3
      <3>5. lines[head[k]].score = "start"  BY <1>10, <3>1, <3>4
      <3> QED  BY <1>12, <1>13, <2>1, <3>2, <3>3, <3>5
    <2>7. head[i] <= first
      <3>1. head[i] \in Pieces(lines) /\ head[i] \in Nat
        <4>1. i \in 1..i  BY <1>1
        <4> QED  BY <2>6, <4>1
      <3>2. head[i] <= m  BY <2>5 DEF Under
      <3>3. head[i] \notin (first + 1)..m  BY <2>2, <3>1
      <3>4. first \in Nat /\ m \in Nat  BY <1>4, <2>3
      <3> QED  BY <3>1, <3>2, <3>3, <3>4
    <2>8. ASSUME NEW k \in 1..i PROVE head[k] \in Pieces(lines) /\ head[k] <= first
      <3>1. head[k] \in Pieces(lines) /\ head[k] \in Nat /\ head[k] <= head[i]  BY <2>6
      <3>2. head[i] \in Nat
        <4>1. i \in 1..i  BY <1>1
        <4> QED  BY <2>6, <4>1
      <3>3. first \in Nat  BY <1>4, <2>3
      <3> QED  BY <2>7, <3>1, <3>2, <3>3
    <2> QED  BY <2>5, <2>7, <2>8
  <1>15. IsFiniteSet(Starts)
    <2>1. IsFiniteSet(1..size)  BY <1>4, FS_Interval
    <2>2. Starts \in SUBSET (1..size)  BY <1>5
    <2> HIDE DEF Starts
    <2> QED  BY <2>1, <2>2, FS_Subset
  <1>16. \A i, j \in 1..n : head[i] = head[j] => i = j
    <2> SUFFICES ASSUME NEW i \in 1..n, NEW j \in 1..n, head[i] = head[j] PROVE i = j
      OBVIOUS
    <2>1. head[i] \in 1..all /\ i \in Nat /\ j \in Nat  BY <1>1, <1>10
    <2>2. ~(head[i] < head[j]) /\ ~(head[j] < head[i])  BY <1>4, <2>1
    <2>3. ~(i < j) /\ ~(j < i)  BY <1>10, <2>2
    <2> QED  BY <2>1, <2>3
  <1>17. ASSUME hit # {}
         PROVE  Rank(blocks) # 0 /\ Rank(blocks) <= FirstHit(lines)
    <2>1. PICK i \in 1..n : /\ Has(blocks[i])
                            /\ \A k \in 1..i : head[k] \in Pieces(lines) /\ head[k] <= first
      BY <1>14, <1>17
    <2>2. first \in Nat  BY <1>6, <1>9, <1>17
    <2>3. i \in Nat /\ i <= n  BY <1>1
    <2>4. Cardinality(Starts) \in Nat /\ i <= Cardinality(Starts)
      <3> DEFINE f == [k \in 1..i |-> head[k]]
      <3>1. IsFiniteSet(Starts)  BY <1>15
      <3>2. f \in [1..i -> Starts]  BY <2>1
      <3>3. \A k, j \in 1..i : f[k] = f[j] => k = j
        <4>1. 1..i \subseteq 1..n  BY <1>1, <2>3
        <4> QED  BY <1>16, <4>1
      <3> HIDE DEF f, Starts
      <3> QED  BY <2>3, <3>1, <3>2, <3>3, Numbered
    <2>5. Rank(blocks) # 0 /\ Rank(blocks) <= i /\ Rank(blocks) \in Nat
      BY <2>1, RankFacts DEF n
    <2>6. FirstHit(lines) = Cardinality(Starts)  BY <1>7, <1>17
    <2> HIDE DEF Starts
    <2> QED  BY <2>3, <2>4, <2>5, <2>6
  <1>18. ASSUME lines = output, ArePlain(blocks), Rank(blocks) # 0
         PROVE  FirstHit(lines) = Rank(blocks)
    <2>0. size = all  BY <1>18 DEF size, all
    <2> DEFINE r == Rank(blocks)
    <2>1. r \in 1..n /\ Has(blocks[r]) /\ r \in Nat /\ r <= n /\ 1 \in 1..n /\ n > 0
      <3>1. r \in 1..n /\ Has(blocks[r])  BY <1>18, RankFacts DEF n
      <3> QED  BY <3>1, <1>1
    <2> HIDE DEF r
    <2>2. FirstIsHeader(lines)
      <3>1. head[1] \in 1..size /\ lines[head[1]].score = "start"  BY <1>10, <1>18, <2>0, <2>1
      <3>2. ASSUME NEW m \in 1..(head[1] - 1) PROVE lines[m].score = "none"
        <4>1. m \in 1..size /\ m < head[1]  BY <1>4, <3>1
        <4> QED  BY <1>10, <1>18, <2>0, <2>1, <4>1
      <3> QED  BY <1>4, <3>1, <3>2 DEF FirstIsHeader
    <2>3. \A l \in 1..size : l \in Pieces(lines) <=> \E i \in 1..n : l = head[i]
      BY <1>10, <1>11, <1>12, <1>18, <2>0, <2>2
    <2>4. PICK m \in 1..size : lines[m].hit /\ Under(head, n, m, r)
      BY <1>10, <1>18, <2>0, <2>1
    <2>5. head[r] \in 1..size /\ head[r] \in Pieces(lines)  BY <1>10, <2>0, <2>1, <2>3
    <2>6. PieceHits(lines, head[r])
      <3>1. m \in head[r]..Len(lines)  BY <1>4, <2>4, <2>5 DEF Under, size
      <3>2. ASSUME NEW l \in (head[r] + 1)..m PROVE l \notin Pieces(lines)
        <4> SUFFICES ASSUME l \in Pieces(lines) PROVE FALSE  OBVIOUS
        <4>1. PICK i \in 1..n : l = head[i]  BY <1>5, <2>3
        <4>2. head[r] \in Nat /\ m \in Nat  BY <2>5
        <4>3. head[r] < head[i] /\ head[i] <= m  BY <4>1, <4>2
        <4>4. ~(r < i)
          <5> SUFFICES ASSUME r < i PROVE FALSE  OBVIOUS
          <5>1. m < head[i]  BY <2>4 DEF Under
          <5> QED  BY <4>1, <4>2, <4>3, <5>1
        <4>5. ~(i < r)
          <5> SUFFICES ASSUME i < r PROVE FALSE  OBVIOUS
          <5>1. head[i] < head[r]  BY <1>10, <2>1
          <5> QED  BY <4>1, <4>2, <4>3, <5>1
        <4>6. i = r  BY <2>1, <4>4, <4>5
        <4> QED  BY <4>2, <4>3, <4>6
      <3> QED  BY <2>4, <3>1, <3>2 DEF PieceHits
    <2>7. head[r] \in hit  BY <1>8, <2>5, <2>6
    <2>8. first = head[r]
      <3>1. hit # {} /\ first \in hit /\ first <= head[r]  BY <1>9, <2>7
      <3>2. PICK i \in 1..n : Has(blocks[i]) /\ head[i] <= first  BY <1>14, <3>1
      <3>3. r <= i  BY <3>2, RankFacts DEF n, r
      <3>4. head[r] <= head[i] /\ head[i] \in Nat /\ head[r] \in Nat
        <4>1. head[i] \in 1..size  BY <1>10, <2>0
        <4>2. r < i => head[r] < head[i]  BY <1>10, <2>1
        <4>3. r = i \/ r < i  BY <2>1, <3>3
        <4> QED  BY <2>5, <4>1, <4>2, <4>3
      <3>5. first \in Nat  BY <1>6, <3>1
      <3> QED  BY <3>1, <3>2, <3>4, <3>5
    <2>9. ASSUME NEW i \in 1..r PROVE head[i] \in Pieces(lines) /\ head[i] <= head[r]
      <3>0. r \in Nat /\ r <= n /\ n \in Nat  BY <1>1, <2>1
      <3>1. i \in 1..n /\ (i = r \/ i < r)  BY <3>0
      <3>2. head[i] \in 1..size  BY <1>10, <2>0, <3>1
      <3>3. i < r => head[i] < head[r]  BY <1>10, <2>1, <3>1
      <3> QED  BY <2>3, <2>5, <3>1, <3>2, <3>3
    <2>10. ASSUME NEW l \in Pieces(lines), l <= head[r] PROVE \E i \in 1..r : l = head[i]
      <3>1. PICK i \in 1..n : l = head[i]  BY <1>5, <2>3
      <3>2. ~(r < i)
        <4> SUFFICES ASSUME r < i PROVE FALSE  OBVIOUS
        <4>1. head[r] < head[i]  BY <1>10, <2>1
        <4>2. head[r] \in 1..size /\ head[i] \in 1..size
          <5>1. head \in [1..n -> 1..size]  BY <1>10, <2>0
          <5> QED  BY <5>1, <2>5
        <4> QED  BY <2>10, <3>1, <4>1, <4>2
      <3>3. i \in 1..r  BY <2>1, <3>2
      <3> QED  BY <3>1, <3>3
    <2>11. Cardinality(Starts) = r
      <3> DEFINE f == [k \in 1..r |-> head[k]]
      <3>1. IsFiniteSet(Starts)  BY <1>15
      <3>2. f \in [1..r -> Starts]  BY <2>8, <2>9
      <3>3. \A k, j \in 1..r : f[k] = f[j] => k = j
        <4>1. 1..r \subseteq 1..n  BY <1>1, <2>1
        <4> QED  BY <1>16, <4>1
      <3>4. \A l \in Starts : \E k \in 1..r : l = f[k]  BY <2>8, <2>10
      <3> HIDE DEF f, Starts
      <3> QED  BY <2>1, <3>1, <3>2, <3>3, <3>4, Numbered
    <2> HIDE DEF Starts
    <2> QED  BY <1>7, <2>7, <2>11 DEF r
  <1>19. ASSUME hit = {} PROVE FirstHit(lines) = 0  BY <1>7, <1>19
  <1>20. ASSUME Rank(blocks) = 0 PROVE FirstHit(lines) = 0
    BY <1>17, <1>19, <1>20
  <1> QED  BY <1>17, <1>18, <1>19, <1>20

------------------------------------------------------------------------------
(* The evaluations.                                                        *)

LEMMA DivMono ==
  ASSUME NEW a \in Nat, NEW x \in Nat \ {0}, NEW y \in Nat \ {0}, x <= y
  PROVE  a \div y \in Nat /\ a \div x \in Nat /\ a \div y <= a \div x
  <1>1. a \div y \in Nat /\ (a \div y) * y <= a  BY Z3
  <1> DEFINE q == a \div y
  <1> HIDE DEF q
  <1>2. q \in Nat /\ q * y <= a  BY <1>1 DEF q
  <1>3. q * x <= q * y /\ q * x \in Nat /\ q * y \in Nat  BY <1>2, Z3
  <1>4. q * x <= a  BY <1>2, <1>3
  <1>5. a \div x \in Nat /\ q <= a \div x  BY <1>2, <1>4, Z3
  <1> QED  BY <1>1, <1>5 DEF q

\* A rank that is not better earns no more.
LEMMA RanksEarn ==
  /\ \A r \in Nat : ReciprocalRank(r) \in Nat
  /\ \A r, s \in Nat : r # 0 /\ r <= s => ReciprocalRank(s) <= ReciprocalRank(r)
  /\ ReciprocalRank(0) = 0
  <1>1. Unit \in Nat  BY EvaluationAssumption
  <1>2. ReciprocalRank(0) = 0  BY DEF ReciprocalRank
  <1>3. ASSUME NEW r \in Nat PROVE ReciprocalRank(r) \in Nat
    <2>1. CASE r = 0  BY <1>2, <2>1
    <2>2. CASE r # 0
      <3>1. Unit \div r \in Nat  BY <1>1, <2>2, DivMono
      <3> QED  BY <2>2, <3>1 DEF ReciprocalRank
    <2> QED  BY <2>1, <2>2
  <1>4. ASSUME NEW r \in Nat, NEW s \in Nat, r # 0, r <= s
        PROVE  ReciprocalRank(s) <= ReciprocalRank(r)
    <2>1. s # 0  BY <1>4
    <2>2. Unit \div s <= Unit \div r  BY <1>1, <1>4, <2>1, DivMono
    <2> QED  BY <1>4, <2>1, <2>2 DEF ReciprocalRank
  <1> QED  BY <1>2, <1>3, <1>4

\* How many of the first m cases are in S.
Counted(S, m) == Cardinality(S \cap (1..m))

\* One more case counts if it is in the set.
LEMMA CountGrows ==
  ASSUME NEW S, NEW m \in Nat
  PROVE  /\ Counted(S, 0) = 0 /\ Counted(S, m) \in Nat
         /\ m + 1 \in S => Counted(S, m + 1) = Counted(S, m) + 1
         /\ m + 1 \notin S => Counted(S, m + 1) = Counted(S, m)
  <1>1. IsFiniteSet(S \cap (1..m))
    <2>1. IsFiniteSet(1..m)  BY FS_Interval
    <2> QED  BY <2>1, FS_Subset
  <1>2. Counted(S, m) \in Nat  BY <1>1, FS_CardinalityType DEF Counted
  <1>3. Counted(S, 0) = 0
    <2>1. S \cap (1..0) = {}  OBVIOUS
    <2> QED  BY <2>1, FS_EmptySet DEF Counted
  <1>4. ASSUME m + 1 \in S PROVE Counted(S, m + 1) = Counted(S, m) + 1
    <2>1. S \cap (1..(m + 1)) = (S \cap (1..m)) \cup {m + 1}  BY <1>4
    <2>2. m + 1 \notin S \cap (1..m)  OBVIOUS
    <2> QED  BY <1>1, <2>1, <2>2, FS_AddElement DEF Counted
  <1>5. ASSUME m + 1 \notin S PROVE Counted(S, m + 1) = Counted(S, m)
    <2>1. S \cap (1..(m + 1)) = S \cap (1..m)  BY <1>5
    <2> QED  BY <2>1 DEF Counted
  <1> QED  BY <1>2, <1>3, <1>4, <1>5

\* The cases whose substring a result has, whose answer has it, and without evidence.
Rated == {k \in DOMAIN cases : RankOf(cases[k]) # 0}
Answered == {k \in DOMAIN cases : IsAnswered(cases[k])}
Barren == {k \in DOMAIN cases : cases[k].no_evidence}

\* Of the first n cases: all are quiet, all headers are bare, all texts are plain.
Quiet(n) == \A k \in 1..n : cases[k].quiet
Bared(n) == \A k \in 1..n : IsBare(cases[k])
Plain(n) == \A k \in 1..n : IsPlain(cases[k])

\* The rank of a case is the best that its results have with an index in use.
LEMMA BestRank ==
  ASSUME NEW c \in Case, InUse \subseteq ScaleSets
  PROVE  /\ RankOf(c) \in Nat
         /\ \A s \in InUse : /\ c.results[s] \in Seq(Result)
                             /\ Rank(c.results[s]) # 0 =>
                                   RankOf(c) # 0 /\ RankOf(c) <= Rank(c.results[s])
         /\ \A s : InUse = {s} => RankOf(c) = Rank(c.results[s])
  <1> DEFINE ranks == {Rank(c.results[s]) : s \in InUse} \ {0}
  <1>1. \A s \in InUse : c.results[s] \in Seq(Result)  BY DEF Case
  <1>2. \A s \in InUse : Rank(c.results[s]) \in Nat  BY <1>1, RankFacts
  <1>3. ranks \in SUBSET Nat /\ 0 \notin ranks  BY <1>2
  <1>4. RankOf(c) = IF ranks = {} THEN 0 ELSE Min(ranks)  BY DEF RankOf
  <1>5. \A s \in InUse : Rank(c.results[s]) # 0 => Rank(c.results[s]) \in ranks  OBVIOUS
  <1>6. ASSUME NEW s, InUse = {s} PROVE RankOf(c) = Rank(c.results[s])
    <2>1. ranks = {Rank(c.results[s])} \ {0}  BY <1>6
    <2> DEFINE r == Rank(c.results[s])
    <2>2. ranks = {r} \ {0}  BY <2>1
    <2> HIDE DEF r, ranks
    <2>3. CASE r = 0
      <3>1. ranks = {}  BY <2>2, <2>3
      <3> QED  BY <1>4, <2>3, <3>1 DEF r
    <2>4. CASE r # 0
      <3>1. ranks = {r} /\ ranks # {}  BY <2>2, <2>4
      <3>2. Min(ranks) \in ranks  BY <1>3, <3>1, MinIsLeast
      <3>3. Min(ranks) = r  BY <3>1, <3>2
      <3> QED  BY <1>4, <3>1, <3>3 DEF r
    <2> QED  BY <2>3, <2>4
  <1> HIDE DEF ranks
  <1>7. ranks # {} => Min(ranks) \in ranks /\ \A r \in ranks : Min(ranks) <= r
    BY <1>3, MinIsLeast
  <1>8. RankOf(c) \in Nat
    <2>1. CASE ranks = {}  BY <1>4, <2>1
    <2>2. CASE ranks # {}  BY <1>3, <1>4, <1>7, <2>2
    <2> QED  BY <2>1, <2>2
  <1>9. \A r \in ranks : RankOf(c) # 0 /\ RankOf(c) <= r  BY <1>3, <1>4, <1>7
  <1> QED  BY <1>1, <1>5, <1>6, <1>8, <1>9

\* What the first m cases would earn if no text looked like a header.
Earned(m) == Total([k \in 1..m |-> ReciprocalRank(RankOf(cases[k]))])

\* One more case earns its reciprocal rank.
LEMMA EarnedGrows ==
  ASSUME cases \in Seq(Case), InUse \subseteq ScaleSets, NEW m \in Nat, m < Len(cases)
  PROVE  /\ Earned(m) \in Nat
         /\ Earned(m + 1) = Earned(m) + ReciprocalRank(RankOf(cases[m + 1]))
  <1> DEFINE terms == [k \in 1..(m + 1) |-> ReciprocalRank(RankOf(cases[k]))]
  <1>1. \A k \in 1..(m + 1) : cases[k] \in Case  OBVIOUS
  <1>2. \A k \in 1..(m + 1) : ReciprocalRank(RankOf(cases[k])) \in Nat
    BY <1>1, BestRank, RanksEarn
  <1>3. terms \in [1..(m + 1) -> Nat]  BY <1>2
  <1>4. [k \in 1..m |-> terms[k]] = [k \in 1..m |-> ReciprocalRank(RankOf(cases[k]))]
    OBVIOUS
  <1>5. terms[m + 1] = ReciprocalRank(RankOf(cases[m + 1]))  OBVIOUS
  <1>6. Total(terms) = Earned(m + 1)  BY DEF Earned
  <1>7. Total([k \in 1..m |-> terms[k]]) = Earned(m)  BY <1>4 DEF Earned
  <1> HIDE DEF terms
  <1>8. /\ Total([k \in 1..m |-> terms[k]]) \in Nat
        /\ Total(terms) = Total([k \in 1..m |-> terms[k]]) + terms[m + 1]
    BY <1>3, TotalAdds
  <1> QED  BY <1>5, <1>6, <1>7, <1>8

LEMMA EarnedNothing == Earned(0) = 0
  <1>1. [k \in 1..0 |-> ReciprocalRank(RankOf(cases[k]))] \in [1..0 -> Nat]  OBVIOUS
  <1> QED  BY <1>1, TotalOfNone DEF Earned

\* The number of cases that an evaluation is to take into account.
Share(x) == IF x.options.limit \in 1..Len(cases) THEN x.options.limit ELSE Len(cases)

\* A number that is at most what it should be, and just that if it is exact.
Within(number, bound, exact) == number <= bound /\ (exact => number = bound)

\* No query or ask of the evaluation was killed, and no other has other scales.
Clean(x) == InUse = {x.options.scales} /\ ~x.cut

\* What an evaluation has added up is what its queries and answers give.
Tallied(x) ==
  LET m == x.sum.count
      queried == IF x.pc = "ask" THEN m + 1 ELSE m
      asked(n) == IF x.options.generate THEN n ELSE 0
  IN  /\ m <= Share(x) /\ (x.pc = "ask" => m < Share(x) /\ x.options.generate)
      /\ x.exit = "success" => m = Share(x)
      /\ x.sum.answered = asked(m)
      /\ x.sum.abstain_total = asked(Counted(Barren, m))
      /\ Quiet(m) =>
           /\ Within(x.sum.answer_hits, asked(Counted(Answered, m)), Clean(x))
           /\ Within(x.sum.abstain_ok, asked(Counted(Barren \cap Answered, m)), Clean(x))
      /\ Quiet(queried) /\ Bared(queried) =>
           /\ Within(x.sum.hits, Counted(Rated, queried), Clean(x) /\ Plain(queried))
           /\ Within(x.sum.mrr, Earned(queried), Clean(x) /\ Plain(queried))

Tallies == [count : Nat, hits : Nat, mrr : Nat, answered : Nat, answer_hits : Nat,
         abstain_total : Nat, abstain_ok : Nat]
OptionSet == [scales : ScaleSets, limit : Nat, generate : BOOLEAN, keep : BOOLEAN]
Process == [options : OptionSet, pc : {"start", "index", "case", "ask", "left"},
            sum : Tallies, exit : {"none", "success", "error"}, cut : BOOLEAN]

\* The inductive invariant of the evaluations.
EvalInv ==
  /\ cases \in Seq(Case)
  /\ eval \in [Evaluators -> Process]
  /\ cache.index \subseteq InUse
  /\ \A e \in Evaluators : /\ eval[e].exit # "none" => eval[e].pc = "left"
                           /\ eval[e].exit # "error" => Tallied(eval[e])

LEMMA ScalesInUse == ASSUME eval \in [Evaluators -> Process] PROVE InUse \subseteq ScaleSets
  <1>1. \A e \in Evaluators : eval[e].options.scales \in ScaleSets  BY DEF Process, OptionSet
  <1> QED  BY <1>1 DEF InUse

LEMMA ShareBounds ==
  ASSUME cases \in Seq(Case), NEW x \in Process
  PROVE  Share(x) \in Nat /\ Share(x) <= Len(cases) /\ Len(cases) \in Nat
  BY DEF Share, Process, OptionSet

LEMMA InitEvalInv == EvalInit => EvalInv
  <1> SUFFICES ASSUME EvalInit PROVE EvalInv  OBVIOUS
  <1>1. cases \in Seq(Case)  BY EvaluationAssumption DEF EvalInit
  <1>2. Counters \in Tallies /\ \A f \in DOMAIN Counters : Counters[f] = 0
    BY DEF Counters, Tallies
  <1>3. ASSUME NEW e \in Evaluators
        PROVE  /\ eval[e] \in Process /\ eval[e].exit = "none" /\ eval[e].pc = "start"
               /\ eval[e].sum = Counters
    BY <1>2, EvaluationAssumption DEF EvalInit, Process, OptionSet
  <1>4. eval \in [Evaluators -> Process]
    <2>1. eval = [e \in Evaluators |-> eval[e]]  BY DEF EvalInit
    <2> QED  BY <1>3, <2>1
  <1>5. ASSUME NEW e \in Evaluators PROVE Tallied(eval[e])
    <2> DEFINE x == eval[e]
    <2>1. x \in Process /\ x.exit = "none" /\ x.pc = "start" /\ x.sum = Counters  BY <1>3
    <2> HIDE DEF x
    <2>2. /\ x.sum.count = 0 /\ x.sum.hits = 0 /\ x.sum.mrr = 0 /\ x.sum.answered = 0
          /\ x.sum.answer_hits = 0 /\ x.sum.abstain_total = 0 /\ x.sum.abstain_ok = 0
      BY <2>1 DEF Counters
    <2>3. 0 <= Share(x)  BY <1>1, <2>1, ShareBounds
    <2>4. Counted(Answered, 0) = 0 /\ Counted(Barren, 0) = 0 /\ Counted(Rated, 0) = 0
          /\ Counted(Barren \cap Answered, 0) = 0 /\ Earned(0) = 0
      BY CountGrows, EarnedNothing
    <2>5. Tallied(x)  BY <2>1, <2>2, <2>3, <2>4 DEF Tallied, Within
    <2> QED  BY <2>5 DEF x
  <1>6. cache.index \subseteq InUse  BY DEF EvalInit
  <1> QED  BY <1>1, <1>3, <1>4, <1>5, <1>6 DEF EvalInv

\* A step of one evaluation keeps the invariant if it keeps it of that one.
LEMMA OneMoves ==
  ASSUME EvalInv, NEW e \in Evaluators, cases' = cases,
         cache'.index \subseteq cache.index \cup {eval[e].options.scales},
         \A g \in Evaluators : g # e => eval'[g] = eval[g],
         eval' \in [Evaluators -> Process],
         eval'[e].options = eval[e].options,
         eval'[e].exit # "none" => eval'[e].pc = "left",
         eval'[e].exit # "error" => Tallied(eval'[e])
  PROVE  EvalInv'
  <1>1. InUse' = InUse
    <2>1. \A g \in Evaluators : eval'[g].options = eval[g].options  OBVIOUS
    <2> QED  BY <2>1 DEF InUse
  <1>2. \A c : /\ RankOf(c)' = RankOf(c) /\ (IsAnswered(c)' <=> IsAnswered(c))
               /\ (IsBare(c)' <=> IsBare(c)) /\ (IsPlain(c)' <=> IsPlain(c))
    BY <1>1 DEF RankOf, IsAnswered, IsBare, IsPlain
  <1>3. /\ Rated' = Rated /\ Answered' = Answered /\ Barren' = Barren
        /\ \A n : /\ Earned(n)' = Earned(n) /\ (Quiet(n)' <=> Quiet(n))
                  /\ (Bared(n)' <=> Bared(n)) /\ (Plain(n)' <=> Plain(n))
    BY <1>2 DEF Rated, Answered, Barren, Earned, Quiet, Bared, Plain
  <1>4. \A g \in Evaluators : Tallied(eval[g])' <=> Tallied(eval'[g])
    BY <1>1, <1>3 DEF Tallied, Share, Counted, Clean
  <1>5. cache'.index \subseteq InUse'
    <2>1. eval[e].options.scales \in InUse  BY DEF InUse
    <2> QED  BY <1>1, <2>1 DEF EvalInv
  <1> QED  BY <1>4, <1>5 DEF EvalInv

\* What the lines that a query prints say of the case: no more than is so, if the case
\* is quiet and its headers bare.
Tells(c, scales, lines, cut) ==
  /\ FirstHit(lines) \in Nat
  /\ c.quiet /\ IsBare(c) =>
        /\ FirstHit(lines) # 0 => RankOf(c) # 0 /\ RankOf(c) <= FirstHit(lines)
        /\ ~cut /\ InUse = {scales} /\ IsPlain(c) => FirstHit(lines) = RankOf(c)

LEMMA QueryTells ==
  ASSUME InUse \subseteq ScaleSets, NEW c \in Case,
         NEW blocks, blocks = <<>> \/ \E s \in InUse : blocks = c.results[s],
         NEW output \in Outputs(c, blocks), NEW lines, NEW cut \in BOOLEAN, NEW scales,
         \/ lines \in CutsOf(output) /\ cut
         \/ lines = output /\ \E s \in InUse : blocks = c.results[s]
  PROVE  Tells(c, scales, lines, cut)
  <1>1. blocks \in Seq(Result)
    <2>1. CASE blocks = <<>>  BY <2>1
    <2>2. CASE \E s \in InUse : blocks = c.results[s]  BY <2>2, BestRank
    <2> QED  BY <2>1, <2>2
  <1>2. FlattenSeq(blocks) \in Seq(Line)
    <2> DEFINE n == Len(blocks)
    <2>1. n \in Nat /\ blocks \in [1..n -> Seq(Line)]  BY <1>1 DEF Result
    <2> HIDE DEF n
    <2> QED  BY <2>1, FlattenPlaces
  <1>3. output \in Seq(Line)  BY <1>2, OutputsAreLines
  <1>4. IsCut(lines, output)  BY <1>3, Cuts
  <1>5. FirstHit(lines) \in Nat  BY <1>4, FirstHitType DEF IsCut
  <1>6. ASSUME c.quiet, IsBare(c), FirstHit(lines) # 0
        PROVE  RankOf(c) # 0 /\ RankOf(c) <= FirstHit(lines)
    <2>1. AreBare(blocks)
      <3>1. CASE blocks = <<>>  BY <3>1 DEF AreBare
      <3>2. CASE \E s \in InUse : blocks = c.results[s]  BY <1>6, <3>2 DEF AreBare, IsBare
      <3> QED  BY <3>1, <3>2
    <2>2. Rank(blocks) # 0 /\ Rank(blocks) <= FirstHit(lines)
      BY <1>1, <1>4, <1>6, <2>1, RankIsKept
    <2>3. blocks # <<>>
      <3> SUFFICES ASSUME blocks = <<>> PROVE FALSE  OBVIOUS
      <3>1. Rank(blocks) \in 1..Len(blocks)  BY <1>1, <2>2, RankFacts
      <3> QED  BY <3>1
    <2>4. PICK s \in InUse : blocks = c.results[s]  BY <2>3
    <2>5. RankOf(c) # 0 /\ RankOf(c) <= Rank(blocks) /\ RankOf(c) \in Nat  BY <2>2, <2>4, BestRank
    <2>6. Rank(blocks) \in Nat  BY <1>1, RankFacts
    <2> QED  BY <1>5, <2>2, <2>5, <2>6
  <1>7. ASSUME c.quiet, IsBare(c), ~cut, InUse = {scales}, IsPlain(c)
        PROVE  FirstHit(lines) = RankOf(c)
    <2>1. lines = output /\ blocks = c.results[scales]  BY <1>7
    <2>2. AreBare(blocks) /\ ArePlain(blocks)
      BY <1>7, <2>1 DEF AreBare, ArePlain, IsBare, IsPlain
    <2>3. FirstHit(lines) = Rank(blocks)  BY <1>1, <1>4, <1>7, <2>1, <2>2, RankIsKept
    <2> QED  BY <1>7, <2>1, <2>3, BestRank
  <1> QED  BY <1>5, <1>6, <1>7 DEF Tells

\* A query adds at most what its case has earned, and just that if nothing disturbs it.
LEMMA QueryMoves ==
  ASSUME EvalInv, NEW e \in Evaluators, HasCase(e), NEW lines, NEW cut \in BOOLEAN,
         eval[e].cut => cut,
         Tells(CaseOf(e), eval[e].options.scales, lines, cut),
         Queried(e, lines, cut)
  PROVE  EvalInv'
  <1> DEFINE x == eval[e]
             y == eval'[e]
             m == x.sum.count
             c == cases[m + 1]
             exact == InUse = {x.options.scales} /\ ~cut
  <1>1. /\ x \in Process /\ x.pc = "case" /\ x.exit = "none" /\ Tallied(x)
        /\ cases \in Seq(Case) /\ m < Len(cases) /\ ~LimitReached(e)
        /\ cases' = cases /\ cache' = cache /\ InUse \subseteq ScaleSets
    BY ScalesInUse DEF EvalInv, Queried, HasCase, At
  <1> DEFINE hit == IF FirstHit(lines) # 0 THEN 1 ELSE 0
             earned == ReciprocalRank(FirstHit(lines))
             sum == [x.sum EXCEPT !.hits = @ + hit, !.mrr = @ + earned,
                                  !.count = @ + (IF x.options.generate THEN 0 ELSE 1)]
             stage == IF x.options.generate THEN "ask" ELSE "case"
  <1>2. eval' = [eval EXCEPT ![e] = [x EXCEPT !.sum = sum, !.cut = cut, !.pc = stage]]
    BY DEF Queried
  <1>3. c \in Case /\ m \in Nat /\ m + 1 \in 1..Len(cases)
    <2>1. m \in Nat  BY <1>1 DEF Process, Tallies
    <2>2. m + 1 \in 1..Len(cases)  BY <1>1, <2>1
    <2> QED  BY <1>1, <2>1, <2>2
  <1>4. FirstHit(lines) \in Nat /\ hit \in Nat /\ earned \in Nat
    <2>1. FirstHit(lines) \in Nat  BY DEF Tells
    <2> QED  BY <2>1, RanksEarn
  <1>5. \A g \in Evaluators : g # e => eval'[g] = eval[g]  BY <1>2 DEF EvalInv
  <1>6. /\ y.options = x.options /\ y.exit = x.exit /\ y.cut = cut
        /\ y.pc = IF x.options.generate THEN "ask" ELSE "case"
        /\ y.sum.count = IF x.options.generate THEN m ELSE m + 1
        /\ y.sum.hits = x.sum.hits + hit /\ y.sum.mrr = x.sum.mrr + earned
        /\ y.sum.answered = x.sum.answered /\ y.sum.answer_hits = x.sum.answer_hits
        /\ y.sum.abstain_total = x.sum.abstain_total /\ y.sum.abstain_ok = x.sum.abstain_ok
    <2>1. y = [x EXCEPT !.sum = sum, !.cut = cut, !.pc = stage]  BY <1>2 DEF EvalInv
    <2>2. /\ sum.count = m + (IF x.options.generate THEN 0 ELSE 1)
          /\ sum.hits = x.sum.hits + hit /\ sum.mrr = x.sum.mrr + earned
          /\ sum.answered = x.sum.answered /\ sum.answer_hits = x.sum.answer_hits
          /\ sum.abstain_total = x.sum.abstain_total /\ sum.abstain_ok = x.sum.abstain_ok
      BY <1>1 DEF Process, Tallies
    <2> HIDE DEF sum
    <2>3. y.sum = sum  BY <1>1, <2>1 DEF Process
    <2>4. y.options = x.options /\ y.exit = x.exit /\ y.cut = cut /\ y.pc = stage
      BY <1>1, <2>1 DEF Process
    <2> HIDE DEF y, m
    <2>5. sum.count = IF x.options.generate THEN m ELSE m + 1  BY <1>3, <2>2
    <2> QED  BY <2>2, <2>3, <2>4, <2>5
  <1> HIDE DEF hit, earned
  <1>7. /\ y = [options |-> y.options, pc |-> y.pc, sum |-> y.sum, exit |-> y.exit, cut |-> y.cut]
        /\ y.sum = [count |-> y.sum.count, hits |-> y.sum.hits, mrr |-> y.sum.mrr,
                    answered |-> y.sum.answered, answer_hits |-> y.sum.answer_hits,
                    abstain_total |-> y.sum.abstain_total, abstain_ok |-> y.sum.abstain_ok]
    BY <1>1, <1>2 DEF EvalInv, Process, Tallies
  <1>8. eval' = [g \in Evaluators |-> eval'[g]]  BY <1>2 DEF EvalInv
  <1>9. y \in Process
    <2>1. y.sum \in Tallies
      <3>1. /\ y.sum.count \in Nat /\ y.sum.hits \in Nat /\ y.sum.mrr \in Nat
            /\ y.sum.answered \in Nat /\ y.sum.answer_hits \in Nat
            /\ y.sum.abstain_total \in Nat /\ y.sum.abstain_ok \in Nat
        <4>1. /\ x.sum.count \in Nat /\ x.sum.hits \in Nat /\ x.sum.mrr \in Nat
              /\ x.sum.answered \in Nat /\ x.sum.answer_hits \in Nat
              /\ x.sum.abstain_total \in Nat /\ x.sum.abstain_ok \in Nat
          BY <1>1 DEF Process, Tallies
        <4>2. m + 1 \in Nat /\ x.sum.hits + hit \in Nat /\ x.sum.mrr + earned \in Nat
          BY <1>4, <4>1
        <4> QED  BY <1>6, <4>1, <4>2
      <3> HIDE DEF y
      <3> QED  BY <3>1, <1>7 DEF Tallies
    <2>2. /\ y.options \in OptionSet /\ y.cut \in BOOLEAN
          /\ y.pc \in {"start", "index", "case", "ask", "left"}
          /\ y.exit \in {"none", "success", "error"}
      BY <1>1, <1>6 DEF Process
    <2> HIDE DEF y
    <2> QED  BY <2>1, <2>2, <1>7 DEF Process
  <1>10. m < Share(x)
    <2>1. x.options.limit \in Nat /\ Len(cases) \in Nat  BY <1>1 DEF Process, OptionSet
    <2>2. ~(x.options.limit # 0 /\ m >= x.options.limit)  BY <1>1 DEF LimitReached
    <2> DEFINE limit == x.options.limit
    <2> HIDE DEF limit, m
    <2>3. Share(x) = IF limit \in 1..Len(cases) THEN limit ELSE Len(cases)
      BY DEF Share, limit
    <2>4. limit \in Nat /\ ~(limit # 0 /\ m >= limit)  BY <2>1, <2>2 DEF limit, m
    <2>5. m < Len(cases) /\ m \in Nat  BY <1>1, <1>3 DEF m
    <2> QED  BY <2>1, <2>3, <2>4, <2>5
  <1> DEFINE fair(k) == Quiet(k) /\ Bared(k)
  <1>0. /\ Clean(y) <=> exact
        /\ exact => Clean(x)
        /\ fair(m + 1) => fair(m) /\ c.quiet /\ IsBare(c)
        /\ Plain(m + 1) => Plain(m) /\ IsPlain(c)
        /\ c.quiet /\ IsBare(c) =>
              /\ FirstHit(lines) # 0 => RankOf(c) # 0 /\ RankOf(c) <= FirstHit(lines)
              /\ exact /\ IsPlain(c) => FirstHit(lines) = RankOf(c)
    <2>1. Clean(y) <=> exact  BY <1>6 DEF Clean
    <2>2. exact => Clean(x)  BY DEF Clean
    <2>3. 1..m \subseteq 1..(m + 1) /\ m + 1 \in 1..(m + 1)  BY <1>3
    <2>4. /\ fair(m + 1) => fair(m) /\ c.quiet /\ IsBare(c)
          /\ Plain(m + 1) => Plain(m) /\ IsPlain(c)
      BY <2>3 DEF Quiet, Bared, Plain
    <2>5. CaseOf(e) = c  BY DEF CaseOf
    <2>6. /\ c.quiet /\ IsBare(c) =>
              /\ FirstHit(lines) # 0 => RankOf(c) # 0 /\ RankOf(c) <= FirstHit(lines)
              /\ exact /\ IsPlain(c) => FirstHit(lines) = RankOf(c)
      BY <2>5 DEF Tells
    <2> QED  BY <2>1, <2>2, <2>4, <2>6
  <1>11. ASSUME fair(m + 1)
         PROVE  Within(x.sum.hits + hit, Counted(Rated, m + 1), exact /\ Plain(m + 1))
    <2>1. /\ x.sum.hits \in Nat /\ x.sum.hits <= Counted(Rated, m)
          /\ Clean(x) /\ Plain(m) => x.sum.hits = Counted(Rated, m)
      BY <1>0, <1>1, <1>11 DEF Tallied, Process, Tallies, Within
    <2>2. m + 1 \in Rated <=> RankOf(c) # 0  BY <1>3 DEF Rated
    <2>3. /\ Counted(Rated, m) \in Nat /\ Counted(Rated, m + 1) \in Nat
          /\ m + 1 \in Rated => Counted(Rated, m + 1) = Counted(Rated, m) + 1
          /\ m + 1 \notin Rated => Counted(Rated, m + 1) = Counted(Rated, m)
      <3>1. m \in Nat  BY <1>3
      <3>2. m + 1 \in Nat  BY <3>1
      <3> HIDE DEF m
      <3> QED  BY <3>1, <3>2, CountGrows
    <2>4. /\ hit = 1 => RankOf(c) # 0
          /\ exact /\ IsPlain(c) => (hit = 1 <=> RankOf(c) # 0)
          /\ hit \in {0, 1}
      BY <1>0, <1>11 DEF hit
    <2> DEFINE old == x.sum.hits
               before == Counted(Rated, m)
               after == Counted(Rated, m + 1)
    <2>6. /\ old \in Nat /\ before \in Nat /\ after \in Nat /\ old <= before
          /\ hit = 1 => after = before + 1
          /\ hit = 0 => after \in {before, before + 1}
      BY <2>1, <2>2, <2>3, <2>4
    <2>7. ASSUME exact, Plain(m + 1)
          PROVE  old = before /\ after = before + hit
      <3>1. Clean(x) /\ Plain(m) /\ IsPlain(c)  BY <1>0, <2>7
      <3> QED  BY <2>1, <2>2, <2>3, <2>4, <2>7, <3>1
    <2> HIDE DEF old, before, after, exact
    <2>8. old + hit <= after  BY <2>4, <2>6
    <2>9. exact /\ Plain(m + 1) => old + hit = after  BY <2>6, <2>7
    <2> QED  BY <2>8, <2>9 DEF old, after, Within
  <1>12. ASSUME fair(m + 1)
         PROVE  Within(x.sum.mrr + earned, Earned(m + 1), exact /\ Plain(m + 1))
    <2>1. /\ x.sum.mrr \in Nat /\ x.sum.mrr <= Earned(m)
          /\ Clean(x) /\ Plain(m) => x.sum.mrr = Earned(m)
      BY <1>0, <1>1, <1>12 DEF Tallied, Process, Tallies, Within
    <2>2. /\ Earned(m) \in Nat
          /\ Earned(m + 1) = Earned(m) + ReciprocalRank(RankOf(c))
      BY <1>1, <1>3, EarnedGrows
    <2>3. RankOf(c) \in Nat  BY <1>1, <1>3, BestRank
    <2>4. ReciprocalRank(RankOf(c)) \in Nat  BY <2>3, RanksEarn
    <2>5. earned <= ReciprocalRank(RankOf(c))
      <3>1. CASE FirstHit(lines) = 0  BY <2>4, <3>1, RanksEarn DEF earned
      <3>2. CASE FirstHit(lines) # 0
        <4>1. RankOf(c) # 0 /\ RankOf(c) <= FirstHit(lines)  BY <1>0, <1>12, <3>2
        <4>2. FirstHit(lines) \in Nat  BY <1>4
        <4> QED  BY <2>3, <4>1, <4>2, RanksEarn DEF earned
      <3> QED  BY <3>1, <3>2
    <2>6. exact /\ IsPlain(c) => earned = ReciprocalRank(RankOf(c))
      BY <1>0, <1>12 DEF earned
    <2> DEFINE old == x.sum.mrr
               before == Earned(m)
               after == Earned(m + 1)
               gain == ReciprocalRank(RankOf(c))
    <2>8. /\ old \in Nat /\ before \in Nat /\ gain \in Nat /\ earned \in Nat
          /\ old <= before /\ earned <= gain /\ after = before + gain
      BY <1>4, <2>1, <2>2, <2>4, <2>5
    <2>9. exact /\ Plain(m + 1) => old = before /\ earned = gain
      BY <1>0, <2>1, <2>6
    <2> HIDE DEF old, before, after, gain, exact
    <2>10. old + earned <= after  BY <2>8
    <2>11. exact /\ Plain(m + 1) => old + earned = after  BY <2>8, <2>9
    <2> QED  BY <2>10, <2>11 DEF old, after, Within
  <1>13. Share(y) = Share(x)  BY <1>6 DEF Share
  <1>14. Tallied(y)
    <2>1. y.exit # "success" /\ Share(x) \in Nat
      <3>1. Share(x) \in Nat  BY <1>1, ShareBounds
      <3> QED  BY <1>1, <1>6, <3>1
    <2>2. /\ x.sum.answered = (IF x.options.generate THEN m ELSE 0)
          /\ x.sum.abstain_total = (IF x.options.generate THEN Counted(Barren, m) ELSE 0)
          /\ Quiet(m) =>
               /\ Within(x.sum.answer_hits,
                         IF x.options.generate THEN Counted(Answered, m) ELSE 0, Clean(x))
               /\ Within(x.sum.abstain_ok,
                         IF x.options.generate THEN Counted(Barren \cap Answered, m) ELSE 0,
                         Clean(x))
      BY <1>1 DEF Tallied
    <2>3. Quiet(m) =>
             /\ Within(x.sum.answer_hits,
                       IF x.options.generate THEN Counted(Answered, m) ELSE 0, Clean(y))
             /\ Within(x.sum.abstain_ok,
                       IF x.options.generate THEN Counted(Barren \cap Answered, m) ELSE 0,
                       Clean(y))
      BY <1>0, <2>2 DEF Within
    <2>4. Quiet(m + 1) => Quiet(m)  BY <1>3 DEF Quiet
    <2>5. Quiet(m + 1) /\ Bared(m + 1) =>
             /\ Within(x.sum.hits + hit, Counted(Rated, m + 1), Clean(y) /\ Plain(m + 1))
             /\ Within(x.sum.mrr + earned, Earned(m + 1), Clean(y) /\ Plain(m + 1))
      BY <1>0, <1>11, <1>12 DEF Within
    <2>6. CASE x.options.generate
      <3>1. y.sum.count = m /\ y.pc = "ask" /\ y.options.generate  BY <1>6, <2>6
      <3>2. m <= Share(y)  BY <1>3, <1>10, <1>13, <2>1
      <3> HIDE DEF x, y, m
      <3> QED
        BY <1>6, <1>10, <1>13, <2>1, <2>2, <2>3, <2>5, <2>6, <3>1, <3>2 DEF Tallied
    <2>7. CASE ~x.options.generate
      <3>1. y.sum.count = m + 1 /\ y.pc = "case" /\ ~y.options.generate  BY <1>6, <2>7
      <3>2. m + 1 <= Share(x)  BY <1>3, <1>10, <2>1
      <3> HIDE DEF x, y, m
      <3> QED
        BY <1>6, <1>13, <2>1, <2>2, <2>3, <2>4, <2>5, <2>7, <3>1, <3>2 DEF Tallied
    <2> QED  BY <2>6, <2>7
  <1>15. eval' \in [Evaluators -> Process]
    <2>1. \A g \in Evaluators : eval'[g] \in Process  BY <1>5, <1>9 DEF EvalInv
    <2> QED  BY <1>8, <2>1
  <1> QED  BY <1>1, <1>5, <1>6, <1>14, <1>15, OneMoves

\* A flag of the next case, added to the count so far, counts that case too.
LEMMA CountAdds ==
  ASSUME NEW S, NEW m \in Nat, NEW one \in {0, 1}, one = 1 <=> m + 1 \in S
  PROVE  Counted(S, m + 1) = Counted(S, m) + one
  <1>1. Counted(S, m) \in Nat  BY CountGrows
  <1>2. CASE one = 1  BY <1>2, CountGrows
  <1>3. CASE one = 0
    <2>1. Counted(S, m + 1) = Counted(S, m)  BY <1>3, CountGrows
    <2> QED  BY <1>1, <1>3, <2>1
  <1> QED  BY <1>2, <1>3

\* A flag that only a case of the set has keeps the count within its bound.
LEMMA CountsWithin ==
  ASSUME NEW S, NEW m \in Nat, NEW old \in Nat, NEW one \in {0, 1}, NEW exact \in BOOLEAN,
         Within(old, Counted(S, m), exact), one = 1 => m + 1 \in S,
         exact => (one = 1 <=> m + 1 \in S)
  PROVE  Within(old + one, Counted(S, m + 1), exact)
  <1> DEFINE before == Counted(S, m)
             after == Counted(S, m + 1)
  <1>1. before \in Nat  BY CountGrows
  <1>2. /\ m + 1 \in S => after = before + 1
        /\ m + 1 \notin S => after = before
    BY CountGrows
  <1>3. old <= before /\ (exact => old = before)  BY DEF Within
  <1> HIDE DEF before, after
  <1>4. old + one <= after  BY <1>1, <1>2, <1>3
  <1>5. exact => old + one = after  BY <1>1, <1>2, <1>3
  <1> QED  BY <1>4, <1>5 DEF Within, after

\* An answer counts its case, and whether it was right to give none.
LEMMA AskMoves ==
  ASSUME EvalInv, NEW e \in Evaluators, At(e, "ask"),
         NEW match \in BOOLEAN, NEW cut \in BOOLEAN, eval[e].cut => cut,
         CaseOf(e).quiet =>
            /\ match => IsAnswered(CaseOf(e))
            /\ ~cut /\ InUse = {eval[e].options.scales} => (match <=> IsAnswered(CaseOf(e))),
         Asked(e, match, cut)
  PROVE  EvalInv'
  <1> DEFINE x == eval[e]
             y == eval'[e]
             m == x.sum.count
             c == cases[m + 1]
             exact == InUse = {x.options.scales} /\ ~cut
             ok == IF match THEN 1 ELSE 0
             no == IF c.no_evidence THEN 1 ELSE 0
  <1>1. /\ x \in Process /\ x.pc = "ask" /\ x.exit = "none" /\ Tallied(x)
        /\ cases \in Seq(Case) /\ cases' = cases /\ cache' = cache
    BY DEF EvalInv, Asked, At
  <1> DEFINE sum == [x.sum EXCEPT
                       !.answered = @ + 1, !.answer_hits = @ + ok,
                       !.abstain_total = @ + no, !.abstain_ok = @ + no * ok,
                       !.count = @ + 1]
  <1>2. eval' = [eval EXCEPT ![e] = [x EXCEPT !.sum = sum, !.cut = cut, !.pc = "case"]]
    BY DEF Asked, CaseOf
  <1>3. /\ x.sum.count \in Nat /\ x.sum.hits \in Nat /\ x.sum.mrr \in Nat
        /\ x.sum.answered \in Nat /\ x.sum.answer_hits \in Nat
        /\ x.sum.abstain_total \in Nat /\ x.sum.abstain_ok \in Nat
    BY <1>1 DEF Process, Tallies
  <1>4. Share(x) \in Nat /\ Share(x) <= Len(cases) /\ m < Share(x) /\ x.options.generate
    <2>1. Share(x) \in Nat /\ Share(x) <= Len(cases)  BY <1>1, ShareBounds
    <2> QED  BY <1>1, <2>1 DEF Tallied
  <1>5. m + 1 \in 1..Len(cases) /\ m + 1 <= Share(x) /\ c \in Case
    <2>1. Len(cases) \in Nat /\ DOMAIN cases = 1..Len(cases)  BY <1>1
    <2>2. m + 1 \in 1..Len(cases) /\ m + 1 <= Share(x)  BY <1>3, <1>4, <2>1
    <2> QED  BY <1>1, <2>2
  <1>6. \A g \in Evaluators : g # e => eval'[g] = eval[g]  BY <1>2 DEF EvalInv
  <1>7. /\ y.options = x.options /\ y.exit = x.exit /\ y.pc = "case" /\ y.cut = cut
        /\ y.sum.count = m + 1 /\ y.sum.answered = x.sum.answered + 1
        /\ y.sum.answer_hits = x.sum.answer_hits + ok
        /\ y.sum.abstain_total = x.sum.abstain_total + no
        /\ y.sum.abstain_ok = x.sum.abstain_ok + no * ok
        /\ y.sum.hits = x.sum.hits /\ y.sum.mrr = x.sum.mrr
    <2> HIDE DEF ok, no
    <2>1. y = [x EXCEPT !.sum = sum, !.cut = cut, !.pc = "case"]  BY <1>2 DEF EvalInv
    <2>2. /\ sum.count = m + 1 /\ sum.hits = x.sum.hits /\ sum.mrr = x.sum.mrr
          /\ sum.answered = x.sum.answered + 1
          /\ sum.answer_hits = x.sum.answer_hits + ok
          /\ sum.abstain_total = x.sum.abstain_total + no
          /\ sum.abstain_ok = x.sum.abstain_ok + no * ok
      BY <1>1 DEF Process, Tallies
    <2> HIDE DEF sum
    <2>3. /\ y.sum = sum /\ y.options = x.options /\ y.exit = x.exit
          /\ y.pc = "case" /\ y.cut = cut
      BY <1>1, <2>1 DEF Process
    <2> HIDE DEF y, m
    <2> QED  BY <2>2, <2>3
  <1>8. /\ y = [options |-> y.options, pc |-> y.pc, sum |-> y.sum, exit |-> y.exit, cut |-> y.cut]
        /\ y.sum = [count |-> y.sum.count, hits |-> y.sum.hits, mrr |-> y.sum.mrr,
                    answered |-> y.sum.answered, answer_hits |-> y.sum.answer_hits,
                    abstain_total |-> y.sum.abstain_total, abstain_ok |-> y.sum.abstain_ok]
    <2> HIDE DEF ok, no
    <2> QED  BY <1>1, <1>2 DEF EvalInv, Process, Tallies
  <1>9. eval' = [g \in Evaluators |-> eval'[g]]  BY <1>2 DEF EvalInv
  <1>10. /\ ok \in {0, 1} /\ no \in {0, 1} /\ no * ok \in {0, 1}
         /\ no * ok = 1 <=> no = 1 /\ ok = 1
    <2>1. \A a, b \in {0, 1} : a * b \in {0, 1} /\ (a * b = 1 <=> a = 1 /\ b = 1)
      OBVIOUS
    <2>2. ok \in {0, 1} /\ no \in {0, 1}  OBVIOUS
    <2> HIDE DEF ok, no
    <2> QED  BY <2>1, <2>2
  <1>11. /\ no = 1 <=> m + 1 \in Barren
         /\ c.quiet => /\ ok = 1 => m + 1 \in Answered
                       /\ exact => (ok = 1 <=> m + 1 \in Answered)
    <2>1. CaseOf(e) = c  BY DEF CaseOf
    <2>2. m + 1 \in Answered <=> IsAnswered(c)  BY <1>5 DEF Answered
    <2>3. m + 1 \in Barren <=> c.no_evidence  BY <1>5 DEF Barren
    <2> QED  BY <2>1, <2>2, <2>3
  <1> DEFINE both == no * ok
  <1>12. /\ both \in {0, 1}
         /\ c.quiet => /\ both = 1 => m + 1 \in Barren \cap Answered
                       /\ exact => (both = 1 <=> m + 1 \in Barren \cap Answered)
         /\ y.sum.abstain_ok = x.sum.abstain_ok + both
    BY <1>7, <1>10, <1>11
  <1> HIDE DEF ok, no, both
  <1>13. y \in Process
    <2>1. m + 1 \in Nat /\ x.sum.answered + 1 \in Nat /\ x.sum.answer_hits + ok \in Nat
          /\ x.sum.abstain_total + no \in Nat /\ x.sum.abstain_ok + both \in Nat
      BY <1>3, <1>10, <1>12
    <2>2. /\ y.sum.count \in Nat /\ y.sum.hits \in Nat /\ y.sum.mrr \in Nat
          /\ y.sum.answered \in Nat /\ y.sum.answer_hits \in Nat
          /\ y.sum.abstain_total \in Nat /\ y.sum.abstain_ok \in Nat
      BY <1>3, <1>7, <1>12, <2>1
    <2>3. /\ y.options \in OptionSet /\ y.cut \in BOOLEAN
          /\ y.pc \in {"start", "index", "case", "ask", "left"}
          /\ y.exit \in {"none", "success", "error"}
      BY <1>1, <1>7 DEF Process
    <2> HIDE DEF y
    <2>4. y.sum \in Tallies  BY <2>2, <1>8 DEF Tallies
    <2> QED  BY <2>3, <2>4, <1>8 DEF Process
  <1>14. Tallied(y)
    <2>1. /\ y.sum.count = m + 1 /\ y.pc = "case" /\ y.options.generate
          /\ y.exit # "success" /\ Share(y) = Share(x)
      BY <1>1, <1>4, <1>7 DEF Share
    <2>2. /\ x.sum.answered = m /\ x.sum.abstain_total = Counted(Barren, m)
          /\ Quiet(m) =>
               /\ Within(x.sum.answer_hits, Counted(Answered, m), Clean(x))
               /\ Within(x.sum.abstain_ok, Counted(Barren \cap Answered, m), Clean(x))
          /\ Quiet(m + 1) /\ Bared(m + 1) =>
               /\ Within(x.sum.hits, Counted(Rated, m + 1), Clean(x) /\ Plain(m + 1))
               /\ Within(x.sum.mrr, Earned(m + 1), Clean(x) /\ Plain(m + 1))
      BY <1>1, <1>4 DEF Tallied
    <2>3. /\ Clean(y) <=> exact
          /\ exact => Clean(x)
      BY <1>7 DEF Clean
    <2>4. y.sum.answered = m + 1  BY <1>7, <2>2
    <2>5. y.sum.abstain_total = Counted(Barren, m + 1)
      BY <1>3, <1>7, <1>10, <1>11, <2>2, CountAdds
    <2>6. ASSUME Quiet(m + 1)
          PROVE  /\ Within(y.sum.answer_hits, Counted(Answered, m + 1), Clean(y))
                 /\ Within(y.sum.abstain_ok, Counted(Barren \cap Answered, m + 1), Clean(y))
      <3>1. Quiet(m) /\ c.quiet  BY <1>3, <2>6 DEF Quiet
      <3>2. exact \in BOOLEAN  OBVIOUS
      <3>3. /\ Within(x.sum.answer_hits, Counted(Answered, m), exact)
            /\ Within(x.sum.abstain_ok, Counted(Barren \cap Answered, m), exact)
        BY <2>2, <2>3, <3>1 DEF Within
      <3> DEFINE hits == x.sum.answer_hits
                 right == x.sum.abstain_ok
      <3>6. /\ m \in Nat /\ hits \in Nat /\ ok \in {0, 1}
            /\ ok = 1 => m + 1 \in Answered
            /\ exact => (ok = 1 <=> m + 1 \in Answered)
            /\ Within(hits, Counted(Answered, m), exact)
        <4>1. m \in Nat /\ hits \in Nat /\ ok \in {0, 1}  BY <1>3, <1>10
        <4>2. Within(hits, Counted(Answered, m), exact)  BY <3>3
        <4> HIDE DEF exact, m, hits, c
        <4> QED  BY <1>11, <3>1, <4>1, <4>2
      <3>7. /\ right \in Nat /\ both \in {0, 1}
            /\ both = 1 => m + 1 \in Barren \cap Answered
            /\ exact => (both = 1 <=> m + 1 \in Barren \cap Answered)
            /\ Within(right, Counted(Barren \cap Answered, m), exact)
        <4>1. right \in Nat /\ both \in {0, 1}  BY <1>3, <1>12
        <4>2. Within(right, Counted(Barren \cap Answered, m), exact)  BY <3>3
        <4> HIDE DEF exact, m, right, c
        <4> QED  BY <1>12, <3>1, <4>1, <4>2
      <3> HIDE DEF exact, m, hits, right
      <3>4. Within(hits + ok, Counted(Answered, m + 1), exact)
        BY <3>2, <3>6, CountsWithin
      <3>5. Within(right + both, Counted(Barren \cap Answered, m + 1), exact)
        BY <3>2, <3>6, <3>7, CountsWithin
      <3> QED  BY <1>7, <1>12, <2>3, <3>4, <3>5 DEF Within, hits, right, m
    <2>7. Quiet(m + 1) /\ Bared(m + 1) =>
               /\ Within(y.sum.hits, Counted(Rated, m + 1), Clean(y) /\ Plain(m + 1))
               /\ Within(y.sum.mrr, Earned(m + 1), Clean(y) /\ Plain(m + 1))
      BY <1>7, <2>2, <2>3 DEF Within
    <2> HIDE DEF x, y, m
    <2> QED  BY <1>5, <2>1, <2>4, <2>5, <2>6, <2>7 DEF Tallied
  <1>15. eval' \in [Evaluators -> Process]
    <2>1. \A g \in Evaluators : eval'[g] \in Process  BY <1>6, <1>13 DEF EvalInv
    <2> QED  BY <1>9, <2>1
  <1> QED  BY <1>1, <1>6, <1>7, <1>14, <1>15, OneMoves

\* A step that leaves an evaluation's numbers alone.
LEMMA NumbersStay ==
  ASSUME EvalInv, NEW e \in Evaluators, eval[e].exit = "none", cases' = cases,
         cache'.index \subseteq cache.index \cup {eval[e].options.scales},
         \A g \in Evaluators : g # e => eval'[g] = eval[g],
         eval' \in [Evaluators -> Process],
         eval'[e].options = eval[e].options, eval'[e].sum = eval[e].sum,
         eval'[e].cut = eval[e].cut,
         eval'[e].exit # "none" => eval'[e].pc = "left",
         eval'[e].exit # "error" => eval[e].pc # "ask" /\ eval'[e].pc # "ask",
         eval'[e].exit = "success" => eval[e].sum.count = Share(eval[e])
  PROVE  EvalInv'
  <1> DEFINE x == eval[e]
             y == eval'[e]
  <1>1. Tallied(x)  BY DEF EvalInv
  <1>2. Share(y) = Share(x)  BY DEF Share
  <1>3. ASSUME y.exit # "error" PROVE Tallied(y)
    <2>1. x.pc # "ask" /\ y.pc # "ask" /\ y.sum = x.sum /\ y.options = x.options
          /\ (Clean(y) <=> Clean(x))
          /\ (y.exit = "success" => x.sum.count = Share(x))
      BY <1>3 DEF Clean
    <2> HIDE DEF x, y
    <2> QED  BY <1>1, <1>2, <2>1 DEF Tallied, Within
  <1> QED  BY <1>3, OneMoves

\* The steps that change where an evaluation is and how it ends.
LEMMA StageChanges ==
  ASSUME EvalInv, NEW e \in Evaluators,
         Start(e) \/ BuildIndex(e) \/ KilledIndex(e) \/ Report(e) \/ Fail(e)
  PROVE  EvalInv'
  <1> DEFINE x == eval[e]
             y == eval'[e]
  <1>1. /\ x \in Process /\ x.pc # "left" /\ x.exit = "none" /\ cases \in Seq(Case)
        /\ cases' = cases /\ Tallied(x)
    BY DEF EvalInv, Start, BuildIndex, KilledIndex, Report, Fail, HasCase, At
  <1>0. cache'.index \subseteq cache.index \cup {x.options.scales}
    <2>1. CASE Start(e)
      <3>1. cache' = [cache EXCEPT !.dir = TRUE]  BY <2>1 DEF Start
      <3> QED  BY <3>1
    <2>2. CASE cache' = [cache EXCEPT !.index = {x.options.scales}]
      BY <2>2
    <2>3. CASE Report(e) /\ cache' # cache
      <3>1. PICK stays \in {FALSE, cache.dir} : cache' = [dir |-> stays, index |-> {}]
        BY <2>3 DEF Report
      <3> QED  BY <3>1
    <2>4. CASE cache' = cache  BY <2>4
    <2> QED  BY <2>1, <2>2, <2>3, <2>4 DEF BuildIndex, KilledIndex, Report, Fail
  <1>2. CASE Start(e) \/ BuildIndex(e) \/ KilledIndex(e)
    <2>1. PICK stage \in {"index", "case"} : eval' = [eval EXCEPT ![e].pc = stage]
      BY <1>2 DEF Start, BuildIndex, KilledIndex, Goto
    <2>2. eval' \in [Evaluators -> Process]
      <3>1. eval' = [eval EXCEPT ![e] = [x EXCEPT !.pc = stage]]  BY <2>1
      <3>2. [x EXCEPT !.pc = stage] \in Process  BY <1>1 DEF Process
      <3> QED  BY <3>1, <3>2 DEF EvalInv
    <2>3. /\ y.options = x.options /\ y.sum = x.sum /\ y.cut = x.cut /\ y.exit = "none" /\ y.pc # "ask"
          /\ \A g \in Evaluators : g # e => eval'[g] = eval[g]
      BY <1>1, <2>1 DEF EvalInv, Process
    <2>4. x.pc # "ask"  BY <1>2 DEF Start, BuildIndex, KilledIndex, At
    <2> QED  BY <1>0, <1>1, <2>2, <2>3, <2>4, NumbersStay
  <1>3. CASE Report(e)
    <2>1. eval' = [eval EXCEPT ![e] = [x EXCEPT !.pc = "left", !.exit = "success"]]
      BY <1>3 DEF Report, Leave
    <2>2. eval' \in [Evaluators -> Process]
      <3>1. [x EXCEPT !.pc = "left", !.exit = "success"] \in Process  BY <1>1 DEF Process
      <3> QED  BY <2>1, <3>1 DEF EvalInv
    <2>3. /\ y.options = x.options /\ y.sum = x.sum /\ y.cut = x.cut /\ y.exit = "success" /\ y.pc = "left"
          /\ \A g \in Evaluators : g # e => eval'[g] = eval[g]
      BY <1>1, <2>1 DEF EvalInv, Process
    <2>4. x.pc = "case"  BY <1>3 DEF Report, At
    <2>5. x.sum.count = Share(x)
      <3> DEFINE m == x.sum.count
                 limit == x.options.limit
      <3>1. m \in Nat /\ limit \in Nat /\ Len(cases) \in Nat
        BY <1>1 DEF Process, Tallies, OptionSet
      <3>2. m = Len(cases) \/ (limit # 0 /\ m >= limit)  BY <1>3 DEF Report, LimitReached
      <3>3. m <= Share(x)  BY <1>1 DEF Tallied
      <3>4. Share(x) = IF limit \in 1..Len(cases) THEN limit ELSE Len(cases)  BY DEF Share
      <3> HIDE DEF m, limit
      <3>5. m = Share(x)  BY <3>1, <3>2, <3>3, <3>4
      <3> QED  BY <3>5 DEF m
    <2> QED  BY <1>0, <1>1, <2>2, <2>3, <2>4, <2>5, NumbersStay
  <1>4. CASE Fail(e)
    <2>1. eval' = [eval EXCEPT ![e] = [x EXCEPT !.pc = "left", !.exit = "error"]]
      BY <1>4 DEF Fail, Leave
    <2>2. eval' \in [Evaluators -> Process]
      <3>1. [x EXCEPT !.pc = "left", !.exit = "error"] \in Process  BY <1>1 DEF Process
      <3> QED  BY <2>1, <3>1 DEF EvalInv
    <2>3. /\ y.options = x.options /\ y.sum = x.sum /\ y.cut = x.cut /\ y.exit = "error" /\ y.pc = "left"
          /\ \A g \in Evaluators : g # e => eval'[g] = eval[g]
      BY <1>1, <2>1 DEF EvalInv, Process
    <2> QED  BY <1>0, <1>1, <2>2, <2>3, NumbersStay
  <1> QED  BY <1>2, <1>3, <1>4

\* The query that runs, or is killed.
LEMMA Queries ==
  ASSUME EvalInv, NEW e \in Evaluators, Query(e) \/ KilledQuery(e)
  PROVE  EvalInv'
  <1> DEFINE c == CaseOf(e)
  <1>1. HasCase(e) /\ InUse \subseteq ScaleSets /\ cache.index \subseteq InUse
    BY ScalesInUse DEF EvalInv, Query, KilledQuery
  <1>2. c \in Case /\ eval[e].cut \in BOOLEAN
    <2>1. /\ cases \in Seq(Case) /\ eval[e] \in Process
          /\ eval[e].sum.count < Len(cases)
      BY <1>1 DEF EvalInv, HasCase
    <2>2. eval[e].sum.count \in Nat /\ eval[e].cut \in BOOLEAN  BY <2>1 DEF Process, Tallies
    <2>3. eval[e].sum.count + 1 \in 1..Len(cases)  BY <2>1, <2>2
    <2> QED  BY <2>1, <2>2, <2>3 DEF CaseOf
  <1> HIDE DEF c
  <1>3. CASE Query(e)
    <2>1. PICK built \in cache.index : \E lines \in Outputs(c, c.results[built]) :
              Queried(e, lines, eval[e].cut)
      BY <1>3 DEF Query, c
    <2>2. PICK lines \in Outputs(c, c.results[built]) : Queried(e, lines, eval[e].cut)
      BY <2>1
    <2>3. Tells(c, eval[e].options.scales, lines, eval[e].cut)
      BY <1>1, <1>2, QueryTells
    <2> QED  BY <1>1, <1>2, <2>2, <2>3, QueryMoves DEF c
  <1>4. CASE KilledQuery(e)
    <2>1. PICK blocks \in {<<>>} \cup {c.results[built] : built \in cache.index} :
              \E output \in Outputs(c, blocks) : \E lines \in CutsOf(output) :
                  Queried(e, lines, TRUE)
      BY <1>4 DEF KilledQuery, c
    <2>2. PICK output \in Outputs(c, blocks) : \E lines \in CutsOf(output) :
                  Queried(e, lines, TRUE)
      BY <2>1
    <2>3. PICK lines \in CutsOf(output) : Queried(e, lines, TRUE)  BY <2>2
    <2>4. blocks = <<>> \/ \E s \in InUse : blocks = c.results[s]  BY <1>1, <2>1
    <2>5. Tells(c, eval[e].options.scales, lines, TRUE)
      BY <1>1, <1>2, <2>4, QueryTells
    <2> QED  BY <1>1, <2>3, <2>5, QueryMoves DEF c
  <1> QED  BY <1>3, <1>4

\* The ask that runs, or is killed.
LEMMA Asks ==
  ASSUME EvalInv, NEW e \in Evaluators, Ask(e) \/ KilledAsk(e)
  PROVE  EvalInv'
  <1> DEFINE c == CaseOf(e)
  <1>1. At(e, "ask") /\ InUse \subseteq ScaleSets /\ cache.index \subseteq InUse
    BY ScalesInUse DEF EvalInv, Ask, KilledAsk
  <1>2. c \in Case /\ eval[e].cut \in BOOLEAN
    <2>1. /\ cases \in Seq(Case) /\ eval[e] \in Process /\ eval[e].pc = "ask"
          /\ Tallied(eval[e])
      BY <1>1 DEF EvalInv, At
    <2>2. eval[e].sum.count \in Nat /\ eval[e].cut \in BOOLEAN  BY <2>1 DEF Process, Tallies
    <2>3. eval[e].sum.count < Share(eval[e])  BY <2>1 DEF Tallied
    <2>4. eval[e].sum.count + 1 \in 1..Len(cases)  BY <2>1, <2>2, <2>3, ShareBounds
    <2> QED  BY <2>1, <2>2, <2>4 DEF CaseOf
  <1>3. \A s \in ScaleSets : c.answer[s] \in BOOLEAN  BY <1>2 DEF Case
  <1> HIDE DEF c
  <1>4. \A answer \in BOOLEAN : \A match \in Matches(c, answer) :
            match \in BOOLEAN /\ (c.quiet => match = answer)
    BY DEF Matches
  <1>5. CASE Ask(e)
    <2>1. PICK built \in cache.index : \E match \in Matches(c, c.answer[built]) :
              Asked(e, match, eval[e].cut)
      BY <1>5 DEF Ask, c
    <2>2. PICK match \in Matches(c, c.answer[built]) : Asked(e, match, eval[e].cut)
      BY <2>1
    <2>3. built \in InUse /\ c.answer[built] \in BOOLEAN  BY <1>1, <1>3
    <2>4. match \in BOOLEAN /\ (c.quiet => match = c.answer[built])  BY <1>4, <2>3
    <2>5. c.quiet => /\ match => IsAnswered(c)
                     /\ ~eval[e].cut /\ InUse = {eval[e].options.scales} =>
                           (match <=> IsAnswered(c))
      <3>1. c.answer[built] => IsAnswered(c)  BY <2>3 DEF IsAnswered
      <3>2. InUse = {eval[e].options.scales} => (IsAnswered(c) => c.answer[built])
        BY <2>3 DEF IsAnswered
      <3> QED  BY <2>3, <2>4, <3>1, <3>2
    <2> QED  BY <1>1, <1>2, <2>2, <2>4, <2>5, AskMoves DEF c
  <1>6. CASE KilledAsk(e)
    <2>1. PICK answer \in {FALSE} \cup {c.answer[built] : built \in cache.index} :
              \E match \in Matches(c, answer) : Asked(e, match, TRUE)
      BY <1>6 DEF KilledAsk, c
    <2>2. PICK match \in Matches(c, answer) : Asked(e, match, TRUE)  BY <2>1
    <2>3. answer \in BOOLEAN /\ (answer => IsAnswered(c))
      <3>1. CASE answer = FALSE  BY <3>1
      <3>2. CASE \E built \in cache.index : answer = c.answer[built]
        BY <1>1, <1>3, <3>2 DEF IsAnswered
      <3> QED  BY <2>1, <3>1, <3>2
    <2>4. match \in BOOLEAN /\ (c.quiet => match = answer)  BY <1>4, <2>3
    <2>5. c.quiet => (match => IsAnswered(c))  BY <2>3, <2>4
    <2> QED  BY <1>1, <2>2, <2>4, <2>5, AskMoves DEF c
  <1> QED  BY <1>5, <1>6

LEMMA NextEvalInv == EvalInv /\ [EvalNext]_evalVars => EvalInv'
  <1> SUFFICES ASSUME EvalInv, [EvalNext]_evalVars PROVE EvalInv'  OBVIOUS
  <1>1. ASSUME NEW e \in Evaluators, Proceed(e) PROVE EvalInv'
    BY <1>1, Queries, Asks, StageChanges DEF Proceed, Killed
  <1>2. CASE UNCHANGED evalVars
    <2>1. cases' = cases /\ eval' = eval /\ cache' = cache  BY <1>2 DEF evalVars
    <2>2. InUse' = InUse  BY <2>1 DEF InUse
    <2>3. \A c : /\ RankOf(c)' = RankOf(c) /\ (IsAnswered(c)' <=> IsAnswered(c))
                 /\ (IsBare(c)' <=> IsBare(c)) /\ (IsPlain(c)' <=> IsPlain(c))
      BY <2>2 DEF RankOf, IsAnswered, IsBare, IsPlain
    <2>4. /\ Rated' = Rated /\ Answered' = Answered /\ Barren' = Barren
          /\ \A n : /\ Earned(n)' = Earned(n) /\ (Quiet(n)' <=> Quiet(n))
                    /\ (Bared(n)' <=> Bared(n)) /\ (Plain(n)' <=> Plain(n))
      BY <2>1, <2>3 DEF Rated, Answered, Barren, Earned, Quiet, Bared, Plain
    <2>5. \A g \in Evaluators : Tallied(eval[g])' <=> Tallied(eval[g])
      BY <2>1, <2>2, <2>4 DEF Tallied, Share, Counted, Clean
    <2> QED  BY <2>1, <2>2, <2>5 DEF EvalInv
  <1> QED  BY <1>1, <1>2 DEF EvalNext, Left

LEMMA EvaluationsAddUp == EvalSpec => []EvalInv
  BY InitEvalInv, NextEvalInv, PTL DEF EvalSpec

\* The cases that an evaluation is to take into account are the first ones.
LEMMA FirstCases ==
  ASSUME EvalInv, NEW e \in Evaluators
  PROVE  /\ Considered(e) = 1..Share(eval[e]) /\ Considered(e) \subseteq DOMAIN cases
         /\ Share(eval[e]) \in Nat
  <1> DEFINE limit == eval[e].options.limit
  <1>1. cases \in Seq(Case) /\ eval[e] \in Process  BY DEF EvalInv
  <1>2. limit \in Nat /\ Len(cases) \in Nat /\ DOMAIN cases = 1..Len(cases)
    BY <1>1 DEF Process, OptionSet
  <1>3. Considered(e) = IF limit \in 1..Len(cases) THEN 1..limit ELSE 1..Len(cases)
    BY <1>2 DEF Considered
  <1>4. Share(eval[e]) = IF limit \in 1..Len(cases) THEN limit ELSE Len(cases)
    BY DEF Share
  <1> HIDE DEF limit
  <1> QED  BY <1>2, <1>3, <1>4

\* What an evaluation that reports has added up, and what of that is exact.
LEMMA Reported ==
  ASSUME EvalInv, NEW e \in Evaluators, eval[e].exit = "success"
  PROVE  LET sum == eval[e].sum
             n == Share(eval[e])
             asked(k) == IF eval[e].options.generate THEN k ELSE 0
             clean == Clean(eval[e])
         IN  /\ sum.count = n /\ sum.answered = asked(n)
             /\ sum.abstain_total = asked(Counted(Barren, n))
             /\ Quiet(n) => /\ Within(sum.answer_hits, asked(Counted(Answered, n)), clean)
                            /\ Within(sum.abstain_ok, asked(Counted(Barren \cap Answered, n)), clean)
             /\ Quiet(n) /\ Bared(n) => /\ Within(sum.hits, Counted(Rated, n), clean /\ Plain(n))
                                        /\ Within(sum.mrr, Earned(n), clean /\ Plain(n))
  <1>1. Tallied(eval[e]) /\ eval[e].pc = "left"  BY DEF EvalInv
  <1> QED  BY <1>1 DEF Tallied

\* The sets that the properties count, as those that the invariant counts.
LEMMA SetsCounted ==
  ASSUME EvalInv, NEW e \in Evaluators
  PROVE  LET n == Share(eval[e])
             asked(k) == IF eval[e].options.generate THEN k ELSE 0
         IN  /\ Cardinality(Considered(e)) = n
             /\ Cardinality(CasesAsked(e)) = asked(n)
             /\ Cardinality(NoEvidence(e)) = asked(Counted(Barren, n))
             /\ Cardinality(CasesAnswered(e)) = asked(Counted(Answered, n))
             /\ Cardinality(NoEvidence(e) \cap CasesAnswered(e)) =
                   asked(Counted(Barren \cap Answered, n))
             /\ Cardinality(CasesFound(e)) = Counted(Rated, n)
             /\ RankSum(e) = Earned(n)
  <1> DEFINE n == Share(eval[e])
  <1>1. Considered(e) = 1..n /\ Considered(e) \subseteq DOMAIN cases /\ n \in Nat
    BY FirstCases
  <1> HIDE DEF n
  <1>2. Cardinality(1..n) = n /\ Cardinality({}) = 0
    BY <1>1, FS_Interval, FS_EmptySet
  <1>3. CasesFound(e) = Rated \cap 1..n  BY <1>1 DEF CasesFound, Rated
  <1>4. RankSum(e) = Earned(n)  BY <1>1 DEF RankSum, Earned
  <1>5. CASE eval[e].options.generate
    <2>1. CasesAsked(e) = 1..n  BY <1>1, <1>5 DEF CasesAsked
    <2>2. /\ NoEvidence(e) = Barren \cap 1..n
          /\ CasesAnswered(e) = Answered \cap 1..n
      BY <1>1, <2>1 DEF NoEvidence, CasesAnswered, Barren, Answered
    <2>3. NoEvidence(e) \cap CasesAnswered(e) = (Barren \cap Answered) \cap 1..n  BY <2>2
    <2> QED  BY <1>1, <1>2, <1>3, <1>4, <1>5, <2>1, <2>2, <2>3 DEF Counted, n
  <1>6. CASE ~eval[e].options.generate
    <2>1. CasesAsked(e) = {}  BY <1>6 DEF CasesAsked
    <2>2. NoEvidence(e) = {} /\ CasesAnswered(e) = {} /\ NoEvidence(e) \cap CasesAnswered(e) = {}
      BY <2>1 DEF NoEvidence, CasesAnswered
    <2> QED  BY <1>1, <1>2, <1>3, <1>4, <1>6, <2>1, <2>2 DEF Counted, n
  <1> QED  BY <1>5, <1>6

\* What the properties assume of the cases considered is assumed of the first ones.
LEMMA Premises ==
  ASSUME EvalInv, NEW e \in Evaluators
  PROVE  LET n == Share(eval[e])
         IN  /\ (\A k \in Considered(e) : cases[k].quiet) => Quiet(n)
             /\ (\A k \in Considered(e) : IsBare(cases[k])) => Bared(n)
             /\ (\A k \in Considered(e) : IsBare(cases[k]) /\ IsPlain(cases[k])) =>
                   Bared(n) /\ Plain(n)
  BY FirstCases DEF Quiet, Bared, Plain

\* Killed commands, texts that look like headers and an index of other scales never
\* make the numbers of a report better than an index in use gives (NeverFlatters).
THEOREM ReportsNeverFlatter == EvalSpec => []NeverFlatters
  <1>1. ASSUME EvalInv, NEW e \in Evaluators, eval[e].exit = "success",
               \A k \in Considered(e) : cases[k].quiet
        PROVE  LET sum == eval[e].sum
               IN  /\ sum.answer_hits <= Cardinality(CasesAnswered(e))
                   /\ sum.abstain_ok <= Cardinality(NoEvidence(e) \cap CasesAnswered(e))
                   /\ (\A k \in Considered(e) : IsBare(cases[k])) =>
                         sum.hits <= Cardinality(CasesFound(e)) /\ sum.mrr <= RankSum(e)
    BY <1>1, Reported, SetsCounted, Premises DEF Within
  <1>2. EvalInv => NeverFlatters  BY <1>1 DEF NeverFlatters
  <1> QED  BY <1>2, EvaluationsAddUp, PTL

\* An evaluation that reports has counted each of its cases once, and what it reports
\* is right if its queries and asks ran to their end on an index of its scales, and
\* nothing but texts and answers could match (MetricsAreRight).
THEOREM MetricsRight == EvalSpec => []MetricsAreRight
  <1>1. ASSUME EvalInv, NEW e \in Evaluators, eval[e].exit = "success"
        PROVE  LET sum == eval[e].sum
               IN  /\ sum.count = Cardinality(Considered(e))
                   /\ sum.answered = Cardinality(CasesAsked(e))
                   /\ sum.abstain_total = Cardinality(NoEvidence(e))
                   /\ (/\ InUse = {eval[e].options.scales} /\ ~eval[e].cut
                       /\ \A k \in Considered(e) : cases[k].quiet) =>
                         /\ sum.answer_hits = Cardinality(CasesAnswered(e))
                         /\ sum.abstain_ok = Cardinality(NoEvidence(e) \cap CasesAnswered(e))
                         /\ (\A k \in Considered(e) : IsBare(cases[k]) /\ IsPlain(cases[k])) =>
                               sum.hits = Cardinality(CasesFound(e)) /\ sum.mrr = RankSum(e)
    BY <1>1, Reported, SetsCounted, Premises DEF Within, Clean
  <1>2. EvalInv => MetricsAreRight  BY <1>1 DEF MetricsAreRight
  <1> QED  BY <1>2, EvaluationsAddUp, PTL
=============================================================================
