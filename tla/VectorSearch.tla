----------------------------- MODULE VectorSearch -----------------------------
(***************************************************************************)
(* search (src/src/vector_search.cpp): the items of an index are scored    *)
(* one after the other, a bounded heap per scale keeps the leaders of that *)
(* scale, and what the heaps hold is merged, ranked and cut to top_k.      *)
(*                                                                         *)
(* A score is an integer or NonFinite (a NaN or an infinity); what the     *)
(* metric computes is part of the input.                                   *)
(***************************************************************************)
EXTENDS Integers, Sequences, FiniteSets

CONSTANTS
    Indexes,   \* the opened indexes: sequences of items [score, scale]
    Requests,  \* [top, quota, query]: top_k, options.max_per_scale, the query
    Scales,    \* the scale numbers of the items
    NonFinite  \* the score that is not finite

ASSUME SearchAssumption ==
    /\ NonFinite \notin Int
    /\ Indexes \subseteq Seq([score : Int \cup {NonFinite}, scale : Scales])
    /\ Requests \subseteq [top : Nat, quota : Nat,
                           query : {"usual", "zero", "wrongDimensions"}]

VARIABLES
    index,   \* the items, from 1 on (the code's item 0 is item 1)
    request, \* the arguments
    pc,      \* "start", "scan", "returned" or "thrown"
    item,    \* the number of scored items
    leaders, \* per_scale: what the heap of each scale holds
    results  \* what is returned; its order is that of better_result

vars == <<index, request, pc, item, leaders, results>>

Smaller(a, b) == IF a <= b THEN a ELSE b

\* top_k, once clamped to the number of items.
TopK == Smaller(request.top, Len(index))

\* Mutant of HeapSize: the quota is not looked at.
NoQuota == TopK

HeapSize == IF request.quota = 0 THEN TopK ELSE Smaller(TopK, request.quota)

Score(i) == index[i].score
Finite(i) == Score(i) # NonFinite

\* better_result; on finite scores only.
Better(i, j) == Score(i) > Score(j) \/ (Score(i) = Score(j) /\ i < j)

------------------------------------------------------------------------------
Init == /\ index \in Indexes
        /\ request \in Requests
        /\ pc = "start"
        /\ item = 0
        /\ leaders = [s \in Scales |-> {}]
        /\ results = {}

\* The query has another length than the embeddings.
Throw ==
    /\ pc = "start" /\ request.query = "wrongDimensions"
    /\ pc' = "thrown"
    /\ UNCHANGED <<index, request, item, leaders, results>>

\* Nothing is asked for, or the query's norm is zero and the metric is cosine.
ReturnEmpty ==
    /\ pc = "start" /\ request.query # "wrongDimensions"
    /\ request.top = 0 \/ request.query = "zero"
    /\ pc' = "returned"
    /\ UNCHANGED <<index, request, item, leaders, results>>

StartScan ==
    /\ pc = "start" /\ request.query = "usual" /\ request.top > 0
    /\ pc' = "scan"
    /\ UNCHANGED <<index, request, item, leaders, results>>

\* The next item of the scan, and the heap of its scale.
Candidate == item + 1
Heap == leaders[index[Candidate].scale]

\* The strongest-last order of a heap says nothing of equal scores: its top,
\* which pop takes, is any item of the lowest score.
Tops == {t \in Heap : \A j \in Heap : Score(t) <= Score(j)}

\* The scan goes on with heap in place of the candidate's heap.
Scanned(heap) ==
    /\ leaders' = [leaders EXCEPT ![index[Candidate].scale] = heap]
    /\ item' = Candidate
    /\ UNCHANGED <<index, request, pc, results>>

Scanning == pc = "scan" /\ item < Len(index)

Skip == Scanning /\ ~Finite(Candidate) /\ Scanned(Heap)

Push ==
    /\ Scanning /\ Finite(Candidate)
    /\ Cardinality(Heap) < HeapSize
    /\ Scanned(Heap \cup {Candidate})

\* Mutant of Replace: any item of the heap is popped.
ReplaceAny ==
    /\ Scanning /\ Finite(Candidate)
    /\ Cardinality(Heap) >= HeapSize
    /\ \E top \in Heap :
          /\ Score(Candidate) > Score(top)
          /\ Scanned((Heap \ {top}) \cup {Candidate})

Replace ==
    /\ Scanning /\ Finite(Candidate)
    /\ Cardinality(Heap) >= HeapSize
    /\ \E top \in Tops :
          /\ Score(Candidate) > Score(top)
          /\ Scanned((Heap \ {top}) \cup {Candidate})

Drop ==
    /\ Scanning /\ Finite(Candidate)
    /\ Cardinality(Heap) >= HeapSize
    /\ \E top \in Tops : Score(Candidate) <= Score(top)
    /\ Scanned(Heap)

\* Mutant of RankIn: the rank counts every scale.
RankInAll(i, found) == 1 + Cardinality({j \in found : Better(j, i)})

\* scale_rank, when it reaches item i of the sorted results.
RankIn(i, found) ==
    1 + Cardinality({j \in found : index[j].scale = index[i].scale /\ Better(j, i)})

\* The heaps are drained, sorted by better_result and ranked, and what comes
\* after the first top_k is dropped.
Return ==
    LET found == UNION {leaders[s] : s \in Scales}
        First(i) == Cardinality({j \in found : Better(j, i)}) < TopK
    IN  /\ pc = "scan" /\ item = Len(index)
        /\ results' = {[index |-> i, rank |-> RankIn(i, found)] : i \in {i \in found : First(i)}}
        /\ leaders' = [s \in Scales |-> {}]
        /\ pc' = "returned"
        /\ UNCHANGED <<index, request, item>>

Stopped == pc \in {"returned", "thrown"} /\ UNCHANGED vars

Next == Throw \/ ReturnEmpty \/ StartScan \/ Skip \/ Push \/ Replace \/ Drop \/ Return \/ Stopped

Spec == Init /\ [][Next]_vars

------------------------------------------------------------------------------
(* Properties                                                              *)

\* Every variable keeps its type, and no heap outgrows heap_size.
TypeOK ==
    /\ index \in Indexes /\ request \in Requests
    /\ pc \in {"start", "scan", "returned", "thrown"}
    /\ item \in 0..Len(index)
    /\ leaders \in [Scales -> SUBSET (1..Len(index))]
    /\ \A s \in Scales : Cardinality(leaders[s]) <= HeapSize
    /\ results \subseteq [index : 1..Len(index), rank : 1..Len(index)]

\* The finite items of scale s among the first n.
Of(s, n) == {i \in 1..n : index[i].scale = s /\ Finite(i)}

\* Midway, the heap of a scale holds only items of that scale, and an item that
\* it dropped is matched by a full heap of items that score at least as much.
HeapsHoldLeaders ==
    pc = "scan" => \A s \in Scales :
        /\ leaders[s] \subseteq Of(s, item)
        /\ \A i \in Of(s, item) \ leaders[s] :
              /\ Cardinality(leaders[s]) = HeapSize
              /\ \A j \in leaders[s] : Score(j) >= Score(i)

Searched == pc = "returned" /\ request.query = "usual" /\ request.top > 0
Returned == {r.index : r \in results}
ReturnedOf(s) == {i \in Returned : index[i].scale = s}

\* What is left out is no better than what is returned, and is left out only
\* because top_k items, or max_per_scale items of its scale, are returned that
\* are at least as good: the heaps of the scales lose no global leader.
BestAreReturned ==
    Searched =>
        /\ Returned \subseteq UNION {Of(s, Len(index)) : s \in Scales}
        /\ Cardinality(Returned) <= request.top
        /\ \A s \in Scales :
              /\ request.quota > 0 => Cardinality(ReturnedOf(s)) <= request.quota
              /\ \A i \in Of(s, Len(index)) \ Returned :
                    \/ /\ Cardinality(Returned) = request.top
                       /\ \A j \in Returned : Score(j) >= Score(i)
                    \/ /\ request.quota > 0
                       /\ Cardinality(ReturnedOf(s)) = request.quota
                       /\ \A j \in ReturnedOf(s) : Score(j) >= Score(i)

\* A result's rank is its place among all items of its scale, returned or not,
\* in every mode; where scores are equal, one of the places they share.
RanksAreExact ==
    Searched => \A r \in results :
        LET all == Of(index[r.index].scale, Len(index))
            Above(i) == Cardinality({j \in all : Score(j) > Score(i)})
            NotBelow(i) == Cardinality({j \in all : Score(j) >= Score(i)})
        IN  Above(r.index) < r.rank /\ r.rank <= NotBelow(r.index)
=============================================================================
