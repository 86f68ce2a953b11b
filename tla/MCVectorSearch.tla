--------------------------- MODULE MCVectorSearch ----------------------------
(* Every index of one to MaxItems items in two scales, with scores of three *)
(* values or not finite, and every small top_k and max_per_scale.           *)
EXTENDS VectorSearch

CONSTANTS MaxItems, MaxScore, MaxTop, MaxQuota

Item == [score : (0..MaxScore) \cup {NonFinite}, scale : Scales]

MCIndexes == UNION {[1..n -> Item] : n \in 1..MaxItems}

MCRequests ==
    [top : 0..MaxTop, quota : 0..MaxQuota, query : {"usual"}] \cup
    [top : {1}, quota : {0}, query : {"zero", "wrongDimensions"}]

=============================================================================
