--------------------------- MODULE IndexQueryProofs ---------------------------
(***************************************************************************)
(* Proofs about the index and query commands and the embedder under them,  *)
(* for every set of texts and documents and every size of the batch.       *)
(***************************************************************************)
EXTENDS IndexQuery, RecursionTheorems

------------------------------------------------------------------------------
(* The invariant.                                                          *)

\* The commands: what they embed is a text or a document.
Arguments ==
    /\ args \in [command : {"index"}, inputs : Inputs, query : {<<>>}, scales : ScaleLists]
                  \cup [command : {"query"}, inputs : {<<>>}, query : Texts, scales : {<<>>}]
    /\ input \in Nat
    /\ pc = "query" => args.command = "query"

\* The texts of a call that is under way have passed the check on their length.
CallOK ==
    /\ call \in [pc : {"idle", "tokenize", "decode", "returned", "thrown"}, texts : Seq(Texts),
                 done : Nat, embeddings : Seq(Texts)]
    /\ call.done <= Len(call.texts)
    /\ call.pc = "idle" => call.embeddings = <<>>
    /\ call.pc = "tokenize" => /\ call.embeddings = <<>>
                               /\ \A j \in 1..call.done : Embeddable(call.texts[j])
    /\ call.pc = "decode" => /\ Len(call.embeddings) = call.done
                             /\ \A j \in 1..Len(call.texts) : Len(call.texts[j]) <= batch.capacity

BatchOK ==
    call.pc = "decode" =>
        batch \in [tokens : Seq(Tokens \cup {NoToken}), n : Nat, capacity : Nat]

IInv == Arguments /\ CallOK /\ BatchOK /\ EmbeddingsAreTheirOwn /\ BatchIsSafe

LEMMA InitIsIInv == Init => IInv
  <1> SUFFICES ASSUME Init PROVE IInv  OBVIOUS
  <1>1. Arguments  BY DEF Init, Arguments
  <1>2. call.pc = "idle" /\ call.texts = <<>> /\ call.done = 0 /\ call.embeddings = <<>>
        /\ call = [pc |-> "idle", texts |-> <<>>, done |-> 0, embeddings |-> <<>>]
        /\ batch = NoBatch
    BY DEF Init, EmbedderInit, Idle
  <1>3. CallOK  BY <1>2 DEF CallOK
  <1>4. BatchOK /\ EmbeddingsAreTheirOwn /\ BatchIsSafe
    BY <1>2 DEF BatchOK, EmbeddingsAreTheirOwn, BatchIsSafe
  <1> QED  BY <1>1, <1>3, <1>4 DEF IInv

\* The part of the invariant that is about the embedder.
EmbedderInv == CallOK /\ BatchOK /\ EmbeddingsAreTheirOwn /\ BatchIsSafe

LEMMA CallKeeps == ASSUME EmbedderInv, NEW texts \in Seq(Texts), Call(texts) PROVE EmbedderInv'
  <1>1. call' = [pc |-> "tokenize", texts |-> texts, done |-> 0, embeddings |-> <<>>]
        /\ batch' = batch /\ call.pc \in {"idle", "returned"}
    BY DEF Call, Idle
  <1>2. CallOK'  BY <1>1 DEF CallOK
  <1>3. BatchOK' /\ EmbeddingsAreTheirOwn' /\ BatchIsSafe'
    BY <1>1 DEF EmbedderInv, BatchOK, EmbeddingsAreTheirOwn, BatchIsSafe
  <1> QED  BY <1>2, <1>3 DEF EmbedderInv

LEMMA TokenizeKeeps == ASSUME EmbedderInv, Tokenize PROVE EmbedderInv'
  <1>1. call' = [call EXCEPT !.done = @ + 1] /\ batch' = batch /\ call.pc = "tokenize"
        /\ call.done < Len(call.texts) /\ Embeddable(call.texts[call.done + 1])
    BY DEF Tokenize, InTexts, Text
  <1>2. call'.pc = "tokenize" /\ call'.texts = call.texts /\ call'.embeddings = call.embeddings
        /\ call'.done = call.done + 1 /\ call.done \in Nat /\ Len(call.texts) \in Nat
    BY <1>1 DEF EmbedderInv, CallOK
  <1>3. call' \in [pc : {"idle", "tokenize", "decode", "returned", "thrown"}, texts : Seq(Texts),
                   done : Nat, embeddings : Seq(Texts)]
    BY <1>1, <1>2 DEF EmbedderInv, CallOK
  <1>4. ASSUME NEW j \in 1..call'.done PROVE Embeddable(call.texts[j])
    <2>1. j \in 1..call.done \/ j = call.done + 1  BY <1>2
    <2> QED  BY <2>1, <1>1 DEF EmbedderInv, CallOK
  <1>5. CallOK'
    <2>1. call'.done <= Len(call'.texts)  BY <1>1, <1>2
    <2> QED  BY <1>1, <1>2, <1>3, <1>4, <2>1 DEF EmbedderInv, CallOK, Embeddable
  <1>6. BatchOK' /\ EmbeddingsAreTheirOwn' /\ BatchIsSafe'
    BY <1>1, <1>2 DEF EmbedderInv, CallOK, BatchOK, EmbeddingsAreTheirOwn, BatchIsSafe
  <1> QED  BY <1>5, <1>6 DEF EmbedderInv

\* A call that ends without an embedding of its own.
LEMMA EndKeeps == ASSUME EmbedderInv, RefuseText \/ NothingToEmbed \/ DecodeFails \/ Return
                  PROVE  EmbedderInv'
  <1>1. /\ call' = [call EXCEPT !.pc = "thrown"] \/ call' = [call EXCEPT !.pc = "returned"]
        /\ batch' = NoBatch
    BY DEF RefuseText, NothingToEmbed, DecodeFails, Return, InTexts, EmbedderInv, BatchIsSafe
  <1>2. call'.pc \in {"thrown", "returned"} /\ call'.texts = call.texts
        /\ call'.embeddings = call.embeddings /\ call'.done = call.done
    BY <1>1 DEF EmbedderInv, CallOK
  <1>3. CallOK'
    BY <1>1, <1>2 DEF EmbedderInv, CallOK
  <1>4. call'.pc = "returned" => Len(call.embeddings) = Len(call.texts)
    <2>1. CASE NothingToEmbed
      BY <2>1 DEF NothingToEmbed, EmbedderInv, CallOK
    <2>2. CASE Return
      BY <2>2 DEF Return, EmbedderInv, CallOK
    <2>3. CASE RefuseText \/ DecodeFails
      <3>1. call' = [call EXCEPT !.pc = "thrown"]  BY <2>3 DEF RefuseText, DecodeFails
      <3>2. call'.pc = "thrown"  BY <3>1 DEF EmbedderInv, CallOK
      <3> QED  BY <3>2
    <2> QED  BY <2>1, <2>2, <2>3
  <1>5. BatchOK' /\ EmbeddingsAreTheirOwn' /\ BatchIsSafe'
    BY <1>1, <1>2, <1>4 DEF EmbedderInv, BatchOK, EmbeddingsAreTheirOwn, BatchIsSafe
  <1> QED  BY <1>3, <1>5 DEF EmbedderInv

\* The batch is as large as the longest text and no larger than the context's.
LEMMA CapacityFits ==
  ASSUME EmbedderInv, Allocate
  PROVE  /\ Capacity \in 0..BatchTokens
         /\ \A j \in 1..Len(call.texts) : Len(call.texts[j]) <= Capacity
  <1> DEFINE T == {Len(call.texts[j]) : j \in DOMAIN call.texts}
  <1>1. call.texts \in Seq(Texts) /\ call.texts # <<>> /\ call.done = Len(call.texts)
        /\ \A j \in 1..call.done : Embeddable(call.texts[j])
    BY DEF Allocate, EmbedderInv, CallOK
  <1>2. DOMAIN call.texts = 1..Len(call.texts) /\ Len(call.texts) \in Nat \ {0}
    BY <1>1
  <1>3. ASSUME NEW j \in 1..Len(call.texts) PROVE Len(call.texts[j]) \in 0..BatchTokens
    <2>1. call.texts[j] \in Texts  BY <1>1, ElementOfSeq
    <2>2. call.texts[j] \in Seq(Tokens)  BY <2>1, EmbedderAssumption
    <2>3. Len(call.texts[j]) \in Nat  BY <2>2
    <2> QED  BY <1>1, <2>3, EmbedderAssumption DEF Embeddable
  <1>4. T \in SUBSET (0..BatchTokens)  BY <1>2, <1>3
  <1>5. T # {}
    <2>1. 1 \in DOMAIN call.texts  BY <1>2
    <2> QED  BY <2>1
  <1>6. Capacity = Max(T)  BY DEF Capacity
  <1>7. \A j \in 1..Len(call.texts) : Len(call.texts[j]) \in T  BY <1>2
  <1> HIDE DEF T
  <1>8. Max(T) \in T /\ \A y \in T : y <= Max(T)
    BY <1>4, <1>5, EmbedderAssumption, MaxIsGreatest
  <1> QED  BY <1>4, <1>6, <1>7, <1>8

LEMMA AllocateKeeps == ASSUME EmbedderInv, Allocate PROVE EmbedderInv'
  <1>1. call' = [call EXCEPT !.pc = "decode", !.done = 0] /\ call.pc = "tokenize"
        /\ batch' = [tokens |-> [p \in 1..Capacity |-> NoToken], n |-> 0, capacity |-> Capacity]
    BY DEF Allocate
  <1>2. Capacity \in 0..BatchTokens
        /\ \A j \in 1..Len(call.texts) : Len(call.texts[j]) <= Capacity
    BY CapacityFits
  <1>3. call'.pc = "decode" /\ call'.texts = call.texts /\ call'.embeddings = <<>>
        /\ call'.done = 0 /\ call.texts \in Seq(Texts)
    BY <1>1 DEF EmbedderInv, CallOK
  <1>4. Capacity \in Nat  BY <1>2, EmbedderAssumption
  <1> HIDE DEF Capacity
  <1>5. [p \in 1..Capacity |-> NoToken] \in Seq(Tokens \cup {NoToken})
        /\ Len([p \in 1..Capacity |-> NoToken]) = Capacity
    BY <1>4
  <1>6. CallOK'
    <2>1. call' \in [pc : {"idle", "tokenize", "decode", "returned", "thrown"},
                     texts : Seq(Texts), done : Nat, embeddings : Seq(Texts)]
      BY <1>1 DEF EmbedderInv, CallOK
    <2>2. 0 <= Len(call.texts)  BY <1>3
    <2>3. batch'.capacity = Capacity  BY <1>1
    <2> QED  BY <1>2, <1>3, <2>1, <2>2, <2>3 DEF CallOK
  <1>7. BatchOK'  BY <1>1, <1>4, <1>5 DEF BatchOK
  <1>8. EmbeddingsAreTheirOwn'  BY <1>3 DEF EmbeddingsAreTheirOwn
  <1>9. BatchIsSafe'  BY <1>1, <1>2, <1>3, <1>4, <1>5, EmbedderAssumption DEF BatchIsSafe
  <1> QED  BY <1>6, <1>7, <1>8, <1>9 DEF EmbedderInv

\* A text that fits is all that counts of a batch once it is filled.
LEMMA FillHoldsTheText ==
  ASSUME NEW b \in [tokens : Seq(Tokens \cup {NoToken}), n : Nat, capacity : Nat],
         Len(b.tokens) = b.capacity, NEW text \in Seq(Tokens), Len(text) <= b.capacity
  PROVE  /\ Fill(b, text) \in [tokens : Seq(Tokens \cup {NoToken}), n : Nat, capacity : Nat]
         /\ Len(Fill(b, text).tokens) = b.capacity
         /\ Fill(b, text).capacity = b.capacity /\ Fill(b, text).n = Len(text)
         /\ Decoded(Fill(b, text)) = text
  <1> DEFINE rest == SubSeq(b.tokens, Len(text) + 1, Len(b.tokens))
             S == Tokens \cup {NoToken}
  <1>1. b.tokens \in Seq(S) /\ text \in Seq(S) /\ Len(text) \in Nat /\ b.capacity \in Nat
        /\ Len(b.tokens) \in Nat
    OBVIOUS
  <1> HIDE DEF S
  <1>2. rest \in Seq(S) /\ Len(rest) = b.capacity - Len(text)
    BY <1>1
  <1> HIDE DEF rest
  <1>3. text \o rest \in Seq(S) /\ Len(text \o rest) = b.capacity
    <2>1. text \o rest \in Seq(S) /\ Len(text \o rest) = Len(text) + Len(rest)
      BY <1>1, <1>2, ConcatProperties
    <2> QED  BY <2>1, <1>1, <1>2
  <1>4. Fill(b, text) = [tokens |-> text \o rest, n |-> Len(text), capacity |-> b.capacity]
    <2>1. Fill(b, text) = [b EXCEPT !.n = Len(text), !.tokens = text \o rest]  BY DEF Fill, rest
    <2>2. b = [tokens |-> b.tokens, n |-> b.n, capacity |-> b.capacity]  OBVIOUS
    <2> QED  BY <2>1, <2>2
  <1>5. SubSeq(text \o rest, 1, Len(text)) = text
    <2> DEFINE sub == SubSeq(text \o rest, 1, Len(text))
    <2>1. sub \in Seq(S) /\ Len(sub) = Len(text)
          /\ \A i \in 1..Len(text) : sub[i] = (text \o rest)[i]
      BY <1>1, <1>2, <1>3, SubSeqProperties
    <2>2. \A i \in 1..Len(text) : (text \o rest)[i] = text[i]  BY <1>1, <1>2
    <2> HIDE DEF sub
    <2>3. \A i \in 1..Len(text) : sub[i] = text[i]  BY <2>1, <2>2
    <2>4. sub = text  BY <1>1, <2>1, <2>3, SeqEqual
    <2> QED  BY <2>4 DEF sub
  <1> QED  BY <1>1, <1>3, <1>4, <1>5 DEF Decoded, S

LEMMA DecodeKeeps == ASSUME EmbedderInv, Decode PROVE EmbedderInv'
  <1> DEFINE text == call.texts[call.done + 1]
  <1>1. /\ call.pc = "decode" /\ call.done < Len(call.texts)
        /\ batch' = Fill(batch, text) /\ memory' = Decoded(batch')
        /\ call' = [call EXCEPT !.done = @ + 1, !.embeddings = Append(@, memory')]
    BY DEF Decode, InTexts, Text, Remembered
  <1>2. /\ call.texts \in Seq(Texts) /\ call.done \in Nat /\ call.embeddings \in Seq(Texts)
        /\ Len(call.embeddings) = call.done
        /\ \A j \in 1..Len(call.texts) : Len(call.texts[j]) <= batch.capacity
        /\ \A j \in 1..call.done : call.embeddings[j] = call.texts[j]
    BY <1>1 DEF EmbedderInv, CallOK, EmbeddingsAreTheirOwn
  <1>3. call.done + 1 \in 1..Len(call.texts)  BY <1>1, <1>2
  <1>4. text \in Texts /\ text \in Seq(Tokens) /\ Len(text) <= batch.capacity
    BY <1>2, <1>3, ElementOfSeq, EmbedderAssumption
  <1> HIDE DEF text
  <1>5. /\ batch \in [tokens : Seq(Tokens \cup {NoToken}), n : Nat, capacity : Nat]
        /\ Len(batch.tokens) = batch.capacity /\ batch.capacity <= BatchTokens
    BY <1>1 DEF EmbedderInv, BatchOK, BatchIsSafe
  <1>6. /\ batch' \in [tokens : Seq(Tokens \cup {NoToken}), n : Nat, capacity : Nat]
        /\ Len(batch'.tokens) = batch'.capacity /\ batch'.capacity = batch.capacity
        /\ batch'.n = Len(text) /\ memory' = text
    BY <1>1, <1>4, <1>5, FillHoldsTheText
  <1>7. /\ call'.pc = "decode" /\ call'.texts = call.texts /\ call'.done = call.done + 1
        /\ call'.embeddings = Append(call.embeddings, text)
    BY <1>1, <1>6 DEF EmbedderInv, CallOK
  <1>8. call'.embeddings \in Seq(Texts) /\ Len(call'.embeddings) = call.done + 1
        /\ DOMAIN call'.embeddings = 1..(call.done + 1)
    BY <1>2, <1>4, <1>7
  <1>9. CallOK'
    <2>1. call' \in [pc : {"idle", "tokenize", "decode", "returned", "thrown"},
                     texts : Seq(Texts), done : Nat, embeddings : Seq(Texts)]
      <3>1. call \in [pc : {"idle", "tokenize", "decode", "returned", "thrown"},
                      texts : Seq(Texts), done : Nat, embeddings : Seq(Texts)]
        BY DEF EmbedderInv, CallOK
      <3>2. call' = [call EXCEPT !.done = call.done + 1,
                                 !.embeddings = Append(call.embeddings, text)]
        BY <1>1, <1>6
      <3>3. call.done + 1 \in Nat /\ Append(call.embeddings, text) \in Seq(Texts)
        BY <1>2, <1>4
      <3> QED  BY <3>1, <3>2, <3>3
    <2>2. call'.done <= Len(call'.texts)  BY <1>2, <1>3, <1>7
    <2> QED  BY <1>2, <1>6, <1>7, <1>8, <2>1, <2>2 DEF CallOK
  <1>10. BatchOK'  BY <1>6 DEF BatchOK
  <1>11. EmbeddingsAreTheirOwn'
    <2>1. ASSUME NEW j \in 1..(call.done + 1) PROVE call'.embeddings[j] = call'.texts[j]
      <3>1. CASE j = call.done + 1  BY <3>1, <1>2, <1>7 DEF text
      <3>2. CASE j # call.done + 1
        <4>1. j \in 1..call.done  BY <3>2, <1>2
        <4> QED  BY <4>1, <1>2, <1>7
      <3> QED  BY <3>1, <3>2
    <2> QED  BY <2>1, <1>7, <1>8 DEF EmbeddingsAreTheirOwn
  <1>12. BatchIsSafe'  BY <1>4, <1>5, <1>6, <1>7 DEF BatchIsSafe
  <1> QED  BY <1>9, <1>10, <1>11, <1>12 DEF EmbedderInv

LEMMA EmbedKeeps == ASSUME EmbedderInv, Embed PROVE EmbedderInv'
  BY TokenizeKeeps, EndKeeps, AllocateKeeps, DecodeKeeps DEF Embed

\* A document is a list of texts.
LEMMA InputsAreTexts ==
  ASSUME Arguments, ChunkInput PROVE args.inputs[input + 1] \in Seq(Texts)
  <1>1. input \in Nat /\ input < Len(args.inputs) /\ args.inputs[input + 1] # Unreadable
    BY DEF ChunkInput, Arguments
  <1>2. args.inputs \in Inputs \cup {<<>>}  BY DEF Arguments
  <1>3. args.inputs # <<>>  BY <1>1
  <1>4. PICK n \in 0..MaxInputs : args.inputs \in [1..n -> Documents \cup {Unreadable}]
    BY <1>2, <1>3 DEF Inputs
  <1>5. n \in Nat  BY CommandAssumption
  <1>6. Len(args.inputs) = n  BY <1>4, <1>5
  <1>7. input + 1 \in 1..n  BY <1>1, <1>5, <1>6
  <1> QED  BY <1>1, <1>4, <1>7, CommandAssumption

LEMMA NextKeepsIInv == IInv /\ [Next]_vars => IInv'
  <1> SUFFICES ASSUME IInv, [Next]_vars PROVE IInv'  OBVIOUS
  <1>1. EmbedderInv  BY DEF IInv, EmbedderInv
  <1>2. Arguments'
    BY DEF IInv, Arguments, Next, Proceed, Usage, LoadEmbedder, ChunkInput, EmbedQuery,
           Embedding, Collect, Write, Answer, Fail, Left, Leave, Goto, command, vars
  <1>3. ASSUME UNCHANGED embedder PROVE EmbedderInv'
    BY <1>1, <1>3 DEF embedder, EmbedderInv, CallOK, BatchOK, EmbeddingsAreTheirOwn,
                      BatchIsSafe, Embeddable
  <1>4. CASE ChunkInput
    <2>1. args.inputs[input + 1] \in Seq(Texts)  BY <1>4, InputsAreTexts DEF IInv
    <2>2. EmbedderInv'  BY <1>1, <1>4, <2>1, CallKeeps DEF ChunkInput
    <2> QED  BY <1>2, <2>2 DEF IInv, EmbedderInv
  <1>5. CASE EmbedQuery
    <2>1. args.query \in Texts  BY <1>5 DEF EmbedQuery, IInv, Arguments
    <2>2. <<args.query>> \in Seq(Texts)  BY <2>1
    <2>3. EmbedderInv'  BY <1>1, <1>5, <2>2, CallKeeps DEF EmbedQuery
    <2> QED  BY <1>2, <2>3 DEF IInv, EmbedderInv
  <1>6. CASE Embedding
    <2>1. EmbedderInv'  BY <1>1, <1>6, EmbedKeeps DEF Embedding
    <2> QED  BY <1>2, <2>1 DEF IInv, EmbedderInv
  <1>7. CASE UNCHANGED embedder  BY <1>2, <1>3, <1>7 DEF IInv, EmbedderInv
  <1> QED
    BY <1>4, <1>5, <1>6, <1>7
    DEF Next, Proceed, Usage, LoadEmbedder, Collect, Write, Answer, Fail, Left, Leave, vars

LEMMA Invariant == Spec => []IInv
  <1> QED  BY InitIsIInv, NextKeepsIInv, PTL DEF Spec

------------------------------------------------------------------------------
(* The items.                                                              *)

Item == [text : Texts, embedding : Texts]

\* What one input gives.
Part(k) ==
    [j \in DOMAIN args.inputs[k] |->
        [text |-> args.inputs[k][j], embedding |-> args.inputs[k][j]]]

\* The inputs that have been collected could be read, and the items are theirs;
\* the call that is under way has the texts of the next one.
Collected ==
    /\ input <= Len(args.inputs)
    /\ \A k \in 1..input : args.inputs[k] # Unreadable
    /\ items = ItemsOf(input)
    /\ pc = "embed" => /\ input < Len(args.inputs)
                       /\ args.inputs[input + 1] # Unreadable
                       /\ call.texts = args.inputs[input + 1]

\* Nothing is written before the command succeeds.
Untouched ==
    /\ pc # "left" => index = OldIndex /\ exit = "none"
    /\ pc = "index" => args.command = "index"
    /\ args.command = "query" => index = OldIndex

ItemsInv ==
    /\ args.command = "index" => Collected
    /\ Untouched
    /\ exit \notin {"none", "success"} => index = OldIndex
    /\ IndexIsAllOrNothing

\* The inputs of an index command are a list of documents or the mark of one
\* that cannot be read.
LEMMA InputsAreAList ==
  ASSUME Arguments, args.command = "index"
  PROVE  args.inputs \in Seq(Documents \cup {Unreadable})
  <1>1. args.inputs \in Inputs  BY DEF Arguments
  <1>2. PICK n \in 0..MaxInputs : args.inputs \in [1..n -> Documents \cup {Unreadable}]
    BY <1>1 DEF Inputs
  <1>3. n \in Nat  BY CommandAssumption
  <1> QED  BY <1>2, <1>3

LEMMA PartsAreItems ==
  ASSUME Arguments, args.command = "index",
         NEW k \in 1..Len(args.inputs), args.inputs[k] # Unreadable
  PROVE  Part(k) \in Seq(Item)
  <1>1. args.inputs \in Seq(Documents \cup {Unreadable})  BY InputsAreAList
  <1>2. args.inputs[k] \in Seq(Texts)  BY <1>1, CommandAssumption
  <1>3. \A j \in DOMAIN args.inputs[k] : args.inputs[k][j] \in Texts  BY <1>2
  <1>4. DOMAIN args.inputs[k] = 1..Len(args.inputs[k]) /\ Len(args.inputs[k]) \in Nat
    BY <1>2
  <1> QED  BY <1>3, <1>4 DEF Part, Item

\* The items of one input more.
LEMMA ItemsOfNext ==
  ASSUME Arguments, args.command = "index", NEW n \in Nat, n < Len(args.inputs),
         \A k \in 1..(n + 1) : args.inputs[k] # Unreadable
  PROVE  ItemsOf(n + 1) = ItemsOf(n) \o Part(n + 1)
  <1> DEFINE parts == [k \in 1..(n + 1) |-> Part(k)]
  <1>1. args.inputs \in Seq(Documents \cup {Unreadable})  BY InputsAreAList
  <1>2. \A k \in 1..(n + 1) : k \in 1..Len(args.inputs)  BY <1>1
  <1>3. \A k \in 1..(n + 1) : Part(k) \in Seq(Item)  BY <1>2, PartsAreItems
  <1>4. parts \in [1..(n + 1) -> Seq(Item)]  BY <1>3
  <1>5. ItemsOf(n + 1) = FlattenSeq(parts)  BY DEF ItemsOf, Part
  <1>6. ItemsOf(n) = FlattenSeq([k \in 1..n |-> parts[k]])
    <2>1. [k \in 1..n |-> parts[k]] = [k \in 1..n |-> Part(k)]  OBVIOUS
    <2> QED  BY <2>1 DEF ItemsOf, Part
  <1>7. parts[n + 1] = Part(n + 1)  OBVIOUS
  <1> HIDE DEF parts
  <1> QED  BY <1>4, <1>5, <1>6, <1>7, FlattenAppends

\* Nothing was collected at first.
LEMMA ItemsOfNone == ItemsOf(0) = <<>>
  <1> DEFINE parts == [k \in 1..0 |-> Part(k)]
  <1>1. parts \in [1..0 -> Seq(Item)]  OBVIOUS
  <1>2. FlattenSeq(parts) = <<>>
    <2>1. parts = <<>>  OBVIOUS
    <2> QED  BY <2>1 DEF FlattenSeq
  <1> QED  BY <1>2 DEF ItemsOf, Part

LEMMA ItemsInit == Init => ItemsInv
  <1> SUFFICES ASSUME Init PROVE ItemsInv  OBVIOUS
  <1>1. input = 0 /\ items = <<>> /\ pc = "flags" /\ exit = "none" /\ index = OldIndex
    BY DEF Init
  <1>2. args.command = "index" => args.inputs \in Seq(Documents \cup {Unreadable})
    <2>1. Arguments  BY InitIsIInv DEF IInv
    <2> QED  BY <2>1, InputsAreAList
  <1>3. args.command = "index" => Collected  BY <1>1, <1>2, ItemsOfNone DEF Collected
  <1> QED  BY <1>1, <1>3 DEF ItemsInv, Untouched, IndexIsAllOrNothing

\* As long as the command is not left, the index is the old one.
LEMMA GoingOn ==
  ASSUME ItemsInv, pc # "left", UNCHANGED <<args, index, exit>>, pc' # "left",
         pc' = "index" => args.command = "index",
         args.command = "index" => Collected'
  PROVE  ItemsInv'
  <1>1. index = OldIndex /\ exit = "none"  BY DEF ItemsInv, Untouched
  <1> QED  BY <1>1 DEF ItemsInv, Untouched, IndexIsAllOrNothing

LEMMA CollectKeepsItems ==
  ASSUME IInv, ItemsInv, Collect PROVE ItemsInv'
  <1>1. /\ pc = "embed" /\ call.pc = "returned" /\ args.command = "index"
        /\ items' = items \o [j \in DOMAIN call.texts |->
                                 [text |-> call.texts[j], embedding |-> call.embeddings[j]]]
        /\ input' = input + 1 /\ pc' = "index" /\ UNCHANGED <<args, exit, index, call>>
    BY DEF Collect, Goto, embedder
  <1>2. /\ input < Len(args.inputs) /\ args.inputs[input + 1] # Unreadable
        /\ call.texts = args.inputs[input + 1] /\ items = ItemsOf(input) /\ input \in Nat
        /\ \A k \in 1..input : args.inputs[k] # Unreadable
    BY <1>1 DEF ItemsInv, Collected, IInv, Arguments
  <1>3. \A k \in 1..(input + 1) : args.inputs[k] # Unreadable  BY <1>2
  <1>4. DOMAIN call.texts = DOMAIN call.embeddings
    <2>1. call.texts \in Seq(Texts) /\ call.embeddings \in Seq(Texts)
      BY DEF IInv, CallOK
    <2>2. Len(call.embeddings) = Len(call.texts)
      BY <1>1 DEF IInv, EmbeddingsAreTheirOwn
    <2> QED  BY <2>1, <2>2
  <1>5. \A j \in DOMAIN call.texts : call.embeddings[j] = call.texts[j]
    BY <1>4 DEF IInv, EmbeddingsAreTheirOwn
  <1>6. items' = items \o Part(input + 1)  BY <1>1, <1>2, <1>5 DEF Part
  <1>7. items' = ItemsOf(input + 1)
    <2>1. Arguments  BY DEF IInv
    <2> QED  BY <1>1, <1>2, <1>3, <1>6, <2>1, ItemsOfNext
  <1>8. ItemsOf(input)' = ItemsOf(input + 1)  BY <1>1 DEF ItemsOf
  <1>9. Collected'
    <2>1. args.inputs \in Seq(Documents \cup {Unreadable})
      BY <1>1, InputsAreAList DEF IInv
    <2>2. input + 1 <= Len(args.inputs)  BY <1>2, <2>1
    <2> QED  BY <1>1, <1>3, <1>7, <1>8, <2>2 DEF Collected
  <1> QED  BY <1>1, <1>9, GoingOn

\* A command that fails, or is no index command, leaves the index alone.
LEMMA LeaveKeepsItems ==
  ASSUME ItemsInv, NEW status, Leave(status), pc # "left", UNCHANGED index,
         args.command = "index" => status # "success"
  PROVE  ItemsInv'
  <1>1. /\ pc' = "left" /\ exit' = status
        /\ UNCHANGED <<args, memory, batch, call, input, items, index>>
    BY DEF Leave, embedder
  <1>2. index = OldIndex  BY DEF ItemsInv, Untouched
  <1>3. args.command = "index" => Collected'
    BY <1>1 DEF ItemsInv, Collected, ItemsOf
  <1> QED  BY <1>1, <1>2, <1>3 DEF ItemsInv, Untouched, IndexIsAllOrNothing

LEMMA WriteKeepsItems == ASSUME IInv, ItemsInv, Write PROVE ItemsInv'
  <1>1. /\ pc = "index" /\ input = Len(args.inputs) /\ items # <<>>
        /\ index' = items /\ pc' = "left" /\ exit' = "success"
        /\ UNCHANGED <<args, memory, batch, call, input, items>>
    BY DEF Write, Leave, embedder
  <1>2. args.command = "index" /\ Collected  BY <1>1 DEF ItemsInv, Untouched
  <1>3. Collected'  BY <1>1, <1>2 DEF Collected, ItemsOf
  <1>4. args.inputs \in Seq(Documents \cup {Unreadable})
    BY <1>2, InputsAreAList DEF IInv
  <1>5. DOMAIN args.inputs = 1..input  BY <1>1, <1>4
  <1>6. index' = ItemsOf(Len(args.inputs))'
    <2>1. items = ItemsOf(Len(args.inputs))  BY <1>1, <1>2 DEF Collected
    <2> QED  BY <1>1, <2>1 DEF ItemsOf
  <1>7. \A k \in DOMAIN args.inputs : args.inputs[k] # Unreadable
    BY <1>2, <1>5 DEF Collected
  <1> QED
    BY <1>1, <1>2, <1>3, <1>6, <1>7 DEF ItemsInv, Untouched, IndexIsAllOrNothing

\* What a step does to a call under way is not to change its texts.
LEMMA EmbedKeepsTexts ==
  ASSUME EmbedderInv, Embed PROVE call'.texts = call.texts
  BY DEF Embed, Tokenize, RefuseText, Allocate, NothingToEmbed, Decode, DecodeFails, Return,
         EmbedderInv, CallOK

LEMMA NextKeepsItems == IInv /\ ItemsInv /\ [Next]_vars => ItemsInv'
  <1> SUFFICES ASSUME IInv, ItemsInv, [Next]_vars PROVE ItemsInv'  OBVIOUS
  <1>1. CASE Usage
    <2>1. Leave("usage") /\ pc # "left" /\ UNCHANGED index  BY <1>1 DEF Usage
    <2> QED  BY <2>1, LeaveKeepsItems
  <1>2. CASE LoadEmbedder
    <2>1. /\ pc = "flags" /\ pc' = args.command /\ UNCHANGED <<args, exit, input, items, index>>
      BY <1>2 DEF LoadEmbedder, Goto
    <2>2. args.command \in {"index", "query"}  BY DEF IInv, Arguments
    <2>3. args.command = "index" => Collected'
      BY <2>1, <2>2 DEF ItemsInv, Collected, ItemsOf
    <2> QED  BY <2>1, <2>2, <2>3, GoingOn
  <1>3. CASE ChunkInput
    <2>1. /\ pc = "index" /\ input < Len(args.inputs) /\ args.inputs[input + 1] # Unreadable
          /\ call' = [Idle EXCEPT !.pc = "tokenize", !.texts = args.inputs[input + 1]]
          /\ pc' = "embed" /\ UNCHANGED <<args, exit, input, items, index>>
      BY <1>3 DEF ChunkInput, Call, Goto
    <2>2. call'.texts = args.inputs[input + 1]  BY <2>1 DEF Idle
    <2>3. args.command = "index" => Collected'
      BY <2>1, <2>2 DEF ItemsInv, Collected, ItemsOf
    <2> QED  BY <2>1, <2>3, GoingOn
  <1>4. CASE EmbedQuery
    <2>1. pc = "query" /\ pc' = "embed" /\ UNCHANGED <<args, exit, index>>
      BY <1>4 DEF EmbedQuery, Goto
    <2>2. args.command = "query"  BY <2>1 DEF IInv, Arguments
    <2> QED  BY <2>1, <2>2, GoingOn
  <1>5. CASE Embedding
    <2>1. pc = "embed" /\ UNCHANGED <<args, pc, input, items, index, exit>>
      BY <1>5 DEF Embedding, command
    <2>2. call'.texts = call.texts
      BY <1>5, EmbedKeepsTexts DEF Embedding, IInv, EmbedderInv
    <2>3. args.command = "index" => Collected'
      BY <2>1, <2>2 DEF ItemsInv, Collected, ItemsOf
    <2> QED  BY <2>1, <2>3, GoingOn
  <1>6. CASE Collect  BY <1>6, CollectKeepsItems
  <1>7. CASE Write  BY <1>7, WriteKeepsItems
  <1>8. CASE Answer
    <2>1. pc = "embed" /\ args.command = "query" /\ Leave("success") /\ UNCHANGED index
      BY <1>8 DEF Answer
    <2> QED  BY <2>1, LeaveKeepsItems
  <1>9. CASE Fail
    <2>1. pc # "left" /\ Leave("error") /\ UNCHANGED index  BY <1>9 DEF Fail
    <2> QED  BY <2>1, LeaveKeepsItems
  <1>10. CASE UNCHANGED vars
    BY <1>10 DEF vars, command, embedder, ItemsInv, Collected, Untouched,
                 IndexIsAllOrNothing, ItemsOf
  <1> QED
    BY <1>1, <1>2, <1>3, <1>4, <1>5, <1>6, <1>7, <1>8, <1>9, <1>10 DEF Next, Proceed, Left

LEMMA ItemsInvariant == Spec => [](IInv /\ ItemsInv)
  <1>1. Init => IInv /\ ItemsInv  BY InitIsIInv, ItemsInit
  <1>2. IInv /\ ItemsInv /\ [Next]_vars => (IInv /\ ItemsInv)'
    BY NextKeepsIInv, NextKeepsItems
  <1> QED  BY <1>1, <1>2, PTL DEF Spec

------------------------------------------------------------------------------
(* The theorems.                                                           *)

\* For every list of texts, call after call: a text's embedding is computed from
\* its own tokens and from nothing that the batch or the memory still holds.
THEOREM OwnEmbeddings == Spec => []EmbeddingsAreTheirOwn
  <1>1. IInv => EmbeddingsAreTheirOwn  BY DEF IInv
  <1> QED  BY <1>1, Invariant, PTL

\* For every size of the batch: no text runs over the arrays, the decoder never
\* gets too many tokens, and the batch is freed on every way out.
THEOREM SafeBatch == Spec => []BatchIsSafe
  <1>1. IInv => BatchIsSafe  BY DEF IInv
  <1> QED  BY <1>1, Invariant, PTL

\* For every list of documents: the index changes once, when every input has been
\* read and embedded, and it then holds all their chunks in order, each with its
\* own embedding.
THEOREM AllOrNothing == Spec => []IndexIsAllOrNothing
  <1>1. IInv /\ ItemsInv => IndexIsAllOrNothing  BY DEF ItemsInv
  <1> QED  BY <1>1, ItemsInvariant, PTL
=============================================================================
