------------------------------- MODULE Embedder -------------------------------
(***************************************************************************)
(* A LlamaEmbedder at work (src/src/llama_embedder.cpp): calls of embed    *)
(* and embed_all, which tokenize all texts, allocate one batch for the     *)
(* longest, and decode one text after the other into it.  A text is the    *)
(* sequence of its tokens.  The pooled embedding is a function of all that *)
(* the context's memory holds when it is read, and so stands for it.       *)
(***************************************************************************)
EXTENDS Naturals, Sequences, FiniteSetsExt

CONSTANTS
    Tokens,     \* the tokens of the model's vocabulary
    Texts,      \* the texts to embed
    BatchTokens,\* llama_n_batch(context)
    NoToken,    \* what a batch holds before it is filled
    NoBatch

ASSUME EmbedderAssumption == Texts \subseteq Seq(Tokens) /\ BatchTokens \in Nat

VARIABLES
    memory,     \* the tokens that the context's memory holds
    batch,      \* the batch: its arrays (tokens), n_tokens, and its capacity
    call        \* the call: its stage (pc), its texts, how many of them are
                \* tokenized or decoded (done), and the embeddings so far

embedder == <<memory, batch, call>>

Idle == [pc |-> "idle", texts |-> <<>>, done |-> 0, embeddings |-> <<>>]

EmbedderInit == memory = <<>> /\ batch = NoBatch /\ call = Idle

\* embed(text) and embed_all(texts) differ only in how many texts they take.
Call(texts) ==
    /\ call.pc \in {"idle", "returned"}
    /\ call' = [Idle EXCEPT !.pc = "tokenize", !.texts = texts]
    /\ UNCHANGED <<memory, batch>>

Text == call.texts[call.done + 1]

InTexts(pc) == call.pc = pc /\ call.done < Len(call.texts)

\* tokens_for: neither empty nor longer than the context's batch
Embeddable(text) == text # <<>> /\ Len(text) <= BatchTokens

Tokenize ==
    /\ InTexts("tokenize") /\ Embeddable(Text)
    /\ call' = [call EXCEPT !.done = @ + 1]
    /\ UNCHANGED <<memory, batch>>

\* The text is not embeddable, or the tokenizer throws.
RefuseText ==
    /\ InTexts("tokenize")
    /\ call' = [call EXCEPT !.pc = "thrown"]
    /\ UNCHANGED <<memory, batch>>

\* Mutant of Capacity: that of the last text.
LastCapacity == Len(call.texts[Len(call.texts)])

Capacity == Max({Len(call.texts[j]) : j \in DOMAIN call.texts})

Allocate ==
    /\ call.pc = "tokenize" /\ call.done = Len(call.texts) /\ call.texts # <<>>
    /\ batch' = [tokens |-> [p \in 1..Capacity |-> NoToken], n |-> 0, capacity |-> Capacity]
    /\ call' = [call EXCEPT !.pc = "decode", !.done = 0]
    /\ UNCHANGED memory

NothingToEmbed ==
    /\ call.pc = "tokenize" /\ call.texts = <<>>
    /\ call' = [call EXCEPT !.pc = "returned"]
    /\ UNCHANGED <<memory, batch>>

\* The batch with a text written over the front of its arrays; n_tokens says how
\* much of them counts.
Fill(b, text) ==
    [b EXCEPT !.n = Len(text),
              !.tokens = text \o SubSeq(b.tokens, Len(text) + 1, Len(b.tokens))]

Decoded(b) == SubSeq(b.tokens, 1, b.n)

\* Mutant of Remembered: the memory is not cleared between two texts.
Accumulated(b) == memory \o Decoded(b)

\* What the memory holds after clearing it and decoding a batch.
Remembered(b) == Decoded(b)

Decode ==
    /\ InTexts("decode")
    /\ batch' = Fill(batch, Text)
    /\ memory' = Remembered(batch')
    /\ call' = [call EXCEPT !.done = @ + 1, !.embeddings = Append(@, memory')]

\* The decoder fails, or gives no embedding: the batch is freed and the
\* exception goes on.
DecodeFails ==
    /\ InTexts("decode")
    /\ memory' \in {<<>>, Decoded(Fill(batch, Text))}
    /\ batch' = NoBatch
    /\ call' = [call EXCEPT !.pc = "thrown"]

Return ==
    /\ call.pc = "decode" /\ call.done = Len(call.texts)
    /\ batch' = NoBatch
    /\ call' = [call EXCEPT !.pc = "returned"]
    /\ UNCHANGED memory

Embed == Tokenize \/ RefuseText \/ Allocate \/ NothingToEmbed \/ Decode \/ DecodeFails \/ Return

------------------------------------------------------------------------------
(* Properties                                                              *)

\* Each text's embedding is computed from that text alone, in the order of the
\* texts, whatever earlier texts and calls have left in the batch's arrays and
\* in the context's memory.
EmbeddingsAreTheirOwn ==
    /\ \A j \in DOMAIN call.embeddings : call.embeddings[j] = call.texts[j]
    /\ call.pc = "returned" => Len(call.embeddings) = Len(call.texts)

\* No text runs over the arrays that were allocated for the longest, the decoder
\* never gets more tokens than llama_n_batch, and no way out of a call leaves
\* the batch allocated.
BatchIsSafe ==
    IF call.pc = "decode"
    THEN /\ Len(batch.tokens) = batch.capacity
         /\ batch.n <= batch.capacity /\ batch.capacity <= BatchTokens
    ELSE batch = NoBatch
=============================================================================
