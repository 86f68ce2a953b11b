------------------------------ MODULE IndexQuery ------------------------------
(***************************************************************************)
(* The index and query commands (run_index and run_query in                *)
(* src/src/main.cpp), composed with the embedder that they use.  A         *)
(* document is the sequence of the texts of its chunks; loading and        *)
(* chunking it may fail.  MmapIndex::write is atomic here (IndexStore has  *)
(* its steps): it replaces the index or leaves it.                         *)
(***************************************************************************)
EXTENDS Embedder, SequencesExt

CONSTANTS
    Documents,  \* the documents that can be read
    Unreadable, \* a document that cannot
    MaxInputs,  \* the most --input flags
    ScaleLists, \* the values of --scales, as sequences of pairs
    OldIndex    \* the index that was there before

ASSUME CommandAssumption ==
    /\ Documents \subseteq Seq(Texts)
    /\ Unreadable \notin Documents
    /\ MaxInputs \in Nat

VARIABLES
    args,       \* the command, its inputs or query, its scales
    pc,         \* where the command is
    input,      \* how many inputs have been embedded
    items,      \* the items so far: each a chunk's text and its embedding
    index,      \* the index that the path names
    exit        \* the exit status, or "none"

command == <<args, pc, input, items, index, exit>>
vars == <<embedder, command>>

Inputs == UNION {[1..n -> Documents \cup {Unreadable}] : n \in 0..MaxInputs}

\* parse_scales, which takes an overlap of 0 as well.
ScalesValid ==
    \A s \in DOMAIN args.scales :
        args.scales[s].bytes # 0 /\ args.scales[s].overlap < args.scales[s].bytes

Init ==
    /\ EmbedderInit
    /\ \/ args \in [command : {"index"}, inputs : Inputs, query : {<<>>}, scales : ScaleLists]
       \/ args \in [command : {"query"}, inputs : {<<>>}, query : Texts, scales : {<<>>}]
    /\ pc = "flags"
    /\ input = 0 /\ items = <<>>
    /\ index = OldIndex
    /\ exit = "none"

Goto(stage) == pc' = stage /\ UNCHANGED <<args, exit>>

\* The command is left by a return or an exception, and the embedder is gone.
Leave(status) == pc' = "left" /\ exit' = status /\ UNCHANGED <<args, embedder, input, items>>

FlagsValid ==
    IF args.command = "index" THEN args.inputs # <<>> /\ ScalesValid
                              ELSE args.query # <<>>

Usage == pc = "flags" /\ ~FlagsValid /\ Leave("usage") /\ UNCHANGED index

LoadEmbedder ==
    /\ pc = "flags" /\ FlagsValid
    /\ Goto(args.command)
    /\ UNCHANGED <<embedder, input, items, index>>

\* The next input is loaded and chunked, and embed_all is called with its texts.
ChunkInput ==
    /\ pc = "index" /\ input < Len(args.inputs)
    /\ args.inputs[input + 1] # Unreadable
    /\ Call(args.inputs[input + 1])
    /\ Goto("embed")
    /\ UNCHANGED <<input, items, index>>

EmbedQuery ==
    /\ pc = "query"
    /\ Call(<<args.query>>)
    /\ Goto("embed")
    /\ UNCHANGED <<input, items, index>>

Embedding == pc = "embed" /\ Embed /\ UNCHANGED command

\* Mutant of Collect: what is embedded is written after each input.
CollectAndWrite ==
    /\ pc = "embed" /\ call.pc = "returned" /\ args.command = "index"
    /\ items' = items \o [j \in DOMAIN call.texts |->
                             [text |-> call.texts[j], embedding |-> call.embeddings[j]]]
    /\ index' = items'
    /\ input' = input + 1
    /\ Goto("index")
    /\ UNCHANGED embedder

Collect ==
    /\ pc = "embed" /\ call.pc = "returned" /\ args.command = "index"
    /\ items' = items \o [j \in DOMAIN call.texts |->
                             [text |-> call.texts[j], embedding |-> call.embeddings[j]]]
    /\ input' = input + 1
    /\ Goto("index")
    /\ UNCHANGED <<embedder, index>>

\* MmapIndex::write refuses an empty list of items.
Write ==
    /\ pc = "index" /\ input = Len(args.inputs) /\ items # <<>>
    /\ index' = items
    /\ Leave("success")

\* search and the printing of its results
Answer ==
    /\ pc = "embed" /\ call.pc = "returned" /\ args.command = "query"
    /\ Leave("success")
    /\ UNCHANGED index

\* An exception: the model is not loaded, an input cannot be read, the index not
\* opened, a text not be embedded, the file not be written.
Fail ==
    /\ pc \in {"flags", "index", "query", "embed"}
    /\ pc = "flags" => FlagsValid
    /\ pc = "embed" => call.pc \in {"thrown", "returned"}
    /\ Leave("error")
    /\ UNCHANGED index

Proceed == Usage \/ LoadEmbedder \/ ChunkInput \/ EmbedQuery \/ Embedding \/ Collect
               \/ Write \/ Answer

Left == pc = "left" /\ UNCHANGED vars

Next == Proceed \/ Fail \/ Left

Spec == Init /\ [][Next]_vars

------------------------------------------------------------------------------
(* Properties                                                              *)

\* What the first n inputs give: their chunks in order, each with the embedding
\* of its own text.
ItemsOf(n) ==
    FlattenSeq([k \in 1..n |->
        [j \in DOMAIN args.inputs[k] |->
            [text |-> args.inputs[k][j], embedding |-> args.inputs[k][j]]]])

\* The index is what it was until all inputs are read, chunked and embedded, and
\* it then holds every chunk of every input, in the order of the inputs and of
\* their chunks, each with the embedding of its own text.  A command that does
\* not report success has written nothing.
IndexIsAllOrNothing ==
    /\ index # OldIndex => args.command = "index" /\ exit = "success"
    /\ args.command = "index" /\ exit = "success" =>
        /\ \A k \in DOMAIN args.inputs : args.inputs[k] # Unreadable
        /\ index = ItemsOf(Len(args.inputs)) /\ index # <<>>
=============================================================================
