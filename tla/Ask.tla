---------------------------------- MODULE Ask ----------------------------------
(***************************************************************************)
(* The ask command (run_ask in src/src/main.cpp): retrieve chunks with the *)
(* embedding model, load the generation model, drop chunks from the end    *)
(* until prompt and response fit its context window, and print the answer. *)
(***************************************************************************)
EXTENDS SizeT

CONSTANTS
    MaxChunks,  \* the most chunks that a search returns
    Responses,  \* the values of --max-tokens
    Contexts,   \* what the generator's context_size() may be
    MaxTokens,  \* the most tokens that a prompt has
    Prompts     \* the prompts: how many tokens each has, by the chunks that it holds

ASSUME AskAssumption ==
    /\ MaxChunks \in Nat /\ MaxTokens \in Nat
    /\ MaxChunks <= SizeMax /\ MaxTokens <= SizeMax
    /\ Responses \subseteq 0..SizeMax
    /\ Contexts \subseteq 1..SizeMax
    /\ Prompts \subseteq [0..MaxChunks -> 0..MaxTokens]

VARIABLES
    complete, \* whether the flags that ask requires are given, and --top-k is not 0
    response, \* args.max_response_tokens
    tokens,   \* tokens[k]: the tokens of the prompt with the first k chunks
    context,  \* generator.context_size()
    pc,       \* where run_ask is
    embedder, \* whether the embedding model is loaded
    generator, \* whether the generation model is loaded
    found,    \* how many chunks have been retrieved
    keep,     \* how many of them the prompt has
    answered, \* whether an answer has been printed
    exit      \* the exit status, or "none"

input == <<complete, response, tokens, context>>
vars == <<input, pc, embedder, generator, found, keep, answered, exit>>

------------------------------------------------------------------------------
Init == /\ complete \in BOOLEAN
        /\ response \in Responses
        /\ tokens \in Prompts
        /\ context \in Contexts
        /\ pc = "flags"
        /\ embedder = FALSE /\ generator = FALSE
        /\ found = 0 /\ keep = 0
        /\ answered = FALSE
        /\ exit = "none"

\* run_ask is left, by a return or an exception: what it has loaded is freed.
Leave(status) ==
    /\ pc' = "left"
    /\ exit' = status
    /\ embedder' = FALSE /\ generator' = FALSE
    /\ UNCHANGED <<input, found, keep>>

Goto(stage) == pc' = stage /\ UNCHANGED <<input, answered, exit>>

Usage ==
    /\ pc = "flags" /\ (~complete \/ response = 0)
    /\ Leave("usage")
    /\ UNCHANGED answered

OpenIndex ==
    /\ pc = "flags" /\ complete /\ response > 0
    /\ Goto("retrieve")
    /\ UNCHANGED <<embedder, generator, found, keep>>

LoadEmbedder ==
    /\ pc = "retrieve" /\ ~embedder
    /\ embedder' = TRUE
    /\ Goto("retrieve")
    /\ UNCHANGED <<generator, found, keep>>

\* Mutant of Search: the embedder lives as long as run_ask.
SearchOnly(n) ==
    /\ pc = "retrieve" /\ embedder
    /\ found' = n
    /\ Goto("retrieved")
    /\ UNCHANGED <<embedder, generator, keep>>

\* The query is embedded, n chunks are found, and the block that the embedder
\* lives in ends.
Search(n) ==
    /\ pc = "retrieve" /\ embedder
    /\ found' = n
    /\ embedder' = FALSE
    /\ Goto("retrieved")
    /\ UNCHANGED <<generator, keep>>

\* Without evidence nothing is answered.
Refuse ==
    /\ pc = "retrieved" /\ found = 0
    /\ Leave("success")
    /\ UNCHANGED answered

LoadGenerator ==
    /\ pc = "retrieved" /\ found > 0
    /\ generator' = TRUE
    /\ Goto("loaded")
    /\ UNCHANGED <<embedder, found, keep>>

ResponseFits == response < context

StartFitting ==
    /\ pc = "loaded" /\ ResponseFits
    /\ keep' = found
    /\ Goto("fit")
    /\ UNCHANGED <<embedder, generator, found>>

RejectResponse ==
    /\ pc = "loaded" /\ ~ResponseFits
    /\ Leave("error")
    /\ UNCHANGED answered

\* Mutant of Fits: what the response needs is forgotten.
PromptFits == tokens[keep] > 0 /\ tokens[keep] <= context

\* The subtraction is one of unsigned numbers.
Fits == tokens[keep] > 0 /\ tokens[keep] <= Wrapped(context - response)

Fit ==
    /\ pc = "fit" /\ Fits
    /\ Goto("generate")
    /\ UNCHANGED <<embedder, generator, found, keep>>

\* Mutant of Shrink: one chunk less than what was found, again and again.
ShrinkFromAll ==
    /\ pc = "fit" /\ ~Fits /\ keep > 0
    /\ keep' = found - 1
    /\ Goto("fit")
    /\ UNCHANGED <<embedder, generator, found>>

\* Mutant of Shrink: half of the chunks are dropped at once.
Halve ==
    /\ pc = "fit" /\ ~Fits /\ keep > 0
    /\ keep' = keep \div 2
    /\ Goto("fit")
    /\ UNCHANGED <<embedder, generator, found>>

Shrink ==
    /\ pc = "fit" /\ ~Fits /\ keep > 0
    /\ keep' = keep - 1
    /\ Goto("fit")
    /\ UNCHANGED <<embedder, generator, found>>

\* Not even the query and the system prompt fit.
GiveUp ==
    /\ pc = "fit" /\ ~Fits /\ keep = 0
    /\ Leave("error")
    /\ UNCHANGED answered

Generate ==
    /\ pc = "generate"
    /\ answered' = TRUE
    /\ Leave("success")

\* An exception: the index cannot be opened, a model cannot be loaded, the query
\* not be embedded or searched for, a prompt not be tokenized or answered.
Fail ==
    /\ pc \in {"flags", "retrieve", "retrieved", "fit", "generate"}
    /\ pc = "flags" => complete /\ response > 0
    /\ pc = "retrieved" => found > 0
    /\ Leave("error")
    /\ UNCHANGED answered

Proceed ==
    \/ Usage \/ OpenIndex \/ LoadEmbedder \/ \E n \in 0..MaxChunks : Search(n)
    \/ Refuse \/ LoadGenerator \/ StartFitting \/ RejectResponse
    \/ Fit \/ Shrink \/ GiveUp \/ Generate

Left == pc = "left" /\ UNCHANGED vars

Next == Proceed \/ Fail \/ Left

\* The command runs on one thread, to its end; nothing has to fail.
Spec == Init /\ [][Next]_vars /\ WF_vars(Proceed)

------------------------------------------------------------------------------
(* Properties                                                              *)

\* Every variable keeps its type; keep is an index into what has been found.
TypeOK ==
    /\ complete \in BOOLEAN /\ response \in Responses /\ context \in Contexts
    /\ tokens \in Prompts
    /\ pc \in {"flags", "retrieve", "retrieved", "loaded", "fit", "generate", "left"}
    /\ embedder \in BOOLEAN /\ generator \in BOOLEAN /\ answered \in BOOLEAN
    /\ found \in 0..MaxChunks
    /\ keep \in 0..found
    /\ exit \in {"none", "success", "error", "usage"}

\* The models are "loaded one after the other so only one is resident at a time".
OneModelAtATime == ~(embedder /\ generator)

\* generate never refuses the prompt that the loop has settled for: with the
\* response it fits the context window, computed without wrapping.
PromptLeavesRoom ==
    pc = "generate" => tokens[keep] > 0 /\ tokens[keep] + response <= context

\* No more chunks are dropped than have to be: with any of the longer prefixes
\* of what was found, the prompt would not have fitted.
ContextIsKept ==
    pc = "generate" => \A k \in (keep + 1)..found :
        tokens[k] = 0 \/ tokens[k] + response > context

\* The command ends.
Ends == <>(pc = "left")
=============================================================================
