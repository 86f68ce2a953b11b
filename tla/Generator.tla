------------------------------ MODULE Generator -------------------------------
(***************************************************************************)
(* LlamaGenerator::generate (src/src/llama_generator.cpp): the prompt is   *)
(* evaluated in batches, then one token after the other is sampled and its *)
(* piece of text appended, until the model ends its answer, the text holds *)
(* a stop sequence, or the token budget is spent.                          *)
(*                                                                         *)
(* A text is a sequence of characters; which token is sampled, and every   *)
(* llama.cpp call that can fail, is a choice.                              *)
(***************************************************************************)
EXTENDS SizeT, SequencesExt

CONSTANTS
    Characters,    \* what texts are made of
    Pieces,        \* the texts that tokens stand for
    Stops,         \* the stop sequences
    Prompts,       \* the numbers of tokens of the prompts
    Budgets,       \* the values of max_response_tokens
    ContextTokens, \* context_size()
    BatchTokens    \* batch_tokens, how many tokens llama_decode takes at once

ASSUME GeneratorAssumption ==
    /\ Pieces \subseteq Seq(Characters) /\ Stops \subseteq Seq(Characters)
    /\ Prompts \subseteq 0..SizeMax /\ Budgets \subseteq 0..SizeMax
    /\ ContextTokens \in 1..SizeMax /\ BatchTokens \in Nat \ {0}

VARIABLES
    pc,        \* "idle" between two calls
    prompt,    \* prompt_tokens.size()
    budget,    \* max_response_tokens
    cells,     \* how many positions of the context's memory are in use
    position,  \* the position that the next token gets
    generated, \* the loop's counter
    response,  \* the text so far
    held,      \* what this call has allocated and not freed
    said,      \* the pieces of this call's tokens, all of them, in a row
    outcome    \* how the last call ended: why the loop did, or what was thrown

vars == <<pc, prompt, budget, cells, position, generated, response, held, said, outcome>>

------------------------------------------------------------------------------
\* The positions (from 0 on) where stop starts in text.
Occurrences(stop, text) ==
    {p \in 0..(Len(text) - Len(stop)) : SubSeq(text, p + 1, p + Len(stop)) = stop}

StopsIn(text) == UNION {Occurrences(stop, text) : stop \in {s \in Stops : s # <<>>}}

\* truncate_at_stop, of a text that has a stop sequence.
TruncateAtStop(text) == SubSeq(text, 1, Min(StopsIn(text)))

\* Mutant of TrimPartialStop: a whole stop sequence's length is cut off.
TrimTooMuch(text) ==
    LET sizes == {n \in 0..Len(text) : \E stop \in Stops :
                    /\ n < Len(stop)
                    /\ SubSeq(text, Len(text) - n + 1, Len(text)) = SubSeq(stop, 1, n)}
    IN  SubSeq(text, 1, Len(text) - Min({Len(text), Max(sizes) + 1}))

\* trim_partial_stop: the longest end of the text that is a beginning of a stop
\* sequence, but not a whole one, is dropped.
TrimPartialStop(text) ==
    LET sizes == {n \in 0..Len(text) : \E stop \in Stops :
                    /\ n < Len(stop)
                    /\ SubSeq(text, Len(text) - n + 1, Len(text)) = SubSeq(stop, 1, n)}
    IN  SubSeq(text, 1, Len(text) - Max(sizes \cup {0}))

------------------------------------------------------------------------------
Init == /\ pc = "idle"
        /\ prompt = 0 /\ budget = 0
        /\ cells = 0 /\ position = 0 /\ generated = 0
        /\ response = <<>> /\ said = <<>>
        /\ held = {}
        /\ outcome = "none"

\* generate is called.
Call(p, b) ==
    /\ pc = "idle"
    /\ prompt' = p /\ budget' = b
    /\ generated' = 0 /\ response' = <<>> /\ said' = <<>> /\ held' = {}
    /\ outcome' = "none"
    /\ pc' = "check"
    /\ UNCHANGED <<cells, position>>

\* The call ends with an exception.
Throw(what) ==
    /\ pc' = "idle"
    /\ outcome' = what
    /\ UNCHANGED <<prompt, budget, said>>

\* Mutant of Fits: the first condition is missing.
FitsUnguarded == prompt <= Wrapped(ContextTokens - budget)

\* The prompt and the response fit the context window; the first condition
\* keeps the unsigned subtraction from wrapping.
Fits == budget <= ContextTokens /\ prompt <= Wrapped(ContextTokens - budget)

\* Tokenization fails, there are no tokens, or they do not fit.
Refuse ==
    /\ pc = "check"
    /\ Throw("thrown")
    /\ UNCHANGED <<cells, position, generated, response, held>>

\* The context's memory is cleared.
StartEvaluate ==
    /\ pc = "check" /\ prompt > 0 /\ Fits
    /\ cells' = 0 /\ position' = 0
    /\ pc' = "evaluate"
    /\ UNCHANGED <<prompt, budget, generated, response, held, said, outcome>>

\* The next batch of the prompt is decoded.
EvaluateBatch ==
    /\ pc = "evaluate" /\ position < prompt
    /\ LET count == Min({BatchTokens, prompt - position})
       IN  position' = position + count /\ cells' = cells + count
    /\ UNCHANGED <<pc, prompt, budget, generated, response, held, said, outcome>>

\* llama_decode fails on a batch, or the sampler cannot be made.
EvaluateFails ==
    /\ pc = "evaluate"
    /\ Throw("thrown")
    /\ UNCHANGED <<cells, position, generated, response, held>>

MakeSampler ==
    /\ pc = "evaluate" /\ position = prompt
    /\ held' = {"sampler"}
    /\ pc' = "reserve"
    /\ UNCHANGED <<prompt, budget, cells, position, generated, response, said, outcome>>

\* response.reserve finds no memory.  The try block has not begun: nothing
\* frees the sampler.
ReserveFails ==
    /\ pc = "reserve"
    /\ Throw("unreserved")
    /\ UNCHANGED <<cells, position, generated, response, held>>

\* The response is reserved and the batch is allocated.
StartSampling ==
    /\ pc = "reserve"
    /\ held' = held \cup {"batch"}
    /\ pc' = "sample"
    /\ UNCHANGED <<prompt, budget, cells, position, generated, response, said, outcome>>

\* The loop is over: the sampler and the batch are freed, a partial stop
\* sequence is dropped, and the response, so far text, is returned.
ReturnAs(text, why) ==
    /\ held' = {}
    /\ response' = TrimPartialStop(text)
    /\ outcome' = why
    /\ pc' = "idle"

SpendBudget ==
    /\ pc = "sample" /\ generated = budget
    /\ ReturnAs(response, "budget")
    /\ UNCHANGED <<prompt, budget, cells, position, generated, said>>

\* The model ends its answer.
EndOfGeneration ==
    /\ pc = "sample" /\ generated < budget
    /\ ReturnAs(response, "end")
    /\ UNCHANGED <<prompt, budget, cells, position, generated, said>>

\* Mutant of Has: a stop sequence is looked for in the last piece alone.
LastPieceHas(text, piece) == StopsIn(piece) # {}

\* A stop sequence is looked for in the whole text, which ends with piece.
Has(text, piece) == StopsIn(text) # {}

\* A token is sampled and a stop sequence has come up.
Stop(piece) ==
    /\ pc = "sample" /\ generated < budget
    /\ Has(response \o piece, piece)
    /\ said' = said \o piece
    /\ ReturnAs(TruncateAtStop(response \o piece), "stop")
    /\ UNCHANGED <<prompt, budget, cells, position, generated>>

\* A token is sampled, its piece appended, and the token decoded in its turn.
Continue(piece) ==
    /\ pc = "sample" /\ generated < budget
    /\ ~Has(response \o piece, piece)
    /\ response' = response \o piece
    /\ said' = said \o piece
    /\ cells' = cells + 1 /\ position' = position + 1
    /\ generated' = generated + 1
    /\ UNCHANGED <<pc, prompt, budget, held, outcome>>

\* Mutant of SampleFails: the exception skips the two calls that free.
SampleLeaks ==
    /\ pc = "sample" /\ generated < budget
    /\ Throw("thrown")
    /\ UNCHANGED <<cells, position, generated, response, held>>

\* token_piece or llama_decode fails; the batch and the sampler are freed.
SampleFails ==
    /\ pc = "sample" /\ generated < budget
    /\ Throw("thrown")
    /\ held' = {}
    /\ UNCHANGED <<cells, position, generated, response>>

\* One step of a call that is under way.
Proceed ==
    \/ Refuse \/ StartEvaluate \/ EvaluateBatch \/ EvaluateFails
    \/ MakeSampler \/ ReserveFails \/ StartSampling
    \/ SpendBudget \/ EndOfGeneration \/ SampleFails
    \/ \E piece \in Pieces : Stop(piece) \/ Continue(piece)

Next == Proceed \/ \E p \in Prompts, b \in Budgets : Call(p, b)

Spec == Init /\ [][Next]_vars

------------------------------------------------------------------------------
(* Properties                                                              *)

\* Every variable keeps its type.
TypeOK ==
    /\ pc \in {"idle", "check", "evaluate", "reserve", "sample"}
    /\ prompt \in Prompts \cup {0} /\ budget \in Budgets \cup {0}
    /\ cells \in 0..ContextTokens
    /\ position \in 0..ContextTokens
    /\ generated \in 0..budget
    /\ held \subseteq {"sampler", "batch"}
    /\ outcome \in {"none", "budget", "end", "stop", "thrown", "unreserved"}

\* While a call evaluates or samples, the next token's position is the first
\* free one of the context's memory, and there is room for all that the call
\* may still decode, however the call before it ended.
TokensHaveRoom ==
    /\ pc \in {"evaluate", "reserve", "sample"} => cells = position
    /\ pc \in {"evaluate", "reserve"} => prompt + budget <= ContextTokens
    /\ pc = "sample" => cells + (budget - generated) <= ContextTokens

\* The caller never sees a stop sequence, one that several tokens make up
\* together included.
NoStopIsReturned == StopsIn(response) = {}

\* A beginning of a stop sequence, but not a whole one.
Partial(text) == text = <<>> \/ \E stop \in Stops : IsStrictPrefix(text, stop)

\* What a returned response lacks of what the model said is a stop sequence
\* with what follows it, if that is why the loop ended, and, before it, at most
\* the beginning of one.
OnlyMarkersAreDropped ==
    outcome \in {"budget", "end", "stop"} =>
        /\ IsPrefix(response, said)
        /\ \E n \in Len(response)..Len(said) :
              /\ Partial(SubSeq(said, Len(response) + 1, n))
              /\ IF outcome = "stop"
                 THEN n \in StopsIn(said)
                 ELSE n = Len(said)

\* A call that is over holds nothing: whichever call of llama.cpp failed, and
\* however many tokens had been decoded, the sampler and the batch are freed.
\* There is one exception: the reservation of the response fails between the
\* sampler and the try block, and then the sampler, and nothing else, is lost.
OnlyReserveLeaks ==
    pc = "idle" => /\ "batch" \notin held
                   /\ "sampler" \in held => outcome = "unreserved" /\ said = <<>>
=============================================================================
