----------------------------- MODULE PromptBuilder -----------------------------
(***************************************************************************)
(* build_rag_prompt (src/src/prompt_builder.cpp): fit_chunks keeps the     *)
(* retrieved chunks that a byte budget has room for, and their texts are   *)
(* quoted, escaped, between fences.                                        *)
(*                                                                         *)
(* A text is a sequence over the three characters that markers are made of *)
(* and one ordinary character.  Fixed wording counts by its size alone.    *)
(***************************************************************************)
EXTENDS SizeT, Sums, SequencesExt

CONSTANTS
    ChunkLists,  \* the retrieved chunks: sequences of texts
    Budgets,     \* the values of max_bytes; 0 is no budget
    HeaderSizes, \* the sizes of the context header, without and with a system prompt
    FrameSize,   \* the bytes around a chunk's text: its id and the fences
    OtherSizes   \* the bytes of the system prompt and the query, with their headers

Character == {"<", "|", ">", "x"}

ASSUME PromptAssumption ==
    /\ ChunkLists \subseteq Seq(Seq(Character))
    /\ FrameSize \in Nat
    /\ Budgets \subseteq 0..SizeMax
    /\ HeaderSizes \subseteq 1..SizeMax
    /\ OtherSizes \subseteq 0..SizeMax

VARIABLES
    chunks,   \* the chunks, the most relevant one first
    budget,   \* max_bytes
    header,   \* the size of the context header
    other,    \* the size of the other sections
    stage,    \* "fit", "append", "returned" or "thrown"
    used,     \* fit_chunks: the size of the context section with the chunks it keeps
    included, \* fit_chunks: how many it keeps
    quoted    \* the escaped texts that have been appended

promptVars == <<chunks, budget, header, other, stage, used, included, quoted>>

------------------------------------------------------------------------------
\* Mutant of NeedsEscape: only runs of angle brackets are broken up.
BracketsOnly(current, next) == current = next /\ current \in {"<", ">"}

NeedsEscape(current, next) ==
    <<current, next>> \in {<<"<", "<">>, <<"<", "|">>, <<">", ">">>, <<"|", ">">>}

\* The positions of text that a space is put after.
Escapes(text) == {i \in 1..(Len(text) - 1) : NeedsEscape(text[i], text[i + 1])}

\* Mutant of EscapedSize: the inserted spaces are not counted.
PlainSize(text) == Len(text)

EscapedSize(text) == Len(text) + Cardinality(Escapes(text))

\* Mutant of Escaped: a character goes missing where a space is put.
Replaced(text) ==
    [i \in 1..Len(text) |-> IF i \in Escapes(text) THEN " " ELSE text[i]]

\* append_escaped.
Escaped(text) ==
    FlattenSeq([i \in 1..Len(text) |->
                    IF i \in Escapes(text) THEN <<text[i], " ">> ELSE <<text[i]>>])

ChunkSize(text) == FrameSize + EscapedSize(text)

------------------------------------------------------------------------------
PromptInit ==
    /\ chunks \in ChunkLists
    /\ budget \in Budgets
    /\ header \in HeaderSizes
    /\ other \in OtherSizes
    /\ stage = "fit"
    /\ used = header
    /\ included = 0
    /\ quoted = <<>>

\* The section of the first n chunks; and all that is then reserved for.
SectionSize(n) == header + Total([i \in 1..n |-> ChunkSize(chunks[i])])
Required(n) == SectionSize(n) + other

\* Mutant of Reserve: the sizes are added up without add_size.
ReserveAnyway(n) ==
    /\ included' = n
    /\ stage' = "append"
    /\ UNCHANGED <<chunks, budget, header, other, used, quoted>>

\* fit_chunks has come to keep n chunks: room for the whole prompt is reserved,
\* unless add_size finds that its size has no std::size_t.
Reserve(n) ==
    /\ included' = n
    /\ stage' = IF Required(n) > SizeMax THEN "thrown" ELSE "append"
    /\ UNCHANGED <<chunks, budget, header, other, used, quoted>>

Unbounded == stage = "fit" /\ budget = 0 /\ Reserve(Len(chunks))

\* Mutant of Room: a chunk may overshoot the budget by one byte.
RoomPlusOne == Wrapped(budget - used) + 1

\* What fit_chunks believes is left of the budget.
Room == Wrapped(budget - used)

FitChunk ==
    /\ stage = "fit" /\ budget # 0 /\ included < Len(chunks)
    /\ ChunkSize(chunks[included + 1]) <= Room
    /\ used' = Wrapped(used + ChunkSize(chunks[included + 1]))
    /\ included' = included + 1
    /\ UNCHANGED <<chunks, budget, header, other, stage, quoted>>

\* chunk_size finds that a chunk's size has no std::size_t.
ChunkTooLarge ==
    /\ stage = "fit" /\ budget # 0 /\ included < Len(chunks)
    /\ ChunkSize(chunks[included + 1]) > SizeMax
    /\ stage' = "thrown"
    /\ UNCHANGED <<chunks, budget, header, other, used, included, quoted>>

\* Mutant of Break: the last chunk that fits is left out as well.
BreakEarly ==
    /\ stage = "fit" /\ budget # 0 /\ included < Len(chunks)
    /\ ChunkSize(chunks[included + 1]) \in (Room + 1)..SizeMax
    /\ Reserve(IF included > 0 THEN included - 1 ELSE 0)

\* The first chunk that does not fit ends the prefix, whatever comes after it.
Break ==
    /\ stage = "fit" /\ budget # 0 /\ included < Len(chunks)
    /\ ChunkSize(chunks[included + 1]) \in (Room + 1)..SizeMax
    /\ Reserve(included)

AllFit == stage = "fit" /\ budget # 0 /\ included = Len(chunks) /\ Reserve(included)

AppendChunk ==
    /\ stage = "append" /\ Len(quoted) < included
    /\ quoted' = Append(quoted, Escaped(chunks[Len(quoted) + 1]))
    /\ UNCHANGED <<chunks, budget, header, other, stage, used, included>>

Return ==
    /\ stage = "append" /\ Len(quoted) = included
    /\ stage' = "returned"
    /\ UNCHANGED <<chunks, budget, header, other, used, included, quoted>>

Stopped == stage \in {"returned", "thrown"} /\ UNCHANGED promptVars

PromptNext ==
    \/ Unbounded \/ FitChunk \/ ChunkTooLarge \/ Break \/ AllFit
    \/ AppendChunk \/ Return \/ Stopped

PromptSpec == PromptInit /\ [][PromptNext]_promptVars

------------------------------------------------------------------------------
(* Properties                                                              *)

\* Every variable keeps its type, and what is appended to has a size.
PromptTypeOK ==
    /\ chunks \in ChunkLists /\ budget \in Budgets
    /\ header \in HeaderSizes /\ other \in OtherSizes
    /\ stage \in {"fit", "append", "returned", "thrown"}
    /\ used \in 0..SizeMax
    /\ included \in 0..Len(chunks)
    /\ Len(quoted) <= included
    /\ stage \in {"append", "returned"} => Required(included) <= SizeMax

\* The bytes that the context section really has.
WrittenSize == header + Total([i \in 1..Len(quoted) |-> FrameSize + Len(quoted[i])])

\* The budget bounds the context section that is written, escapes included,
\* if it has room for the header that is always written.
BudgetIsKept == budget >= header => WrittenSize <= budget

\* What is reserved is what is written: append never has to grow the string.
ReservedExactly == stage = "returned" => WrittenSize = SectionSize(included)

\* With such a budget, chunks are dropped only from the end, and none without
\* need: the first one that is dropped would have gone over.
NoChunkIsDroppedForNothing ==
    stage = "returned" /\ (budget = 0 \/ budget >= header) /\ included < Len(chunks) =>
        budget # 0 /\ SectionSize(included + 1) > budget

\* Quoted text has no pair of characters that a fence or a chat turn is made of.
NoMarkerIsQuoted ==
    \A n \in 1..Len(quoted) : \A i \in 1..(Len(quoted[n]) - 1) :
        <<quoted[n][i], quoted[n][i + 1]>> \notin
            {<<"<", "<">>, <<">", ">">>, <<"<", "|">>, <<"|", ">">>}

WithoutSpaces(text) ==
    FlattenSeq([i \in 1..Len(text) |-> IF text[i] = " " THEN <<>> ELSE <<text[i]>>])

\* Escaping only inserts spaces: without them the text is what it was.
QuotesAreReadable == \A n \in 1..Len(quoted) : WithoutSpaces(quoted[n]) = chunks[n]
=============================================================================
