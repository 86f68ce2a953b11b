------------------------------- MODULE Chunker --------------------------------
(***************************************************************************)
(* chunk_text_multi_scale (src/src/chunker.cpp): a text is cut once per    *)
(* scale into overlapping chunks, at UTF-8 code points and, where it can   *)
(* be, after white space.  chunk_text alone is the list of one scale.      *)
(*                                                                         *)
(* A byte is what the chunker can tell of it: white space (one byte), a    *)
(* continuation byte, or any other byte, which starts a code point.        *)
(***************************************************************************)
EXTENDS Integers, Sequences, FiniteSetsExt

CONSTANTS
    Texts,      \* the texts to cut
    ScaleLists  \* the lists of scales, each [max |-> max_bytes, overlap |-> overlap_bytes]

Byte == {"lead", "cont", "space"}

ASSUME ChunkerAssumption ==
    /\ Texts \subseteq Seq(Byte)
    /\ ScaleLists \subseteq Seq([max : Nat, overlap : Nat])

VARIABLES
    text,   \* the text
    scales, \* its scales, cut one after the other
    pc,     \* "scale": the next scale starts, "loop": chunk_text's loop
    scale,  \* the number of scales that are done, which is the current one's index
    begin,  \* the start of the next chunk
    chunks  \* what has been cut: a chunk's place in the vector is (scale, begin)

vars == <<text, scales, pc, scale, begin, chunks>>

------------------------------------------------------------------------------
\* Offsets are 0-based, as in the code; offset Len(text) is past the end.
Is(class, p) == text[p + 1] = class

\* A code point starts at p, or the text ends there.
Boundary(p) == p = Len(text) \/ ~Is("cont", p)

AdvanceToCodepoint(p) == Min({q \in p..Len(text) : Boundary(q)})

Smaller(a, b) == IF a <= b THEN a ELSE b

\* Mutant of SafeEnd: the end is not moved back to a code point.
AnyEnd(b, hard) == hard

\* The last code point of the window, or its beginning when there is none.
SafeEnd(b, hard) == Max({p \in b..hard : p = b \/ ~Is("cont", p)})

\* Mutant of ChooseEnd: the window is one byte too long.
LongEnd(b, max) ==
    LET hard == Smaller(Len(text), b + max + 1)
    IN  IF hard = Len(text) THEN hard ELSE SafeEnd(b, hard)

\* Mutant of ChooseEnd: white space anywhere in the window ends the chunk.
EarlyEnd(b, max) ==
    LET hard == Smaller(Len(text), b + max)
        safe == SafeEnd(b, hard)
        breaks == {c \in (b + 1)..safe : Is("space", c - 1)}
    IN  IF hard = Len(text) THEN hard
        ELSE IF breaks # {} THEN Max(breaks)
        ELSE IF safe > b THEN safe ELSE hard

ChooseEnd(b, max) ==
    LET hard == Smaller(Len(text), b + max)
        safe == SafeEnd(b, hard)
        breaks == {c \in (b + max \div 2 + 1)..safe : Is("space", c - 1)}
    IN  IF hard = Len(text) THEN hard
        ELSE IF breaks # {} THEN Max(breaks)
        ELSE IF safe > b THEN safe ELSE hard

\* Mutant of NextBegin: the overlap is not clamped to the chunk.
UnclampedBegin(b, end, overlap) == AdvanceToCodepoint(end - Smaller(overlap, end))

\* The overlap is clamped to end - b - 1, so that the next start is after b.
NextBegin(b, end, overlap) == AdvanceToCodepoint(end - Smaller(overlap, end - b - 1))

------------------------------------------------------------------------------
Init == /\ text \in Texts
        /\ scales \in ScaleLists
        /\ pc = "scale"
        /\ scale = 0
        /\ begin = 0
        /\ chunks = {}

Options == scales[scale + 1]

Valid(options) == options.max > 0 /\ options.overlap < options.max

\* Mutant of StartScale: the offset of the last scale is kept.
KeepBegin ==
    /\ pc = "scale" /\ scale < Len(scales)
    /\ Valid(Options)
    /\ pc' = "loop"
    /\ UNCHANGED <<text, scales, scale, begin, chunks>>

\* chunk_text(text, source, scales[scale]) with options that pass its checks.
StartScale ==
    /\ pc = "scale" /\ scale < Len(scales)
    /\ Valid(Options)
    /\ pc' = "loop"
    /\ begin' = 0
    /\ UNCHANGED <<text, scales, scale, chunks>>

\* No scale at all, or options that chunk_text refuses: nothing is returned.
Throw ==
    /\ pc = "scale"
    /\ \/ scales = <<>>
       \/ scale < Len(scales) /\ ~Valid(Options)
    /\ pc' = "thrown"
    /\ chunks' = {}
    /\ UNCHANGED <<text, scales, scale, begin>>

\* One round of the loop: a chunk, and the start of the next one unless this
\* chunk ends the text.
Cut ==
    LET end == ChooseEnd(begin, Options.max)
        chunk == [scale |-> scale, begin |-> begin, end |-> end]
    IN  /\ pc = "loop" /\ begin < Len(text)
        /\ chunks' = chunks \cup {chunk}
        /\ IF end = Len(text)
           THEN pc' = "scale" /\ scale' = scale + 1 /\ UNCHANGED begin
           ELSE begin' = NextBegin(begin, end, Options.overlap) /\ UNCHANGED <<pc, scale>>
        /\ UNCHANGED <<text, scales>>

\* The loop ends because no text is left.
EndLoop ==
    /\ pc = "loop" /\ begin >= Len(text)
    /\ pc' = "scale"
    /\ scale' = scale + 1
    /\ UNCHANGED <<text, scales, begin, chunks>>

Return ==
    /\ pc = "scale" /\ scales # <<>> /\ scale = Len(scales)
    /\ pc' = "returned"
    /\ UNCHANGED <<text, scales, scale, begin, chunks>>

Stopped == pc \in {"returned", "thrown"} /\ UNCHANGED vars

Next == StartScale \/ Throw \/ Cut \/ EndLoop \/ Return \/ Stopped

Spec == Init /\ [][Next]_vars /\ WF_vars(Next)

------------------------------------------------------------------------------
(* Properties                                                              *)

Chunk == [scale : Nat, begin : Nat, end : Nat]

\* Every variable keeps its type, and offsets stay within the text.
TypeOK ==
    /\ text \in Texts /\ scales \in ScaleLists
    /\ pc \in {"scale", "loop", "returned", "thrown"}
    /\ scale \in 0..Len(scales)
    /\ pc = "loop" => scale < Len(scales) /\ Valid(Options)
    /\ begin \in 0..Len(text)
    /\ chunks \subseteq Chunk

\* Well-formed UTF-8, as far as bytes are told apart: a continuation byte
\* follows the lead byte, or a continuation, of its code point.
WellFormed == \A p \in 0..(Len(text) - 1) :
    Is("cont", p) => p > 0 /\ ~Is("space", p - 1)

\* No code point is wider than max bytes.
CodePointsFit(max) == \A p \in 0..(Len(text) - max) :
    \E q \in p..(p + max - 1) : ~Is("cont", q)

\* A chunk is not empty and never exceeds max_bytes, whatever the bytes are.
ChunksFitTheScale ==
    \A c \in chunks : /\ c.scale < Len(scales)
                      /\ c.begin < c.end /\ c.end <= Len(text)
                      /\ c.end - c.begin <= scales[c.scale + 1].max

\* A chunk of well-formed text starts and ends where a code point does, if the
\* scale's max_bytes can hold one.
CutsOnCodePoints ==
    \A c \in chunks : WellFormed /\ CodePointsFit(scales[c.scale + 1].max)
                          => Boundary(c.begin) /\ Boundary(c.end)

Covered(s, p) == \E c \in chunks : c.scale = s /\ c.begin <= p /\ p < c.end

\* No text is lost: a scale that is done has every byte in one of its chunks.
NothingIsLost ==
    pc # "thrown" => \A s \in 0..(scale - 1) :
        WellFormed /\ CodePointsFit(scales[s + 1].max)
            => \A p \in 0..(Len(text) - 1) : Covered(s, p)

\* An overlap of at most half of max_bytes, with the rest wide enough for every
\* code point.
Roomy(options) == /\ 2 * options.overlap <= options.max
                  /\ CodePointsFit(options.max - options.overlap)

\* Each passage that starts at p and is at most one byte longer than the overlap
\* is in one chunk of the scale.
WholeFrom(s, p) ==
    \A n \in 1..(scales[s + 1].overlap + 1) :
        p + n <= Len(text) => \E c \in chunks : /\ c.scale = s
                                               /\ c.begin <= p /\ p + n <= c.end

\* What the overlap is for: wherever the cuts fall, a passage that is no longer
\* is not torn by them but stands whole in some chunk, malformed text included.
PassagesStayWhole ==
    pc # "thrown" => \A s \in 0..(scale - 1) :
        Roomy(scales[s + 1])
            => \A p \in 0..(Len(text) - 1) : Boundary(p) => WholeFrom(s, p)

\* The loop never cuts the same chunk again: the start of the next one is
\* strictly after the start of this one, malformed text included.
StartsAdvance == [][pc = "loop" /\ pc' = "loop" => begin' > begin]_vars

\* The chunker returns or throws for every text and every list of scales.
Terminates == <>(pc \in {"returned", "thrown"})
=============================================================================
