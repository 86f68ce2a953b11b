---------------------------- MODULE ChunkerProofs -----------------------------
(***************************************************************************)
(* Proofs about Chunker, for every text and every list of scales.          *)
(***************************************************************************)
EXTENDS Chunker, RecursionTheorems

------------------------------------------------------------------------------
(* The cuts.                                                               *)

LEMMA AdvanceIsBoundary ==
    ASSUME text \in Seq(Byte), NEW p \in 0..Len(text)
    PROVE  LET q == AdvanceToCodepoint(p)
           IN  /\ q \in p..Len(text) /\ Boundary(q)
               /\ \A x \in p..(q - 1) : ~Boundary(x)
<1> DEFINE T == {q \in p..Len(text) : Boundary(q)}
<1>1. Len(text) \in Nat
  OBVIOUS
<1>2. T \in SUBSET Nat /\ Len(text) \in T
  BY <1>1, SMT DEF Boundary
<1>3. Min(T) \in T /\ \A y \in T : Min(T) <= y
  BY <1>2, MinIsLeast
<1>4. AdvanceToCodepoint(p) = Min(T)
  BY DEF AdvanceToCodepoint
<1> DEFINE q == Min(T)
<1>5. q \in p..Len(text) /\ Boundary(q)
  BY <1>3
<1>6. ASSUME NEW x \in p..(q - 1), Boundary(x) PROVE FALSE
  <2>1. x \in p..Len(text)
    BY <1>1, <1>5, SMT
  <2>2. q <= x
    BY <1>3, <1>6, <2>1
  <2> QED BY <1>1, <1>5, <2>1, <2>2, SMT
<1> QED BY <1>4, <1>5, <1>6

LEMMA SafeEndIsLast ==
    ASSUME text \in Seq(Byte), NEW hard \in Nat, NEW b \in 0..hard, hard < Len(text)
    PROVE  LET s == SafeEnd(b, hard)
           IN  /\ s \in b..hard
               /\ s = b \/ Boundary(s)
               /\ s = b => \A p \in (b + 1)..hard : Is("cont", p)
               /\ \A p \in b..hard : ~Is("cont", p) => p <= s
<1> DEFINE T == {p \in b..hard : p = b \/ ~Is("cont", p)}
<1>1. T \in SUBSET (0..hard) /\ b \in T
  BY SMT
<1>2. Max(T) \in T /\ \A y \in T : y <= Max(T)
  BY <1>1, MaxIsGreatest
<1>3. SafeEnd(b, hard) = Max(T)
  BY DEF SafeEnd
<1> DEFINE s == Max(T)
<1>4. s \in b..hard /\ (s = b \/ Boundary(s))
  BY <1>2 DEF Boundary
<1>5. ASSUME s = b, NEW p \in (b + 1)..hard, ~Is("cont", p) PROVE FALSE
  <2>1. p \in T
    BY <1>5, SMT
  <2>2. p <= b
    BY <1>2, <1>5, <2>1
  <2> QED BY <2>2, SMT
<1>6. ASSUME NEW p \in b..hard, ~Is("cont", p) PROVE p <= s
  <2>1. p \in T
    BY <1>6
  <2> QED BY <1>2, <2>1
<1> QED BY <1>3, <1>4, <1>5, <1>6

LEMMA ChooseEndFits ==
    ASSUME text \in Seq(Byte), NEW b \in 0..(Len(text) - 1), NEW max \in Nat, max > 0
    PROVE  LET end == ChooseEnd(b, max)
           IN  /\ end \in (b + 1)..Len(text)
               /\ end - b <= max
               /\ WellFormed /\ CodePointsFit(max) => Boundary(end)
<1> DEFINE hard == Smaller(Len(text), b + max)
<1> DEFINE safe == SafeEnd(b, hard)
<1> DEFINE breaks == {c \in (b + max \div 2 + 1)..safe : Is("space", c - 1)}
<1> DEFINE end == ChooseEnd(b, max)
<1>1. Len(text) \in Nat /\ b \in Nat /\ b < Len(text)
  BY SMT
<1>2. hard \in (b + 1)..Len(text) /\ hard <= b + max
  BY <1>1, SMT DEF Smaller
<1>3. CASE hard = Len(text)
  <2>1. end = hard
    BY <1>3 DEF ChooseEnd
  <2> HIDE DEF hard, end
  <2>2. end \in (b + 1)..Len(text) /\ end - b <= max
    BY <1>1, <1>2, <2>1, SMT
  <2>3. Boundary(end)
    BY <1>3, <2>1 DEF Boundary
  <2> QED BY <2>2, <2>3 DEF end
<1>4. CASE hard # Len(text)
  <2>1. hard = b + max /\ hard < Len(text) /\ hard \in Nat /\ b \in 0..hard
    BY <1>1, <1>2, <1>4, SMT DEF Smaller
  <2> HIDE DEF hard
  <2>2. /\ safe \in b..hard
        /\ safe = b \/ Boundary(safe)
        /\ safe = b => \A p \in (b + 1)..hard : Is("cont", p)
    BY <2>1, SafeEndIsLast
  <2> HIDE DEF safe
  <2>3. CASE breaks # {}
    <3>1. end = Max(breaks)
      BY <1>4, <2>3 DEF ChooseEnd, hard, safe
    <3>2. max \div 2 \in Nat
      BY SMT
    <3>3. breaks \in SUBSET (0..hard)
      BY <1>1, <2>1, <2>2, <3>2, SMT
    <3>4. end \in breaks
      BY <2>1, <2>3, <3>1, <3>3, MaxIsGreatest
    <3>5. end \in (b + max \div 2 + 1)..safe /\ Is("space", end - 1)
      BY <3>4
    <3>6. end \in (b + 1)..hard
      BY <1>1, <2>1, <2>2, <3>2, <3>5, SMT
    <3> HIDE DEF end
    <3>7. WellFormed => Boundary(end)
      <4> SUFFICES ASSUME WellFormed, Is("cont", end) PROVE FALSE
        BY DEF Boundary
      <4>1. end \in 0..(Len(text) - 1)
        BY <1>1, <2>1, <3>6, SMT
      <4>2. ~Is("space", end - 1)
        BY <4>1 DEF WellFormed
      <4> QED BY <3>5, <4>2
    <3>8. end \in (b + 1)..Len(text) /\ end - b <= max
      BY <1>1, <2>1, <3>6, SMT
    <3> QED BY <3>7, <3>8 DEF end
  <2>4. CASE breaks = {} /\ safe > b
    <3>1. end = safe
      BY <1>4, <2>4 DEF ChooseEnd, hard, safe
    <3> HIDE DEF end
    <3>2. Boundary(end)
      BY <2>2, <2>4, <3>1, <2>1, SMT
    <3>3. end \in (b + 1)..Len(text) /\ end - b <= max
      BY <1>1, <2>1, <2>2, <2>4, <3>1, SMT
    <3> QED BY <3>2, <3>3 DEF end
  <2>5. CASE breaks = {} /\ ~(safe > b)
    <3>1. end = hard
      BY <1>4, <2>5 DEF ChooseEnd, hard, safe
    <3>2. safe = b
      BY <2>1, <2>2, <2>5, SMT
    <3> HIDE DEF end
    <3>3. ~CodePointsFit(max)
      <4>1. b + 1 \in 0..(Len(text) - max)
        BY <1>1, <2>1, SMT
      <4>2. (b + 1)..(b + 1 + max - 1) = (b + 1)..hard
        BY <1>1, <2>1, SMT
      <4> QED BY <2>2, <3>2, <4>1, <4>2 DEF CodePointsFit
    <3>4. end \in (b + 1)..Len(text) /\ end - b <= max
      BY <1>1, <1>2, <2>1, <3>1, SMT
    <3> QED BY <3>3, <3>4 DEF end
  <2> QED BY <2>3, <2>4, <2>5
<1> QED BY <1>3, <1>4

\* Neither white space nor a code point takes so much of a window that the
\* overlap does not fit in what is left.
LEMMA RoomyEnd ==
    ASSUME text \in Seq(Byte), NEW b \in 0..(Len(text) - 1),
           NEW max \in Nat, NEW overlap \in Nat, overlap < max,
           2 * overlap <= max, CodePointsFit(max - overlap)
    PROVE  \/ ChooseEnd(b, max) = Len(text)
           \/ ChooseEnd(b, max) >= b + overlap + 1
<1> DEFINE hard == Smaller(Len(text), b + max)
<1> DEFINE safe == SafeEnd(b, hard)
<1> DEFINE breaks == {c \in (b + max \div 2 + 1)..safe : Is("space", c - 1)}
<1> DEFINE end == ChooseEnd(b, max)
<1>1. Len(text) \in Nat /\ b \in Nat /\ b < Len(text)
  BY SMT
<1>2. CASE hard = Len(text)
  BY <1>2 DEF ChooseEnd
<1>3. CASE hard # Len(text)
  <2>1. hard = b + max /\ hard < Len(text) /\ hard \in Nat /\ b \in 0..hard
    BY <1>1, <1>3, SMT DEF Smaller
  <2>2. overlap <= max \div 2 /\ max \div 2 \in Nat
    BY SMT
  <2> HIDE DEF hard
  <2>3. /\ safe \in b..hard
        /\ \A p \in b..hard : ~Is("cont", p) => p <= safe
    BY <2>1, SafeEndIsLast
  <2>4. safe >= b + overlap + 1
    <3> DEFINE first == b + overlap + 1
    <3>1. first \in 0..(Len(text) - (max - overlap))
      BY <1>1, <2>1, SMT
    <3>2. PICK q \in first..(first + (max - overlap) - 1) : ~Is("cont", q)
      BY <3>1 DEF CodePointsFit
    <3>3. q \in b..hard /\ q >= first
      BY <1>1, <2>1, <3>2, SMT
    <3>4. q <= safe
      BY <2>3, <3>2, <3>3
    <3> HIDE DEF safe
    <3> QED BY <1>1, <2>1, <2>3, <3>3, <3>4, SMT
  <2> HIDE DEF safe
  <2>5. CASE breaks # {}
    <3>1. end = Max(breaks)
      BY <1>3, <2>5 DEF ChooseEnd, hard, safe
    <3>2. breaks \in SUBSET (0..hard)
      BY <1>1, <2>1, <2>2, <2>3, SMT
    <3>3. end \in breaks
      BY <2>1, <2>5, <3>1, <3>2, MaxIsGreatest
    <3>4. end \in (b + max \div 2 + 1)..safe
      BY <3>3
    <3> HIDE DEF end, breaks
    <3>5. end >= b + overlap + 1
      BY <1>1, <2>1, <2>2, <2>3, <3>4, SMT
    <3> QED BY <3>5 DEF end
  <2>6. CASE breaks = {}
    <3>1. safe > b
      BY <1>1, <2>1, <2>3, <2>4, SMT
    <3>2. end = safe
      BY <1>3, <2>6, <3>1 DEF ChooseEnd, hard, safe
    <3> QED BY <2>4, <3>2
  <2> QED BY <2>5, <2>6
<1> QED BY <1>2, <1>3

LEMMA NextBeginAdvances ==
    ASSUME text \in Seq(Byte), NEW b \in 0..(Len(text) - 1), NEW end \in (b + 1)..Len(text),
           NEW overlap \in Nat
    PROVE  LET first == end - Smaller(overlap, end - b - 1)
               q == NextBegin(b, end, overlap)
           IN  /\ first \in (b + 1)..end
               /\ q \in first..Len(text) /\ q > b
               /\ \A x \in first..(q - 1) : ~Boundary(x)
               /\ Boundary(q)
               /\ Boundary(end) => q <= end
<1> DEFINE first == end - Smaller(overlap, end - b - 1)
<1> DEFINE q == NextBegin(b, end, overlap)
<1>1. Len(text) \in Nat
  OBVIOUS
<1>2. first \in (b + 1)..end /\ first \in 0..Len(text)
  BY <1>1, SMT DEF Smaller
<1>3. q = AdvanceToCodepoint(first)
  BY DEF NextBegin
<1> HIDE DEF first, q
<1>4. q \in first..Len(text) /\ Boundary(q) /\ \A x \in first..(q - 1) : ~Boundary(x)
  BY <1>2, <1>3, AdvanceIsBoundary
<1>5. q > b
  BY <1>1, <1>2, <1>4, SMT
<1>6. Boundary(end) => q <= end
  <2> SUFFICES ASSUME q > end, Boundary(end) PROVE FALSE
    BY <1>1, <1>2, <1>4, SMT
  <2>1. end \in first..(q - 1)
    BY <1>1, <1>2, <1>4, SMT
  <2> QED BY <1>4, <2>1
<1> QED BY <1>2, <1>4, <1>5, <1>6 DEF first, q

------------------------------------------------------------------------------
(* The inductive invariant.                                                *)

Fits(s) == WellFormed /\ CodePointsFit(scales[s + 1].max)

Inv ==
    /\ TypeOK
    /\ ChunksFitTheScale
    /\ CutsOnCodePoints
    /\ NothingIsLost
    \* Within a scale, every byte before the next start is in a chunk.
    /\ pc = "loop" => Boundary(begin) \/ begin = 0
    /\ pc = "loop" /\ Fits(scale) => \A p \in 0..(begin - 1) : Covered(scale, p)

\* What the options of the current scale are while its text is cut.
LEMMA OptionsTyped ==
    ASSUME TypeOK, scale < Len(scales)
    PROVE  /\ text \in Seq(Byte) /\ Len(text) \in Nat
           /\ scale \in Nat /\ scale + 1 \in 1..Len(scales) /\ begin \in 0..Len(text)
           /\ Options \in [max : Nat, overlap : Nat]
<1>1. text \in Seq(Byte) /\ scales \in Seq([max : Nat, overlap : Nat]) /\ scale \in 0..Len(scales)
  BY ChunkerAssumption DEF TypeOK
<1>2. Len(scales) \in Nat /\ Len(text) \in Nat
  BY <1>1
<1>3. scale \in Nat /\ scale + 1 \in 1..Len(scales)
  BY <1>1, <1>2, SMT
<1>4. scales[scale + 1] \in [max : Nat, overlap : Nat]
  <2> DEFINE S == [max : Nat, overlap : Nat]
  <2>1. scales \in Seq(S)
    BY <1>1
  <2> HIDE DEF S
  <2>2. scales[scale + 1] \in S
    BY <1>3, <2>1, ElementOfSeq
  <2> QED BY <2>2 DEF S
<1> QED BY <1>1, <1>2, <1>3, <1>4 DEF TypeOK, Options

LEMMA InitInv == Init => Inv
<1> SUFFICES ASSUME Init PROVE Inv
  OBVIOUS
<1>1. text \in Seq(Byte) /\ scales \in Seq([max : Nat, overlap : Nat])
  BY ChunkerAssumption DEF Init
<1>2. Len(text) \in Nat /\ Len(scales) \in Nat
  BY <1>1
<1>3. TypeOK
  BY <1>2, SMT DEF Init, TypeOK
<1>4. ChunksFitTheScale /\ CutsOnCodePoints
  BY DEF Init, ChunksFitTheScale, CutsOnCodePoints
<1>5. NothingIsLost
  <2>1. 0..(scale - 1) = {}
    BY SMT DEF Init
  <2> QED BY <2>1 DEF NothingIsLost
<1> QED BY <1>3, <1>4, <1>5 DEF Inv, Init

\* The facts about one round of the loop that the invariant needs.
LEMMA CutFacts ==
    ASSUME Inv, Cut
    PROVE  LET end == ChooseEnd(begin, Options.max)
           IN  /\ begin \in 0..(Len(text) - 1)
               /\ Options.max \in Nat /\ Options.max > 0 /\ Options.overlap \in Nat
               /\ end \in (begin + 1)..Len(text)
               /\ end - begin <= Options.max
               /\ Fits(scale) => Boundary(end)
               /\ Fits(scale) => Boundary(begin)
<1>1. scale < Len(scales) /\ Valid(Options) /\ TypeOK /\ pc = "loop"
  BY DEF Inv, Cut, TypeOK
<1>2. /\ text \in Seq(Byte) /\ Len(text) \in Nat /\ begin \in 0..Len(text)
      /\ Options \in [max : Nat, overlap : Nat]
  BY <1>1, OptionsTyped
<1>3. begin \in 0..(Len(text) - 1)
  BY <1>2, SMT DEF Cut
<1>4. Options.max \in Nat /\ Options.max > 0 /\ Options.overlap \in Nat
  BY <1>1, <1>2 DEF Valid
<1>5. LET end == ChooseEnd(begin, Options.max)
      IN  /\ end \in (begin + 1)..Len(text)
          /\ end - begin <= Options.max
          /\ WellFormed /\ CodePointsFit(Options.max) => Boundary(end)
  BY <1>2, <1>3, <1>4, ChooseEndFits
<1>6. Fits(scale) => Boundary(begin)
  <2>1. WellFormed => Boundary(0)
    <3> SUFFICES ASSUME WellFormed, Is("cont", 0) PROVE FALSE
      BY DEF Boundary
    <3>1. 0 \in 0..(Len(text) - 1)
      BY <1>2, <1>3, SMT
    <3>2. 0 > 0
      BY <3>1 DEF WellFormed
    <3> QED BY <3>2, SMT
  <2> QED BY <1>1, <2>1 DEF Inv, Fits
<1> QED BY <1>3, <1>4, <1>5, <1>6 DEF Fits, Options

LEMMA Within == \A a, b \in Nat : a <= b => \A p \in 0..(a - 1) : p \in 0..(b - 1)
BY SMT

LEMMA CutInv == Inv /\ Cut => Inv'
<1> SUFFICES ASSUME Inv, Cut PROVE Inv'
  OBVIOUS
<1> DEFINE end == ChooseEnd(begin, Options.max)
<1> DEFINE chunk == [scale |-> scale, begin |-> begin, end |-> end]
<1>1. /\ begin \in 0..(Len(text) - 1)
      /\ Options.max \in Nat /\ Options.max > 0 /\ Options.overlap \in Nat
      /\ end \in (begin + 1)..Len(text)
      /\ end - begin <= Options.max
      /\ Fits(scale) => Boundary(end)
      /\ Fits(scale) => Boundary(begin)
  BY CutFacts
<1>2. /\ TypeOK /\ scale < Len(scales) /\ Valid(Options) /\ pc = "loop"
      /\ text \in Seq(Byte) /\ Len(text) \in Nat
      /\ scale \in Nat /\ scale + 1 \in 1..Len(scales)
  BY OptionsTyped DEF Inv, Cut, TypeOK
<1>3. /\ chunks' = chunks \cup {chunk} /\ UNCHANGED <<text, scales>>
      /\ IF end = Len(text)
         THEN pc' = "scale" /\ scale' = scale + 1 /\ UNCHANGED begin
         ELSE begin' = NextBegin(begin, end, Options.overlap) /\ UNCHANGED <<pc, scale>>
  BY DEF Cut
<1> HIDE DEF end
<1>4. chunk.scale = scale /\ chunk.begin = begin /\ chunk.end = end
  OBVIOUS
<1>5. chunk \in Chunk
  BY <1>1, <1>2, SMT DEF Chunk
<1> HIDE DEF chunk
<1>6. ChunksFitTheScale'
  <2> SUFFICES ASSUME NEW c \in chunks'
               PROVE  /\ c.scale < Len(scales) /\ c.begin < c.end /\ c.end <= Len(text)
                      /\ c.end - c.begin <= scales[c.scale + 1].max
    BY <1>3 DEF ChunksFitTheScale
  <2>1. CASE c \in chunks
    BY <2>1 DEF Inv, ChunksFitTheScale
  <2>2. CASE c = chunk
    <3>1. begin < end /\ end <= Len(text) /\ end - begin <= scales[scale + 1].max
      BY <1>1, <1>2, SMT DEF Options
    <3> QED BY <1>2, <1>4, <2>2, <3>1
  <2> QED BY <1>3, <2>1, <2>2
<1>7. CutsOnCodePoints'
  <2> SUFFICES ASSUME NEW c \in chunks', Fits(c.scale)
               PROVE  Boundary(c.begin) /\ Boundary(c.end)
    BY <1>3 DEF CutsOnCodePoints, Fits, WellFormed, CodePointsFit, Boundary, Is
  <2>1. CASE c \in chunks
    BY <2>1 DEF Inv, CutsOnCodePoints, Fits
  <2>2. CASE c = chunk
    BY <1>1, <1>4, <2>2
  <2> QED BY <1>3, <2>1, <2>2
<1> DEFINE CoveredNow(s, p) == \E c \in chunks' : c.scale = s /\ c.begin <= p /\ p < c.end
<1>8. ASSUME NEW s, NEW p, Covered(s, p) PROVE CoveredNow(s, p)
  BY <1>3, <1>8 DEF Covered
<1>9. ASSUME NEW p \in begin..(end - 1) PROVE CoveredNow(scale, p)
  <2>1. begin <= p /\ p < end
    BY <1>1, <1>9, SMT
  <2>2. chunk \in chunks'
    BY <1>3
  <2> QED BY <1>4, <2>1, <2>2
<1> HIDE DEF CoveredNow
<1>10. ASSUME Fits(scale), NEW p \in 0..(end - 1) PROVE CoveredNow(scale, p)
  <2>1. CASE p < begin
    <3>1. p \in 0..(begin - 1)
      BY <1>1, <1>10, <2>1, SMT
    <3> QED BY <1>2, <1>8, <1>10, <3>1 DEF Inv
  <2>2. CASE ~(p < begin)
    <3>1. p \in begin..(end - 1)
      BY <1>1, <1>10, <2>2, SMT
    <3> QED BY <1>9, <3>1
  <2> QED BY <2>1, <2>2
<1>11. ASSUME NEW s \in 0..(scale - 1), Fits(s), NEW p \in 0..(Len(text) - 1)
       PROVE  CoveredNow(s, p)
  BY <1>2, <1>8, <1>11 DEF Inv, NothingIsLost, Fits
<1>12. \A s : Fits(s)' <=> Fits(s)
  BY <1>3 DEF Fits, WellFormed, CodePointsFit, Is
<1>13. CASE end = Len(text)
  <2>1. pc' = "scale" /\ scale' = scale + 1 /\ begin' = begin
    BY <1>3, <1>13
  <2>2. TypeOK'
    <3>1. scale' \in 0..Len(scales)
      BY <1>2, <2>1, SMT
    <3> QED BY <1>2, <1>3, <1>5, <2>1, <3>1 DEF TypeOK
  <2>3. NothingIsLost'
    <3> SUFFICES ASSUME NEW s \in 0..(scale' - 1), Fits(s), NEW p \in 0..(Len(text) - 1)
                 PROVE  CoveredNow(s, p)
      BY <1>3, <1>12 DEF NothingIsLost, Fits, Covered, CoveredNow
    <3>1. CASE s = scale
      BY <1>10, <1>13, <3>1
    <3>2. CASE s # scale
      <4>1. s \in 0..(scale - 1)
        BY <1>2, <2>1, <3>2, SMT
      <4> QED BY <1>11, <4>1
    <3> QED BY <3>1, <3>2
  <2> QED BY <1>6, <1>7, <2>1, <2>2, <2>3 DEF Inv
<1>14. CASE end # Len(text)
  <2>1. pc' = "loop" /\ scale' = scale /\ begin' = NextBegin(begin, end, Options.overlap)
    BY <1>2, <1>3, <1>14
  <2>2. /\ begin' \in 0..Len(text) /\ Boundary(begin')
        /\ Boundary(end) => begin' <= end
    <3> DEFINE first == end - Smaller(Options.overlap, end - begin - 1)
    <3>1. /\ first \in (begin + 1)..end
          /\ begin' \in first..Len(text)
          /\ Boundary(begin')
          /\ Boundary(end) => begin' <= end
      BY <1>1, <1>2, <2>1, NextBeginAdvances
    <3> HIDE DEF first
    <3>2. begin' \in 0..Len(text)
      BY <1>1, <1>2, <3>1, SMT
    <3> QED BY <3>1, <3>2
  <2>3. TypeOK'
    BY <1>2, <1>3, <1>5, <2>1, <2>2 DEF TypeOK, Options
  <2>4. NothingIsLost'
    <3> SUFFICES ASSUME NEW s \in 0..(scale - 1), Fits(s), NEW p \in 0..(Len(text) - 1)
                 PROVE  CoveredNow(s, p)
      BY <1>3, <1>12, <2>1 DEF NothingIsLost, Fits, Covered, CoveredNow
    <3> QED BY <1>11
  <2>5. ASSUME Fits(scale), NEW p \in 0..(begin' - 1) PROVE CoveredNow(scale, p)
    <3>1. begin' <= end
      BY <1>1, <2>2, <2>5
    <3>2. begin' \in Nat /\ end \in Nat
      BY <1>1, <1>2, <2>2, SMT
    <3>3. p \in 0..(begin' - 1)
      OBVIOUS
    <3>4. p \in 0..(end - 1)
      BY <3>1, <3>2, <3>3, Within
    <3> QED BY <1>10, <2>5, <3>4
  <2>6. Boundary(begin)'
    BY <1>3, <2>2 DEF Boundary, Is
  <2>7. (Fits(scale) => \A p \in 0..(begin - 1) : Covered(scale, p))'
    <3> SUFFICES ASSUME Fits(scale), NEW p \in 0..(begin' - 1) PROVE CoveredNow(scale, p)
      BY <1>3, <2>1 DEF Fits, WellFormed, CodePointsFit, Is, Covered, CoveredNow
    <3> QED BY <2>5
  <2> QED BY <1>6, <1>7, <2>1, <2>3, <2>4, <2>6, <2>7 DEF Inv
<1> QED BY <1>13, <1>14

LEMMA NextInv == Inv /\ [Next]_vars => Inv'
<1> SUFFICES ASSUME Inv, [Next]_vars PROVE Inv'
  OBVIOUS
<1>1. ASSUME UNCHANGED <<text, scales, chunks>>
      PROVE  /\ ChunksFitTheScale' /\ CutsOnCodePoints'
             /\ \A s : Fits(s)' <=> Fits(s)
             /\ \A s, p : Covered(s, p)' <=> Covered(s, p)
  BY <1>1 DEF Inv, ChunksFitTheScale, CutsOnCodePoints, Fits, WellFormed, CodePointsFit,
              Boundary, Is, Covered
<1>2. CASE StartScale
  <2>1. UNCHANGED <<text, scales, scale, chunks>> /\ pc = "scale" /\ pc' = "loop" /\ begin' = 0
    BY <1>2 DEF StartScale
  <2>2. TypeOK'
    <3>1. text \in Seq(Byte) /\ scale < Len(scales) /\ Valid(Options)
      BY <1>2, ChunkerAssumption DEF Inv, TypeOK, StartScale
    <3>2. 0 \in 0..Len(text)
      BY <3>1, SMT
    <3> QED BY <2>1, <3>1, <3>2 DEF Inv, TypeOK, Options
  <2>3. NothingIsLost'
    BY <1>1, <2>1 DEF Inv, NothingIsLost, Fits
  <2>4. 0..(0 - 1) = {}
    BY SMT
  <2> QED BY <1>1, <2>1, <2>2, <2>3, <2>4 DEF Inv
<1>3. CASE Throw
  BY <1>3 DEF Throw, Inv, TypeOK, ChunksFitTheScale, CutsOnCodePoints, NothingIsLost
<1>4. CASE Cut
  BY <1>4, CutInv
<1>5. CASE EndLoop
  <2>1. /\ UNCHANGED <<text, scales, begin, chunks>> /\ pc = "loop" /\ pc' = "scale"
        /\ scale' = scale + 1 /\ begin >= Len(text)
    BY <1>5 DEF EndLoop
  <2>2. /\ TypeOK /\ scale < Len(scales) /\ scale \in Nat /\ Len(text) \in Nat
        /\ begin \in 0..Len(text) /\ scale + 1 \in 1..Len(scales)
    BY <2>1, OptionsTyped DEF Inv, TypeOK
  <2>3. TypeOK'
    <3>1. scale' \in 0..Len(scales)
      BY <2>1, <2>2, SMT
    <3> QED BY <2>1, <2>2, <3>1 DEF TypeOK
  <2>4. NothingIsLost'
    <3> SUFFICES ASSUME NEW s \in 0..(scale' - 1), Fits(s), NEW p \in 0..(Len(text) - 1)
                 PROVE  Covered(s, p)
      BY <1>1, <2>1 DEF NothingIsLost, Fits
    <3>1. CASE s = scale
      <4>1. p \in 0..(begin - 1)
        BY <2>1, <2>2, SMT
      <4> QED BY <2>1, <3>1, <4>1 DEF Inv
    <3>2. CASE s # scale
      <4>1. s \in 0..(scale - 1)
        BY <2>1, <2>2, <3>2, SMT
      <4> QED BY <2>1, <4>1 DEF Inv, NothingIsLost, Fits
    <3> QED BY <3>1, <3>2
  <2> QED BY <1>1, <2>1, <2>3, <2>4 DEF Inv
<1>6. CASE Return
  <2>1. UNCHANGED <<text, scales, scale, begin, chunks>> /\ pc = "scale" /\ pc' = "returned"
    BY <1>6 DEF Return
  <2>2. TypeOK'
    BY <2>1 DEF Inv, TypeOK
  <2>3. NothingIsLost'
    BY <1>1, <2>1 DEF Inv, NothingIsLost, Fits
  <2> QED BY <1>1, <2>1, <2>2, <2>3 DEF Inv
<1>7. CASE UNCHANGED vars
  <2>1. UNCHANGED <<text, scales, pc, scale, begin, chunks>>
    BY <1>7 DEF vars
  <2>2. TypeOK'
    BY <2>1 DEF Inv, TypeOK, Options
  <2>3. NothingIsLost'
    BY <1>1, <2>1 DEF Inv, NothingIsLost, Fits
  <2> QED BY <1>1, <2>1, <2>2, <2>3 DEF Inv, Boundary, Is, Fits
<1> QED BY <1>2, <1>3, <1>4, <1>5, <1>6, <1>7 DEF Next, Stopped

LEMMA Invariant == Spec => []Inv
BY InitInv, NextInv, PTL DEF Spec

\* Every variable keeps its type; with it, every offset lies within the text.
THEOREM TypeCorrect == Spec => []TypeOK
<1>1. Inv => TypeOK
  BY DEF Inv
<1> QED BY <1>1, Invariant, PTL

\* Whatever the bytes and the options, a chunk is not empty, lies in the text
\* and is not longer than its scale allows.
THEOREM ChunksAreBounded == Spec => []ChunksFitTheScale
<1>1. Inv => ChunksFitTheScale
  BY DEF Inv
<1> QED BY <1>1, Invariant, PTL

\* Chunks of well-formed text are cut at code points, for every scale whose
\* max_bytes can hold the widest one.
THEOREM ChunksAreUtf8 == Spec => []CutsOnCodePoints
<1>1. Inv => CutsOnCodePoints
  BY DEF Inv
<1> QED BY <1>1, Invariant, PTL

\* No byte of a well-formed text is lost, at any such scale.
THEOREM TextIsKept == Spec => []NothingIsLost
<1>1. Inv => NothingIsLost
  BY DEF Inv
<1> QED BY <1>1, Invariant, PTL

\* The loop strictly advances, on malformed text too: with the bound on begin
\* this is why it ends.
THEOREM LoopAdvances == Spec => StartsAdvance
<1>1. Inv /\ [Next]_vars => [pc = "loop" /\ pc' = "loop" => begin' > begin]_vars
  <2> SUFFICES ASSUME Inv, Next, pc = "loop", pc' = "loop" PROVE begin' > begin
    OBVIOUS
  <2>1. Cut
    BY DEF Next, StartScale, Throw, EndLoop, Return, Stopped
  <2> DEFINE end == ChooseEnd(begin, Options.max)
  <2> DEFINE first == end - Smaller(Options.overlap, end - begin - 1)
  <2>2. /\ text \in Seq(Byte) /\ begin \in 0..(Len(text) - 1) /\ Len(text) \in Nat
        /\ Options.overlap \in Nat /\ end \in (begin + 1)..Len(text)
    <3>1. TypeOK /\ scale < Len(scales)
      BY DEF Inv, TypeOK
    <3> QED BY <2>1, <3>1, CutFacts, OptionsTyped
  <2>3. begin' = NextBegin(begin, end, Options.overlap)
    BY <2>1 DEF Cut
  <2> HIDE DEF end
  <2>4. first \in (begin + 1)..end /\ begin' \in first..Len(text)
    BY <2>2, <2>3, NextBeginAdvances
  <2> HIDE DEF first
  <2> QED BY <2>2, <2>4, SMT
<1> QED BY <1>1, Invariant, PTL DEF Spec, StartsAdvance

------------------------------------------------------------------------------
(* Passages.                                                               *)

\* What the loop has done of PassagesStayWhole for the scale it is at.
Passages ==
    /\ PassagesStayWhole
    /\ pc = "loop" /\ Roomy(Options) =>
          \A p \in 0..(begin - 1) : Boundary(p) => WholeFrom(scale, p)

LEMMA CutKeepsPassages == Inv /\ Passages /\ Cut => Passages'
<1> SUFFICES ASSUME Inv, Passages, Cut PROVE Passages'
  OBVIOUS
<1> DEFINE end == ChooseEnd(begin, Options.max)
<1> DEFINE chunk == [scale |-> scale, begin |-> begin, end |-> end]
<1>1. /\ begin \in 0..(Len(text) - 1)
      /\ Options.max \in Nat /\ Options.max > 0 /\ Options.overlap \in Nat
      /\ end \in (begin + 1)..Len(text)
  BY CutFacts
<1>2. /\ TypeOK /\ scale < Len(scales) /\ Valid(Options) /\ pc = "loop"
      /\ text \in Seq(Byte) /\ Len(text) \in Nat
      /\ scale \in Nat /\ scale + 1 \in 1..Len(scales)
  BY OptionsTyped DEF Inv, Cut, TypeOK
<1>3. /\ chunks' = chunks \cup {chunk} /\ UNCHANGED <<text, scales>>
      /\ IF end = Len(text)
         THEN pc' = "scale" /\ scale' = scale + 1 /\ UNCHANGED begin
         ELSE begin' = NextBegin(begin, end, Options.overlap) /\ UNCHANGED <<pc, scale>>
  BY DEF Cut
<1>4. Options.overlap < Options.max /\ Options = scales[scale + 1]
  BY <1>2 DEF Valid, Options
<1>5. Roomy(Options) => end = Len(text) \/ end >= begin + Options.overlap + 1
  BY <1>1, <1>2, <1>4, RoomyEnd DEF Roomy
<1> HIDE DEF end
<1>6. chunk \in chunks' /\ chunk.scale = scale /\ chunk.begin = begin /\ chunk.end = end
  BY <1>3
<1> HIDE DEF chunk
<1> DEFINE WholeNow(s, p) ==
      \A n \in 1..(scales[s + 1].overlap + 1) :
          p + n <= Len(text) => \E c \in chunks' : /\ c.scale = s
                                                  /\ c.begin <= p /\ p + n <= c.end
\* What was whole stays whole.
<1>7. \A s, p : WholeFrom(s, p) => WholeNow(s, p)
  BY <1>3 DEF WholeFrom
<1>8. /\ \A p : Boundary(p)' <=> Boundary(p)
      /\ \A options : Roomy(options)' <=> Roomy(options)
  BY <1>3 DEF Boundary, Roomy, CodePointsFit, Is
\* The chunk has the passages that start in it before the next one.
<1>9. ASSUME NEW p \in 0..(Len(text) - 1), begin <= p,
             end = Len(text) \/ p + Options.overlap + 1 <= end
      PROVE  WholeNow(scale, p)
  <2> SUFFICES ASSUME NEW n \in 1..(Options.overlap + 1), p + n <= Len(text)
               PROVE  p + n <= end
    BY <1>4, <1>6, <1>9
  <2> QED BY <1>1, <1>2, <1>9, SMT
<1> HIDE DEF WholeNow
<1>10. ASSUME Roomy(Options), NEW p \in 0..(begin - 1), Boundary(p)
       PROVE  WholeNow(scale, p)
  BY <1>2, <1>7, <1>10 DEF Passages
<1>11. ASSUME NEW s \in 0..(scale - 1), Roomy(scales[s + 1]),
              NEW p \in 0..(Len(text) - 1), Boundary(p)
       PROVE  WholeNow(s, p)
  BY <1>2, <1>7, <1>11 DEF Passages, PassagesStayWhole
<1>12. CASE end = Len(text)
  <2>1. pc' = "scale" /\ scale' = scale + 1 /\ begin' = begin
    BY <1>3, <1>12
  <2>2. PassagesStayWhole'
    <3> SUFFICES ASSUME NEW s \in 0..scale, Roomy(scales[s + 1]),
                        NEW p \in 0..(Len(text) - 1), Boundary(p)
                 PROVE  WholeNow(s, p)
      <4>1. (scale + 1) - 1 = scale
        BY <1>2
      <4> QED BY <1>3, <1>8, <2>1, <4>1 DEF PassagesStayWhole, WholeFrom, WholeNow
    <3>1. CASE s # scale
      <4>1. s \in 0..(scale - 1)
        BY <1>2, <3>1, SMT
      <4> QED BY <1>11, <4>1
    <3>2. CASE s = scale /\ p < begin
      <4>1. p \in 0..(begin - 1)
        BY <1>1, <3>2, SMT
      <4> QED BY <1>4, <1>10, <3>2, <4>1
    <3>3. CASE s = scale /\ ~(p < begin)
      <4>1. begin <= p
        BY <1>1, <3>3, SMT
      <4> QED BY <1>9, <1>12, <3>3, <4>1
    <3> QED BY <3>1, <3>2, <3>3
  <2> QED BY <2>1, <2>2 DEF Passages
<1>13. CASE end # Len(text)
  <2>1. pc' = "loop" /\ scale' = scale /\ begin' = NextBegin(begin, end, Options.overlap)
    BY <1>2, <1>3, <1>13
  <2>2. PassagesStayWhole'
    BY <1>3, <1>8, <1>11, <2>1 DEF PassagesStayWhole, WholeFrom, WholeNow
  <2>3. ASSUME Roomy(Options), NEW p \in 0..(begin' - 1), Boundary(p)
        PROVE  WholeNow(scale, p)
    <3> DEFINE first == end - Smaller(Options.overlap, end - begin - 1)
    <3>1. /\ first \in (begin + 1)..end /\ begin' \in first..Len(text)
          /\ \A x \in first..(begin' - 1) : ~Boundary(x)
      BY <1>1, <1>2, <2>1, NextBeginAdvances
    <3>2. end >= begin + Options.overlap + 1
      BY <1>5, <1>13, <2>3
    <3>3. first = end - Options.overlap
      BY <1>1, <3>2, SMT DEF Smaller
    <3> HIDE DEF first
    <3>4. CASE p < begin
      <4>1. p \in 0..(begin - 1)
        BY <1>1, <3>4, SMT
      <4> QED BY <1>10, <2>3, <4>1
    <3>5. CASE ~(p < begin)
      <4>1. p < first
        <5> SUFFICES ASSUME ~(p < first) PROVE FALSE
          OBVIOUS
        <5>1. first \in Nat /\ begin' \in Nat
          BY <1>1, <1>2, <3>1, SMT
        <5>2. \A f, m \in Nat : \A x \in 0..(m - 1) : ~(x < f) => x \in f..(m - 1)
          BY SMT
        <5>3. p \in first..(begin' - 1)
          BY <5>1, <5>2, Zenon
        <5> QED BY <2>3, <3>1, <5>3
      <4>2. p \in 0..(Len(text) - 1)
        <5>1. \A n, k \in Nat : n <= k => \A q \in 0..(n - 1) : q \in 0..(k - 1)
          BY SMT
        <5>2. first \in Nat /\ begin' \in Nat /\ Len(text) \in Nat
          BY <1>1, <1>2, <3>1, SMT
        <5>3. \A f, b, n \in Nat : b \in f..n => b <= n
          BY SMT
        <5>4. begin' <= Len(text)
          BY <3>1, <5>2, <5>3, Zenon
        <5> QED BY <5>1, <5>2, <5>4, Zenon
      <4>3. begin <= p /\ p + Options.overlap + 1 <= end
        <5>1. \A a, b, c, d, q \in Nat : a = b - c /\ ~(q < d) /\ q < a => d <= q /\ q + c + 1 <= b
          BY SMT
        <5> QED BY <1>1, <3>3, <3>5, <4>1, <4>2, <5>1, SMT
      <4> QED BY <1>9, <4>2, <4>3
    <3> QED BY <3>4, <3>5
  <2>4. Options' = Options
    BY <1>3, <2>1 DEF Options
  <2>5. (pc = "loop" /\ Roomy(Options) =>
            \A p \in 0..(begin - 1) : Boundary(p) => WholeFrom(scale, p))'
    <3> SUFFICES ASSUME Roomy(Options), NEW p \in 0..(begin' - 1), Boundary(p)
                 PROVE  WholeNow(scale, p)
      BY <1>3, <1>8, <2>1, <2>4 DEF WholeFrom, WholeNow
    <3> QED BY <2>3
  <2> QED BY <2>2, <2>5 DEF Passages
<1> QED BY <1>12, <1>13

LEMMA NextKeepsPassages == Inv /\ Passages /\ [Next]_vars => Passages'
<1> SUFFICES ASSUME Inv, Passages, [Next]_vars PROVE Passages'
  OBVIOUS
<1>1. ASSUME UNCHANGED <<text, scales, chunks>>
      PROVE  /\ \A s, p : WholeFrom(s, p)' <=> WholeFrom(s, p)
             /\ \A p : Boundary(p)' <=> Boundary(p)
             /\ \A options : Roomy(options)' <=> Roomy(options)
  BY <1>1 DEF WholeFrom, Boundary, Roomy, CodePointsFit, Is
<1>2. CASE StartScale
  <2>1. UNCHANGED <<text, scales, scale, chunks>> /\ pc = "scale" /\ pc' = "loop" /\ begin' = 0
    BY <1>2 DEF StartScale
  <2>2. 0..(0 - 1) = {}
    BY SMT
  <2> QED BY <1>1, <2>1, <2>2 DEF Passages, PassagesStayWhole
<1>3. CASE Throw
  BY <1>3 DEF Throw, Passages, PassagesStayWhole
<1>4. CASE Cut
  BY <1>4, CutKeepsPassages
<1>5. CASE EndLoop
  <2>1. /\ UNCHANGED <<text, scales, begin, chunks>> /\ pc = "loop" /\ pc' = "scale"
        /\ scale' = scale + 1 /\ begin >= Len(text)
    BY <1>5 DEF EndLoop
  <2>2. scale \in Nat /\ Len(text) \in Nat /\ begin \in 0..Len(text)
    BY <2>1, OptionsTyped DEF Inv, TypeOK
  <2>3. PassagesStayWhole'
    <3> SUFFICES ASSUME NEW s \in 0..scale, Roomy(scales[s + 1]),
                        NEW p \in 0..(Len(text) - 1), Boundary(p)
                 PROVE  WholeFrom(s, p)
      <4>1. (scale + 1) - 1 = scale
        BY <2>2
      <4> QED BY <1>1, <2>1, <4>1 DEF PassagesStayWhole
    <3>1. CASE s = scale
      <4>1. p \in 0..(begin - 1)
        BY <2>1, <2>2, SMT
      <4> QED BY <2>1, <3>1, <4>1 DEF Passages, Options
    <3>2. CASE s # scale
      <4>1. s \in 0..(scale - 1)
        BY <2>2, <3>2, SMT
      <4> QED BY <2>1, <4>1 DEF Passages, PassagesStayWhole
    <3> QED BY <3>1, <3>2
  <2> QED BY <2>1, <2>3 DEF Passages
<1>6. CASE Return
  <2>1. UNCHANGED <<text, scales, scale, begin, chunks>> /\ pc = "scale" /\ pc' = "returned"
    BY <1>6 DEF Return
  <2> QED BY <1>1, <2>1 DEF Passages, PassagesStayWhole
<1>7. CASE UNCHANGED vars
  <2>1. UNCHANGED <<text, scales, pc, scale, begin, chunks>>
    BY <1>7 DEF vars
  <2> QED BY <1>1, <2>1 DEF Passages, PassagesStayWhole, Options
<1> QED BY <1>2, <1>3, <1>4, <1>5, <1>6, <1>7 DEF Next, Stopped

\* For every text, malformed or not: a passage that starts on a code point and
\* is at most one byte longer than the overlap stands whole in one chunk of each
\* scale whose overlap is at most half of max_bytes and leaves room for the code
\* points, wherever the cuts fall.
THEOREM PassagesKept == Spec => []PassagesStayWhole
<1>1. Init => Passages
  <2> SUFFICES ASSUME Init PROVE Passages
    OBVIOUS
  <2>1. 0..(scale - 1) = {}
    BY SMT DEF Init
  <2> QED BY <2>1 DEF Init, Passages, PassagesStayWhole
<1>2. Passages => PassagesStayWhole
  BY DEF Passages
<1> QED BY <1>1, <1>2, Invariant, NextKeepsPassages, PTL DEF Spec
=============================================================================
