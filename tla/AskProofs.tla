------------------------------- MODULE AskProofs -------------------------------
(***************************************************************************)
(* Proofs about ask and the prompts that it builds.  ask holds one model   *)
(* at a time and hands the generator a prompt that fits, with as much of   *)
(* the retrieved context as can be kept, for every prompt, context window  *)
(* and number of chunks.  build_rag_prompt keeps its byte budget, reserves *)
(* what it writes and lets no marker through, for chunks of every text.    *)
(***************************************************************************)
EXTENDS Ask, PromptBuilder, RecursionTheorems, FiniteSetTheorems

------------------------------------------------------------------------------
(* ask.                                                                    *)

\* The prompt with k chunks leaves room for the response.
LeavesRoom(k) == tokens[k] > 0 /\ tokens[k] + response <= context

\* The inductive invariant: what is loaded where, and what the loop has tried.
Inv ==
    /\ TypeOK
    /\ pc \in {"flags", "retrieve", "retrieved", "loaded"} => keep = 0
    /\ embedder => pc = "retrieve"
    /\ generator => pc \in {"loaded", "fit", "generate"}
    /\ pc \in {"fit", "generate"} =>
          /\ response < context
          /\ \A k \in (keep + 1)..found : ~LeavesRoom(k)
    /\ pc = "generate" => LeavesRoom(keep)

LEMMA SmallModulus == \A a, m \in Nat : a < m => a % m = a
BY SMT

\* Under ResponseFits the unsigned subtraction does not wrap.
LEMMA FitsIsRoom ==
    ASSUME TypeOK, response < context
    PROVE  Fits <=> LeavesRoom(keep)
<1>1. /\ SizeMax \in Nat /\ response \in 0..SizeMax /\ context \in 1..SizeMax
      /\ tokens \in [0..MaxChunks -> 0..MaxTokens] /\ keep \in 0..found /\ found \in 0..MaxChunks
      /\ MaxChunks \in Nat /\ MaxTokens \in Nat
  BY AskAssumption, SizeAssumption DEF TypeOK
<1>2. keep \in 0..MaxChunks
  BY <1>1, SMT
<1>3. tokens[keep] \in 0..MaxTokens
  BY <1>1, <1>2
<1>4. context - response \in Nat /\ context - response < SizeMax + 1 /\ SizeMax + 1 \in Nat
  BY <1>1, SMT
<1>5. (context - response) % (SizeMax + 1) = context - response
  BY <1>4, SmallModulus
<1>6. tokens[keep] \in Nat /\ context \in Nat /\ response \in Nat
  BY <1>1, <1>3, SMT
<1>7. tokens[keep] <= context - response <=> tokens[keep] + response <= context
  BY <1>6, SMT
<1> QED BY <1>5, <1>7 DEF Fits, LeavesRoom, Wrapped

LEMMA InitInv == Init => Inv
<1>1. 0 \in 0..MaxChunks /\ 0 \in 0..0
  BY AskAssumption, SMT
<1> QED BY <1>1 DEF Init, Inv, TypeOK

\* Leaving run_ask, however that comes about.
LEMMA LeaveInv ==
    ASSUME Inv, NEW status \in {"success", "error", "usage"}, Leave(status), answered' \in BOOLEAN
    PROVE  Inv'
BY DEF Inv, TypeOK, Leave, input

LEMMA ShrinkInv == ASSUME Inv, Shrink PROVE Inv'
<1>1. /\ TypeOK /\ pc = "fit" /\ pc' = "fit" /\ keep > 0 /\ keep' = keep - 1 /\ ~Fits
      /\ UNCHANGED <<complete, response, tokens, context, answered, exit, embedder, generator, found>>
  BY DEF Inv, Shrink, Goto, input
<1>2. keep \in 0..found /\ found \in 0..MaxChunks /\ MaxChunks \in Nat
  BY <1>1, AskAssumption DEF TypeOK
<1>3. keep' \in 0..found
  BY <1>1, <1>2, SMT
<1>4. TypeOK'
  BY <1>1, <1>3 DEF TypeOK
<1>5. ~LeavesRoom(keep)
  BY <1>1, FitsIsRoom DEF Inv
<1>6. ASSUME NEW k \in (keep' + 1)..found PROVE ~LeavesRoom(k)
  <2>1. k = keep \/ k \in (keep + 1)..found
    BY <1>1, <1>2, SMT
  <2> QED BY <1>1, <1>5, <2>1 DEF Inv
<1> QED BY <1>1, <1>4, <1>6 DEF Inv, LeavesRoom

LEMMA NextInv == Inv /\ [Next]_vars => Inv'
<1> SUFFICES ASSUME Inv, [Next]_vars PROVE Inv'
  OBVIOUS
<1>1. CASE Left \/ UNCHANGED vars
  BY <1>1 DEF Left, vars, input, Inv, TypeOK, LeavesRoom
<1>2. CASE Usage \/ Refuse \/ RejectResponse \/ GiveUp \/ Fail
  <2>1. PICK status \in {"success", "error", "usage"} : Leave(status) /\ answered' = answered
    BY <1>2 DEF Usage, Refuse, RejectResponse, GiveUp, Fail
  <2> QED BY <2>1, LeaveInv DEF Inv, TypeOK
<1>3. CASE Generate
  BY <1>3, LeaveInv DEF Generate
<1>4. CASE OpenIndex
  BY <1>4 DEF OpenIndex, Goto, input, Inv, TypeOK
<1>5. CASE LoadEmbedder
  BY <1>5 DEF LoadEmbedder, Goto, input, Inv, TypeOK
<1>6. ASSUME NEW n \in 0..MaxChunks, Search(n) PROVE Inv'
  <2>1. /\ pc = "retrieve" /\ pc' = "retrieved" /\ found' = n /\ embedder' = FALSE
        /\ UNCHANGED <<complete, response, tokens, context, answered, exit, generator, keep>>
    BY <1>6 DEF Search, Goto, input
  <2>2. keep = 0
    BY <2>1 DEF Inv
  <2>3. keep' \in 0..found'
    BY <2>1, <2>2, AskAssumption, SMT
  <2> QED BY <2>1, <2>3 DEF Inv, TypeOK
<1>7. CASE LoadGenerator
  BY <1>7 DEF LoadGenerator, Goto, input, Inv, TypeOK
<1>8. CASE StartFitting
  <2>1. /\ pc' = "fit" /\ keep' = found /\ response < context
        /\ UNCHANGED <<complete, response, tokens, context, answered, exit, embedder, generator, found>>
        /\ pc = "loaded"
    BY <1>8 DEF StartFitting, ResponseFits, Goto, input
  <2>2. found \in 0..found /\ (found + 1)..found = {}
    BY AskAssumption, SMT DEF Inv, TypeOK
  <2> QED BY <2>1, <2>2 DEF Inv, TypeOK
<1>9. CASE Fit
  <2>1. /\ pc = "fit" /\ pc' = "generate" /\ Fits
        /\ UNCHANGED <<complete, response, tokens, context, answered, exit, embedder, generator, found, keep>>
    BY <1>9 DEF Fit, Goto, input
  <2>2. LeavesRoom(keep)
    BY <2>1, FitsIsRoom DEF Inv
  <2> QED BY <2>1, <2>2 DEF Inv, TypeOK, LeavesRoom
<1>10. CASE Shrink
  BY <1>10, ShrinkInv
<1> QED BY <1>1, <1>2, <1>3, <1>4, <1>5, <1>6, <1>7, <1>8, <1>9, <1>10 DEF Next, Proceed

LEMMA Invariant == Spec => []Inv
BY InitInv, NextInv, PTL DEF Spec

\* Every variable keeps its type.
THEOREM TypeCorrect == Spec => []TypeOK
<1>1. Inv => TypeOK
  BY DEF Inv
<1> QED BY <1>1, Invariant, PTL

\* The embedding model is gone before the generation model is loaded.
THEOREM OneModel == Spec => []OneModelAtATime
<1>1. Inv => OneModelAtATime
  BY DEF Inv, OneModelAtATime
<1> QED BY <1>1, Invariant, PTL

\* The generator is never handed a prompt that it would refuse.
THEOREM PromptFitsContext == Spec => []PromptLeavesRoom
<1>1. Inv => PromptLeavesRoom
  BY DEF Inv, PromptLeavesRoom, LeavesRoom
<1> QED BY <1>1, Invariant, PTL

\* The prompt has the longest prefix of the retrieved chunks that fits.
THEOREM LongestPrefix == Spec => []ContextIsKept
<1>1. Inv => ContextIsKept
  <2> SUFFICES ASSUME Inv, pc = "generate", NEW k \in (keep + 1)..found
               PROVE  tokens[k] = 0 \/ tokens[k] + response > context
    BY DEF ContextIsKept
  <2>1. ~LeavesRoom(k)
    BY DEF Inv
  <2>2. /\ tokens \in [0..MaxChunks -> 0..MaxTokens] /\ response \in 0..SizeMax
        /\ context \in 1..SizeMax /\ SizeMax \in Nat /\ MaxTokens \in Nat
        /\ keep \in 0..found /\ found \in 0..MaxChunks /\ MaxChunks \in Nat
    BY AskAssumption, SizeAssumption DEF Inv, TypeOK
  <2>3. k \in 0..MaxChunks
    BY <2>2, SMT
  <2>4. tokens[k] \in Nat /\ response \in Nat /\ context \in Nat
    BY <2>2, <2>3, SMT
  <2>5. ~(tokens[k] > 0) \/ ~(tokens[k] + response <= context)
    BY <2>1 DEF LeavesRoom
  <2> QED BY <2>4, <2>5, SMT
<1> QED BY <1>1, Invariant, PTL

------------------------------------------------------------------------------
(* Escaped text.                                                           *)

Written == Character \cup {" "}

LEMMA ShortTexts ==
  ASSUME NEW S, NEW c \in S, NEW d \in S
  PROVE  /\ <<c>> \in Seq(S) /\ <<c, d>> \in Seq(S)
         /\ \A s \in Seq(S) : s \o <<c>> = Append(s, c)
         /\ \A s \in Seq(S) : s \o <<c, d>> = Append(Append(s, c), d)
  OBVIOUS

LEMMA AppendedLength ==
  ASSUME NEW s \in Seq(Written), NEW c \in Written
  PROVE  /\ Append(s, c) \in Seq(Written) /\ Len(s) \in Nat
         /\ Len(Append(s, c)) = Len(s) + 1
         /\ Len(Append(Append(s, c), " ")) = Len(s) + 2
  <1> DEFINE space == " "
  <1>1. space \in Written  BY DEF Written
  <1> HIDE DEF space
  <1>2. /\ Append(s, c) \in Seq(Written) /\ Len(s) \in Nat
        /\ Len(Append(s, c)) = Len(s) + 1
    OBVIOUS
  <1>3. Len(Append(Append(s, c), space)) = Len(Append(s, c)) + 1  BY <1>1, <1>2
  <1> QED  BY <1>2, <1>3 DEF space

\* A text is escaped one character after the other.
LEMMA EscapedSteps ==
  ASSUME NEW text \in Seq(Character)
  PROVE  \E f \in [0..Len(text) -> Seq(Written)] :
            /\ f[0] = <<>>
            /\ \A i \in 1..Len(text) :
                  f[i] = IF i \in Escapes(text) THEN Append(Append(f[i - 1], text[i]), " ")
                                                ELSE Append(f[i - 1], text[i])
            /\ Escaped(text) = f[Len(text)]
  <1> DEFINE n == Len(text)
             parts == [i \in 1..n |-> IF i \in Escapes(text) THEN <<text[i], " ">>
                                                             ELSE <<text[i]>>]
  <1>1. n \in Nat /\ \A i \in 1..n : text[i] \in Written
    <2>1. \A i \in 1..n : text[i] \in Character  BY ElementOfSeq
    <2>2. Character \subseteq Written  BY DEF Written
    <2> QED  BY <2>1, <2>2
  <1>2. parts \in [1..n -> Seq(Written)]
    <2>1. " " \in Written  BY DEF Written
    <2>2. \A c \in Written : <<c, " ">> \in Seq(Written) /\ <<c>> \in Seq(Written)
      BY <2>1, ShortTexts
    <2>3. \A i \in 1..n : <<text[i], " ">> \in Seq(Written) /\ <<text[i]>> \in Seq(Written)
      BY <1>1, <2>2
    <2> QED  BY <2>3
  <1>3. Escaped(text) = FlattenSeq(parts)  BY DEF Escaped
  <1>4. \A i \in 1..n : parts[i] = IF i \in Escapes(text) THEN <<text[i], " ">> ELSE <<text[i]>>
    OBVIOUS
  <1> HIDE DEF parts
  <1>5. PICK f \in [0..n -> Seq(Written)] :
           /\ f[0] = <<>> /\ \A i \in 1..n : f[i] = f[i - 1] \o parts[i]
           /\ FlattenSeq(parts) = f[n]
    <2> HIDE DEF n
    <2> QED  BY <1>1, <1>2, FlattenSteps
  <1>6. ASSUME NEW i \in 1..n
        PROVE  f[i] = IF i \in Escapes(text) THEN Append(Append(f[i - 1], text[i]), " ")
                                             ELSE Append(f[i - 1], text[i])
    <2>1. f[i] = f[i - 1] \o parts[i]  BY <1>5
    <2>2. f[i - 1] \in Seq(Written) /\ text[i] \in Written /\ " " \in Written
      <3>1. i - 1 \in 0..n  BY <1>1
      <3> QED  BY <1>1, <3>1 DEF Written
    <2>3. CASE i \in Escapes(text)
      <3>1. f[i] = f[i - 1] \o <<text[i], " ">>  BY <1>4, <2>1, <2>3
      <3>2. f[i - 1] \o <<text[i], " ">> = Append(Append(f[i - 1], text[i]), " ")
        <4> DEFINE before == f[i - 1]
                   c == text[i]
                   gap == " "
        <4>1. before \in Seq(Written) /\ c \in Written /\ gap \in Written  BY <2>2
        <4> HIDE DEF before, c, gap
        <4>2. before \o <<c, gap>> = Append(Append(before, c), gap)
          BY <4>1
        <4> QED  BY <4>2 DEF before, c, gap
      <3> QED  BY <2>3, <3>1, <3>2
    <2>4. CASE i \notin Escapes(text)
      <3>1. f[i] = f[i - 1] \o <<text[i]>>  BY <1>4, <2>1, <2>4
      <3>2. f[i - 1] \o <<text[i]>> = Append(f[i - 1], text[i])
        BY <2>2, ShortTexts
      <3> QED  BY <2>4, <3>1, <3>2
    <2> QED  BY <2>3, <2>4
  <1> QED  BY <1>3, <1>5, <1>6

\* EscapedSize is the size of the escaped text.
LEMMA EscapedLength ==
  ASSUME NEW text \in Seq(Character)
  PROVE  /\ Escaped(text) \in Seq(Written)
         /\ EscapedSize(text) \in Nat /\ Len(Escaped(text)) = EscapedSize(text)
  <1> DEFINE n == Len(text)
             E(i) == {j \in Escapes(text) : j <= i}
  <1>1. n \in Nat /\ \A i \in 1..n : text[i] \in Written
    <2>1. \A i \in 1..n : text[i] \in Character  BY ElementOfSeq
    <2>2. Character \subseteq Written  BY DEF Written
    <2> QED  BY <2>1, <2>2
  <1>2. Escapes(text) \in SUBSET (1..n)
    <2>1. \A i \in 1..(n - 1) : i \in 1..n  BY <1>1
    <2> QED  BY <2>1 DEF Escapes
  <1>3. PICK f \in [0..n -> Seq(Written)] :
           /\ f[0] = <<>>
           /\ \A i \in 1..n :
                 f[i] = IF i \in Escapes(text) THEN Append(Append(f[i - 1], text[i]), " ")
                                               ELSE Append(f[i - 1], text[i])
           /\ Escaped(text) = f[n]
    BY EscapedSteps
  <1> HIDE DEF n
  <1>4. ASSUME NEW i \in 0..n PROVE IsFiniteSet(E(i)) /\ Cardinality(E(i)) \in Nat
    <2>1. E(i) \in SUBSET (1..n)  BY <1>2
    <2>2. IsFiniteSet(1..n)  BY <1>1, FS_Interval
    <2> QED  BY <2>1, <2>2, FS_Subset, FS_CardinalityType
  <1> DEFINE T == {i \in Nat : i <= n => Len(f[i]) = i + Cardinality(E(i))}
  <1>5. 0 \in T
    <2>1. E(0) = {}  BY <1>2
    <2>2. Cardinality(E(0)) = 0  BY <2>1, FS_EmptySet
    <2>3. Len(<<>>) = 0 /\ f[0] = <<>>  BY <1>3
    <2> QED  BY <2>2, <2>3
  <1>6. ASSUME NEW i \in T PROVE i + 1 \in T
    <2>1. i \in Nat /\ i + 1 \in Nat  OBVIOUS
    <2>2. ASSUME i + 1 <= n PROVE Len(f[i + 1]) = (i + 1) + Cardinality(E(i + 1))
      <3>1. i \in 0..n /\ i + 1 \in 1..n /\ (i + 1) - 1 = i  BY <1>1, <2>1, <2>2
      <3>2. Len(f[i]) = i + Cardinality(E(i))  BY <3>1
      <3>3. f[i] \in Seq(Written) /\ text[i + 1] \in Written /\ " " \in Written
        BY <1>1, <3>1 DEF Written
      <3>4. /\ Len(Append(f[i], text[i + 1])) = Len(f[i]) + 1
            /\ Append(f[i], text[i + 1]) \in Seq(Written)
            /\ Len(Append(Append(f[i], text[i + 1]), " ")) = Len(f[i]) + 2
            /\ Len(f[i]) \in Nat
        <4> HIDE DEF T, E
        <4> QED  BY <3>3, AppendedLength, Zenon
      <3>5. IsFiniteSet(E(i)) /\ Cardinality(E(i)) \in Nat  BY <1>4, <3>1
      <3>6. CASE i + 1 \in Escapes(text)
        <4>1. E(i + 1) = E(i) \cup {i + 1} /\ i + 1 \notin E(i)  BY <1>2, <2>1, <3>6
        <4>2. Cardinality(E(i + 1)) = Cardinality(E(i)) + 1  BY <4>1, <3>5, FS_AddElement
        <4>3. f[i + 1] = Append(Append(f[i], text[i + 1]), " ")  BY <1>3, <3>1, <3>6
        <4>4. Len(f[i + 1]) = Len(f[i]) + 2  BY <3>4, <4>3
        <4> HIDE DEF E
        <4> QED  BY <2>1, <3>2, <3>4, <3>5, <4>2, <4>4
      <3>7. CASE i + 1 \notin Escapes(text)
        <4>1. E(i + 1) = E(i)
          <5>1. \A j \in Nat : j <= i + 1 <=> j <= i \/ j = i + 1  BY <2>1
          <5>2. Escapes(text) \in SUBSET Nat  BY <1>2
          <5> QED  BY <3>7, <5>1, <5>2
        <4>2. f[i + 1] = Append(f[i], text[i + 1])  BY <1>3, <3>1, <3>7
        <4>3. Len(f[i + 1]) = Len(f[i]) + 1  BY <3>4, <4>2
        <4> HIDE DEF E
        <4> QED  BY <2>1, <3>2, <3>4, <3>5, <4>1, <4>3
      <3> QED  BY <3>6, <3>7
    <2> QED  BY <2>1, <2>2
  <1>7. T \in SUBSET Nat  OBVIOUS
  <1> HIDE DEF T
  <1>8. T = Nat  BY <1>5, <1>6, <1>7, Induction
  <1>9. n \in T  BY <1>1, <1>8
  <1>10. Len(f[n]) = n + Cardinality(E(n))  BY <1>9 DEF T
  <1>11. E(n) = Escapes(text)  BY <1>1, <1>2
  <1>12. n \in 0..n  BY <1>1
  <1> QED
    <2>1. Cardinality(Escapes(text)) \in Nat  BY <1>4, <1>11, <1>12
    <2>2. EscapedSize(text) = n + Cardinality(Escapes(text))  BY DEF EscapedSize, n
    <2>3. f[n] \in Seq(Written)  BY <1>12
    <2>4. Escaped(text) = f[n]  BY <1>3
    <2>5. Len(f[n]) = n + Cardinality(Escapes(text))  BY <1>10, <1>11
    <2> HIDE DEF E
    <2> QED  BY <1>1, <2>1, <2>2, <2>3, <2>4, <2>5

Markers == {<<"<", "<">>, <<">", ">">>, <<"<", "|">>, <<"|", ">">>}

NoMarkerIn(text) == \A i \in 1..(Len(text) - 1) : <<text[i], text[i + 1]>> \notin Markers

LEMMA MarkersAreEscaped ==
  /\ \A c, d : NeedsEscape(c, d) <=> <<c, d>> \in Markers
  /\ \A c : <<" ", c>> \notin Markers /\ <<c, " ">> \notin Markers
  BY DEF NeedsEscape, Markers

LEMMA AppendFacts ==
  ASSUME NEW S, NEW s \in Seq(S), NEW c \in S
  PROVE  /\ Append(s, c) \in Seq(S) /\ Append(s, c) # <<>>
         /\ Len(s) \in Nat /\ Len(Append(s, c)) = Len(s) + 1
         /\ Append(s, c)[Len(s) + 1] = c
         /\ \A i \in 1..Len(s) : Append(s, c)[i] = s[i]
  OBVIOUS

LEMMA AppendWithoutMarker ==
  ASSUME NEW s \in Seq(Written), NEW c \in Written, NoMarkerIn(s),
         s # <<>> => <<Last(s), c>> \notin Markers
  PROVE  /\ Append(s, c) \in Seq(Written) /\ Append(s, c) # <<>>
         /\ Last(Append(s, c)) = c /\ NoMarkerIn(Append(s, c))
  <1> DEFINE t == Append(s, c)
  <1>1. /\ t \in Seq(Written) /\ t # <<>> /\ Len(s) \in Nat /\ Len(t) = Len(s) + 1
        /\ t[Len(s) + 1] = c /\ \A i \in 1..Len(s) : t[i] = s[i]
    BY AppendFacts
  <1> HIDE DEF t
  <1>2. Last(t) = c  BY <1>1 DEF Last
  <1>3. ASSUME NEW i \in 1..(Len(t) - 1) PROVE <<t[i], t[i + 1]>> \notin Markers
    <2>1. CASE i = Len(s)
      <3>1. s # <<>>  BY <1>1, <2>1
      <3>2. t[i] = Last(s) /\ t[i + 1] = c  BY <1>1, <2>1 DEF Last
      <3> QED  BY <3>1, <3>2
    <2>2. CASE i # Len(s)
      <3>1. i \in 1..(Len(s) - 1) /\ i \in 1..Len(s) /\ i + 1 \in 1..Len(s)  BY <1>1, <2>2
      <3>2. t[i] = s[i] /\ t[i + 1] = s[i + 1]  BY <1>1, <3>1
      <3> QED  BY <3>1, <3>2 DEF NoMarkerIn
    <2> QED  BY <2>1, <2>2
  <1>4. NoMarkerIn(t)  BY <1>3 DEF NoMarkerIn
  <1> QED  BY <1>1, <1>2, <1>4 DEF t

\* Every pair of the text that is a marker has been broken up, and the spaces
\* that are put between make no new one.
LEMMA EscapedHasNoMarker ==
  ASSUME NEW text \in Seq(Character)
  PROVE  NoMarkerIn(Escaped(text))
  <1> DEFINE n == Len(text)
  <1>0. n \in Nat  OBVIOUS
  <1>1. \A i \in 1..n : text[i] \in Written
    <2>1. \A i \in 1..n : text[i] \in Character  BY ElementOfSeq
    <2>2. Character \subseteq Written  BY DEF Written
    <2> HIDE DEF n
    <2> QED  BY <2>1, <2>2
  <1>2. PICK f \in [0..n -> Seq(Written)] :
           /\ f[0] = <<>>
           /\ \A i \in 1..n :
                 f[i] = IF i \in Escapes(text) THEN Append(Append(f[i - 1], text[i]), " ")
                                               ELSE Append(f[i - 1], text[i])
           /\ Escaped(text) = f[n]
    BY EscapedSteps
  <1>3. \A i \in 1..(n - 1) : i \in Escapes(text) <=> <<text[i], text[i + 1]>> \in Markers
    BY MarkersAreEscaped DEF Escapes
  <1> HIDE DEF n
  <1> DEFINE Done(i) == /\ NoMarkerIn(f[i])
                        /\ f[i] # <<>> => /\ i > 0
                                          /\ Last(f[i]) = IF i \in Escapes(text) THEN " "
                                                                                 ELSE text[i]
             T == {i \in Nat : i <= n => Done(i)}
  <1> HIDE DEF Done
  <1>4. 0 \in T
    <2>1. f[0] = <<>> /\ Len(<<>>) = 0  BY <1>2
    <2>2. 1..(0 - 1) = {}  OBVIOUS
    <2>3. NoMarkerIn(f[0])  BY <2>1, <2>2 DEF NoMarkerIn
    <2>4. Done(0)  BY <2>1, <2>3 DEF Done
    <2> QED  BY <2>4
  <1>5. ASSUME NEW i \in T PROVE i + 1 \in T
    <2>1. i \in Nat /\ i + 1 \in Nat /\ i + 1 > 0  OBVIOUS
    <2>2. ASSUME i + 1 <= n PROVE Done(i + 1)
      <3> DEFINE c == text[i + 1]
                 longer == Append(f[i], c)
      <3>1. i \in 0..n /\ i + 1 \in 1..n /\ (i + 1) - 1 = i  BY <1>0, <2>1, <2>2
      <3>2. Done(i) /\ f[i] \in Seq(Written) /\ c \in Written  BY <1>1, <3>1
      <3>3. f[i] # <<>> => <<Last(f[i]), c>> \notin Markers
        <4>1. SUFFICES ASSUME f[i] # <<>> PROVE <<Last(f[i]), c>> \notin Markers  OBVIOUS
        <4>2. i \in 1..(n - 1)
          <5>1. i > 0  BY <3>2, <4>1 DEF Done
          <5> QED  BY <1>0, <2>1, <2>2, <5>1
        <4>3. CASE i \in Escapes(text)
          <5>1. Last(f[i]) = " "  BY <3>2, <4>1, <4>3 DEF Done
          <5> QED  BY <5>1, MarkersAreEscaped
        <4>4. CASE i \notin Escapes(text)
          <5>1. Last(f[i]) = text[i]  BY <3>2, <4>1, <4>4 DEF Done
          <5> QED  BY <1>3, <4>2, <4>4, <5>1
        <4> QED  BY <4>3, <4>4
      <3>4. /\ longer \in Seq(Written) /\ longer # <<>>
            /\ Last(longer) = c /\ NoMarkerIn(longer)
        BY <3>2, <3>3, AppendWithoutMarker DEF Done
      <3> HIDE DEF longer
      <3>5. CASE i + 1 \in Escapes(text)
        <4>1. f[i + 1] = Append(longer, " ")  BY <1>2, <3>1, <3>5 DEF longer
        <4>2. <<Last(longer), " ">> \notin Markers  BY MarkersAreEscaped
        <4>3. Last(f[i + 1]) = " " /\ NoMarkerIn(f[i + 1])
          <5>1. " " \in Written  BY DEF Written
          <5> QED  BY <3>4, <4>1, <4>2, <5>1, AppendWithoutMarker
        <4> QED  BY <2>1, <3>5, <4>3 DEF Done
      <3>6. CASE i + 1 \notin Escapes(text)
        <4>1. f[i + 1] = longer  BY <1>2, <3>1, <3>6 DEF longer
        <4> QED  BY <2>1, <3>4, <3>6, <4>1 DEF Done
      <3> QED  BY <3>5, <3>6
    <2> QED  BY <2>1, <2>2
  <1>6. T \in SUBSET Nat  OBVIOUS
  <1> HIDE DEF T
  <1>7. T = Nat  BY <1>4, <1>5, <1>6, Induction
  <1>8. n \in T  BY <1>0, <1>7
  <1>9. Done(n)  BY <1>0, <1>8 DEF T
  <1> QED  BY <1>2, <1>9 DEF Done

\* What a character more adds to a text without its spaces.
LEMMA WithoutSpacesOfAppend ==
  ASSUME NEW s \in Seq(Written), NEW c \in Written
  PROVE  /\ WithoutSpaces(s) \in Seq(Written)
         /\ WithoutSpaces(Append(s, c)) =
               IF c = " " THEN WithoutSpaces(s) ELSE Append(WithoutSpaces(s), c)
  <1> DEFINE n == Len(s)
             longer == Append(s, c)
             Bare(d) == IF d = " " THEN <<>> ELSE <<d>>
             parts == [i \in 1..(n + 1) |-> Bare(longer[i])]
             front == [i \in 1..n |-> Bare(s[i])]
  <1>1. /\ n \in Nat /\ longer \in Seq(Written) /\ Len(longer) = n + 1
        /\ longer[n + 1] = c /\ \A i \in 1..n : longer[i] = s[i]
    BY AppendFacts
  <1>2. \A d \in Written : Bare(d) \in Seq(Written)
    <2>1. \A d \in Written : <<d>> \in Seq(Written) /\ <<>> \in Seq(Written)  BY ShortTexts
    <2> QED  BY <2>1
  <1>3. \A i \in 1..(n + 1) : longer[i] \in Written
    <2> HIDE DEF longer, n
    <2> QED  BY <1>1, ElementOfSeq
  <1>4. WithoutSpaces(s) = FlattenSeq(front)  BY DEF WithoutSpaces
  <1>5. WithoutSpaces(longer) = FlattenSeq(parts)
    <2> HIDE DEF longer, n
    <2> QED  BY <1>1 DEF WithoutSpaces
  <1> HIDE DEF longer, n, Bare
  <1>6. parts \in [1..(n + 1) -> Seq(Written)]  BY <1>2, <1>3
  <1>7. front = [i \in 1..n |-> parts[i]]  BY <1>1
  <1>8. parts[n + 1] = Bare(c)  BY <1>1
  <1> HIDE DEF parts
  <1>9. /\ FlattenSeq(front) \in Seq(Written)
        /\ FlattenSeq(parts) = FlattenSeq(front) \o parts[n + 1]
    <2>1. n \in Nat  BY <1>1
    <2> HIDE DEF front
    <2> QED  BY <2>1, <1>6, <1>7, FlattenAppends
  <1> HIDE DEF front
  <1>10. CASE c = " "
    <2>1. Bare(c) = <<>>  BY <1>10 DEF Bare
    <2>2. FlattenSeq(parts) = FlattenSeq(front)  BY <1>8, <1>9, <2>1, ConcatEmptySeq
    <2> QED  BY <1>4, <1>5, <1>9, <1>10, <2>2 DEF longer
  <1>11. CASE c # " "
    <2>1. Bare(c) = <<c>>  BY <1>11 DEF Bare
    <2>2. FlattenSeq(front) \o <<c>> = Append(FlattenSeq(front), c)  BY <1>9, ShortTexts
    <2> QED  BY <1>4, <1>5, <1>8, <1>9, <1>11, <2>1, <2>2 DEF longer
  <1> QED  BY <1>10, <1>11

LEMMA PrefixAppends ==
  ASSUME NEW S, NEW s \in Seq(S), NEW i \in Nat, i + 1 <= Len(s)
  PROVE  SubSeq(s, 1, i + 1) = Append(SubSeq(s, 1, i), s[i + 1])
  OBVIOUS

\* The spaces that are put in are the only ones that go.
LEMMA EscapedIsReadable ==
  ASSUME NEW text \in Seq(Character)
  PROVE  WithoutSpaces(Escaped(text)) = text
  <1> DEFINE n == Len(text)
  <1>0. n \in Nat  OBVIOUS
  <1>1. \A i \in 1..n : text[i] \in Written /\ text[i] # " "
    <2>1. \A i \in 1..n : text[i] \in Character  BY ElementOfSeq
    <2>2. \A c \in Character : c \in Written /\ c # " "  BY DEF Written, Character
    <2> HIDE DEF n
    <2> QED  BY <2>1, <2>2
  <1>2. PICK f \in [0..n -> Seq(Written)] :
           /\ f[0] = <<>>
           /\ \A i \in 1..n :
                 f[i] = IF i \in Escapes(text) THEN Append(Append(f[i - 1], text[i]), " ")
                                               ELSE Append(f[i - 1], text[i])
           /\ Escaped(text) = f[n]
    BY EscapedSteps
  <1> DEFINE T == {i \in Nat : i <= n => WithoutSpaces(f[i]) = SubSeq(text, 1, i)}
  <1>3. 0 \in T
    <2>0. SubSeq(text, 1, 0) = <<>>  OBVIOUS
    <2>1. f[0] = <<>>  BY <1>2
    <2>2. WithoutSpaces(<<>>) = <<>>
      <3> DEFINE none == [i \in 1..0 |-> IF <<>>[i] = " " THEN <<>> ELSE <<(<<>>)[i]>>]
      <3>1. Len(<<>>) = 0  OBVIOUS
      <3>2. WithoutSpaces(<<>>) = FlattenSeq(none)  BY <3>1, Zenon DEF WithoutSpaces
      <3>3. none \in [1..0 -> Seq(Written)]  OBVIOUS
      <3> HIDE DEF none
      <3>4. \E g \in [0..0 -> Seq(Written)] : g[0] = <<>> /\ FlattenSeq(none) = g[0]
        <4>1. 0 \in Nat  OBVIOUS
        <4> QED  BY <3>3, <4>1, FlattenSteps
      <3> QED  BY <3>2, <3>4
    <2> QED  BY <2>0, <2>1, <2>2
  <1>4. ASSUME NEW i \in T PROVE i + 1 \in T
    <2>1. i \in Nat /\ i + 1 \in Nat  OBVIOUS
    <2>2. ASSUME i + 1 <= n PROVE WithoutSpaces(f[i + 1]) = SubSeq(text, 1, i + 1)
      <3> DEFINE c == text[i + 1]
                 longer == Append(f[i], c)
      <3>1. i \in 0..n /\ i + 1 \in 1..n /\ (i + 1) - 1 = i  BY <1>0, <2>1, <2>2
      <3>2. WithoutSpaces(f[i]) = SubSeq(text, 1, i)  BY <3>1
      <3>3. f[i] \in Seq(Written) /\ c \in Written /\ c # " "  BY <1>1, <3>1
      <3>4. longer \in Seq(Written)  BY <3>3, AppendFacts
      <3>5. WithoutSpaces(longer) = Append(SubSeq(text, 1, i), c)
        BY <3>2, <3>3, WithoutSpacesOfAppend
      <3>6. Append(SubSeq(text, 1, i), c) = SubSeq(text, 1, i + 1)
        BY <2>1, <2>2, PrefixAppends
      <3> HIDE DEF longer
      <3>7. CASE i + 1 \in Escapes(text)
        <4>1. f[i + 1] = Append(longer, " ")  BY <1>2, <3>1, <3>7 DEF longer
        <4>2. " " \in Written  BY DEF Written
        <4>3. WithoutSpaces(Append(longer, " ")) = WithoutSpaces(longer)
          BY <3>4, <4>2, WithoutSpacesOfAppend
        <4> QED  BY <3>5, <3>6, <4>1, <4>3
      <3>8. CASE i + 1 \notin Escapes(text)
        <4>1. f[i + 1] = longer  BY <1>2, <3>1, <3>8 DEF longer
        <4> QED  BY <3>5, <3>6, <4>1
      <3> QED  BY <3>7, <3>8
    <2> QED  BY <2>1, <2>2
  <1>5. T \in SUBSET Nat  OBVIOUS
  <1> HIDE DEF T
  <1>6. T = Nat  BY <1>3, <1>4, <1>5, Induction
  <1>7. n \in T  BY <1>0, <1>6
  <1>8. WithoutSpaces(f[n]) = SubSeq(text, 1, n)  BY <1>0, <1>7 DEF T
  <1>9. SubSeq(text, 1, Len(text)) = text  OBVIOUS
  <1> QED  BY <1>2, <1>8, <1>9

------------------------------------------------------------------------------
(* The size of the context section.                                        *)

LEMMA ChunksAreTexts ==
  ASSUME chunks \in ChunkLists
  PROVE  Len(chunks) \in Nat /\ \A i \in 1..Len(chunks) : chunks[i] \in Seq(Character)
  <1>1. chunks \in Seq(Seq(Character))  BY PromptAssumption
  <1> HIDE DEF Character
  <1> QED  BY <1>1, ElementOfSeq

LEMMA ChunkSizes ==
  ASSUME chunks \in ChunkLists, NEW i \in 1..Len(chunks)
  PROVE  ChunkSize(chunks[i]) \in Nat
  <1>1. EscapedSize(chunks[i]) \in Nat  BY ChunksAreTexts, EscapedLength
  <1> QED  BY <1>1, PromptAssumption DEF ChunkSize

LEMMA HeaderIsASection ==
  ASSUME header \in HeaderSizes PROVE SectionSize(0) = header
  <1> DEFINE none == [i \in 1..0 |-> ChunkSize(chunks[i])]
  <1>1. none \in [1..0 -> Nat]  OBVIOUS
  <1>2. SectionSize(0) = header + Total(none)  BY DEF SectionSize
  <1> HIDE DEF none
  <1>3. Total(none) = 0  BY <1>1, TotalOfNone
  <1>4. header \in Nat  BY PromptAssumption, SizeAssumption
  <1> QED  BY <1>2, <1>3, <1>4

LEMMA SectionAdds ==
  ASSUME chunks \in ChunkLists, header \in HeaderSizes, NEW n \in Nat, n + 1 <= Len(chunks)
  PROVE  /\ SectionSize(n) \in Nat /\ ChunkSize(chunks[n + 1]) \in Nat
         /\ SectionSize(n + 1) = SectionSize(n) + ChunkSize(chunks[n + 1])
  <1> DEFINE sizes == [i \in 1..(n + 1) |-> ChunkSize(chunks[i])]
  <1>1. Len(chunks) \in Nat /\ header \in Nat
    BY ChunksAreTexts, PromptAssumption, SizeAssumption
  <1>2. \A i \in 1..(n + 1) : i \in 1..Len(chunks)  BY <1>1
  <1>3. \A i \in 1..(n + 1) : ChunkSize(chunks[i]) \in Nat  BY <1>2, ChunkSizes
  <1>4. sizes \in [1..(n + 1) -> Nat]  BY <1>3
  <1>5. SectionSize(n + 1) = header + Total(sizes)  BY DEF SectionSize
  <1>6. [i \in 1..n |-> sizes[i]] = [i \in 1..n |-> ChunkSize(chunks[i])]  OBVIOUS
  <1>7. SectionSize(n) = header + Total([i \in 1..n |-> sizes[i]])  BY <1>6 DEF SectionSize
  <1>8. sizes[n + 1] = ChunkSize(chunks[n + 1]) /\ n + 1 \in 1..(n + 1)  OBVIOUS
  <1> HIDE DEF sizes
  <1>9. /\ Total([i \in 1..n |-> sizes[i]]) \in Nat
        /\ Total(sizes) = Total([i \in 1..n |-> sizes[i]]) + sizes[n + 1]
    BY <1>4, TotalAdds
  <1>10. ChunkSize(chunks[n + 1]) \in Nat  BY <1>3, <1>8
  <1> DEFINE rest == Total([i \in 1..n |-> sizes[i]])
  <1> HIDE DEF rest
  <1> QED  BY <1>1, <1>5, <1>7, <1>8, <1>9, <1>10 DEF rest

LEMMA SectionGrows ==
  ASSUME chunks \in ChunkLists, header \in HeaderSizes,
         NEW m \in Nat, NEW n \in Nat, m <= n, n <= Len(chunks)
  PROVE  SectionSize(m) \in Nat /\ SectionSize(n) \in Nat /\ SectionSize(m) <= SectionSize(n)
  <1> DEFINE Typed == {k \in Nat : k <= Len(chunks) => SectionSize(k) \in Nat}
             Grown == {d \in Nat : m + d <= Len(chunks) => SectionSize(m) <= SectionSize(m + d)}
  <1>1. Len(chunks) \in Nat  BY ChunksAreTexts
  <1>2. Typed = Nat
    <2>1. 0 \in Typed
      <3>1. SectionSize(0) \in Nat  BY HeaderIsASection, PromptAssumption, SizeAssumption
      <3> QED  BY <3>1
    <2>2. ASSUME NEW k \in Typed PROVE k + 1 \in Typed
      <3>1. k \in Nat /\ k + 1 \in Nat  OBVIOUS
      <3>2. ASSUME k + 1 <= Len(chunks) PROVE SectionSize(k + 1) \in Nat
        <4>1. /\ SectionSize(k) \in Nat /\ ChunkSize(chunks[k + 1]) \in Nat
              /\ SectionSize(k + 1) = SectionSize(k) + ChunkSize(chunks[k + 1])
          BY <3>1, <3>2, SectionAdds
        <4> QED  BY <4>1
      <3> QED  BY <3>1, <3>2
    <2>3. Typed \in SUBSET Nat  OBVIOUS
    <2> HIDE DEF Typed
    <2> QED  BY <2>1, <2>2, <2>3, Induction
  <1>3. \A k \in Nat : k <= Len(chunks) => SectionSize(k) \in Nat  BY <1>2
  <1> HIDE DEF Typed
  <1>4. Grown = Nat
    <2>1. 0 \in Grown
      <3>1. m + 0 = m /\ m <= Len(chunks)  BY <1>1
      <3>2. SectionSize(m) \in Nat  BY <1>3, <3>1
      <3>3. SectionSize(m) <= SectionSize(m + 0)  BY <3>1, <3>2
      <3> QED  BY <3>3
    <2>2. ASSUME NEW d \in Grown PROVE d + 1 \in Grown
      <3>1. d \in Nat /\ d + 1 \in Nat /\ m + d \in Nat /\ m + (d + 1) = (m + d) + 1  OBVIOUS
      <3>2. ASSUME m + (d + 1) <= Len(chunks) PROVE SectionSize(m) <= SectionSize(m + (d + 1))
        <4>1. m + d <= Len(chunks) /\ (m + d) + 1 <= Len(chunks)  BY <1>1, <3>1, <3>2
        <4>2. SectionSize(m) <= SectionSize(m + d)  BY <4>1
        <4>3. /\ SectionSize(m + d) \in Nat /\ ChunkSize(chunks[(m + d) + 1]) \in Nat
              /\ SectionSize((m + d) + 1) = SectionSize(m + d) + ChunkSize(chunks[(m + d) + 1])
          BY <3>1, <4>1, SectionAdds
        <4>4. SectionSize(m) \in Nat
          <5>1. m <= Len(chunks)  BY <1>1
          <5> QED  BY <1>3, <5>1
        <4>5. SectionSize(m) <= SectionSize((m + d) + 1)  BY <4>2, <4>3, <4>4
        <4> QED  BY <3>1, <4>5
      <3> QED  BY <3>1, <3>2
    <2>3. Grown \in SUBSET Nat  OBVIOUS
    <2> HIDE DEF Grown
    <2> QED  BY <2>1, <2>2, <2>3, Induction
  <1>5. n - m \in Nat /\ m + (n - m) = n /\ m <= Len(chunks)  BY <1>1
  <1>6. m + (n - m) <= Len(chunks) => SectionSize(m) <= SectionSize(m + (n - m))
    BY <1>4, <1>5
  <1> HIDE DEF Grown
  <1> QED  BY <1>3, <1>5, <1>6

------------------------------------------------------------------------------
(* The invariant.                                                          *)

\* What a call is about, and what stays as it is while it runs.
Asked == /\ chunks \in ChunkLists /\ budget \in Budgets
         /\ header \in HeaderSizes /\ other \in OtherSizes

Quoting ==
    /\ quoted \in Seq(Seq(Written)) /\ Len(quoted) <= included
    /\ \A n \in 1..Len(quoted) : quoted[n] = Escaped(chunks[n])
    /\ stage = "fit" => quoted = <<>>
    /\ stage = "returned" => Len(quoted) = included

\* With a budget that holds the header nothing wraps.
Budgeted ==
    budget >= header =>
        /\ SectionSize(included) <= budget
        /\ stage = "fit" => used = SectionSize(included)

\* The first chunk that is dropped.
DroppedForBudget ==
    stage \in {"append", "returned"} /\ (budget = 0 \/ budget >= header) /\ included < Len(chunks) =>
        budget # 0 /\ SectionSize(included + 1) > budget

PromptInv == Asked /\ PromptTypeOK /\ Quoting /\ Budgeted /\ DroppedForBudget

LEMMA AskedNumbers ==
  ASSUME Asked
  PROVE  /\ budget \in 0..SizeMax /\ header \in 1..SizeMax /\ other \in 0..SizeMax
         /\ SizeMax \in Nat /\ Len(chunks) \in Nat
  BY ChunksAreTexts, PromptAssumption, SizeAssumption DEF Asked

LEMMA PromptInitInv == ASSUME PromptInit PROVE PromptInv
  <1>1. Asked  BY DEF PromptInit, Asked
  <1>2. stage = "fit" /\ used = header /\ included = 0 /\ quoted = <<>> /\ Len(<<>>) = 0
    BY DEF PromptInit
  <1>3. SectionSize(0) = header  BY <1>1, HeaderIsASection DEF Asked
  <1>4. PromptTypeOK
    <2>1. used \in 0..SizeMax /\ included \in 0..Len(chunks)  BY <1>1, <1>2, AskedNumbers
    <2> QED  BY <1>1, <1>2, <2>1 DEF PromptTypeOK, Asked
  <1>5. Quoting
    <2>1. quoted \in Seq(Seq(Written))  BY <1>2
    <2>2. Len(quoted) = 0 /\ 1..0 = {}  BY <1>2
    <2> QED  BY <1>2, <2>1, <2>2 DEF Quoting
  <1>6. Budgeted  BY <1>1, <1>2, <1>3, AskedNumbers DEF Budgeted
  <1>7. DroppedForBudget  BY <1>2 DEF DroppedForBudget
  <1> QED  BY <1>1, <1>4, <1>5, <1>6, <1>7 DEF PromptInv

\* SectionSize and Required depend on the call alone.
LEMMA SameSections ==
  ASSUME UNCHANGED <<chunks, header, other>>
  PROVE  \A n : SectionSize(n)' = SectionSize(n) /\ Required(n)' = Required(n)
  BY DEF SectionSize, Required

LEMMA ReserveKeepsPromptInv ==
  ASSUME PromptInv, stage = "fit", NEW n \in 0..Len(chunks), Reserve(n),
         budget >= header => SectionSize(n) <= budget,
         (budget = 0 \/ budget >= header) /\ n < Len(chunks) =>
             budget # 0 /\ SectionSize(n + 1) > budget
  PROVE  PromptInv'
  <1>1. /\ included' = n /\ stage' = IF Required(n) > SizeMax THEN "thrown" ELSE "append"
        /\ UNCHANGED <<chunks, budget, header, other, used, quoted>>
    BY DEF Reserve
  <1>2. Asked'  BY <1>1 DEF PromptInv, Asked
  <1>3. \A k : SectionSize(k)' = SectionSize(k) /\ Required(k)' = Required(k)
    BY <1>1, SameSections
  <1>4. quoted' = <<>> /\ Len(<<>>) = 0 /\ n \in Nat /\ Len(chunks) \in Nat
    BY <1>1, AskedNumbers DEF PromptInv, Quoting
  <1>5. Quoting'
    <2>1. quoted' \in Seq(Seq(Written)) /\ Len(quoted') <= included' /\ 1..Len(quoted') = {}
      BY <1>1, <1>4
    <2>2. stage' # "returned"  BY <1>1
    <2> QED  BY <1>4, <2>1, <2>2 DEF Quoting
  <1>6. PromptTypeOK'
    <2>1. used' \in 0..SizeMax /\ included' \in 0..Len(chunks')  BY <1>1 DEF PromptInv, PromptTypeOK
    <2>2. Required(included') = Required(n)  BY <1>1
    <2>3. stage' \in {"append", "returned"} => Required(n)' <= SizeMax
      <3>1. CASE Required(n) > SizeMax  BY <1>1, <3>1
      <3>2. CASE ~(Required(n) > SizeMax)
        <4>1. Required(n) \in Int
          <5>1. n <= Len(chunks)  BY <1>4
          <5>2. SectionSize(n) \in Nat  BY <1>4, <5>1, SectionGrows DEF PromptInv, Asked
          <5>3. other \in Nat  BY AskedNumbers DEF PromptInv
          <5> QED  BY <5>2, <5>3 DEF Required
        <4> QED  BY <1>3, <3>2, <4>1, SizeAssumption
      <3> QED  BY <3>1, <3>2
    <2>4. stage' \in {"thrown", "append"} /\ Len(quoted') <= included'  BY <1>1, <1>4
    <2>5. Required(included)' = Required(n)'  BY <1>1 DEF Required, SectionSize
    <2> QED  BY <1>2, <2>1, <2>3, <2>4, <2>5 DEF PromptTypeOK, Asked
  <1>7. SectionSize(included)' = SectionSize(n) /\ SectionSize(included + 1)' = SectionSize(n + 1)
    BY <1>1 DEF SectionSize
  <1>8. Budgeted'
    <2>1. stage' # "fit"  BY <1>1
    <2> QED  BY <1>1, <1>7, <2>1 DEF Budgeted
  <1>9. DroppedForBudget'  BY <1>1, <1>7 DEF DroppedForBudget
  <1> QED  BY <1>2, <1>5, <1>6, <1>8, <1>9 DEF PromptInv

LEMMA WrappedNumbers ==
  ASSUME NEW n \in Nat PROVE Wrapped(n) \in 0..SizeMax /\ (n <= SizeMax => Wrapped(n) = n)
  <1>1. \A m \in Nat : n % (m + 1) \in 0..m /\ (n <= m => n % (m + 1) = n)  BY SMT
  <1> QED  BY <1>1, SizeAssumption DEF Wrapped

\* With a budget that holds the header, what fit_chunks believes is left is left.
LEMMA RoomIsLeft ==
  ASSUME PromptInv, stage = "fit", budget >= header
  PROVE  /\ Room = budget - SectionSize(included) /\ used = SectionSize(included)
         /\ SectionSize(included) \in 0..budget /\ budget \in 0..SizeMax /\ budget # 0
  <1>1. /\ budget \in 0..SizeMax /\ header \in 1..SizeMax /\ SizeMax \in Nat
        /\ Len(chunks) \in Nat
    BY AskedNumbers DEF PromptInv
  <1>2. used = SectionSize(included) /\ SectionSize(included) <= budget
    BY DEF PromptInv, Budgeted
  <1>3. SectionSize(included) \in Nat
    <2>1. included \in Nat /\ included <= Len(chunks)  BY <1>1 DEF PromptInv, PromptTypeOK
    <2> QED  BY <2>1, SectionGrows DEF PromptInv, Asked
  <1>4. budget - used \in Nat /\ budget - used <= SizeMax  BY <1>1, <1>2, <1>3
  <1>5. Room = budget - used  BY <1>4, WrappedNumbers DEF Room
  <1> QED  BY <1>1, <1>2, <1>3, <1>5

LEMMA UnboundedKeepsPromptInv == ASSUME PromptInv, Unbounded PROVE PromptInv'
  <1>1. stage = "fit" /\ budget = 0 /\ Reserve(Len(chunks))  BY DEF Unbounded
  <1>2. header \in 1..SizeMax /\ SizeMax \in Nat /\ Len(chunks) \in Nat
    BY AskedNumbers DEF PromptInv
  <1>3. ~(budget >= header) /\ ~(Len(chunks) < Len(chunks)) /\ Len(chunks) \in 0..Len(chunks)
    BY <1>1, <1>2
  <1> QED  BY <1>1, <1>3, ReserveKeepsPromptInv

LEMMA FitKeepsPromptInv == ASSUME PromptInv, FitChunk PROVE PromptInv'
  <1> DEFINE size == ChunkSize(chunks[included + 1])
  <1>1. /\ stage = "fit" /\ stage' = "fit" /\ included < Len(chunks) /\ size <= Room
        /\ used' = Wrapped(used + size) /\ included' = included + 1
        /\ UNCHANGED <<chunks, budget, header, other, quoted>>
    BY DEF FitChunk
  <1>2. Asked'  BY <1>1 DEF PromptInv, Asked
  <1>3. included \in Nat /\ Len(chunks) \in Nat /\ included + 1 <= Len(chunks)
    BY <1>1, AskedNumbers DEF PromptInv, PromptTypeOK
  <1>4. /\ SectionSize(included) \in Nat /\ size \in Nat
        /\ SectionSize(included + 1) = SectionSize(included) + size
    BY <1>3, SectionAdds DEF PromptInv, Asked
  <1>5. SectionSize(included)' = SectionSize(included + 1)  BY <1>1 DEF SectionSize
  <1> HIDE DEF size
  <1>6. PromptTypeOK'
    <2>1. used \in Nat  BY SizeAssumption DEF PromptInv, PromptTypeOK
    <2>2. used + size \in Nat  BY <1>4, <2>1
    <2>3. used' \in 0..SizeMax  BY <1>1, <2>2, WrappedNumbers
    <2>4. included' \in 0..Len(chunks')  BY <1>1, <1>3
    <2>5. Len(quoted') <= included'
      <3>1. quoted' = <<>> /\ Len(<<>>) = 0  BY <1>1 DEF PromptInv, Quoting
      <3> QED  BY <1>1, <1>3, <3>1
    <2> QED  BY <1>1, <1>2, <2>3, <2>4, <2>5 DEF PromptTypeOK, Asked
  <1>7. Quoting'
    <2>1. quoted' = <<>> /\ Len(<<>>) = 0  BY <1>1 DEF PromptInv, Quoting
    <2>2. 1..Len(quoted') = {} /\ quoted' \in Seq(Seq(Written)) /\ Len(quoted') <= included'
      BY <1>1, <1>3, <2>1
    <2> QED  BY <1>1, <2>1, <2>2 DEF Quoting
  <1>8. Budgeted'
    <2>1. SUFFICES ASSUME budget >= header
                   PROVE  SectionSize(included + 1) <= budget /\ used' = SectionSize(included + 1)
      BY <1>1, <1>5 DEF Budgeted
    <2>2. /\ Room = budget - SectionSize(included) /\ used = SectionSize(included)
          /\ budget \in 0..SizeMax
      BY <1>1, <2>1, RoomIsLeft
    <2>3. budget \in Int /\ SizeMax \in Nat /\ budget <= SizeMax  BY <2>2, SizeAssumption
    <2>4. SectionSize(included + 1) <= budget /\ used + size = SectionSize(included + 1)
      BY <1>1, <1>4, <2>2, <2>3
    <2>5. used + size \in Nat /\ used + size <= SizeMax  BY <1>4, <2>2, <2>3, <2>4
    <2>6. Wrapped(used + size) = used + size  BY <2>5, WrappedNumbers
    <2> QED  BY <1>1, <2>4, <2>6
  <1>9. DroppedForBudget'  BY <1>1 DEF DroppedForBudget
  <1> QED  BY <1>2, <1>6, <1>7, <1>8, <1>9 DEF PromptInv

LEMMA TooLargeKeepsPromptInv == ASSUME PromptInv, ChunkTooLarge PROVE PromptInv'
  <1>1. /\ stage' = "thrown" /\ stage = "fit"
        /\ UNCHANGED <<chunks, budget, header, other, used, included, quoted>>
    BY DEF ChunkTooLarge
  <1>2. \A n : SectionSize(n)' = SectionSize(n) /\ Required(n)' = Required(n)
    BY <1>1, SameSections
  <1>3. SectionSize(included)' = SectionSize(included)  BY <1>1 DEF SectionSize
  <1> QED
    BY <1>1, <1>3 DEF PromptInv, Asked, PromptTypeOK, Quoting, Budgeted, DroppedForBudget

LEMMA BreakKeepsPromptInv == ASSUME PromptInv, Break PROVE PromptInv'
  <1> DEFINE size == ChunkSize(chunks[included + 1])
  <1>1. /\ stage = "fit" /\ budget # 0 /\ included < Len(chunks) /\ Reserve(included)
        /\ size \in (Room + 1)..SizeMax
    BY DEF Break
  <1>2. included \in Nat /\ Len(chunks) \in Nat /\ included + 1 <= Len(chunks)
        /\ included \in 0..Len(chunks)
    BY <1>1, AskedNumbers DEF PromptInv, PromptTypeOK
  <1>3. /\ SectionSize(included) \in Nat /\ size \in Nat
        /\ SectionSize(included + 1) = SectionSize(included) + size
    BY <1>2, SectionAdds DEF PromptInv, Asked
  <1> HIDE DEF size
  <1>4. ASSUME budget >= header
        PROVE  SectionSize(included) <= budget /\ SectionSize(included + 1) > budget
    <2>1. Room = budget - SectionSize(included) /\ SectionSize(included) \in 0..budget
          /\ budget \in 0..SizeMax
      BY <1>1, <1>4, RoomIsLeft
    <2>2. budget \in Int  BY <2>1
    <2>3. Room \in Int  BY <1>3, <2>1, <2>2
    <2>4. size >= Room + 1  BY <1>1, <1>3, <2>3, SizeAssumption
    <2> QED  BY <1>3, <2>1, <2>2, <2>4
  <1> QED  BY <1>1, <1>2, <1>4, ReserveKeepsPromptInv

LEMMA AllFitKeepsPromptInv == ASSUME PromptInv, AllFit PROVE PromptInv'
  <1>1. stage = "fit" /\ budget # 0 /\ included = Len(chunks) /\ Reserve(included)
    BY DEF AllFit
  <1>2. Len(chunks) \in Nat  BY AskedNumbers DEF PromptInv
  <1>3. included \in 0..Len(chunks) /\ ~(included < Len(chunks))  BY <1>1, <1>2
  <1>4. budget >= header => SectionSize(included) <= budget  BY DEF PromptInv, Budgeted
  <1> QED  BY <1>1, <1>3, <1>4, ReserveKeepsPromptInv

LEMMA AppendKeepsPromptInv == ASSUME PromptInv, AppendChunk PROVE PromptInv'
  <1> DEFINE k == Len(quoted) + 1
             escaped == Escaped(chunks[k])
  <1>1. /\ stage = "append" /\ Len(quoted) < included /\ quoted' = Append(quoted, escaped)
        /\ UNCHANGED <<chunks, budget, header, other, stage, used, included>>
    BY DEF AppendChunk
  <1>2. /\ quoted \in Seq(Seq(Written)) /\ Len(quoted) \in Nat /\ k \in 1..Len(chunks)
        /\ included \in Nat
    <2>1. quoted \in Seq(Seq(Written))  BY DEF PromptInv, Quoting
    <2>2. Len(quoted) \in Nat  BY <2>1
    <2>3. included \in 0..Len(chunks) /\ Len(chunks) \in Nat
      BY AskedNumbers DEF PromptInv, PromptTypeOK
    <2> QED  BY <1>1, <2>1, <2>2, <2>3
  <1>3. escaped \in Seq(Written)
    <2>1. chunks[k] \in Seq(Character)  BY <1>2, ChunksAreTexts DEF PromptInv, Asked
    <2> QED  BY <2>1, EscapedLength
  <1> HIDE DEF escaped
  <1>4. /\ quoted' \in Seq(Seq(Written)) /\ Len(quoted') = k /\ quoted'[k] = escaped
        /\ \A n \in 1..Len(quoted) : quoted'[n] = quoted[n]
    BY <1>1, <1>2, <1>3, AppendFacts
  <1>5. Quoting'
    <2>1. ASSUME NEW n \in 1..k PROVE quoted'[n] = Escaped(chunks[n])
      <3>1. CASE n = k  BY <3>1, <1>4 DEF escaped
      <3>2. CASE n # k
        <4>1. n \in 1..Len(quoted)  BY <1>2, <3>2
        <4> QED  BY <1>4, <4>1 DEF PromptInv, Quoting
      <3> QED  BY <3>1, <3>2
    <2>2. k <= included  BY <1>1, <1>2
    <2> QED  BY <1>1, <1>4, <2>1, <2>2 DEF Quoting
  <1>6. SectionSize(included)' = SectionSize(included) /\ Required(included)' = Required(included)
        /\ SectionSize(included + 1)' = SectionSize(included + 1)
    BY <1>1 DEF SectionSize, Required
  <1>7. Asked' /\ Budgeted' /\ DroppedForBudget'
    BY <1>1, <1>6 DEF PromptInv, Asked, Budgeted, DroppedForBudget
  <1>8. PromptTypeOK'
    <2>1. Len(quoted') <= included'  BY <1>5 DEF Quoting
    <2> QED  BY <1>1, <1>6, <2>1 DEF PromptInv, PromptTypeOK
  <1> QED  BY <1>5, <1>7, <1>8 DEF PromptInv

LEMMA ReturnKeepsPromptInv == ASSUME PromptInv, Return PROVE PromptInv'
  <1>1. /\ stage = "append" /\ stage' = "returned" /\ Len(quoted) = included
        /\ UNCHANGED <<chunks, budget, header, other, used, included, quoted>>
    BY DEF Return
  <1>2. SectionSize(included)' = SectionSize(included) /\ Required(included)' = Required(included)
        /\ SectionSize(included + 1)' = SectionSize(included + 1)
    BY <1>1 DEF SectionSize, Required
  <1> QED
    BY <1>1, <1>2 DEF PromptInv, Asked, PromptTypeOK, Quoting, Budgeted, DroppedForBudget

LEMMA PromptNextInv == PromptInv /\ [PromptNext]_promptVars => PromptInv'
  <1> SUFFICES ASSUME PromptInv, [PromptNext]_promptVars PROVE PromptInv'  OBVIOUS
  <1>1. CASE UNCHANGED promptVars
    <2>1. UNCHANGED <<chunks, budget, header, other, stage, used, included, quoted>>
      BY <1>1 DEF promptVars
    <2>2. SectionSize(included)' = SectionSize(included) /\ Required(included)' = Required(included)
          /\ SectionSize(included + 1)' = SectionSize(included + 1)
      BY <2>1 DEF SectionSize, Required
    <2> QED
      BY <2>1, <2>2 DEF PromptInv, Asked, PromptTypeOK, Quoting, Budgeted, DroppedForBudget
  <1>2. CASE PromptNext
    BY <1>1, <1>2, UnboundedKeepsPromptInv, FitKeepsPromptInv, TooLargeKeepsPromptInv,
       BreakKeepsPromptInv, AllFitKeepsPromptInv, AppendKeepsPromptInv, ReturnKeepsPromptInv
    DEF PromptNext, Stopped
  <1> QED  BY <1>1, <1>2

LEMMA PromptInvariant == PromptSpec => []PromptInv
  <1>1. PromptInit => PromptInv  BY PromptInitInv
  <1> QED  BY <1>1, PromptNextInv, PTL DEF PromptSpec

------------------------------------------------------------------------------
(* The properties.                                                         *)

\* What is written of the chunks is as long as fit_chunks has counted.
LEMMA WrittenIsSection ==
  ASSUME PromptInv
  PROVE  WrittenSize = SectionSize(Len(quoted)) /\ Len(quoted) \in Nat
  <1>1. quoted \in Seq(Seq(Written))  BY DEF PromptInv, Quoting
  <1>2. Len(quoted) \in Nat /\ \A i \in 1..Len(quoted) : i \in 1..Len(chunks)
    <2>1. included \in 0..Len(chunks) /\ Len(chunks) \in Nat /\ Len(quoted) <= included
      BY AskedNumbers DEF PromptInv, PromptTypeOK
    <2>2. Len(quoted) \in Nat  BY <1>1
    <2> QED  BY <2>1, <2>2
  <1>3. ASSUME NEW i \in 1..Len(quoted)
        PROVE  FrameSize + Len(quoted[i]) = ChunkSize(chunks[i])
    <2>1. chunks[i] \in Seq(Character)  BY <1>2, ChunksAreTexts DEF PromptInv, Asked
    <2>2. Len(Escaped(chunks[i])) = EscapedSize(chunks[i])  BY <2>1, EscapedLength
    <2>3. quoted[i] = Escaped(chunks[i])  BY DEF PromptInv, Quoting
    <2> QED  BY <2>2, <2>3 DEF ChunkSize
  <1>4. [i \in 1..Len(quoted) |-> FrameSize + Len(quoted[i])]
           = [i \in 1..Len(quoted) |-> ChunkSize(chunks[i])]
    BY <1>3
  <1> QED  BY <1>2, <1>4 DEF WrittenSize, SectionSize

\* The types, and that what is appended to has a size.
THEOREM PromptTypeCorrect == PromptSpec => []PromptTypeOK
  <1>1. PromptInv => PromptTypeOK  BY DEF PromptInv
  <1> QED  BY <1>1, PromptInvariant, PTL

\* build_rag_prompt: what is written of the context never goes over a budget
\* that holds the header, for chunks of any size and number.
THEOREM BudgetKept == PromptSpec => []BudgetIsKept
  <1>1. ASSUME PromptInv, budget >= header PROVE WrittenSize <= budget
    <2>1. /\ included \in 0..Len(chunks) /\ Len(chunks) \in Nat /\ Len(quoted) <= included
          /\ budget \in 0..SizeMax /\ SizeMax \in Nat
      BY <1>1, AskedNumbers DEF PromptInv, PromptTypeOK
    <2>2. WrittenSize = SectionSize(Len(quoted)) /\ Len(quoted) \in Nat
      BY <1>1, WrittenIsSection
    <2>3. included \in Nat /\ included <= Len(chunks)  BY <2>1
    <2>4. /\ SectionSize(Len(quoted)) \in Nat /\ SectionSize(included) \in Nat
          /\ SectionSize(Len(quoted)) <= SectionSize(included)
      BY <1>1, <2>1, <2>2, <2>3, SectionGrows DEF PromptInv, Asked
    <2>5. SectionSize(included) <= budget  BY <1>1 DEF PromptInv, Budgeted
    <2>6. budget \in Int  BY <2>1
    <2> QED  BY <2>2, <2>4, <2>5, <2>6
  <1>2. PromptInv => BudgetIsKept  BY <1>1 DEF BudgetIsKept
  <1> QED  BY <1>2, PromptInvariant, PTL

\* build_rag_prompt reserves exactly what it then writes.
THEOREM Reserved == PromptSpec => []ReservedExactly
  <1>1. PromptInv => ReservedExactly
    BY WrittenIsSection DEF PromptInv, Quoting, ReservedExactly
  <1> QED  BY <1>1, PromptInvariant, PTL

\* fit_chunks: the first chunk that is dropped would have gone over the budget.
THEOREM NothingDropped == PromptSpec => []NoChunkIsDroppedForNothing
  <1>1. PromptInv => NoChunkIsDroppedForNothing
    BY DEF PromptInv, DroppedForBudget, NoChunkIsDroppedForNothing
  <1> QED  BY <1>1, PromptInvariant, PTL

\* append_escaped: no text, of whatever length, brings a marker into the prompt.
THEOREM NoMarkers == PromptSpec => []NoMarkerIsQuoted
  <1>1. ASSUME PromptInv, NEW n \in 1..Len(quoted) PROVE NoMarkerIn(quoted[n])
    <2>1. included \in 0..Len(chunks) /\ Len(chunks) \in Nat /\ Len(quoted) <= included
      BY <1>1, AskedNumbers DEF PromptInv, PromptTypeOK
    <2>2. n \in 1..Len(chunks)  BY <1>1, <2>1, WrittenIsSection
    <2>3. chunks[n] \in Seq(Character)  BY <1>1, <2>2, ChunksAreTexts DEF PromptInv, Asked
    <2>4. quoted[n] = Escaped(chunks[n])  BY <1>1 DEF PromptInv, Quoting
    <2> QED  BY <2>3, <2>4, EscapedHasNoMarker
  <1>2. PromptInv => NoMarkerIsQuoted  BY <1>1 DEF NoMarkerIsQuoted, NoMarkerIn, Markers
  <1> QED  BY <1>2, PromptInvariant, PTL

\* append_escaped: taking the spaces out again gives back the text.
THEOREM Readable == PromptSpec => []QuotesAreReadable
  <1>1. ASSUME PromptInv, NEW n \in 1..Len(quoted) PROVE WithoutSpaces(quoted[n]) = chunks[n]
    <2>1. included \in 0..Len(chunks) /\ Len(chunks) \in Nat /\ Len(quoted) <= included
      BY <1>1, AskedNumbers DEF PromptInv, PromptTypeOK
    <2>2. n \in 1..Len(chunks)  BY <1>1, <2>1, WrittenIsSection
    <2>3. chunks[n] \in Seq(Character)  BY <1>1, <2>2, ChunksAreTexts DEF PromptInv, Asked
    <2>4. quoted[n] = Escaped(chunks[n])  BY <1>1 DEF PromptInv, Quoting
    <2> QED  BY <2>3, <2>4, EscapedIsReadable
  <1>2. PromptInv => QuotesAreReadable  BY <1>1 DEF QuotesAreReadable
  <1> QED  BY <1>2, PromptInvariant, PTL
=============================================================================
