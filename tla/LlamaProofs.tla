------------------------------ MODULE LlamaProofs ------------------------------
(***************************************************************************)
(* Proofs about what the program builds on llama.cpp.                      *)
(*                                                                         *)
(* Of generate, for every size of the context and the batch, every set of  *)
(* stop sequences and every sequence of calls.                             *)
(*                                                                         *)
(* Of any finite set of embedders and generators, that the backend         *)
(* outlives every model and context, and that none of them leaks.  That    *)
(* follows from the count, and the count from mutual exclusion: only the   *)
(* holder of the mutex is at one of the stages of a critical section.      *)
(***************************************************************************)
EXTENDS Generator, LlamaModels, RecursionTheorems, FiniteSetTheorems

------------------------------------------------------------------------------
(* Texts and their beginnings.                                             *)

Texts == Seq(Characters)

LEMMA Prefix == ASSUME NEW t \in Texts, NEW k \in 0..Len(t)
                PROVE  SubSeq(t, 1, k) \in Texts /\ Len(SubSeq(t, 1, k)) = k
                       /\ \A i \in 1..k : SubSeq(t, 1, k)[i] = t[i]
  BY DEF Texts

\* A part of a beginning is that part of the whole.
LEMMA PartOfPrefix ==
  ASSUME NEW t \in Texts, NEW k \in 0..Len(t), NEW a \in Nat \ {0}, NEW b \in 0..k
  PROVE  SubSeq(SubSeq(t, 1, k), a, b) = SubSeq(t, a, b)
  BY Prefix DEF Texts

\* A stop sequence in a beginning of a text is one in the text, and starts
\* before the beginning's end.
LEMMA StopsInPrefix ==
  ASSUME NEW t \in Texts, NEW k \in 0..Len(t), NEW p \in StopsIn(SubSeq(t, 1, k))
  PROVE  p \in StopsIn(t) /\ p < k
  <1>1. PICK stop \in Stops : stop # <<>> /\ p \in Occurrences(stop, SubSeq(t, 1, k))
    BY DEF StopsIn
  <1>2. stop \in Texts /\ Len(stop) \in Nat \ {0}  BY <1>1, GeneratorAssumption DEF Texts
  <1>3. Len(SubSeq(t, 1, k)) = k  BY Prefix
  <1>4. p \in 0..(k - Len(stop)) /\ SubSeq(SubSeq(t, 1, k), p + 1, p + Len(stop)) = stop
    BY <1>1, <1>3 DEF Occurrences
  <1>5. SubSeq(t, p + 1, p + Len(stop)) = stop
    <2>1. p + 1 \in Nat \ {0} /\ p + Len(stop) \in 0..k  BY <1>2, <1>4
    <2> QED  BY <1>4, <2>1, PartOfPrefix
  <1>6. p \in 0..(Len(t) - Len(stop)) /\ p < k  BY <1>2, <1>4 DEF Texts
  <1> QED  BY <1>1, <1>5, <1>6 DEF StopsIn, Occurrences

LEMMA StopsArePositions == ASSUME NEW t \in Texts PROVE StopsIn(t) \in SUBSET (0..Len(t))
  <1>1. ASSUME NEW stop \in Stops, NEW p \in Occurrences(stop, t) PROVE p \in 0..Len(t)
    <2>1. Len(stop) \in Nat /\ Len(t) \in Nat  BY GeneratorAssumption DEF Texts
    <2> QED  BY <1>1, <2>1 DEF Occurrences
  <1> QED  BY <1>1 DEF StopsIn

\* What is kept of a text with a stop sequence has none.
LEMMA TruncateIsClean ==
  ASSUME NEW t \in Texts, StopsIn(t) # {}
  PROVE  /\ Min(StopsIn(t)) \in StopsIn(t) /\ Min(StopsIn(t)) \in 0..Len(t)
         /\ TruncateAtStop(t) \in Texts /\ StopsIn(TruncateAtStop(t)) = {}
  <1>1. StopsIn(t) \in SUBSET (0..Len(t)) /\ Len(t) \in Nat  BY StopsArePositions DEF Texts
  <1>2. StopsIn(t) \in SUBSET Nat  BY <1>1
  <1>3. Min(StopsIn(t)) \in StopsIn(t) /\ \A p \in StopsIn(t) : Min(StopsIn(t)) <= p
    BY <1>2, MinIsLeast
  <1> DEFINE m == Min(StopsIn(t))
  <1>4. m \in 0..Len(t)  BY <1>1, <1>3
  <1>5. ASSUME NEW p \in StopsIn(SubSeq(t, 1, m)) PROVE FALSE
    <2>1. p \in StopsIn(t) /\ p < m  BY <1>4, StopsInPrefix
    <2> QED  BY <1>1, <1>3, <1>4, <2>1
  <1> QED  BY <1>3, <1>4, <1>5, Prefix DEF TruncateAtStop

\* Trimming takes a beginning of the text, and what it drops is a beginning of
\* a stop sequence.
LEMMA TrimDropsAPart ==
  ASSUME NEW t \in Texts
  PROVE  \E k \in 0..Len(t) :
           /\ TrimPartialStop(t) = SubSeq(t, 1, k)
           /\ Partial(SubSeq(t, k + 1, Len(t)))
  <1> DEFINE sizes == {n \in 0..Len(t) : \E stop \in Stops :
                         /\ n < Len(stop)
                         /\ SubSeq(t, Len(t) - n + 1, Len(t)) = SubSeq(stop, 1, n)}
             drop == Max(sizes \cup {0})
  <1>1. Len(t) \in Nat  BY DEF Texts
  <1>2. drop \in sizes \cup {0}
    <2>1. sizes \cup {0} \in SUBSET (0..Len(t))  BY <1>1
    <2> HIDE DEF sizes
    <2> QED  BY <1>1, <2>1, MaxIsGreatest
  <1>3. TrimPartialStop(t) = SubSeq(t, 1, Len(t) - drop)  BY DEF TrimPartialStop
  <1> HIDE DEF drop
  <1>4. drop \in 0..Len(t)  BY <1>1, <1>2
  <1>5. Partial(SubSeq(t, Len(t) - drop + 1, Len(t)))
    <2>1. CASE drop = 0
      <3>1. SubSeq(t, Len(t) - drop + 1, Len(t)) = <<>>  BY <1>1, <2>1 DEF Texts
      <3> QED  BY <3>1 DEF Partial
    <2>2. CASE drop # 0
      <3>1. PICK stop \in Stops : drop < Len(stop) /\
               SubSeq(t, Len(t) - drop + 1, Len(t)) = SubSeq(stop, 1, drop)
        BY <1>2, <2>2
      <3>2. stop \in Texts /\ Len(stop) \in Nat  BY GeneratorAssumption DEF Texts
      <3> DEFINE part == SubSeq(stop, 1, drop)
      <3>3. Len(part) = drop /\ drop \in 0..Len(stop)  BY <1>4, <3>1, <3>2, Prefix
      <3>4. SubSeq(part, 1, drop) = part
        BY <1>4, <3>2, <3>3, PartOfPrefix
      <3>5. IsStrictPrefix(part, stop)
        BY <3>1, <3>2, <3>3, <3>4 DEF IsStrictPrefix, IsPrefix
      <3> QED  BY <3>1, <3>5 DEF Partial
    <2> QED  BY <2>1, <2>2
  <1>6. Len(t) - drop \in 0..Len(t)  BY <1>1, <1>4
  <1> QED  BY <1>3, <1>5, <1>6

\* A trimmed text has no stop sequence that it did not have before.
LEMMA TrimIsClean ==
  ASSUME NEW t \in Texts, StopsIn(t) = {}
  PROVE  TrimPartialStop(t) \in Texts /\ StopsIn(TrimPartialStop(t)) = {}
  <1>1. PICK k \in 0..Len(t) : TrimPartialStop(t) = SubSeq(t, 1, k)  BY TrimDropsAPart
  <1> QED  BY <1>1, Prefix, StopsInPrefix

------------------------------------------------------------------------------
(* The invariant.                                                          *)

\* What the stage of a call says of the other variables.
Stages ==
    /\ response \in Texts /\ said \in Texts
    /\ pc # "idle" => outcome = "none"
    /\ pc = "sample" => response = said
    /\ pc \in {"check", "evaluate", "reserve"} =>
          generated = 0 /\ response = <<>> /\ said = <<>>
    /\ pc = "evaluate" => position <= prompt
    /\ pc \in {"check", "evaluate"} => held = {}
    /\ pc = "reserve" => position = prompt /\ held = {"sampler"}
    /\ OnlyReserveLeaks

IInv == TypeOK /\ Stages /\ TokensHaveRoom /\ NoStopIsReturned /\ OnlyMarkersAreDropped

LEMMA EmptyIsClean == StopsIn(<<>>) = {} /\ <<>> \in Texts
  <1>1. <<>> \in Texts /\ Len(<<>>) = 0  BY DEF Texts
  <1>2. ASSUME NEW stop \in Stops, stop # <<>>, NEW p \in Occurrences(stop, <<>>) PROVE FALSE
    <2>1. stop \in Texts  BY GeneratorAssumption DEF Texts
    <2>2. Len(stop) \in Nat \ {0}  BY <1>2, <2>1 DEF Texts
    <2>3. p \in 0..(0 - Len(stop))  BY <1>1 DEF Occurrences
    <2> QED  BY <2>2, <2>3
  <1> QED  BY <1>1, <1>2 DEF StopsIn

LEMMA InitIsIInv == Init => IInv
  <1> SUFFICES ASSUME Init PROVE IInv  OBVIOUS
  <1>1. 0 \in 0..ContextTokens /\ 0 \in 0..0  BY GeneratorAssumption
  <1>2. TypeOK  BY <1>1 DEF Init, TypeOK
  <1>3. Stages /\ NoStopIsReturned
    BY EmptyIsClean DEF Init, Stages, NoStopIsReturned, OnlyReserveLeaks
  <1>4. TokensHaveRoom /\ OnlyMarkersAreDropped
    BY DEF Init, TokensHaveRoom, OnlyMarkersAreDropped
  <1> QED  BY <1>2, <1>3, <1>4 DEF IInv

\* The numbers of a call.
LEMMA Numbers == ASSUME IInv
                 PROVE  /\ prompt \in Nat /\ budget \in Nat /\ cells \in Nat /\ position \in Nat
                        /\ generated \in 0..budget /\ ContextTokens \in Nat \ {0}
                        /\ BatchTokens \in Nat \ {0}
  BY GeneratorAssumption, SizeAssumption DEF IInv, TypeOK

\* Behind the first condition the subtraction is the real one.
LEMMA FitsIsRoom == ASSUME IInv, Fits PROVE prompt + budget <= ContextTokens
  <1>1. prompt \in Nat /\ budget \in Nat /\ ContextTokens \in Nat  BY Numbers
  <1>2. ContextTokens <= SizeMax /\ SizeMax \in Nat
    BY GeneratorAssumption, SizeAssumption
  <1>3. budget <= ContextTokens /\ prompt <= Wrapped(ContextTokens - budget)  BY DEF Fits
  <1> DEFINE room == ContextTokens - budget
  <1>4. room \in Nat /\ room < SizeMax + 1  BY <1>1, <1>2, <1>3
  <1> HIDE DEF room
  <1>5. Wrapped(room) = room  BY <1>2, <1>4 DEF Wrapped
  <1>6. prompt <= ContextTokens - budget  BY <1>3, <1>5 DEF room
  <1> QED  BY <1>1, <1>6

\* Leaving a call with an exception.
LEMMA ThrowKeepsIInv ==
  ASSUME IInv, NEW what \in {"thrown", "unreserved"}, Throw(what),
         UNCHANGED <<cells, position, generated, response>>,
         \/ pc = "sample" /\ held' = {}
         \/ pc \in {"check", "evaluate"} /\ what = "thrown" /\ held' = held
         \/ pc = "reserve" /\ what = "unreserved" /\ held' = held
  PROVE  IInv'
  <1>1. TypeOK' /\ Stages'  BY DEF Throw, IInv, TypeOK, Stages, OnlyReserveLeaks
  <1>2. TokensHaveRoom' /\ OnlyMarkersAreDropped'
    BY DEF Throw, TokensHaveRoom, OnlyMarkersAreDropped
  <1>3. NoStopIsReturned'
    BY DEF Throw, IInv, NoStopIsReturned, StopsIn, Occurrences
  <1> QED  BY <1>1, <1>2, <1>3 DEF IInv

\* Returning text, of which no more than a stop sequence with what follows it
\* has been cut off.
LEMMA ReturnKeepsIInv ==
  ASSUME IInv, pc = "sample", NEW text \in Texts, StopsIn(text) = {},
         NEW why \in {"budget", "end", "stop"}, ReturnAs(text, why),
         UNCHANGED <<prompt, budget, cells, position, generated>>, said' \in Texts,
         NEW n \in 0..Len(said'), text = SubSeq(said', 1, n),
         IF why = "stop" THEN n \in StopsIn(said') ELSE n = Len(said')
  PROVE  IInv'
  <1>1. PICK k \in 0..Len(text) : /\ TrimPartialStop(text) = SubSeq(text, 1, k)
                                  /\ Partial(SubSeq(text, k + 1, Len(text)))
    BY TrimDropsAPart
  <1>2. response' = SubSeq(text, 1, k) /\ outcome' = why /\ pc' = "idle" /\ held' = {}
    BY <1>1 DEF ReturnAs
  <1>3. Len(text) = n /\ Len(said') \in Nat  BY Prefix DEF Texts
  <1>4. response' \in Texts /\ StopsIn(response') = {}
    BY TrimIsClean DEF ReturnAs
  <1>5. TypeOK' /\ Stages'
    BY <1>2, <1>4 DEF IInv, TypeOK, Stages, OnlyReserveLeaks
  <1>6. TokensHaveRoom'  BY <1>2 DEF TokensHaveRoom
  <1>7. NoStopIsReturned'
    BY <1>4 DEF NoStopIsReturned, StopsIn, Occurrences
  <1>8. OnlyMarkersAreDropped'
    <2>1. k \in 0..n  BY <1>3
    <2>2. response' = SubSeq(said', 1, k) /\ Len(response') = k
      <3>1. SubSeq(SubSeq(said', 1, n), 1, k) = SubSeq(said', 1, k)  BY <2>1, PartOfPrefix
      <3>2. k \in 0..Len(said')  BY <2>1, <1>3
      <3> QED  BY <1>2, <3>1, <3>2, Prefix
    <2>3. IsPrefix(response', said')
      <3>1. SubSeq(response', 1, k) = response'
        BY <1>4, <2>1, <2>2 DEF Texts
      <3> QED  BY <1>3, <2>1, <2>2, <3>1 DEF IsPrefix
    <2>4. Partial(SubSeq(said', Len(response') + 1, n))
      <3>1. k + 1 \in Nat \ {0} /\ n \in 0..n  BY <2>1
      <3>2. SubSeq(SubSeq(said', 1, n), k + 1, n) = SubSeq(said', k + 1, n)
        BY <3>1, PartOfPrefix
      <3> QED  BY <1>1, <1>3, <2>2, <3>2
    <2>5. n \in Len(response')..Len(said')  BY <1>3, <2>1, <2>2
    <2>6. IF outcome' = "stop" THEN n \in StopsIn(said') ELSE n = Len(said')  BY <1>2
    <2> QED
      BY <2>3, <2>4, <2>5, <2>6
      DEF OnlyMarkersAreDropped, Partial, StopsIn, Occurrences
  <1> QED  BY <1>5, <1>6, <1>7, <1>8 DEF IInv

LEMMA CallKeepsIInv == ASSUME IInv, NEW p \in Prompts, NEW b \in Budgets, Call(p, b) PROVE IInv'
  <1>1. TypeOK'
    BY GeneratorAssumption DEF Call, IInv, TypeOK
  <1>2. Stages'  BY EmptyIsClean DEF Call, IInv, Stages, OnlyReserveLeaks
  <1>3. TokensHaveRoom' /\ OnlyMarkersAreDropped'
    BY DEF Call, TokensHaveRoom, OnlyMarkersAreDropped
  <1>4. NoStopIsReturned'
    BY EmptyIsClean DEF Call, NoStopIsReturned, StopsIn, Occurrences
  <1> QED  BY <1>1, <1>2, <1>3, <1>4 DEF IInv

LEMMA StartKeepsIInv == ASSUME IInv, StartEvaluate PROVE IInv'
  <1>1. TypeOK'  BY Numbers DEF StartEvaluate, IInv, TypeOK
  <1>2. Stages'  BY Numbers DEF StartEvaluate, IInv, Stages, OnlyReserveLeaks
  <1>3. TokensHaveRoom'
    <2>1. prompt + budget <= ContextTokens  BY FitsIsRoom DEF StartEvaluate
    <2> QED  BY <2>1 DEF StartEvaluate, TokensHaveRoom
  <1>4. NoStopIsReturned' /\ OnlyMarkersAreDropped'
    BY DEF StartEvaluate, IInv, Stages, NoStopIsReturned, OnlyMarkersAreDropped, StopsIn,
           Occurrences
  <1> QED  BY <1>1, <1>2, <1>3, <1>4 DEF IInv

LEMMA BatchKeepsIInv == ASSUME IInv, EvaluateBatch PROVE IInv'
  <1> DEFINE count == Min({BatchTokens, prompt - position})
  <1>1. position < prompt /\ cells = position /\ prompt + budget <= ContextTokens
        /\ pc = "evaluate"
    BY DEF EvaluateBatch, IInv, TokensHaveRoom
  <1>2. count \in Nat /\ count <= prompt - position
    <2> DEFINE T == {BatchTokens, prompt - position}
    <2>1. T \in SUBSET Nat /\ T # {}  BY <1>1, Numbers
    <2> HIDE DEF T
    <2>2. Min(T) \in T /\ \A y \in T : Min(T) <= y  BY <2>1, MinIsLeast
    <2> QED  BY <2>1, <2>2 DEF T
  <1> HIDE DEF count
  <1>3. position' = position + count /\ cells' = cells + count
        /\ UNCHANGED <<pc, prompt, budget, generated, response, held, said, outcome>>
    BY DEF EvaluateBatch, count
  <1>4. position' \in 0..ContextTokens /\ cells' \in 0..ContextTokens /\ position' <= prompt
    BY <1>1, <1>2, <1>3, Numbers
  <1>5. TypeOK'  BY <1>3, <1>4 DEF IInv, TypeOK
  <1>6. Stages'  BY <1>1, <1>3, <1>4 DEF IInv, Stages, OnlyReserveLeaks
  <1>7. TokensHaveRoom'  BY <1>1, <1>3 DEF TokensHaveRoom
  <1>8. NoStopIsReturned' /\ OnlyMarkersAreDropped'
    BY <1>1, <1>3 DEF IInv, Stages, NoStopIsReturned, OnlyMarkersAreDropped, StopsIn, Occurrences
  <1> QED  BY <1>5, <1>6, <1>7, <1>8 DEF IInv

LEMMA SamplerKeepsIInv == ASSUME IInv, MakeSampler \/ StartSampling PROVE IInv'
  <1>1. TypeOK'  BY DEF MakeSampler, StartSampling, IInv, TypeOK
  <1>2. Stages'  BY DEF MakeSampler, StartSampling, IInv, Stages, OnlyReserveLeaks
  <1>3. TokensHaveRoom'
    <2>1. cells = position /\ position = prompt /\ prompt + budget <= ContextTokens
          /\ generated = 0
      BY DEF MakeSampler, StartSampling, IInv, TokensHaveRoom, Stages
    <2> QED  BY <2>1, Numbers DEF MakeSampler, StartSampling, TokensHaveRoom
  <1>4. NoStopIsReturned' /\ OnlyMarkersAreDropped'
    BY DEF MakeSampler, StartSampling, IInv, Stages, NoStopIsReturned, OnlyMarkersAreDropped,
           StopsIn, Occurrences
  <1> QED  BY <1>1, <1>2, <1>3, <1>4 DEF IInv

\* The loop ends without a stop sequence: the response is all that was said.
LEMMA EndKeepsIInv == ASSUME IInv, SpendBudget \/ EndOfGeneration PROVE IInv'
  <1>1. pc = "sample" /\ response \in Texts /\ response = said /\ StopsIn(response) = {}
    BY DEF SpendBudget, EndOfGeneration, IInv, Stages, NoStopIsReturned
  <1>2. PICK why \in {"budget", "end"} : ReturnAs(response, why)
    BY DEF SpendBudget, EndOfGeneration
  <1>3. UNCHANGED <<prompt, budget, cells, position, generated, said>>
    BY DEF SpendBudget, EndOfGeneration
  <1>4. said' \in Texts /\ Len(said') \in 0..Len(said') /\ response = SubSeq(said', 1, Len(said'))
    BY <1>1, <1>3 DEF Texts
  <1> QED  BY <1>1, <1>2, <1>3, <1>4, ReturnKeepsIInv

LEMMA StopKeepsIInv == ASSUME IInv, NEW piece \in Pieces, Stop(piece) PROVE IInv'
  <1> DEFINE text == response \o piece
             m == Min(StopsIn(text))
  <1>1. pc = "sample" /\ response = said /\ response \in Texts /\ piece \in Texts
    BY GeneratorAssumption DEF Stop, IInv, Stages, Texts
  <1>2. text \in Texts /\ StopsIn(text) # {} /\ said' = text
    BY <1>1 DEF Stop, Has, Texts
  <1>3. ReturnAs(TruncateAtStop(text), "stop")
        /\ UNCHANGED <<prompt, budget, cells, position, generated>>
    BY DEF Stop
  <1> HIDE DEF text
  <1>4. m \in StopsIn(text) /\ m \in 0..Len(text) /\ TruncateAtStop(text) \in Texts
        /\ StopsIn(TruncateAtStop(text)) = {} /\ TruncateAtStop(text) = SubSeq(text, 1, m)
    BY <1>2, TruncateIsClean DEF TruncateAtStop
  <1> HIDE DEF m
  <1> QED  BY <1>1, <1>2, <1>3, <1>4, ReturnKeepsIInv

LEMMA ContinueKeepsIInv == ASSUME IInv, NEW piece \in Pieces, Continue(piece) PROVE IInv'
  <1>1. pc = "sample" /\ response = said /\ response \in Texts /\ piece \in Texts
        /\ generated < budget
    BY GeneratorAssumption DEF Continue, IInv, Stages, Texts
  <1>2. response' = response \o piece /\ said' = said \o piece /\ StopsIn(response \o piece) = {}
        /\ cells' = cells + 1 /\ position' = position + 1 /\ generated' = generated + 1
        /\ UNCHANGED <<pc, prompt, budget, held, outcome>>
    BY DEF Continue, Has
  <1>3. cells = position /\ cells + (budget - generated) <= ContextTokens
    BY <1>1 DEF IInv, TokensHaveRoom
  <1>4. cells' \in 0..ContextTokens /\ position' \in 0..ContextTokens /\ generated' \in 0..budget
        /\ cells' + (budget - generated') <= ContextTokens
    BY <1>1, <1>2, <1>3, Numbers
  <1>5. TypeOK'  BY <1>2, <1>4 DEF IInv, TypeOK
  <1>6. response' \in Texts  BY <1>1, <1>2 DEF Texts
  <1>7. Stages'  BY <1>1, <1>2, <1>6 DEF IInv, Stages, OnlyReserveLeaks
  <1>8. TokensHaveRoom'  BY <1>1, <1>2, <1>3, <1>4 DEF TokensHaveRoom
  <1>9. NoStopIsReturned'
    <2>1. StopsIn(response') = {}  BY <1>2
    <2> QED  BY <2>1 DEF NoStopIsReturned, StopsIn, Occurrences
  <1>10. OnlyMarkersAreDropped'
    <2>1. outcome' = "none"  BY <1>1, <1>2 DEF IInv, Stages
    <2> QED  BY <2>1 DEF OnlyMarkersAreDropped
  <1> QED  BY <1>5, <1>7, <1>8, <1>9, <1>10 DEF IInv

LEMMA NextKeepsIInv == IInv /\ [Next]_vars => IInv'
  <1> SUFFICES ASSUME IInv, [Next]_vars PROVE IInv'  OBVIOUS
  <1>1. CASE UNCHANGED vars
    BY <1>1 DEF vars, IInv, TypeOK, Stages, TokensHaveRoom, NoStopIsReturned,
                OnlyMarkersAreDropped, OnlyReserveLeaks, StopsIn, Occurrences, Partial
  <1>2. CASE Refuse \/ EvaluateFails \/ SampleFails
    <2>1. /\ Throw("thrown") /\ UNCHANGED <<cells, position, generated, response>>
          /\ \/ pc = "sample" /\ held' = {}
             \/ pc \in {"check", "evaluate"} /\ held' = held
      BY <1>2 DEF Refuse, EvaluateFails, SampleFails
    <2> QED  BY <2>1, ThrowKeepsIInv
  <1>5. CASE ReserveFails
    <2>1. /\ Throw("unreserved") /\ UNCHANGED <<cells, position, generated, response>>
          /\ pc = "reserve" /\ held' = held
      BY <1>5 DEF ReserveFails
    <2> QED  BY <2>1, ThrowKeepsIInv
  <1>3. ASSUME NEW p \in Prompts, NEW b \in Budgets, Call(p, b) PROVE IInv'
    BY <1>3, CallKeepsIInv
  <1>4. ASSUME NEW piece \in Pieces, Stop(piece) \/ Continue(piece) PROVE IInv'
    BY <1>4, StopKeepsIInv, ContinueKeepsIInv
  <1> QED
    BY <1>1, <1>2, <1>3, <1>4, <1>5, StartKeepsIInv, BatchKeepsIInv, SamplerKeepsIInv,
       EndKeepsIInv
    DEF Next, Proceed

LEMMA Invariant == Spec => []IInv
  <1> QED  BY InitIsIInv, NextKeepsIInv, PTL DEF Spec

------------------------------------------------------------------------------
(* The theorems.                                                           *)

\* Every variable of generate keeps its type: in particular no position and no
\* cell beyond the context window is ever used, call after call.
THEOREM TypeCorrect == Spec => []TypeOK
  <1>1. IInv => TypeOK  BY DEF IInv
  <1> QED  BY <1>1, Invariant, PTL

\* For every context and batch size, a token is decoded at the first free
\* position, and all that the call may still decode has room.
THEOREM RoomForTokens == Spec => []TokensHaveRoom
  <1>1. IInv => TokensHaveRoom  BY DEF IInv
  <1> QED  BY <1>1, Invariant, PTL

\* For every set of stop sequences and every tokenization, what generate
\* returns has none of them.
THEOREM ResponsesAreClean == Spec => []NoStopIsReturned
  <1>1. IInv => NoStopIsReturned  BY DEF IInv
  <1> QED  BY <1>1, Invariant, PTL

\* What a response lacks is at most a stop sequence with what follows it, and
\* the beginning of one before it.
THEOREM LittleIsDropped == Spec => []OnlyMarkersAreDropped
  <1>1. IInv => OnlyMarkersAreDropped  BY DEF IInv
  <1> QED  BY <1>1, Invariant, PTL

\* Whichever call of llama.cpp fails, and after any number of tokens, generate
\* frees the sampler and the batch; a reservation of the response that fails
\* loses the sampler, and is the only way to lose anything.
THEOREM LeaksAreKnown == Spec => []OnlyReserveLeaks
  <1>1. IInv => OnlyReserveLeaks  BY DEF IInv, Stages
  <1> QED  BY <1>1, Invariant, PTL

------------------------------------------------------------------------------
(* The guards of the backend.                                              *)

Critical == {"entering", "counting", "leaving"}

\* The inductive invariant.
Exclusive == \A o \in Objects : stage[o] \in Critical <=> mutex = o

\* What the guard at "counting" has initialised, it has not counted yet.
Counted ==
    /\ references = Cardinality(Guarded)
    /\ backend = IF references > 0 \/ (\E o \in Objects : stage[o] = "counting") THEN 1 ELSE 0

Holders ==
    /\ models = {o \in Objects : stage[o] \in {"loaded", "checking", "ready", "contextFreed"}}
    /\ contexts = {o \in Objects : stage[o] \in {"checking", "ready"}}

ModelsInv ==
    /\ stage \in [Objects -> Stage]
    /\ mutex \in Objects \cup {Nobody}
    /\ Exclusive /\ Counted /\ Holders

\* Stages at which an object has a counted guard and wants nothing of the mutex.
Working == {"guarded", "loaded", "checking", "ready", "contextFreed", "unguarded"}

LEMMA ModelsInitInv == ModelsInit => ModelsInv
<1> SUFFICES ASSUME ModelsInit PROVE ModelsInv
  OBVIOUS
<1>1. stage \in [Objects -> Stage] /\ mutex \in Objects \cup {Nobody}
  BY DEF ModelsInit, Stage
<1>2. Exclusive
  BY ModelsAssumption DEF ModelsInit, Exclusive, Critical
<1>3. Counted
  <2>1. Guarded = {}
    BY DEF ModelsInit, Guarded
  <2>2. references = 0 /\ backend = 0 /\ Cardinality({}) = 0
    BY FS_EmptySet DEF ModelsInit
  <2>3. \A o \in Objects : stage[o] # "counting"
    BY DEF ModelsInit
  <2> QED BY <2>1, <2>2, <2>3 DEF Counted
<1>4. Holders
  BY DEF ModelsInit, Holders
<1> QED BY <1>1, <1>2, <1>3, <1>4 DEF ModelsInv

\* The count is a natural number, and an object that is counted makes it positive.
LEMMA CountIsNat ==
    ASSUME ModelsInv
    PROVE  /\ IsFiniteSet(Guarded)
           /\ references \in Nat
           /\ \A o \in Guarded : references > 0
<1>1. IsFiniteSet(Guarded)
  BY ModelsAssumption, FS_Subset DEF Guarded
<1>2. Cardinality(Guarded) \in Nat
  BY <1>1, FS_CardinalityType
<1>3. Guarded # {} => Cardinality(Guarded) # 0
  BY <1>1, FS_EmptySet
<1>4. references = Cardinality(Guarded)
  BY DEF ModelsInv, Counted
<1>5. references \in Nat
  BY <1>2, <1>4
<1>6. ASSUME NEW o \in Guarded PROVE references > 0
  <2>1. references # 0
    BY <1>3, <1>4
  <2> QED BY <1>5, <2>1, SMT
<1> QED BY <1>1, <1>5, <1>6

\* A step of a guarded object that leaves the mutex alone disturbs no count.
LEMMA Work ==
    ASSUME ModelsInv, NEW o \in Objects, NEW to \in Working,
           stage[o] \in Working, Goto(o, to), UNCHANGED <<mutex, references, backend>>
    PROVE  /\ stage' \in [Objects -> Stage] /\ mutex' \in Objects \cup {Nobody}
           /\ Exclusive' /\ Counted'
<1>1. stage \in [Objects -> Stage] /\ stage' = [stage EXCEPT ![o] = to]
  BY DEF ModelsInv, Goto
<1>2. stage' \in [Objects -> Stage] /\ mutex' \in Objects \cup {Nobody}
  BY <1>1 DEF ModelsInv, Working, Stage
<1>3. stage'[o] = to /\ \A q \in Objects : q # o => stage'[q] = stage[q]
  BY <1>1
<1>4. Exclusive'
  BY <1>3 DEF ModelsInv, Exclusive, Working, Critical
<1>5. Guarded' = Guarded
  BY <1>3 DEF Guarded, Working
<1>6. (\E q \in Objects : stage[q] = "counting")' <=> \E q \in Objects : stage[q] = "counting"
  BY <1>3 DEF Working
<1>7. Counted'
  BY <1>5, <1>6 DEF ModelsInv, Counted
<1> QED BY <1>2, <1>4, <1>7

\* Taking the mutex.
LEMMA Locked ==
    ASSUME ModelsInv, NEW o \in Objects, NEW from, NEW to, Lock(o, from, to),
           <<from, to>> \in {<<"absent", "entering">>, <<"unguarded", "leaving">>}
    PROVE  ModelsInv'
<1>1. /\ stage \in [Objects -> Stage] /\ stage' = [stage EXCEPT ![o] = to] /\ stage[o] = from
      /\ mutex = Nobody /\ mutex' = o
      /\ UNCHANGED <<references, backend, models, contexts>>
  BY DEF ModelsInv, Lock, At, Goto
<1>2. from \in {"absent", "unguarded"} /\ to \in {"entering", "leaving"}
  OBVIOUS
<1>3. stage' \in [Objects -> Stage] /\ mutex' \in Objects \cup {Nobody}
  BY <1>1, <1>2 DEF Stage
<1>4. stage'[o] = to /\ \A q \in Objects : q # o => stage'[q] = stage[q]
  BY <1>1
<1>5. Exclusive'
  BY <1>1, <1>2, <1>4, ModelsAssumption DEF ModelsInv, Exclusive, Critical
<1>6. Guarded' = Guarded
  BY <1>1, <1>4 DEF Guarded
<1>7. (\E q \in Objects : stage[q] = "counting")' <=> \E q \in Objects : stage[q] = "counting"
  BY <1>1, <1>2, <1>4
<1>8. Counted'
  BY <1>1, <1>6, <1>7 DEF ModelsInv, Counted
<1>9. Holders'
  BY <1>1, <1>2, <1>4 DEF ModelsInv, Holders
<1> QED BY <1>3, <1>5, <1>8, <1>9 DEF ModelsInv

LEMMA InitBackendInv == ASSUME ModelsInv, NEW o \in Objects, InitBackend(o) PROVE ModelsInv'
<1>1. /\ stage \in [Objects -> Stage] /\ stage' = [stage EXCEPT ![o] = "counting"]
      /\ stage[o] = "entering" /\ mutex = o
      /\ UNCHANGED <<mutex, references, models, contexts>>
      /\ backend' = IF references = 0 THEN backend + 1 ELSE backend
  BY DEF ModelsInv, InitBackend, At, Goto, Exclusive, Critical
<1>2. stage' \in [Objects -> Stage] /\ mutex' \in Objects \cup {Nobody}
  BY <1>1 DEF ModelsInv, Stage
<1>3. stage'[o] = "counting" /\ \A q \in Objects : q # o => stage'[q] = stage[q]
  BY <1>1
<1>4. Exclusive'
  BY <1>1, <1>3 DEF ModelsInv, Exclusive, Critical
<1>5. Guarded' = Guarded
  BY <1>1, <1>3 DEF Guarded
<1>6. \A q \in Objects : stage[q] # "counting"
  BY <1>1 DEF ModelsInv, Exclusive, Critical
<1>7. backend = IF references > 0 THEN 1 ELSE 0
  BY <1>6 DEF ModelsInv, Counted
<1>8. backend' = 1
  BY <1>1, <1>7, CountIsNat, SMT
<1>9. Counted'
  BY <1>1, <1>3, <1>5, <1>8 DEF ModelsInv, Counted
<1>10. Holders'
  BY <1>1, <1>3 DEF ModelsInv, Holders
<1> QED BY <1>2, <1>4, <1>9, <1>10 DEF ModelsInv

LEMMA CountGuardInv == ASSUME ModelsInv, NEW o \in Objects, CountGuard(o) PROVE ModelsInv'
<1>1. /\ stage \in [Objects -> Stage] /\ stage' = [stage EXCEPT ![o] = "guarded"]
      /\ stage[o] = "counting" /\ mutex = o /\ mutex' = Nobody
      /\ references' = references + 1
      /\ UNCHANGED <<backend, models, contexts>>
  BY DEF ModelsInv, CountGuard, At, Goto, Exclusive, Critical
<1>2. stage' \in [Objects -> Stage] /\ mutex' \in Objects \cup {Nobody}
  BY <1>1 DEF Stage
<1>3. stage'[o] = "guarded" /\ \A q \in Objects : q # o => stage'[q] = stage[q]
  BY <1>1
<1>4. Exclusive'
  BY <1>1, <1>3, ModelsAssumption DEF ModelsInv, Exclusive, Critical
<1>5. o \notin Guarded /\ Guarded' = Guarded \cup {o}
  BY <1>1, <1>3 DEF Guarded
<1>6. references' = Cardinality(Guarded')
  BY <1>1, <1>5, CountIsNat, FS_AddElement DEF ModelsInv, Counted
<1>7. backend = 1
  BY <1>1 DEF ModelsInv, Counted
<1>8. references' > 0
  BY <1>1, CountIsNat, SMT
<1>9. Counted'
  BY <1>1, <1>6, <1>7, <1>8 DEF Counted
<1>10. Holders'
  BY <1>1, <1>3 DEF ModelsInv, Holders
<1> QED BY <1>2, <1>4, <1>9, <1>10 DEF ModelsInv

LEMMA UncountGuardInv == ASSUME ModelsInv, NEW o \in Objects, UncountGuard(o) PROVE ModelsInv'
<1>1. /\ stage \in [Objects -> Stage] /\ stage' = [stage EXCEPT ![o] = "absent"]
      /\ stage[o] = "leaving" /\ mutex = o /\ mutex' = Nobody
      /\ references' = references - 1
      /\ backend' = IF references' = 0 THEN backend - 1 ELSE backend
      /\ UNCHANGED <<models, contexts>>
  BY DEF ModelsInv, UncountGuard, At, Goto, Exclusive, Critical
<1>2. stage' \in [Objects -> Stage] /\ mutex' \in Objects \cup {Nobody}
  BY <1>1 DEF Stage
<1>3. stage'[o] = "absent" /\ \A q \in Objects : q # o => stage'[q] = stage[q]
  BY <1>1
<1>4. Exclusive'
  BY <1>1, <1>3, ModelsAssumption DEF ModelsInv, Exclusive, Critical
<1>5. o \in Guarded /\ Guarded' = Guarded \ {o}
  BY <1>1, <1>3 DEF Guarded
<1>6. references' = Cardinality(Guarded')
  BY <1>1, <1>5, CountIsNat, FS_RemoveElement DEF ModelsInv, Counted
<1>7. references \in Nat /\ references > 0
  BY <1>5, CountIsNat
<1>8. backend = 1
  BY <1>7 DEF ModelsInv, Counted
<1>9. \A q \in Objects : stage'[q] # "counting"
  BY <1>1, <1>3 DEF ModelsInv, Exclusive, Critical
<1>10. backend' = IF references' > 0 THEN 1 ELSE 0
  BY <1>1, <1>7, <1>8, SMT
<1>11. Counted'
  BY <1>6, <1>9, <1>10 DEF Counted
<1>12. Holders'
  BY <1>1, <1>3 DEF ModelsInv, Holders
<1> QED BY <1>2, <1>4, <1>11, <1>12 DEF ModelsInv

LEMMA ModelsNextInv == ModelsInv /\ [ModelsNext]_modelsVars => ModelsInv'
<1> SUFFICES ASSUME ModelsInv, [ModelsNext]_modelsVars PROVE ModelsInv'
  OBVIOUS
<1>1. CASE UNCHANGED modelsVars
  BY <1>1 DEF modelsVars, ModelsInv, Exclusive, Counted, Holders, Guarded
<1>2. ASSUME NEW o \in Objects, EnterGuard(o) \/ LeaveGuard(o) PROVE ModelsInv'
  BY <1>2, Locked DEF EnterGuard, LeaveGuard
<1>3. ASSUME NEW o \in Objects,
             \/ LoadModelFails(o) \/ LoadModel(o) \/ CreateContext(o) \/ CreateContextFails(o)
             \/ AcceptModel(o) \/ RejectModel(o) \/ FreeContext(o) \/ FreeModel(o)
      PROVE  ModelsInv'
  <2>1. PICK to \in Working :
           stage[o] \in Working /\ Goto(o, to) /\ UNCHANGED <<mutex, references, backend>>
    BY <1>3 DEF LoadModelFails, LoadModel, CreateContext, CreateContextFails, AcceptModel,
                RejectModel, FreeContext, FreeModel, At, Working
  <2>2. /\ stage' \in [Objects -> Stage] /\ mutex' \in Objects \cup {Nobody}
        /\ Exclusive' /\ Counted'
    BY <2>1, Work
  <2>3. stage \in [Objects -> Stage] /\ Holders
    BY DEF ModelsInv
  <2>4. Holders'
    <3>1. CASE LoadModelFails(o)
      BY <2>3, <3>1 DEF LoadModelFails, At, Goto, Holders
    <3>2. CASE LoadModel(o)
      BY <2>3, <3>2 DEF LoadModel, At, Goto, Holders
    <3>3. CASE CreateContext(o)
      BY <2>3, <3>3 DEF CreateContext, At, Goto, Holders
    <3>4. CASE CreateContextFails(o)
      BY <2>3, <3>4 DEF CreateContextFails, At, Goto, Holders
    <3>5. CASE AcceptModel(o)
      BY <2>3, <3>5 DEF AcceptModel, At, Goto, Holders
    <3>6. CASE RejectModel(o)
      BY <2>3, <3>6 DEF RejectModel, At, Goto, Holders
    <3>7. CASE FreeContext(o)
      BY <2>3, <3>7 DEF FreeContext, At, Goto, Holders
    <3>8. CASE FreeModel(o)
      BY <2>3, <3>8 DEF FreeModel, At, Goto, Holders
    <3> QED BY <1>3, <3>1, <3>2, <3>3, <3>4, <3>5, <3>6, <3>7, <3>8
  <2> QED BY <2>2, <2>4 DEF ModelsInv
<1> QED BY <1>1, <1>2, <1>3, InitBackendInv, CountGuardInv, UncountGuardInv
        DEF ModelsNext, Construct, Destroy

LEMMA ModelsInvariant == ModelsSpec => []ModelsInv
BY ModelsInitInv, ModelsNextInv, PTL DEF ModelsSpec

\* While an object holds a model or a context, the backend is initialised.
THEOREM BackendIsThere == ModelsSpec => []BackendOutlivesModels
<1>1. ModelsInv => BackendOutlivesModels
  <2> SUFFICES ASSUME ModelsInv, NEW o \in models \cup contexts PROVE backend > 0
    BY DEF BackendOutlivesModels
  <2>1. o \in Guarded
    BY DEF ModelsInv, Holders, Guarded
  <2>2. references > 0
    BY <2>1, CountIsNat
  <2>3. backend = 1
    BY <2>2 DEF ModelsInv, Counted
  <2> QED BY <2>3, SMT
<1> QED BY <1>1, ModelsInvariant, PTL

\* Outside the critical sections the backend is initialised exactly once if
\* there is a guard, and the count is that of the guards.
THEOREM BackendIsCounted == ModelsSpec => []BackendFollowsTheCount
<1>1. ModelsInv => BackendFollowsTheCount
  <2> SUFFICES ASSUME ModelsInv, mutex = Nobody
               PROVE  /\ references = Cardinality(Guarded)
                      /\ backend = IF references > 0 THEN 1 ELSE 0
    BY DEF BackendFollowsTheCount
  <2>1. \A o \in Objects : stage[o] # "counting"
    BY ModelsAssumption DEF ModelsInv, Exclusive, Critical
  <2> QED BY <2>1 DEF ModelsInv, Counted
<1> QED BY <1>1, ModelsInvariant, PTL

\* No model or context outlives its object, and no context its model.
THEOREM ModelsAreFreed == ModelsSpec => []NothingLeaks
<1>1. ModelsInv => NothingLeaks
  BY DEF ModelsInv, Holders, NothingLeaks
<1> QED BY <1>1, ModelsInvariant, PTL

\* Every variable keeps its type.
THEOREM ModelsTypeCorrect == ModelsSpec => []ModelsTypeOK
<1>1. ModelsInv => ModelsTypeOK
  <2> SUFFICES ASSUME ModelsInv PROVE ModelsTypeOK
    OBVIOUS
  <2>1. Cardinality(Guarded) <= Cardinality(Objects)
    BY ModelsAssumption, FS_Subset DEF Guarded
  <2>2. Cardinality(Objects) \in Nat
    BY ModelsAssumption, FS_CardinalityType
  <2>3. references \in 0..Cardinality(Objects)
    <3>1. references \in Nat /\ references <= Cardinality(Objects)
      BY <2>1, CountIsNat DEF ModelsInv, Counted
    <3> QED BY <2>2, <3>1, SMT
  <2>4. backend \in Nat
    BY DEF ModelsInv, Counted
  <2>5. models \subseteq Objects /\ contexts \subseteq Objects
    BY DEF ModelsInv, Holders
  <2> QED BY <2>3, <2>4, <2>5 DEF ModelsInv, ModelsTypeOK
<1> QED BY <1>1, ModelsInvariant, PTL
=============================================================================
