--------------------------- MODULE RecursionTheorems ---------------------------
(***************************************************************************)
(* Facts that the proofs about several components share: the smallest and  *)
(* the largest of a set of numbers, induction, and what a function that is *)
(* defined by recursion over a list computes.  The library's theorems on   *)
(* induction take an operator as a parameter; here it is a set of numbers, *)
(* or a function, which the provers can instantiate.                       *)
(***************************************************************************)
EXTENDS Integers, Sums, SequencesExt, SequenceTheorems, WellFoundedInduction, TLAPS

------------------------------------------------------------------------------
(* Sets of numbers.                                                        *)

LEMMA SmallestExists ==
  ASSUME NEW T \in SUBSET Nat, T # {}
  PROVE  \E x \in T : \A y \in T : x <= y
  <1> DEFINE Less == {ss \in Nat \X Nat : ss[1] < ss[2]}
  <1>1. IsWellFoundedOn(Less, Nat)  BY NatLessThanWellFounded, Zenon DEF OpToRel
  <1> HIDE DEF Less
  <1>2. PICK x \in T : \A y \in T : ~(<<y, x>> \in Less)  BY <1>1, WFMin
  <1>3. ASSUME NEW y \in T PROVE x <= y
    <2>1. ~(<<y, x>> \in Less)  BY <1>2
    <2>2. x \in Nat /\ y \in Nat  OBVIOUS
    <2> QED  BY <2>1, <2>2, SMT DEF Less
  <1> QED  BY <1>3

LEMMA MinIsLeast ==
  ASSUME NEW T \in SUBSET Nat, T # {}
  PROVE  Min(T) \in T /\ \A y \in T : Min(T) <= y
  BY SmallestExists DEF Min

LEMMA MaxIsGreatest ==
  ASSUME NEW n \in Nat, NEW T \in SUBSET (0..n), T # {}
  PROVE  Max(T) \in T /\ \A y \in T : y <= Max(T)
  <1> DEFINE Gaps == {n - y : y \in T}
  <1>1. Gaps \in SUBSET Nat /\ Gaps # {}
    <2>1. \A y \in T : y \in 0..n  OBVIOUS
    <2>2. \A y \in T : n - y \in Nat  BY <2>1, SMT
    <2> QED  BY <2>2
  <1>2. PICK g \in Gaps : \A h \in Gaps : g <= h  BY <1>1, SmallestExists
  <1>3. PICK x \in T : g = n - x  OBVIOUS
  <1>4. ASSUME NEW y \in T PROVE x >= y
    <2>1. n - x <= n - y  BY <1>2, <1>3
    <2> QED  BY <2>1, SMT
  <1>5. Max(T) \in T /\ \A y \in T : Max(T) >= y  BY <1>4 DEF Max
  <1> QED  BY <1>5, SMT

------------------------------------------------------------------------------
(* Recursion over a list.                                                  *)

LEMMA Induction ==
  ASSUME NEW T \in SUBSET Nat, 0 \in T, \A n \in T : n + 1 \in T
  PROVE  T = Nat
  <1> SUFFICES ASSUME T # Nat PROVE FALSE  OBVIOUS
  <1>1. PICK x \in Nat \ T : \A y \in Nat \ T : x <= y  BY SmallestExists
  <1>2. x # 0 /\ x - 1 \in Nat  BY <1>1
  <1>3. x - 1 \in T  BY <1>1, <1>2
  <1> QED  BY <1>1, <1>3

\* What never shrinks from one position to the next does not shrink at all.
LEMMA Grows ==
  ASSUME NEW n \in Nat, NEW f \in [0..n -> Nat], \A i \in 1..n : f[i - 1] <= f[i],
         NEW k \in 0..n, NEW j \in 0..n, k <= j
  PROVE  f[k] <= f[j]
  <1> DEFINE T == {m \in Nat : k + m <= n => f[k] <= f[k + m]}
  <1>1. k \in Nat /\ j \in Nat /\ j - k \in Nat /\ k + (j - k) = j /\ j <= n  OBVIOUS
  <1>2. 0 \in T  BY <1>1
  <1>3. ASSUME NEW m \in T PROVE m + 1 \in T
    <2>1. m \in Nat /\ m + 1 \in Nat  OBVIOUS
    <2>2. ASSUME k + (m + 1) <= n PROVE f[k] <= f[k + (m + 1)]
      <3>1. f[k] <= f[k + m]  BY <1>1, <2>1, <2>2
      <3> DEFINE i == k + (m + 1)
      <3>2. i \in 1..n /\ i - 1 = k + m /\ i - 1 \in 0..n /\ i \in 0..n  BY <1>1, <2>1, <2>2
      <3> HIDE DEF i
      <3>3. f[i - 1] <= f[i]  BY <3>2
      <3>4. f[k] \in Nat /\ f[i - 1] \in Nat /\ f[i] \in Nat  BY <3>2
      <3>5. f[k] <= f[i]  BY <3>1, <3>2, <3>3, <3>4
      <3> QED  BY <3>5 DEF i
    <2> QED  BY <2>1, <2>2
  <1>4. T \in SUBSET Nat  OBVIOUS
  <1> HIDE DEF T
  <1>5. T = Nat  BY <1>2, <1>3, <1>4, Induction
  <1>6. j - k \in T  BY <1>1, <1>5
  <1>7. k + (j - k) <= n => f[k] <= f[k + (j - k)]  BY <1>6 DEF T
  <1> QED  BY <1>1, <1>7

\* f is computed from base, one step per position of a list.
Steps(f, base, step, n) == f[0] = base /\ \A i \in 1..n : f[i] = step[i][f[i - 1]]

LEMMA StepsExist ==
  ASSUME NEW V, NEW base \in V, NEW n \in Nat, NEW step \in [1..n -> [V -> V]]
  PROVE  \E f \in [0..n -> V] : Steps(f, base, step, n)
  <1> DEFINE T == {m \in Nat : m <= n => \E f \in [0..m -> V] : Steps(f, base, step, m)}
  <1>1. 0 \in T
    <2>1. [i \in 0..0 |-> base] \in [0..0 -> V]  OBVIOUS
    <2>2. Steps([i \in 0..0 |-> base], base, step, 0)  BY DEF Steps
    <2> QED  BY <2>1, <2>2
  <1>2. ASSUME NEW m \in T PROVE m + 1 \in T
    <2>1. m \in Nat /\ m + 1 \in Nat  OBVIOUS
    <2>2. ASSUME m + 1 <= n
          PROVE  \E f \in [0..(m + 1) -> V] : Steps(f, base, step, m + 1)
      <3>1. m <= n  BY <2>1, <2>2
      <3>2. PICK f \in [0..m -> V] : Steps(f, base, step, m)  BY <3>1
      <3> DEFINE g == [i \in 0..(m + 1) |-> IF i <= m THEN f[i] ELSE step[m + 1][f[m]]]
      <3>3. f[m] \in V /\ step[m + 1] \in [V -> V]  BY <2>1, <2>2
      <3>4. g \in [0..(m + 1) -> V]  BY <3>3
      <3>5. g[0] = base  BY <2>1, <3>2 DEF Steps
      <3>6. ASSUME NEW i \in 1..(m + 1) PROVE g[i] = step[i][g[i - 1]]
        <4>1. CASE i <= m  BY <2>1, <3>2, <4>1 DEF Steps
        <4>2. CASE i = m + 1  BY <2>1, <4>2
        <4> QED  BY <2>1, <4>1, <4>2
      <3> HIDE DEF g
      <3> QED  BY <3>4, <3>5, <3>6 DEF Steps
    <2> QED  BY <2>1, <2>2
  <1>3. T \in SUBSET Nat  OBVIOUS
  <1> HIDE DEF T
  <1>4. T = Nat  BY <1>1, <1>2, <1>3, Induction
  <1>5. n \in T  BY <1>4
  <1> QED  BY <1>5 DEF T

\* Two functions that take the same steps agree.
LEMMA StepsAgree ==
  ASSUME NEW n \in Nat, NEW f, NEW g, f[0] = g[0],
         \A i \in 1..n : f[i - 1] = g[i - 1] => f[i] = g[i]
  PROVE  f[n] = g[n]
  <1> DEFINE T == {m \in Nat : m <= n => f[m] = g[m]}
  <1>1. 0 \in T  OBVIOUS
  <1>2. ASSUME NEW m \in T PROVE m + 1 \in T
    <2>1. m \in Nat /\ m + 1 \in Nat  OBVIOUS
    <2>2. ASSUME m + 1 <= n PROVE f[m + 1] = g[m + 1]
      <3>1. m + 1 \in 1..n /\ (m + 1) - 1 = m  BY <2>1, <2>2
      <3>2. f[m] = g[m]  BY <2>1, <2>2
      <3> QED  BY <3>1, <3>2
    <2> QED  BY <2>1, <2>2
  <1>3. T \in SUBSET Nat  OBVIOUS
  <1> HIDE DEF T
  <1>4. T = Nat  BY <1>1, <1>2, <1>3, Induction
  <1>5. n \in T  BY <1>4
  <1> QED  BY <1>5 DEF T

\* Flattening is recursion over the parts.
LEMMA FlattenSteps ==
  ASSUME NEW S, NEW n \in Nat, NEW parts \in [1..n -> Seq(S)]
  PROVE  \E f \in [0..n -> Seq(S)] :
            /\ f[0] = <<>> /\ \A i \in 1..n : f[i] = f[i - 1] \o parts[i]
            /\ FlattenSeq(parts) = f[n]
  <1> DEFINE step == [i \in 1..n |-> [s \in Seq(S) |-> s \o parts[i]]]
  <1>1. step \in [1..n -> [Seq(S) -> Seq(S)]]  OBVIOUS
  <1>2. PICK f \in [0..n -> Seq(S)] : Steps(f, <<>>, step, n)
    <2>1. <<>> \in Seq(S)  OBVIOUS
    <2> HIDE DEF step
    <2> QED  BY <1>1, <2>1, StepsExist
  <1>3. f[0] = <<>> /\ \A i \in 1..n : f[i] = f[i - 1] \o parts[i]
    <2>1. f[0] = <<>> /\ \A i \in 1..n : f[i] = step[i][f[i - 1]]  BY <1>2 DEF Steps
    <2>2. \A i \in 1..n : f[i - 1] \in Seq(S)  OBVIOUS
    <2> QED  BY <2>1, <2>2
  <1>4. parts \in Seq(Seq(S)) /\ Len(parts) = n  OBVIOUS
  <1>5. CASE n = 0
    <2>1. FlattenSeq(parts) = parts  BY <1>4, <1>5 DEF FlattenSeq
    <2>2. parts = <<>>  BY <1>4, <1>5
    <2> QED  BY <1>3, <1>5, <2>1, <2>2
  <1>6. CASE n # 0
    <2> DEFINE flat == CHOOSE g : g = [i \in 1..n |-> IF i = 1 THEN parts[i] ELSE g[i - 1] \o parts[i]]
    <2>1. FlattenSeq(parts) = flat[n]  BY <1>4, <1>6, Zenon DEF FlattenSeq
    <2>0. 1 \in 1..n /\ f[1] = <<>> \o parts[1]
      <3>1. 1 \in 1..n /\ 1 - 1 = 0  BY <1>6
      <3>2. f[1] = f[1 - 1] \o parts[1] /\ f[0] = <<>>  BY <1>3, <3>1
      <3> QED  BY <3>1, <3>2
    <2> DEFINE h == [i \in 1..n |-> f[i]]
    <2>2. h = [i \in 1..n |-> IF i = 1 THEN parts[i] ELSE h[i - 1] \o parts[i]]
      <3>1. ASSUME NEW i \in 1..n
            PROVE  f[i] = IF i = 1 THEN parts[i] ELSE h[i - 1] \o parts[i]
        <4>1. CASE i = 1
          <5>1. f[1] = <<>> \o parts[1] /\ parts[1] \in Seq(S)  BY <4>1, <2>0
          <5>2. <<>> \o parts[1] = parts[1]  BY <5>1, ConcatEmptySeq
          <5> QED  BY <4>1, <5>1, <5>2
        <4>2. CASE i # 1
          <5>1. i - 1 \in 1..n  BY <4>2
          <5> QED  BY <1>3, <4>2, <5>1
        <4> QED  BY <4>1, <4>2
      <3> QED  BY <3>1
    <2> HIDE DEF h
    <2>3. flat = [i \in 1..n |-> IF i = 1 THEN parts[i] ELSE flat[i - 1] \o parts[i]]
      BY <2>2
    <2> HIDE DEF flat
    <2> DEFINE T == {m \in Nat : m + 1 <= n => flat[m + 1] = f[m + 1]}
    <2>4. 0 \in T
      <3>1. 1 \in 1..n /\ flat[1] = parts[1] /\ parts[1] \in Seq(S)  BY <1>6, <2>3
      <3>2. f[1] = <<>> \o parts[1]  BY <2>0
      <3>3. flat[1] = f[1]  BY <3>1, <3>2, ConcatEmptySeq
      <3> QED  BY <3>3
    <2>5. ASSUME NEW m \in T PROVE m + 1 \in T
      <3>1. m \in Nat /\ m + 1 \in Nat  OBVIOUS
      <3>2. ASSUME (m + 1) + 1 <= n PROVE flat[(m + 1) + 1] = f[(m + 1) + 1]
        <4>1. m + 1 <= n /\ m + 1 \in 1..n /\ (m + 1) + 1 \in 1..n  BY <3>1, <3>2
        <4>2. flat[m + 1] = f[m + 1]  BY <4>1
        <4>3. flat[(m + 1) + 1] = flat[((m + 1) + 1) - 1] \o parts[(m + 1) + 1]
          <5> DEFINE k == (m + 1) + 1
          <5>1. k \in 1..n /\ k # 1  BY <3>1, <4>1
          <5> HIDE DEF k
          <5>2. flat[k] = flat[k - 1] \o parts[k]  BY <2>3, <5>1
          <5> QED  BY <5>2 DEF k
        <4>4. f[(m + 1) + 1] = f[((m + 1) + 1) - 1] \o parts[(m + 1) + 1]  BY <1>3, <4>1
        <4>5. ((m + 1) + 1) - 1 = m + 1  BY <3>1
        <4> QED  BY <4>2, <4>3, <4>4, <4>5
      <3> QED  BY <3>1, <3>2
    <2>6. T \in SUBSET Nat  OBVIOUS
    <2> HIDE DEF T
    <2>7. T = Nat  BY <2>4, <2>5, <2>6, Induction
    <2>8. n - 1 \in Nat  BY <1>6
    <2>9. n - 1 \in T  BY <2>7, <2>8
    <2>10. flat[n] = f[n]
      <3>1. (n - 1) + 1 <= n => flat[(n - 1) + 1] = f[(n - 1) + 1]  BY <2>9 DEF T
      <3>2. (n - 1) + 1 = n  OBVIOUS
      <3> QED  BY <3>1, <3>2
    <2> QED  BY <1>3, <2>1, <2>10
  <1> QED  BY <1>5, <1>6

\* One part more is appended.
LEMMA FlattenAppends ==
  ASSUME NEW S, NEW n \in Nat, NEW parts \in [1..(n + 1) -> Seq(S)]
  PROVE  /\ FlattenSeq([i \in 1..n |-> parts[i]]) \in Seq(S)
         /\ FlattenSeq(parts) = FlattenSeq([i \in 1..n |-> parts[i]]) \o parts[n + 1]
  <1> DEFINE front == [i \in 1..n |-> parts[i]]
  <1>1. front \in [1..n -> Seq(S)]  OBVIOUS
  <1>2. \A i \in 1..n : front[i] = parts[i]  OBVIOUS
  <1> HIDE DEF front
  <1>3. PICK f \in [0..n -> Seq(S)] :
           /\ f[0] = <<>> /\ \A i \in 1..n : f[i] = f[i - 1] \o front[i]
           /\ FlattenSeq(front) = f[n]
    BY <1>1, FlattenSteps, Zenon
  <1>4. PICK g \in [0..(n + 1) -> Seq(S)] :
           /\ g[0] = <<>> /\ \A i \in 1..(n + 1) : g[i] = g[i - 1] \o parts[i]
           /\ FlattenSeq(parts) = g[n + 1]
    <2>1. n + 1 \in Nat  OBVIOUS
    <2> QED  BY <2>1, FlattenSteps, Zenon
  <1>5. \A i \in 1..n : f[i - 1] = g[i - 1] => f[i] = g[i]
    <2> SUFFICES ASSUME NEW i \in 1..n, f[i - 1] = g[i - 1] PROVE f[i] = g[i]  OBVIOUS
    <2>1. i \in 1..(n + 1)  OBVIOUS
    <2> QED  BY <1>2, <1>3, <1>4, <2>1
  <1>6. f[n] = g[n]
    <2>1. f[0] = g[0]  BY <1>3, <1>4
    <2> QED  BY <1>5, <2>1, StepsAgree
  <1>7. g[n + 1] = g[n] \o parts[n + 1]
    <2>1. n + 1 \in 1..(n + 1) /\ (n + 1) - 1 = n  OBVIOUS
    <2> QED  BY <1>4, <2>1
  <1>8. f[n] \in Seq(S)  OBVIOUS
  <1> QED  BY <1>3, <1>4, <1>6, <1>7, <1>8 DEF front

\* What joining two lists does.
LEMMA Joined ==
  ASSUME NEW S, NEW s \in Seq(S), NEW t \in Seq(S)
  PROVE  /\ s \o t \in Seq(S) /\ Len(s \o t) = Len(s) + Len(t)
         /\ Len(s) \in Nat /\ Len(t) \in Nat
         /\ \A p \in 1..Len(s) : (s \o t)[p] = s[p]
         /\ \A l \in 1..Len(t) : (s \o t)[Len(s) + l] = t[l]
  OBVIOUS

\* Where the parts end in the flattened list: every place of every part is one of
\* its positions, and conversely.
PartsEnd(ends, parts, n) ==
  /\ ends[0] = 0 /\ \A i \in 1..n : ends[i] = ends[i - 1] + Len(parts[i])
  /\ Len(FlattenSeq(parts)) = ends[n]
  /\ \A i \in 1..n : \A l \in 1..Len(parts[i]) :
        /\ ends[i - 1] + l \in 1..ends[n]
        /\ FlattenSeq(parts)[ends[i - 1] + l] = parts[i][l]
  /\ \A p \in 1..ends[n] : \E i \in 1..n : \E l \in 1..Len(parts[i]) : p = ends[i - 1] + l

LEMMA FlattenPlaces ==
  ASSUME NEW S, NEW n \in Nat, NEW parts \in [1..n -> Seq(S)]
  PROVE  FlattenSeq(parts) \in Seq(S) /\ \E ends \in [0..n -> Nat] : PartsEnd(ends, parts, n)
  <1>1. PICK f \in [0..n -> Seq(S)] :
           /\ f[0] = <<>> /\ \A i \in 1..n : f[i] = f[i - 1] \o parts[i]
           /\ FlattenSeq(parts) = f[n]
    BY FlattenSteps, Zenon
  <1> DEFINE ends == [i \in 0..n |-> Len(f[i])]
  <1>2. \A i \in 0..n : f[i] \in Seq(S) /\ ends[i] = Len(f[i]) /\ ends[i] \in Nat  OBVIOUS
  <1>3. ends \in [0..n -> Nat]  BY <1>2
  <1> HIDE DEF ends
  <1>4. ASSUME NEW i \in 1..n
        PROVE  /\ i \in Nat /\ i - 1 \in 0..n /\ i \in 0..n
               /\ parts[i] \in Seq(S) /\ Len(parts[i]) \in Nat
               /\ ends[i - 1] \in Nat
               /\ ends[i] = ends[i - 1] + Len(parts[i])
               /\ \A p \in 1..ends[i - 1] : f[i][p] = f[i - 1][p]
               /\ \A l \in 1..Len(parts[i]) : f[i][ends[i - 1] + l] = parts[i][l]
    <2>1. i \in Nat /\ i - 1 \in 0..n /\ i \in 0..n  OBVIOUS
    <2>2. f[i] = f[i - 1] \o parts[i]  BY <1>1
    <2>3. parts[i] \in Seq(S)  OBVIOUS
    <2> DEFINE s == f[i - 1]
               t == parts[i]
    <2>4. s \in Seq(S) /\ t \in Seq(S) /\ ends[i - 1] = Len(s) /\ ends[i] = Len(s \o t)
          /\ f[i] = s \o t
      BY <1>2, <2>1, <2>2
    <2> HIDE DEF s, t
    <2>5. /\ Len(s \o t) = Len(s) + Len(t) /\ Len(s) \in Nat /\ Len(t) \in Nat
          /\ \A p \in 1..Len(s) : (s \o t)[p] = s[p]
          /\ \A l \in 1..Len(t) : (s \o t)[Len(s) + l] = t[l]
      <3>1. s \in Seq(S) /\ t \in Seq(S)  BY <2>4
      <3> QED  BY <3>1
    <2> QED  BY <2>1, <2>3, <2>4, <2>5 DEF s, t
  <1>5. ends[0] = 0  BY <1>1, <1>2
  <1> DEFINE Placed(m) ==
               /\ \A i \in 1..m : \A l \in 1..Len(parts[i]) :
                     /\ ends[i - 1] + l \in 1..ends[m]
                     /\ f[m][ends[i - 1] + l] = parts[i][l]
               /\ \A p \in 1..ends[m] :
                     \E i \in 1..m : \E l \in 1..Len(parts[i]) : p = ends[i - 1] + l
             T == {m \in Nat : m <= n => Placed(m)}
  <1>6. 0 \in T  BY <1>5
  <1>7. ASSUME NEW m \in T PROVE m + 1 \in T
    <2>1. m \in Nat /\ m + 1 \in Nat /\ (m + 1) - 1 = m  OBVIOUS
    <2>2. ASSUME m + 1 <= n PROVE Placed(m + 1)
      <3> DEFINE k == m + 1
      <3>1. k \in 1..n /\ k - 1 = m /\ m <= n /\ k \in Nat  BY <2>1, <2>2
      <3>2. Placed(m)  BY <3>1
      <3>3. /\ parts[k] \in Seq(S) /\ Len(parts[k]) \in Nat /\ ends[m] \in Nat
            /\ ends[k] = ends[m] + Len(parts[k])
            /\ \A p \in 1..ends[m] : f[k][p] = f[m][p]
            /\ \A l \in 1..Len(parts[k]) : f[k][ends[m] + l] = parts[k][l]
        <4>1. k - 1 = m /\ k \in 1..n  BY <3>1
        <4> HIDE DEF k
        <4>2. /\ parts[k] \in Seq(S) /\ Len(parts[k]) \in Nat /\ ends[k - 1] \in Nat
              /\ ends[k] = ends[k - 1] + Len(parts[k])
              /\ \A p \in 1..ends[k - 1] : f[k][p] = f[k - 1][p]
              /\ \A l \in 1..Len(parts[k]) : f[k][ends[k - 1] + l] = parts[k][l]
          BY <1>4, <4>1
        <4> QED  BY <4>1, <4>2
      <3>4. ASSUME NEW i \in 1..k, NEW l \in 1..Len(parts[i])
            PROVE  ends[i - 1] + l \in 1..ends[k] /\ f[k][ends[i - 1] + l] = parts[i][l]
        <4>1. CASE i = k
          <5>1. ends[i - 1] + l = ends[m] + l  BY <3>1, <4>1
          <5>2. ends[m] + l \in 1..ends[k]
            <6>1. l \in 1..Len(parts[k])  BY <4>1
            <6> HIDE DEF k
            <6>2. \A a, b, c \in Nat : c \in 1..b => a + c \in 1..(a + b)  OBVIOUS
            <6>3. ends[m] \in Nat /\ Len(parts[k]) \in Nat /\ l \in Nat
                  /\ ends[k] = ends[m] + Len(parts[k])
              BY <3>3, <6>1
            <6> QED  BY <6>1, <6>2, <6>3
          <5>3. f[k][ends[m] + l] = parts[k][l]  BY <3>3, <4>1
          <5> HIDE DEF k
          <5> QED  BY <4>1, <5>1, <5>2, <5>3
        <4>2. CASE i # k
          <5>1. i \in 1..m  BY <2>1, <4>2
          <5>2. ends[i - 1] + l \in 1..ends[m] /\ f[m][ends[i - 1] + l] = parts[i][l]
            BY <3>2, <5>1
          <5> DEFINE p == ends[i - 1] + l
          <5> HIDE DEF k
          <5>3. p \in 1..ends[k]
            <6>1. p \in 1..ends[m]  BY <5>2
            <6> HIDE DEF p
            <6> QED  BY <3>3, <6>1
          <5> QED  BY <3>3, <5>2, <5>3
        <4> QED  BY <4>1, <4>2
      <3>5. ASSUME NEW p \in 1..ends[k]
            PROVE  \E i \in 1..k : \E l \in 1..Len(parts[i]) : p = ends[i - 1] + l
        <4>1. CASE p <= ends[m]
          <5>1. p \in 1..ends[m]  BY <3>3, <4>1
          <5>2. PICK i \in 1..m : \E l \in 1..Len(parts[i]) : p = ends[i - 1] + l
            BY <3>2, <5>1
          <5>3. i \in 1..k  BY <2>1
          <5> QED  BY <5>2, <5>3
        <4>2. CASE ~(p <= ends[m])
          <5>1. p - ends[m] \in 1..Len(parts[k]) /\ p = ends[m] + (p - ends[m])
            <6>1. p \in 1..ends[k]  OBVIOUS
            <6> HIDE DEF k
            <6> QED  BY <3>3, <4>2, <6>1
          <5>2. k \in 1..k /\ ends[k - 1] = ends[m]  BY <3>1
          <5> HIDE DEF k
          <5> QED  BY <5>1, <5>2
        <4> QED  BY <4>1, <4>2
      <3> QED  BY <3>4, <3>5
    <2> QED  BY <2>1, <2>2
  <1>8. T \in SUBSET Nat  OBVIOUS
  <1>9. Placed(n)
    <2> HIDE DEF T
    <2>1. T = Nat  BY <1>6, <1>7, <1>8, Induction
    <2>2. n \in T  BY <2>1
    <2> QED  BY <2>2 DEF T
  <1>10. \A i \in 1..n : ends[i] = ends[i - 1] + Len(parts[i])  BY <1>4
  <1>11. FlattenSeq(parts) \in Seq(S) /\ Len(FlattenSeq(parts)) = ends[n]  BY <1>1, <1>2
  <1>12. FlattenSeq(parts) = f[n]  BY <1>1
  <1>13. PartsEnd(ends, parts, n)  BY <1>5, <1>9, <1>10, <1>11, <1>12 DEF PartsEnd
  <1> QED  BY <1>3, <1>11, <1>13

\* A sum is recursion over the terms.
LEMMA TotalSteps ==
  ASSUME NEW n \in Nat, NEW terms \in [1..n -> Nat]
  PROVE  \E f \in [0..n -> Nat] :
            /\ f[0] = 0 /\ \A i \in 1..n : f[i] = f[i - 1] + terms[i]
            /\ Total(terms) = f[n]
  <1> DEFINE step == [i \in 1..n |-> [s \in Nat |-> s + terms[i]]]
  <1>1. step \in [1..n -> [Nat -> Nat]]  OBVIOUS
  <1>2. PICK f \in [0..n -> Nat] : Steps(f, 0, step, n)
    <2> HIDE DEF step
    <2> QED  BY <1>1, StepsExist
  <1>3. f[0] = 0 /\ \A i \in 1..n : f[i] = f[i - 1] + terms[i]
    <2>1. f[0] = 0 /\ \A i \in 1..n : f[i] = step[i][f[i - 1]]  BY <1>2 DEF Steps
    <2>2. \A i \in 1..n : f[i - 1] \in Nat  OBVIOUS
    <2> QED  BY <2>1, <2>2
  <1>4. Len(terms) = n  OBVIOUS
  <1> DEFINE up == CHOOSE g : g = [i \in 0..n |-> IF i = 0 THEN 0 ELSE g[i - 1] + terms[i]]
  <1>5. Total(terms) = up[n]  BY <1>4, Zenon DEF Total
  <1>6. f = [i \in 0..n |-> IF i = 0 THEN 0 ELSE f[i - 1] + terms[i]]
    <2>1. ASSUME NEW i \in 0..n
          PROVE  f[i] = IF i = 0 THEN 0 ELSE f[i - 1] + terms[i]
      <3>1. CASE i = 0  BY <3>1, <1>3
      <3>2. CASE i # 0
        <4>1. i \in 1..n  BY <3>2
        <4> QED  BY <3>2, <4>1, <1>3
      <3> QED  BY <3>1, <3>2
    <2> QED  BY <2>1
  <1>7. up = [i \in 0..n |-> IF i = 0 THEN 0 ELSE up[i - 1] + terms[i]]
    BY <1>6
  <1> HIDE DEF up
  <1>8. up[0] = f[0]
    <2>1. 0 \in 0..n  OBVIOUS
    <2> QED  BY <1>3, <1>7, <2>1
  <1>9. ASSUME NEW i \in 1..n, up[i - 1] = f[i - 1] PROVE up[i] = f[i]
    <2>1. i \in 0..n /\ i # 0  OBVIOUS
    <2>2. up[i] = up[i - 1] + terms[i]  BY <1>7, <2>1
    <2> QED  BY <1>3, <1>9, <2>2
  <1>10. up[n] = f[n]  BY <1>8, <1>9, StepsAgree
  <1> QED  BY <1>3, <1>5, <1>10

LEMMA TotalOfNone == ASSUME NEW terms \in [1..0 -> Nat] PROVE Total(terms) = 0
  <1>1. 0 \in Nat  OBVIOUS
  <1>2. \E f \in [0..0 -> Nat] : f[0] = 0 /\ Total(terms) = f[0]  BY <1>1, TotalSteps
  <1> QED  BY <1>2

\* One term more is added.
LEMMA TotalAdds ==
  ASSUME NEW n \in Nat, NEW terms \in [1..(n + 1) -> Nat]
  PROVE  /\ Total([i \in 1..n |-> terms[i]]) \in Nat
         /\ Total(terms) = Total([i \in 1..n |-> terms[i]]) + terms[n + 1]
  <1> DEFINE front == [i \in 1..n |-> terms[i]]
  <1>1. front \in [1..n -> Nat]  OBVIOUS
  <1>2. \A i \in 1..n : front[i] = terms[i]  OBVIOUS
  <1> HIDE DEF front
  <1>3. PICK f \in [0..n -> Nat] :
           /\ f[0] = 0 /\ \A i \in 1..n : f[i] = f[i - 1] + front[i]
           /\ Total(front) = f[n]
    BY <1>1, TotalSteps
  <1>4. PICK g \in [0..(n + 1) -> Nat] :
           /\ g[0] = 0 /\ \A i \in 1..(n + 1) : g[i] = g[i - 1] + terms[i]
           /\ Total(terms) = g[n + 1]
    <2>1. n + 1 \in Nat  OBVIOUS
    <2> QED  BY <2>1, TotalSteps
  <1>5. \A i \in 1..n : f[i - 1] = g[i - 1] => f[i] = g[i]
    <2> SUFFICES ASSUME NEW i \in 1..n, f[i - 1] = g[i - 1] PROVE f[i] = g[i]  OBVIOUS
    <2>1. i \in 1..(n + 1)  OBVIOUS
    <2> QED  BY <1>2, <1>3, <1>4, <2>1
  <1>6. f[n] = g[n]
    <2>1. f[0] = g[0]  BY <1>3, <1>4
    <2> QED  BY <1>5, <2>1, StepsAgree
  <1>7. g[n + 1] = g[n] + terms[n + 1]
    <2>1. n + 1 \in 1..(n + 1) /\ (n + 1) - 1 = n  OBVIOUS
    <2> QED  BY <1>4, <2>1
  <1>8. f[n] \in Nat  OBVIOUS
  <1> QED  BY <1>3, <1>4, <1>6, <1>7, <1>8 DEF front
=============================================================================
