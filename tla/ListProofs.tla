----------------------------- MODULE ListProofs -----------------------------
(***************************************************************************)
(* Lemmas about natural numbers and lists that the proofs of several       *)
(* components need.  The library's induction theorems take an operator as  *)
(* a parameter; Least says the same of a set, and induction is by the      *)
(* least counterexample.                                                   *)
(***************************************************************************)
EXTENDS Lists, Integers, FiniteSetTheorems, TLAPS

\* Every nonempty set of natural numbers has a least element.
LEMMA Least ==
  ASSUME NEW S \in SUBSET Nat, S # {}
  PROVE  \E n \in S : \A m \in S : n <= m
<1>1. PICK k \in S : TRUE
  OBVIOUS
<1> DEFINE D == 0 .. k
           T == {0 .. m : m \in S \cap D}
           R == StrictSubsetOrdering(D)
<1>2. T # {} /\ T \subseteq FiniteSubsetsOf(D)
  <2>1. T # {}
    BY <1>1
  <2>2. ASSUME NEW m \in S \cap D PROVE 0 .. m \in FiniteSubsetsOf(D)
    <3>1. IsFiniteSet(0 .. m)
      BY FS_Interval
    <3>2. QED
      BY <3>1, <1>1 DEF FiniteSubsetsOf
  <2>3. QED
    BY <2>1, <2>2
<1>3. IsWellFoundedOn(R, FiniteSubsetsOf(D))
  BY FS_StrictSubsetOrderingWellFounded, Zenon
<1> HIDE DEF T, D, R
<1>4. PICK x \in T : \A y \in T : ~ (<<y, x>> \in R)
  BY <1>2, <1>3, WFMin, Zenon
<1> USE DEF T, D, R
<1>5. PICK n \in S \cap D : x = 0 .. n
  BY <1>4
<1>6. ASSUME NEW m \in S \cap D, m < n PROVE FALSE
  <2>1. 0 .. m \in SUBSET D /\ 0 .. n \in SUBSET D
    BY <1>1
  <2>2. 0 .. m \subseteq 0 .. n /\ n \in 0 .. n /\ n \notin 0 .. m
    BY <1>6
  <2>3. <<0 .. m, 0 .. n>> \in R
    BY <2>1, <2>2 DEF StrictSubsetOrdering
  <2>4. QED
    BY <1>4, <1>5, <1>6, <2>3
<1>7. QED
  BY <1>1, <1>5, <1>6

\* A bounded one has a greatest element.
LEMMA Greatest ==
  ASSUME NEW bound \in Nat, NEW S \in SUBSET (0 .. bound), S # {}
  PROVE  \E n \in S : \A m \in S : m <= n
<1> DEFINE T == {bound - n : n \in S}
<1>1. T \in SUBSET Nat /\ T # {}
  OBVIOUS
<1>2. PICK k \in T : \A m \in T : k <= m
  BY <1>1, Least
<1>3. PICK n \in S : k = bound - n
  OBVIOUS
<1>4. ASSUME NEW m \in S PROVE m <= n
  <2>1. bound - n <= bound - m
    BY <1>2, <1>3
  <2>2. QED
    BY <2>1
<1>5. QED
  BY <1>4

\* Induction up to a bound: a set of numbers that has 0 and, with any number below
\* the bound, the next one, has them all.
LEMMA UpTo ==
  ASSUME NEW bound \in Nat, NEW S, 0 \in S,
         \A n \in 0 .. bound : n # bound /\ n \in S => n + 1 \in S
  PROVE  0 .. bound \subseteq S
<1> DEFINE T == {n \in 0 .. bound : n \notin S}
<1> SUFFICES ASSUME T # {} PROVE FALSE
  OBVIOUS
<1>1. PICK n \in T : \A m \in T : n <= m
  <2>1. T \in SUBSET Nat
    OBVIOUS
  <2> HIDE DEF T
  <2>2. QED
    BY <2>1, Least
<1>2. n # 0 /\ n - 1 \in 0 .. bound /\ n - 1 \in S
  BY <1>1
<1>3. QED
  BY <1>1, <1>2

\* What the loop of Kept has after each number of elements.
IsLoop(kept, S, list, positions) ==
  /\ kept \in [0 .. Len(list) -> Seq(S)]
  /\ kept[0] = <<>>
  /\ \A n \in 1 .. Len(list) :
       kept[n] = IF n \in positions THEN Append(kept[n - 1], list[n]) ELSE kept[n - 1]
  /\ Kept(list, positions) = kept[Len(list)]

\* The loop of Kept goes over the whole list.
LEMMA KeptLoop ==
  ASSUME NEW S, NEW list \in Seq(S), NEW positions
  PROVE  \E kept : IsLoop(kept, S, list, positions)
<1> DEFINE Loop(k, f) ==
             f = [n \in 0 .. k |-> IF n = 0 THEN <<>>
                                   ELSE IF n \in positions THEN Append(f[n - 1], list[n])
                                   ELSE f[n - 1]]
           Runs == {k \in 0 .. Len(list) : \E f \in [0 .. k -> Seq(S)] : Loop(k, f)}
<1>1. Len(list) \in Nat /\ \A i \in 1 .. Len(list) : list[i] \in S
  OBVIOUS
<1>2. 0 \in Runs
  <2> DEFINE f == [n \in 0 .. 0 |-> <<>>]
  <2>1. f \in [0 .. 0 -> Seq(S)]
    OBVIOUS
  <2>2. Loop(0, f)
    OBVIOUS
  <2> HIDE DEF f, Loop
  <2>3. \E h \in [0 .. 0 -> Seq(S)] : Loop(0, h)
    BY <2>1, <2>2, Zenon
  <2>4. QED
    BY <1>1, <2>3
<1>3. ASSUME NEW k \in 0 .. Len(list), k # Len(list), k \in Runs PROVE k + 1 \in Runs
  <2>1. PICK f \in [0 .. k -> Seq(S)] : Loop(k, f)
    BY <1>3
  <2> DEFINE next == IF k + 1 \in positions THEN Append(f[k], list[k + 1]) ELSE f[k]
             g == [n \in 0 .. k + 1 |-> IF n = k + 1 THEN next ELSE f[n]]
  <2>2. k + 1 \in 1 .. Len(list) /\ k \in 0 .. k
    BY <1>1, <1>3
  <2>2a. f[k] \in Seq(S) /\ list[k + 1] \in S
    BY <1>1, <2>1, <2>2
  <2>3. next \in Seq(S)
    BY <2>2a
  <2>4. g \in [0 .. k + 1 -> Seq(S)]
    BY <2>3
  <2>5. \A n \in 0 .. k : g[n] = f[n]
    OBVIOUS
  <2>6. ASSUME NEW n \in 0 .. k + 1
        PROVE  g[n] = IF n = 0 THEN <<>>
                      ELSE IF n \in positions THEN Append(g[n - 1], list[n]) ELSE g[n - 1]
    <3>1. CASE n = k + 1
      BY <3>1, <2>5
    <3>2. CASE n # k + 1
      <4>1. n \in 0 .. k /\ (n # 0 => n - 1 \in 0 .. k)
        BY <3>2
      <4>2. f[n] = IF n = 0 THEN <<>>
                   ELSE IF n \in positions THEN Append(f[n - 1], list[n]) ELSE f[n - 1]
        BY <2>1, <4>1
      <4> HIDE DEF g
      <4>3. QED
        BY <2>5, <4>1, <4>2
    <3>3. QED
      BY <3>1, <3>2
  <2>7. Loop(k + 1, g)
    <3> DEFINE step == [n \in 0 .. k + 1 |-> IF n = 0 THEN <<>>
                                ELSE IF n \in positions THEN Append(g[n - 1], list[n])
                                ELSE g[n - 1]]
    <3> HIDE DEF g
    <3>1. g = [n \in 0 .. k + 1 |-> g[n]]
      BY <2>4
    <3>2. QED
      BY <3>1, <2>6
  <2> HIDE DEF g, Loop
  <2>8. \E h \in [0 .. k + 1 -> Seq(S)] : Loop(k + 1, h)
    BY <2>4, <2>7, Zenon
  <2>9. QED
    BY <1>1, <1>3, <2>8
<1>4. Len(list) \in Runs
  <2> HIDE DEF Runs
  <2>1. 0 .. Len(list) \subseteq Runs
    BY <1>1, <1>2, <1>3, UpTo
  <2>2. QED
    BY <1>1, <2>1
<1> DEFINE kept == CHOOSE f : Loop(Len(list), f)
<1>5. Kept(list, positions) = kept[Len(list)]
  BY DEF Kept
<1>6. Loop(Len(list), kept)
  BY <1>4
<1> HIDE DEF kept
<1>7. kept[0] = <<>>
  BY <1>1, <1>6
<1>8. ASSUME NEW n \in 1 .. Len(list)
      PROVE  kept[n] = IF n \in positions THEN Append(kept[n - 1], list[n]) ELSE kept[n - 1]
  <2>1. n \in 0 .. Len(list) /\ n # 0
    BY <1>1
  <2>2. QED
    BY <1>6, <2>1
<1> HIDE DEF Runs
<1>9. kept \in [0 .. Len(list) -> Seq(S)]
  <2> DEFINE Typed == {n \in 0 .. Len(list) : kept[n] \in Seq(S)}
  <2>1. 0 \in Typed
    <3>1. 0 \in 0 .. Len(list) /\ <<>> \in Seq(S)
      BY <1>1
    <3> HIDE DEF Loop
    <3>2. QED
      BY <1>7, <3>1
  <2>2. ASSUME NEW n \in 0 .. Len(list), n # Len(list), n \in Typed PROVE n + 1 \in Typed
    <3>1. n + 1 \in 1 .. Len(list) /\ (n + 1) - 1 = n
      BY <1>1, <2>2
    <3>2. kept[n + 1] = IF n + 1 \in positions THEN Append(kept[n], list[n + 1]) ELSE kept[n]
      BY <1>8, <3>1
    <3> HIDE DEF Loop
    <3>3. kept[n] \in Seq(S) /\ list[n + 1] \in S
      BY <1>1, <2>2, <3>1
    <3>4. kept[n + 1] \in Seq(S)
      BY <3>2, <3>3
    <3>5. n + 1 \in 0 .. Len(list)
      BY <1>1, <3>1
    <3>6. QED
      BY <3>4, <3>5
  <2> HIDE DEF Typed
  <2>3. 0 .. Len(list) \subseteq Typed
    BY <1>1, <2>1, <2>2, UpTo
  <2>4. DOMAIN kept = 0 .. Len(list) /\ kept = [n \in DOMAIN kept |-> kept[n]]
    BY <1>6
  <2>5. QED
    BY <2>3, <2>4 DEF Typed
<1>10. QED
  BY <1>5, <1>7, <1>8, <1>9 DEF IsLoop

\* Kept has the elements of the list at the positions, and no other.
LEMMA KeptElements ==
  ASSUME NEW S, NEW list \in Seq(S), NEW positions
  PROVE  /\ Kept(list, positions) \in Seq(S)
         /\ \A j \in DOMAIN Kept(list, positions) :
              \E i \in positions \cap DOMAIN list : Kept(list, positions)[j] = list[i]
         /\ \A i \in positions \cap DOMAIN list :
              \E j \in DOMAIN Kept(list, positions) : Kept(list, positions)[j] = list[i]
<1>1. PICK kept : IsLoop(kept, S, list, positions)
  BY KeptLoop
<1>2. /\ kept \in [0 .. Len(list) -> Seq(S)]
      /\ kept[0] = <<>>
      /\ \A n \in 1 .. Len(list) :
           kept[n] = IF n \in positions THEN Append(kept[n - 1], list[n]) ELSE kept[n - 1]
      /\ Kept(list, positions) = kept[Len(list)]
  BY <1>1 DEF IsLoop
<1> DEFINE Chosen(n) == positions \cap 1 .. n
           OnlyThose(n) == \A j \in 1 .. Len(kept[n]) : \E i \in Chosen(n) : kept[n][j] = list[i]
           AllThose(n) == \A i \in Chosen(n) : \E j \in 1 .. Len(kept[n]) : kept[n][j] = list[i]
           Done == {n \in 0 .. Len(list) : OnlyThose(n) /\ AllThose(n)}
<1>3. Len(list) \in Nat /\ DOMAIN list = 1 .. Len(list) /\ \A i \in 1 .. Len(list) : list[i] \in S
  OBVIOUS
<1>4. 0 \in Done
  BY <1>2, <1>3
<1>5. ASSUME NEW n \in 0 .. Len(list), n # Len(list), n \in Done PROVE n + 1 \in Done
  <2>1. n + 1 \in 1 .. Len(list) /\ n + 1 \in 0 .. Len(list) /\ (n + 1) - 1 = n /\ n \in Nat
    <3>1. Len(list) \in Nat
      OBVIOUS
    <3>2. QED
      BY <3>1, <1>5
  <2>2. OnlyThose(n) /\ AllThose(n)
    BY <1>5
  <2>3. kept[n] \in Seq(S) /\ list[n + 1] \in S /\ Chosen(n) \subseteq Chosen(n + 1)
    BY <1>2, <1>3, <2>1
  <2>4. CASE n + 1 \in positions
    <3>1. kept[n + 1] = Append(kept[n], list[n + 1])
      BY <1>2, <2>1, <2>4
    <3> DEFINE k == kept[n]  m == Len(k)
    <3>2. /\ Len(kept[n + 1]) = m + 1 /\ m \in Nat
          /\ kept[n + 1][m + 1] = list[n + 1]
          /\ \A j \in 1 .. m : kept[n + 1][j] = k[j]
      BY <2>3, <3>1
    <3>3. Chosen(n + 1) = Chosen(n) \cup {n + 1}
      BY <2>1, <2>4
    <3>4. ASSUME NEW j \in 1 .. m + 1
          PROVE  \E i \in Chosen(n + 1) : kept[n + 1][j] = list[i]
      <4>1. CASE j = m + 1
        BY <3>2, <3>3, <4>1
      <4>2. CASE j # m + 1
        <5>1. j \in 1 .. m
          BY <3>2, <4>2
        <5>2. PICK i \in Chosen(n) : k[j] = list[i]
          BY <2>2, <5>1
        <5> HIDE DEF k, m
        <5>3. QED
          BY <3>2, <3>3, <5>1, <5>2
      <4>3. QED
        BY <4>1, <4>2
    <3>5. ASSUME NEW i \in Chosen(n + 1)
          PROVE  \E j \in 1 .. m + 1 : kept[n + 1][j] = list[i]
      <4>1. CASE i = n + 1
        BY <3>2, <4>1
      <4>2. CASE i # n + 1
        <5>1. PICK j \in 1 .. m : k[j] = list[i]
          BY <2>2, <3>3, <4>2
        <5> HIDE DEF k, m
        <5>2. QED
          BY <3>2, <5>1
      <4>3. QED
        BY <4>1, <4>2
    <3> HIDE DEF Chosen, k, m
    <3>6. QED
      BY <2>1, <3>2, <3>4, <3>5
  <2>5. CASE n + 1 \notin positions
    <3>1. kept[n + 1] = kept[n]
      BY <1>2, <2>1, <2>5
    <3>2. Chosen(n + 1) = Chosen(n)
      BY <2>1, <2>5
    <3> HIDE DEF Chosen
    <3>3. QED
      BY <2>1, <2>2, <3>1, <3>2
  <2>6. QED
    BY <2>4, <2>5
<1> HIDE DEF Done
<1>6. 0 .. Len(list) \subseteq Done
  BY <1>3, <1>4, <1>5, UpTo
<1>7. Len(list) \in Done /\ kept[Len(list)] \in Seq(S)
  BY <1>2, <1>3, <1>6
<1>8. DOMAIN kept[Len(list)] = 1 .. Len(kept[Len(list)]) /\ Chosen(Len(list)) = positions \cap DOMAIN list
  BY <1>3, <1>7
<1> HIDE DEF Chosen
<1>9. QED
  BY <1>2, <1>7, <1>8 DEF Done
==============================================================================
