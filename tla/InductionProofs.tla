-------------------------- MODULE InductionProofs --------------------------
(***************************************************************************)
(* Induction and recursion for the other proofs.  The provers have no      *)
(* induction; what they have is that finite sets are well-founded under    *)
(* inclusion, from which it is derived here, for sets in the place of      *)
(* predicates and functions in the place of operators.                     *)
(***************************************************************************)
EXTENDS Integers, SequencesExt, SequenceTheorems, FiniteSetTheorems, WellFoundedInduction, TLAPS

(* A set of numbers has a least one. *)
LEMMA LeastNumber ==
  ASSUME NEW T, T \subseteq Nat, T # {}
  PROVE  \E x \in T : \A y \in T : x <= y
<1>1. PICK n \in T : TRUE
  OBVIOUS
<1> DEFINE R == StrictSubsetOrdering(0 .. n)
           Below(k) == T \cap (0 .. k)
           F == { Below(k) : k \in T \cap (0 .. n) }
<1>2. IsWellFoundedOn(R, FiniteSubsetsOf(0 .. n))
  BY FS_StrictSubsetOrderingWellFounded
<1>3. F \subseteq FiniteSubsetsOf(0 .. n)
  BY FS_Interval, FS_FiniteSubsetsOfFinite, SMTT(40)
<1>4. F # {}
  <2>1. n \in T \cap (0 .. n)
    OBVIOUS
  <2> QED
    BY <2>1
<1>5. PICK x \in F : \A y \in F : ~ (<<y, x>> \in R)
  <2> HIDE DEF R, F
  <2> QED
    BY <1>2, <1>3, <1>4, WFMin
<1>6. PICK k \in T \cap (0 .. n) : x = Below(k)
  BY <1>5
<1>7. ASSUME NEW y \in T, y < k PROVE FALSE
  <2>1. Below(y) \in F
    BY <1>6, <1>7
  <2>2. <<Below(y), Below(k)>> \in R
    BY <1>6, <1>7 DEF StrictSubsetOrdering
  <2> QED
    BY <1>5, <1>6, <2>1, <2>2
<1> QED
  BY <1>6, <1>7

(* Induction, for the set of the numbers that have a property. *)
LEMMA Induction ==
  ASSUME NEW T, 0 \in T, \A n \in Nat : n \in T => n + 1 \in T
  PROVE  Nat \subseteq T
<1> SUFFICES ASSUME Nat \ T # {} PROVE FALSE
  OBVIOUS
<1>1. PICK x \in Nat \ T : \A y \in Nat \ T : x <= y
  BY LeastNumber
<1>2. x # 0 /\ x - 1 \in Nat
  BY <1>1
<1>3. x - 1 \in T
  BY <1>1, <1>2
<1> QED
  BY <1>1, <1>2, <1>3

(* Induction up to a number. *)
LEMMA InductionUpTo ==
  ASSUME NEW m \in Nat, NEW T, 0 \in T, \A n \in 0 .. m - 1 : n \in T => n + 1 \in T
  PROVE  \A n \in 0 .. m : n \in T
<1> DEFINE U == { n \in Nat : n <= m => n \in T }
<1>1. 0 \in U /\ \A n \in Nat : n \in U => n + 1 \in U
  OBVIOUS
<1>2. Nat \subseteq U
  <2> HIDE DEF U
  <2> QED
    BY <1>1, Induction
<1> QED
  BY <1>2

(* step leads from the value before i, and i, to the value at i.           *)
IsStep(step, V, m) == step \in [V \X (1 .. m) -> V]

(* f is defined by recursion on 0 .. m. *)
IsRecursion(f, V, b, m, step) ==
  /\ f \in [0 .. m -> V]
  /\ f[0] = b
  /\ \A i \in 1 .. m : f[i] = step[<<f[i - 1], i>>]

(* A function that is defined by recursion on 0 .. m exists. *)
LEMMA RecursionExists ==
  ASSUME NEW V, NEW b \in V, NEW m \in Nat, NEW step, IsStep(step, V, m)
  PROVE  \E f : IsRecursion(f, V, b, m, step)
<1> USE DEF IsStep
<1> DEFINE Rec(f, n) == /\ f[0] = b
                        /\ \A i \in 1 .. n : f[i] = step[<<f[i - 1], i>>]
           T == { n \in 0 .. m : \E f \in [0 .. n -> V] : Rec(f, n) }
<1>1. 0 \in T
  <2> DEFINE f == [i \in 0 .. 0 |-> b]
  <2>1. f \in [0 .. 0 -> V] /\ Rec(f, 0)
    OBVIOUS
  <2> HIDE DEF f
  <2> QED
    BY <2>1
<1>2. ASSUME NEW n \in 0 .. m - 1, n \in T PROVE n + 1 \in T
  <2>1. PICK f \in [0 .. n -> V] : Rec(f, n)
    BY <1>2
  <2> DEFINE g == [i \in 0 .. n + 1 |-> IF i <= n THEN f[i] ELSE step[<<f[n], n + 1>>]]
  <2>2. f[n] \in V /\ step[<<f[n], n + 1>>] \in V
    BY <2>1
  <2>3. g \in [0 .. n + 1 -> V]
    BY <2>1, <2>2
  <2>4. /\ \A i \in 0 .. n : g[i] = f[i]
        /\ g[n + 1] = step[<<f[n], n + 1>>]
    OBVIOUS
  <2>5. g[0] = b
    BY <2>1, <2>4
  <2>6. ASSUME NEW i \in 1 .. n + 1 PROVE g[i] = step[<<g[i - 1], i>>]
    <3>1. CASE i <= n
      BY <2>1, <2>4, <3>1
    <3>2. CASE i = n + 1
      <4>1. i - 1 = n /\ g[n] = f[n]
        BY <2>4, <3>2
      <4> QED
        BY <2>4, <3>2, <4>1
    <3> QED
      BY <3>1, <3>2
  <2> HIDE DEF g
  <2> QED
    BY <1>2, <2>3, <2>5, <2>6
<1>3. m \in T
  <2> HIDE DEF T
  <2>1. \A n \in 0 .. m - 1 : n \in T => n + 1 \in T
    BY <1>2
  <2>2. \A n \in 0 .. m : n \in T
    BY <1>1, <2>1, InductionUpTo
  <2> QED
    BY <2>2
<1> QED
  BY <1>3 DEF IsRecursion

-----------------------------------------------------------------------------
(* h holds the parts of q concatenated, up to each of them. *)
Flattens(h, q, S) ==
  /\ h \in [0 .. Len(q) -> Seq(S)]
  /\ h[0] = <<>>
  /\ \A i \in 1 .. Len(q) : h[i] = h[i - 1] \o q[i]
  /\ FlattenSeq(q) = h[Len(q)]

(* FlattenSeq of SequencesExt, step by step. *)
LEMMA FlattenSteps ==
  ASSUME NEW S, NEW q \in Seq(Seq(S))
  PROVE  \E h : Flattens(h, q, S)
<1>m. PICK m \in Nat : m = Len(q)
  OBVIOUS
<1> DEFINE V == Seq(S)
           step == [p \in V \X (1 .. m) |-> p[1] \o q[p[2]]]
<1>1. m \in Nat /\ <<>> \in V /\ \A i \in 1 .. m : q[i] \in V
  BY <1>m
<1>2. IsStep(step, V, m)
  BY <1>1 DEF IsStep
<1>2a. PICK h : IsRecursion(h, V, <<>>, m, step)
  <2> HIDE DEF V, step
  <2> QED
    BY <1>1, <1>2, RecursionExists
<1>3. /\ h \in [0 .. m -> V]
      /\ h[0] = <<>>
      /\ \A i \in 1 .. m : h[i] = step[<<h[i - 1], i>>]
  BY <1>2a DEF IsRecursion
<1>4. \A i \in 1 .. m : h[i] = h[i - 1] \o q[i] /\ h[i - 1] \in V
  <2> SUFFICES ASSUME NEW i \in 1 .. m PROVE h[i] = h[i - 1] \o q[i] /\ h[i - 1] \in V
    OBVIOUS
  <2>1. i - 1 \in 0 .. m
    BY <1>1
  <2>2. h[i - 1] \in V
    BY <1>3, <2>1
  <2>3. h[i] = step[<<h[i - 1], i>>]
    BY <1>3
  <2> QED
    BY <2>2, <2>3
<1>f. ASSUME FlattenSeq(q) = h[m] PROVE \E x : Flattens(x, q, S)
  <2>1. Flattens(h, q, S)
    BY <1>m, <1>3, <1>4, <1>f DEF Flattens
  <2> QED
    BY <2>1
<1>5. CASE m = 0
  <2>1. FlattenSeq(q) = q /\ q = <<>>
    <3>1. Len(q) = 0
      BY <1>m, <1>5
    <3>2. FlattenSeq(q) = q
      BY <3>1, Zenon DEF FlattenSeq
    <3> QED
      BY <3>1, <3>2
  <2>2. FlattenSeq(q) = h[m]
    BY <1>3, <1>5, <2>1
  <2> QED
    BY <1>f, <2>2
<1>6. CASE m # 0
  <2> DEFINE Flat(g) == [i \in 1 .. m |-> IF i = 1 THEN q[i] ELSE g[i - 1] \o q[i]]
             F == CHOOSE g : g = Flat(g)
             k == [i \in 1 .. m |-> h[i]]
  <2>1. FlattenSeq(q) = F[m]
    BY <1>m, <1>6 DEF FlattenSeq
  <2>2. k = Flat(k)
    <3> SUFFICES ASSUME NEW i \in 1 .. m
                 PROVE  h[i] = IF i = 1 THEN q[i] ELSE k[i - 1] \o q[i]
      OBVIOUS
    <3>1. CASE i = 1
      <4>1. h[i] = h[i - 1] \o q[i] /\ i - 1 = 0
        <5>1. h[i] = h[i - 1] \o q[i]
          BY <1>4
        <5>2. i - 1 = 0
          BY <3>1
        <5> QED
          BY <5>1, <5>2
      <4>2. h[i] = <<>> \o q[i]
        BY <1>3, <4>1
      <4>3. q[i] \in Seq(S)
        BY <1>1
      <4>4. h[i] = q[i]
        BY <4>2, <4>3
      <4> QED
        BY <3>1, <4>4
    <3>2. CASE i # 1
      <4>1. i - 1 \in 1 .. m
        BY <1>1, <3>2
      <4> QED
        BY <1>4, <3>2, <4>1
    <3> QED
      BY <3>1, <3>2
  <2>3. F = Flat(F)
    <3>1. \E g : g = Flat(g)
      BY <2>2
    <3> HIDE DEF Flat
    <3> QED
      BY <3>1
  <2> HIDE DEF F
  <2> DEFINE T == { i \in 0 .. m : i # 0 => F[i] = h[i] }
  <2>4. 0 \in T
    BY <1>1
  <2>5. ASSUME NEW i \in 0 .. m - 1, i \in T PROVE i + 1 \in T
    <3>1. i + 1 \in 1 .. m /\ (i + 1) - 1 = i
      BY <1>1
    <3>2. F[i + 1] = IF i + 1 = 1 THEN q[i + 1] ELSE F[(i + 1) - 1] \o q[i + 1]
      BY <2>3, <3>1
    <3>3. h[i + 1] = h[(i + 1) - 1] \o q[i + 1]
      BY <1>4, <3>1
    <3>4. CASE i = 0
      <4>1. h[i + 1] = <<>> \o q[i + 1]
        BY <1>3, <3>1, <3>3, <3>4
      <4>2. q[i + 1] \in Seq(S)
        BY <1>1, <3>1
      <4>3. h[i + 1] = q[i + 1]
        BY <4>1, <4>2
      <4>4. F[i + 1] = q[i + 1]
        BY <3>2, <3>4
      <4> QED
        BY <1>1, <2>5, <4>3, <4>4
    <3>5. CASE i # 0
      <4>1. F[i] = h[i] /\ i + 1 # 1
        BY <2>5, <3>5
      <4>2. F[i + 1] = F[(i + 1) - 1] \o q[i + 1]
        BY <3>2, <4>1
      <4>3. F[i + 1] = h[i + 1]
        BY <3>1, <3>3, <4>1, <4>2
      <4> QED
        BY <1>1, <2>5, <4>3
    <3> QED
      BY <3>4, <3>5
  <2>6. \A i \in 0 .. m : i \in T
    <3> HIDE DEF T
    <3> QED
      BY <1>1, <2>4, <2>5, InductionUpTo
  <2> QED
    <3>1. F[m] = h[m]
      BY <1>1, <1>6, <2>6
    <3> QED
      BY <1>f, <2>1, <3>1
<1> QED
  BY <1>5, <1>6

(* Two sequences that the same recursion builds are the same. *)
LEMMA StepsAgree ==
  ASSUME NEW m \in Nat, NEW f, NEW g, f[0] = g[0],
         \A i \in 1 .. m : f[i - 1] = g[i - 1] => f[i] = g[i]
  PROVE  \A i \in 0 .. m : f[i] = g[i]
<1> DEFINE T == { i \in 0 .. m : f[i] = g[i] }
<1>1. 0 \in T
  OBVIOUS
<1>2. ASSUME NEW i \in 0 .. m - 1, i \in T PROVE i + 1 \in T
  <2>1. i + 1 \in 1 .. m /\ (i + 1) - 1 = i
    OBVIOUS
  <2> QED
    BY <1>2, <2>1
<1>3. \A i \in 0 .. m : i \in T
  <2> HIDE DEF T
  <2> QED
    BY <1>1, <1>2, InductionUpTo
<1> QED
  BY <1>3

(* What one more sequence adds to the flattened one. *)
LEMMA FlattenAppend ==
  ASSUME NEW S, NEW q \in Seq(Seq(S)), NEW x \in Seq(S)
  PROVE  /\ FlattenSeq(q) \in Seq(S)
         /\ FlattenSeq(Append(q, x)) = FlattenSeq(q) \o x
<1>m. PICK m \in Nat : m = Len(q)
  OBVIOUS
<1> DEFINE r == Append(q, x)
<1>1. r \in Seq(Seq(S)) /\ Len(r) = m + 1 /\ m \in Nat /\ r[m + 1] = x
      /\ \A i \in 1 .. m : r[i] = q[i]
  BY <1>m
<1>2. PICK f : Flattens(f, q, S)
  BY FlattenSteps
<1>3. PICK g : Flattens(g, r, S)
  <2> HIDE DEF r
  <2> QED
    BY <1>1, FlattenSteps
<1> HIDE DEF r
<1>f. /\ f \in [0 .. m -> Seq(S)] /\ f[0] = <<>>
      /\ \A i \in 1 .. m : f[i] = f[i - 1] \o q[i]
      /\ FlattenSeq(q) = f[m]
  BY <1>m, <1>2 DEF Flattens
<1>g. /\ g \in [0 .. m + 1 -> Seq(S)] /\ g[0] = <<>>
      /\ \A i \in 1 .. m + 1 : g[i] = g[i - 1] \o r[i]
      /\ FlattenSeq(r) = g[m + 1]
  BY <1>1, <1>3 DEF Flattens
<1>4. \A i \in 0 .. m : f[i] = g[i]
  <2>1. ASSUME NEW i \in 1 .. m, f[i - 1] = g[i - 1] PROVE f[i] = g[i]
    <3>1. i \in 1 .. m + 1
      OBVIOUS
    <3>2. f[i] = f[i - 1] \o q[i] /\ g[i] = g[i - 1] \o r[i] /\ r[i] = q[i]
      BY <1>1, <1>f, <1>g, <3>1
    <3> QED
      BY <2>1, <3>2
  <2>2. f[0] = g[0]
    BY <1>f, <1>g
  <2> QED
    BY <2>1, <2>2, StepsAgree, ZenonT(40)
<1>5. g[m + 1] = g[m] \o x
  <2>1. PICK n \in 1 .. m + 1 : n = m + 1 /\ n - 1 = m
    OBVIOUS
  <2>2. g[n] = g[n - 1] \o r[n]
    BY <1>g
  <2> QED
    BY <1>1, <2>1, <2>2
<1>6. f[m] \in Seq(S)
  BY <1>f
<1>7. f[m] = g[m]
  BY <1>4
<1> QED
  BY <1>5, <1>6, <1>7, <1>f, <1>g DEF r

-----------------------------------------------------------------------------
(* A sum of integers is one. *)
LEMMA SumIsInteger ==
  ASSUME NEW n \in Nat, NEW f \in [0 .. n -> Int]
  PROVE  SumFunction(f) \in Int
<1> DEFINE D == 0 .. n
           some(s) == CHOOSE x \in s : TRUE
           Iter(g) == [s \in SUBSET D |->
                         IF s = {} THEN 0 ELSE f[some(s)] + g[s \ {some(s)}]]
           F == CHOOSE g : g = Iter(g)
<1>1. SumFunction(f) = F[D]
  BY DEF SumFunction, SumFunctionOnSet, FoldFunctionOnSet, MapThenFoldSet
<1>2. IsFiniteSet(D) /\ f \in [D -> Int]
  BY FS_Interval
<1> HIDE DEF D
<1>2a. ASSUME NEW s \in SUBSET D
       PROVE  /\ IsFiniteSet(s) /\ Cardinality(s) \in Nat
              /\ Cardinality(s) <= Cardinality(D)
              /\ Cardinality(s) = 0 <=> s = {}
  BY <1>2, FS_Subset, FS_EmptySet, FS_CardinalityType
<1>3. PICK m \in Nat : m = Cardinality(D)
  BY <1>2, FS_CardinalityType
<1>4. \A s \in SUBSET D : Cardinality(s) <= m
  BY <1>2a, <1>3
<1>5. ASSUME NEW s \in SUBSET D, s # {}
      PROVE  /\ some(s) \in D /\ s \ {some(s)} \in SUBSET D
             /\ Cardinality(s \ {some(s)}) = Cardinality(s) - 1
             /\ Cardinality(s) > 0
  <2>1. some(s) \in s
    BY <1>5
  <2> HIDE DEF some
  <2>2. Cardinality(s \ {some(s)}) = Cardinality(s) - 1
    BY <1>2a, <2>1, FS_RemoveElement
  <2>3. Cardinality(s) \in Nat \ {0}
    BY <1>2a, <1>5
  <2> QED
    BY <2>1, <2>2, <2>3
<1> HIDE DEF some
<1> DEFINE V == [SUBSET D -> Int]
           step == [p \in V \X (1 .. m + 1) |-> Iter(p[1])]
           b == [s \in SUBSET D |-> 0]
<1>t. ASSUME NEW g \in V PROVE Iter(g) \in V
  <2> SUFFICES ASSUME NEW s \in SUBSET D, s # {}
               PROVE  f[some(s)] + g[s \ {some(s)}] \in Int
    OBVIOUS
  <2>1. some(s) \in D /\ s \ {some(s)} \in SUBSET D
    BY <1>5
  <2>2. f[some(s)] \in Int /\ g[s \ {some(s)}] \in Int
    BY <1>2, <2>1
  <2> QED
    BY <2>2
<1> HIDE DEF Iter
<1>6. b \in V /\ m + 1 \in Nat
  OBVIOUS
<1>7. IsStep(step, V, m + 1)
  <2>1. \A p \in V \X (1 .. m + 1) : Iter(p[1]) \in V
    BY <1>t
  <2> HIDE DEF V
  <2> QED
    BY <2>1 DEF IsStep
<1>8. PICK h : IsRecursion(h, V, b, m + 1, step)
  <2> HIDE DEF V, step, b
  <2> QED
    BY <1>6, <1>7, RecursionExists
<1>9. /\ h \in [0 .. m + 1 -> V] /\ h[0] = b
      /\ \A i \in 1 .. m + 1 : h[i] = Iter(h[i - 1])
  <2>1. /\ h \in [0 .. m + 1 -> V] /\ h[0] = b
        /\ \A i \in 1 .. m + 1 : h[i] = step[<<h[i - 1], i>>]
    BY <1>8 DEF IsRecursion
  <2> SUFFICES ASSUME NEW i \in 1 .. m + 1 PROVE step[<<h[i - 1], i>>] = Iter(h[i - 1])
    BY <2>1
  <2>2. i - 1 \in 0 .. m + 1
    OBVIOUS
  <2>3. h[i - 1] \in V
    BY <2>1, <2>2
  <2> HIDE DEF V
  <2>4. <<h[i - 1], i>> \in V \X (1 .. m + 1)
    BY <2>3
  <2> QED
    BY <2>4
(* A subset of i elements has its sum after i steps. *)
<1> DEFINE Stays(i) == \A s \in SUBSET D : Cardinality(s) <= i => h[i][s] = h[i + 1][s]
           T == { i \in 0 .. m : Stays(i) }
<1>10. 0 \in T
  <2> SUFFICES ASSUME NEW s \in SUBSET D, Cardinality(s) <= 0 PROVE h[0][s] = h[1][s]
    BY <1>3
  <2>1. s = {}
    BY <1>2a
  <2>2. h[1] = Iter(b)
    BY <1>9
  <2>3. Iter(b)[s] = 0
    BY <2>1 DEF Iter
  <2> QED
    BY <1>9, <2>2, <2>3
<1>11. ASSUME NEW i \in 0 .. m - 1, i \in T PROVE i + 1 \in T
  <2> SUFFICES ASSUME NEW s \in SUBSET D, Cardinality(s) <= i + 1
               PROVE  h[i + 1][s] = h[(i + 1) + 1][s]
    OBVIOUS
  <2>1. h[i + 1] = Iter(h[i]) /\ h[(i + 1) + 1] = Iter(h[i + 1])
    <3>1. i + 1 \in 1 .. m + 1 /\ (i + 1) + 1 \in 1 .. m + 1
          /\ (i + 1) - 1 = i /\ ((i + 1) + 1) - 1 = i + 1
      OBVIOUS
    <3> QED
      BY <1>9, <3>1
  <2>2. CASE s = {}
    BY <2>1, <2>2 DEF Iter
  <2>3. CASE s # {}
    <3>1. s \ {some(s)} \in SUBSET D /\ Cardinality(s \ {some(s)}) <= i
      BY <1>2a, <1>5, <2>3
    <3>2. h[i][s \ {some(s)}] = h[i + 1][s \ {some(s)}]
      BY <1>11, <3>1
    <3> QED
      BY <2>1, <3>2 DEF Iter
  <2> QED
    BY <2>2, <2>3
<1>12. h[m] = Iter(h[m])
  <2>1. \A i \in 0 .. m : i \in T
    <3> HIDE DEF T
    <3> QED
      BY <1>10, <1>11, InductionUpTo
  <2>2. m \in T
    BY <2>1
  <2>3. h[m] \in V /\ h[m + 1] \in V /\ h[m + 1] = Iter(h[m])
    <3>1. m \in 0 .. m + 1 /\ m + 1 \in 0 .. m + 1 /\ m + 1 \in 1 .. m + 1 /\ (m + 1) - 1 = m
      OBVIOUS
    <3> HIDE DEF V
    <3> QED
      BY <1>9, <3>1
  <2>4. \A s \in SUBSET D : h[m][s] = h[m + 1][s]
    BY <1>4, <2>2
  <2>5. h[m] = h[m + 1]
    BY <2>3, <2>4, SMTT(40)
  <2> QED
    BY <2>3, <2>5
<1>13. F = Iter(F)
  BY <1>12
<1> HIDE DEF F
<1> DEFINE U == { i \in 0 .. m : \A s \in SUBSET D : Cardinality(s) <= i => F[s] \in Int }
<1>14. 0 \in U
  <2> SUFFICES ASSUME NEW s \in SUBSET D, Cardinality(s) <= 0 PROVE F[s] \in Int
    BY <1>3
  <2>1. s = {}
    BY <1>2a
  <2> QED
    BY <1>13, <2>1 DEF Iter
<1>15. ASSUME NEW i \in 0 .. m - 1, i \in U PROVE i + 1 \in U
  <2>0. F[{}] = 0
    BY <1>13 DEF Iter
  <2> SUFFICES ASSUME NEW s \in SUBSET D, Cardinality(s) <= i + 1 PROVE F[s] \in Int
    OBVIOUS
  <2>e. CASE s = {}
    BY <2>0, <2>e
  <2>n. CASE s # {}
    <3>1. /\ s \ {some(s)} \in SUBSET D /\ some(s) \in D
          /\ Cardinality(s \ {some(s)}) <= i
      BY <1>2a, <1>5, <2>n
    <3>2. F[s \ {some(s)}] \in Int
      BY <1>15, <3>1
    <3>3. F[s] = f[some(s)] + F[s \ {some(s)}]
      BY <1>13, <2>n DEF Iter
    <3>4. f[some(s)] \in Int
      BY <1>2, <3>1
    <3> QED
      BY <3>2, <3>3, <3>4
  <2> QED
    BY <2>e, <2>n
<1> QED
  <2>1. \A i \in 0 .. m : i \in U
    <3> HIDE DEF U
    <3> QED
      BY <1>14, <1>15, InductionUpTo
  <2>2. m \in U
    BY <2>1
  <2> QED
    BY <1>1, <1>4, <2>2

=============================================================================
