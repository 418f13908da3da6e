------------------------------ MODULE Extremes ------------------------------
(***************************************************************************)
(* Facts that several proofs share: the least and the greatest element of  *)
(* a set of naturals, and from them induction, with a set where a library  *)
(* theorem takes an operator; ranks, by which a sort is defined; functions *)
(* defined by recursion; sizes of sets; and folds, step by step.           *)
(***************************************************************************)
EXTENDS Integers, FiniteSets, FiniteSetsExt, Functions, WellFoundedInduction, FiniteSetTheorems, TLAPS

(* The order of the naturals as the relation well-foundedness is about. *)
LEMMA LessIsInOrder == \A x, y \in Nat : y < x => <<y, x>> \in OpToRel(<, Nat)
<1>1. OpToRel(<, Nat) = {ss \in Nat \X Nat : ss[1] < ss[2]}
  BY Zenon DEF OpToRel
<1>2. QED
  BY <1>1

(* Every non-empty set of naturals has a least element. *)
LEMMA LeastElement ==
  ASSUME NEW T \in SUBSET Nat, T # {}
  PROVE  \E m \in T : \A k \in T : m <= k
<1>1. \E x \in T : \A y \in T : ~ (<<y, x>> \in OpToRel(<, Nat))
  BY WFMin, NatLessThanWellFounded, Zenon
<1>2. PICK x \in T : \A y \in T : ~ (<<y, x>> \in OpToRel(<, Nat))
  BY <1>1, Zenon
<1>3. ASSUME NEW y \in T PROVE ~ (y < x)
  BY <1>2, LessIsInOrder, Zenon
<1>4. QED
  BY <1>3

(* What holds of 0, and of n + 1 whenever it does of n, holds of all.       *)
LEMMA Induction ==
  ASSUME NEW S \in SUBSET Nat, 0 \in S, \A n \in S : n + 1 \in S
  PROVE  S = Nat
<1> SUFFICES ASSUME Nat \ S # {} PROVE FALSE
  OBVIOUS
<1>1. PICK m \in Nat \ S : \A k \in Nat \ S : m <= k
  <2>1. Nat \ S \in SUBSET Nat
    OBVIOUS
  <2> QED
    BY <2>1, LeastElement
<1>2. m # 0 /\ m - 1 \in Nat
  BY <1>1
<1>3. m - 1 \in S
  BY <1>1, <1>2
<1>4. m - 1 + 1 \in S
  BY <1>3
<1> QED
  BY <1>1, <1>4

(* The same up to a bound.                                                  *)
LEMMA InductionTo ==
  ASSUME NEW n \in Nat, NEW S, 0 \in S, \A k \in 0 .. n - 1 : k \in S => k + 1 \in S
  PROVE  0 .. n \subseteq S
<1> DEFINE T == {k \in Nat : k <= n => k \in S}
<1>1. 0 \in T
  OBVIOUS
<1>2. \A k \in T : k + 1 \in T
  OBVIOUS
<1>3. T = Nat
  <2>1. T \in SUBSET Nat
    OBVIOUS
  <2> HIDE DEF T
  <2> QED
    BY <1>1, <1>2, <2>1, Induction
<1> QED
  BY <1>3

(* Every non-empty set of naturals with an upper bound has a greatest. *)
LEMMA GreatestElement ==
  ASSUME NEW n \in Nat, NEW T \in SUBSET (0 .. n), T # {}
  PROVE  \E m \in T : \A k \in T : k <= m
<1> DEFINE U == {u \in 0 .. n : n - u \in T}
<1>1. \A k \in T : n - k \in U
  OBVIOUS
<1>2. U \in SUBSET Nat /\ U # {}
  <2>1. PICK k \in T : n - k \in U
    BY <1>1
  <2>2. U # {}
    BY <2>1, Zenon
  <2>3. \A u \in U : u \in Nat
    OBVIOUS
  <2>4. QED
    BY <2>2, <2>3, Zenon
<1>3. PICK u \in U : \A v \in U : u <= v
  BY <1>2, LeastElement
<1>4. ASSUME NEW k \in T PROVE k <= n - u
  <2>1. u <= n - k
    BY <1>1, <1>3
  <2>2. QED
    BY <2>1
<1>5. QED
  BY <1>4

(* Of any two elements one is below the other, with all that is below it.   *)
(* Then the higher has more below it, and each number of elements below,    *)
(* under that of all, is that of one element.                               *)
LEMMA Ranks ==
  ASSUME NEW S, IsFiniteSet(S), NEW below \in [S -> SUBSET S],
         \A i \in S : i \notin below[i],
         \A i, j \in S : i # j => \/ below[i] \subseteq below[j] /\ i \in below[j]
                                  \/ below[j] \subseteq below[i] /\ j \in below[i]
  PROVE  /\ Cardinality(S) \in Nat
         /\ \A i \in S : IsFiniteSet(below[i]) /\ Cardinality(below[i]) \in 0 .. Cardinality(S) - 1
         /\ \A i, j \in S : i \in below[j] => Cardinality(below[i]) < Cardinality(below[j])
         /\ \A i, j \in S : Cardinality(below[i]) = Cardinality(below[j]) => i = j
         /\ \A k \in 1 .. Cardinality(S) : \E i \in S : Cardinality(below[i]) = k - 1
<1> DEFINE n == Cardinality(S)
           c(i) == Cardinality(below[i])
<1>1. n \in Nat
  BY FS_CardinalityType
<1>2. ASSUME NEW i \in S PROVE IsFiniteSet(below[i]) /\ c(i) \in 0 .. n - 1
  <2>1. IsFiniteSet(below[i]) /\ c(i) <= n /\ c(i) # n
    BY FS_Subset
  <2>2. c(i) \in Nat
    BY <2>1, FS_CardinalityType
  <2> QED
    BY <1>1, <2>1, <2>2
<1>3. ASSUME NEW i \in S, NEW j \in S, i \in below[j] PROVE c(i) < c(j)
  <2>1. below[i] \in SUBSET below[j] /\ below[i] # below[j]
    BY <1>3
  <2>2. c(i) <= c(j) /\ c(i) # c(j)
    BY <1>2, <2>1, FS_Subset
  <2> QED
    BY <1>2, <2>2
<1>4. \A i, j \in S : c(i) = c(j) => i = j
  BY <1>2, <1>3
<1>5. ASSUME NEW k \in 1 .. n PROVE \E i \in S : c(i) = k - 1
  <2> DEFINE f == [i \in S |-> c(i) + 1]
  <2> HIDE DEF c, n
  <2>1. f \in [S -> 1 .. n]
    BY <1>1, <1>2
  <2>2. \A i, j \in S : f[i] = f[j] => i = j
    BY <1>2, <1>4
  <2>3. f \in Injection(S, 1 .. n)
    BY <2>1, <2>2 DEF Injection, IsInjective
  <2>4. IsFiniteSet(1 .. n) /\ Cardinality(1 .. n) = n
    BY <1>1, FS_Interval
  <2>5. f \in Surjection(S, 1 .. n)
    BY <2>3, <2>4, FS_Injection DEF n
  <2>6. PICK i \in S : f[i] = k
    BY <2>5 DEF Surjection
  <2> QED
    BY <1>2, <2>6
<1> QED
  BY <1>1, <1>2, <1>3, <1>4, <1>5

-----------------------------------------------------------------------------
(* Recursion *)

(* f starts at base and takes each turn, up to n. *)
StepsFrom(f, base, turn, n) ==
  f[0] = base /\ \A k \in 1 .. n : f[k] = turn[k][f[k - 1]]

(* A recursion from one number to the next has a function, and only one.    *)
LEMMA Recursion ==
  ASSUME NEW V, NEW base \in V, NEW turn \in [Nat \ {0} -> [V -> V]]
  PROVE  \A n \in Nat :
           /\ \E f \in [0 .. n -> V] : StepsFrom(f, base, turn, n)
           /\ \A f \in [0 .. n -> V], g \in [0 .. n -> V] :
                StepsFrom(f, base, turn, n) /\ StepsFrom(g, base, turn, n) => f = g
<1> DEFINE Good(n) == \E f \in [0 .. n -> V] : StepsFrom(f, base, turn, n)
           Bad == {n \in Nat : ~Good(n)}
<1>1. Good(0)
  <2>1. [k \in 0 .. 0 |-> base] \in [0 .. 0 -> V]
    OBVIOUS
  <2>2. StepsFrom([k \in 0 .. 0 |-> base], base, turn, 0)
    BY DEF StepsFrom
  <2> QED
    BY <2>1, <2>2
<1>2. ASSUME NEW n \in Nat, Good(n) PROVE Good(n + 1)
  <2>1. PICK f \in [0 .. n -> V] : StepsFrom(f, base, turn, n)
    BY <1>2
  <2> DEFINE g == [k \in 0 .. n + 1 |-> IF k <= n THEN f[k] ELSE turn[n + 1][f[n]]]
  <2>2. f[n] \in V /\ n + 1 \in Nat \ {0}
    OBVIOUS
  <2>3. turn[n + 1][f[n]] \in V
    BY <2>2
  <2>4. g \in [0 .. n + 1 -> V]
    BY <2>3
  <2>5. ASSUME NEW k \in 1 .. n + 1 PROVE g[k] = turn[k][g[k - 1]]
    <3>1. g[k - 1] = f[k - 1]
      OBVIOUS
    <3>2. CASE k <= n
      BY <2>1, <3>1, <3>2 DEF StepsFrom
    <3>3. CASE k = n + 1
      BY <3>1, <3>3
    <3> QED
      BY <3>2, <3>3
  <2>6. g[0] = base
    BY <2>1 DEF StepsFrom
  <2>7. StepsFrom(g, base, turn, n + 1)
    BY <2>5, <2>6, Zenon DEF StepsFrom
  <2> QED
    BY <2>4, <2>7, Zenon
<1> HIDE DEF Good
<1>3. Bad = {}
  <2> SUFFICES ASSUME Bad # {} PROVE FALSE
    OBVIOUS
  <2>1. PICK m \in Bad : \A k \in Bad : m <= k
    <3>1. Bad \in SUBSET Nat
      OBVIOUS
    <3> QED
      BY <3>1, LeastElement
  <2>2. m # 0
    BY <1>1
  <2>3. m - 1 \in Nat /\ Good(m - 1)
    BY <2>1, <2>2
  <2>4. Good(m - 1 + 1)
    BY <1>2, <2>3
  <2> QED
    BY <2>4
<1>4. ASSUME NEW n \in Nat, NEW f \in [0 .. n -> V], NEW g \in [0 .. n -> V],
             StepsFrom(f, base, turn, n), StepsFrom(g, base, turn, n)
      PROVE  f = g
  <2> DEFINE D == {k \in 0 .. n : f[k] # g[k]}
  <2>1. ASSUME D # {} PROVE FALSE
    <3>1. PICK m \in D : \A k \in D : m <= k
      <4>1. D \in SUBSET Nat
        OBVIOUS
      <4> QED
        BY <2>1, <4>1, LeastElement
    <3>2. m # 0
      BY <1>4 DEF StepsFrom
    <3>3. m \in 1 .. n /\ m - 1 \in 0 .. n /\ f[m - 1] = g[m - 1]
      BY <3>1, <3>2
    <3>4. f[m] = turn[m][f[m - 1]] /\ g[m] = turn[m][g[m - 1]]
      BY <1>4, <3>3 DEF StepsFrom
    <3> QED
      BY <3>1, <3>3, <3>4
  <2> QED
    BY <2>1
<1> QED
  BY <1>3, <1>4, Zenon DEF Good

(* f is what the recursion leads to for every number.                       *)
LeadsTo(V, base, turn, f) ==
  /\ f \in [Nat -> V] /\ f[0] = base
  /\ \A k \in Nat \ {0} : f[k] = turn[k][f[k - 1]]

(* The same for a recursion that goes on for ever.                          *)
LEMMA RecursionOnNat ==
  ASSUME NEW V, NEW base \in V, NEW turn \in [Nat \ {0} -> [V -> V]]
  PROVE  \E f : LeadsTo(V, base, turn, f)
<1> DEFINE At(n) == CHOOSE g \in [0 .. n -> V] : StepsFrom(g, base, turn, n)
           f == [n \in Nat |-> At(n)[n]]
<1>1. \A n \in Nat : At(n) \in [0 .. n -> V] /\ StepsFrom(At(n), base, turn, n)
  BY Recursion, Zenon
<1>2. ASSUME NEW n \in Nat, NEW m \in 0 .. n PROVE At(n)[m] = At(m)[m]
  <2> DEFINE g == [k \in 0 .. m |-> At(n)[k]]
  <2> HIDE DEF At
  <2>1. At(n) \in [0 .. n -> V] /\ m \in Nat /\ StepsFrom(At(n), base, turn, n)
    BY <1>1
  <2>2. g \in [0 .. m -> V] /\ StepsFrom(g, base, turn, m)
    <3>1. \A k \in 1 .. m : k \in 1 .. n /\ g[k] = At(n)[k] /\ g[k - 1] = At(n)[k - 1]
      OBVIOUS
    <3>2. g[0] = At(n)[0] /\ g \in [0 .. m -> V]
      BY <2>1
    <3> HIDE DEF g
    <3> QED
      BY <2>1, <3>1, <3>2 DEF StepsFrom
  <2>3. At(m) \in [0 .. m -> V] /\ StepsFrom(At(m), base, turn, m)
    BY <1>1, <2>1
  <2> HIDE DEF g
  <2>4. g = At(m)
    BY <2>1, <2>2, <2>3, Recursion, Zenon
  <2> QED
    BY <2>1, <2>4 DEF g
<1> HIDE DEF At
<1>3. f \in [Nat -> V]
  BY <1>1
<1>4. ASSUME NEW k \in Nat \ {0} PROVE f[k] = turn[k][f[k - 1]]
  <2>1. f[k] = At(k)[k] /\ f[k - 1] = At(k)[k - 1]
    BY <1>2
  <2> QED
    BY <1>1, <2>1 DEF StepsFrom
<1>5. f[0] = base
  BY <1>1 DEF StepsFrom
<1> HIDE DEF f
<1> QED
  BY <1>3, <1>4, <1>5 DEF LeadsTo

-----------------------------------------------------------------------------
(* Counting *)

(* Two sets between which a function goes both ways are of one size.        *)
LEMMA SameSize ==
  ASSUME NEW S, NEW T, IsFiniteSet(S), NEW f \in [S -> T], NEW g \in [T -> S],
         \A x \in S : g[f[x]] = x, \A y \in T : f[g[y]] = y
  PROVE  IsFiniteSet(T) /\ Cardinality(T) = Cardinality(S)
<1>1. \A x, y \in S : f[x] = f[y] => x = y
  OBVIOUS
<1>2. f \in Injection(S, T)
  BY <1>1 DEF Injection, IsInjective
<1>3. f \in Surjection(S, T)
  BY DEF Surjection
<1>4. ExistsBijection(S, T)
  BY <1>2, <1>3, Zenon DEF ExistsBijection, Bijection
<1> QED
  BY <1>4, FS_Bijection

(* Two sets with nothing in common.                                         *)
LEMMA ApartAdd ==
  ASSUME NEW S, NEW T, IsFiniteSet(S), IsFiniteSet(T), S \cap T = {}
  PROVE  IsFiniteSet(S \cup T) /\ Cardinality(S \cup T) = Cardinality(S) + Cardinality(T)
<1>1. /\ IsFiniteSet(S \cup T)
      /\ Cardinality(S \cup T) = Cardinality(S) + Cardinality(T) - Cardinality(S \cap T)
  BY FS_Union, Zenon
<1>2. Cardinality(S) \in Nat /\ Cardinality(T) \in Nat
  BY FS_CardinalityType
<1>3. Cardinality(S \cap T) = 0
  BY FS_EmptySet
<1> QED
  BY <1>1, <1>2, <1>3

-----------------------------------------------------------------------------
(* Folds over the places of a sequence, as FoldLeft is defined: over all    *)
(* sets of places, the greatest last.                                       *)

(* h is what is made of base by the steps at each set of places, the last   *)
(* of them last.                                                            *)
Makes(h, base, step, n) ==
  \A S \in SUBSET (1 .. n) : h[S] = IF S = {} THEN base ELSE step[Max(S)][h[S \ {Max(S)}]]

(* Steps at places 1 .. n make something of each set of places. *)
LEMMA MakesExists ==
  ASSUME NEW n \in Nat, NEW D, NEW base \in D, NEW step \in [1 .. n -> [D -> D]]
  PROVE  \E h \in [SUBSET (1 .. n) -> D] : Makes(h, base, step, n)
<1> DEFINE Some(m) == \E h \in [SUBSET (1 .. m) -> D] : Makes(h, base, step, m)
           G == {m \in Nat : m <= n => Some(m)}
<1>1. 0 \in G
  <2> DEFINE h == [S \in SUBSET (1 .. 0) |-> base]
  <2>1. h \in [SUBSET (1 .. 0) -> D]
    OBVIOUS
  <2>2. \A S \in SUBSET (1 .. 0) : S = {} /\ h[S] = base
    OBVIOUS
  <2> HIDE DEF h
  <2>3. Makes(h, base, step, 0)
    BY <2>2 DEF Makes
  <2> QED
    BY <2>1, <2>3
<1>2. ASSUME NEW m \in Nat, m + 1 <= n, NEW h \in [SUBSET (1 .. m) -> D], Makes(h, base, step, m)
      PROVE  Some(m + 1)
  <2> DEFINE k == [S \in SUBSET (1 .. m + 1) |->
                     IF m + 1 \in S THEN step[m + 1][h[S \ {m + 1}]] ELSE h[S]]
  <2>1. ASSUME NEW S \in SUBSET (1 .. m + 1), m + 1 \notin S
        PROVE  S \in SUBSET (1 .. m) /\ k[S] = h[S] /\ k[S] \in D
    BY <2>1
  <2>2. ASSUME NEW S \in SUBSET (1 .. m + 1), m + 1 \in S
        PROVE  /\ Max(S) = m + 1 /\ k[S] = step[m + 1][h[S \ {m + 1}]] /\ k[S] \in D
               /\ S \ {m + 1} \in SUBSET (1 .. m + 1) /\ S # {}
    <3>1. \A y \in S : m + 1 >= y /\ y \in Int
      OBVIOUS
    <3>2. Max(S) = m + 1
      <4>1. Max(S) \in S /\ \A y \in S : Max(S) >= y
        BY <2>2, <3>1 DEF Max
      <4>2. m + 1 >= Max(S) /\ Max(S) \in Int /\ Max(S) >= m + 1
        BY <2>2, <3>1, <4>1
      <4> QED
        BY <4>2
    <3>3. S \ {m + 1} \in SUBSET (1 .. m) /\ step[m + 1] \in [D -> D]
      BY <1>2
    <3> QED
      BY <2>2, <3>2, <3>3
  <2>3. ASSUME NEW S \in SUBSET (1 .. m + 1)
        PROVE  k[S] = IF S = {} THEN base ELSE step[Max(S)][k[S \ {Max(S)}]]
    <3>1. CASE m + 1 \in S
      <4>1. k[S \ {m + 1}] = h[S \ {m + 1}]
        <5>1. S \ {m + 1} \in SUBSET (1 .. m + 1) /\ m + 1 \notin S \ {m + 1}
          OBVIOUS
        <5> HIDE DEF k
        <5> QED
          BY <2>1, <5>1
      <4> HIDE DEF k
      <4> QED
        BY <2>2, <3>1, <4>1
    <3>2. CASE m + 1 \notin S
      <4>1. S \in SUBSET (1 .. m) /\ k[S] = h[S]
        BY <2>1, <3>2
      <4>2. h[S] = IF S = {} THEN base ELSE step[Max(S)][h[S \ {Max(S)}]]
        BY <1>2, <4>1 DEF Makes
      <4>3. k[S \ {Max(S)}] = h[S \ {Max(S)}]
        <5> DEFINE R == S \ {Max(S)}
        <5>1. R \in SUBSET (1 .. m + 1) /\ m + 1 \notin R
          BY <3>2
        <5> HIDE DEF k, R
        <5>2. k[R] = h[R]
          BY <2>1, <5>1
        <5> QED
          BY <5>2 DEF R
      <4> HIDE DEF k
      <4> QED
        BY <4>1, <4>2, <4>3
    <3> QED
      BY <3>1, <3>2
  <2>4. k \in [SUBSET (1 .. m + 1) -> D]
    <3>1. \A S \in SUBSET (1 .. m + 1) : k[S] \in D
      <4> HIDE DEF k
      <4> QED
        BY <2>1, <2>2
    <3> QED
      BY <3>1
  <2> HIDE DEF k
  <2>5. Makes(k, base, step, m + 1)
    BY <2>3 DEF Makes
  <2> QED
    BY <2>4, <2>5
<1>3. \A m \in G : m + 1 \in G
  <2>1. \A m \in Nat : m + 1 <= n /\ Some(m) => Some(m + 1)
    BY <1>2
  <2> HIDE DEF Some
  <2> QED
    BY <2>1
<1>4. G = Nat
  <2>1. G \in SUBSET Nat
    OBVIOUS
  <2> HIDE DEF G
  <2> QED
    BY <1>1, <1>3, <2>1, Induction
<1> HIDE DEF Some
<1>5. Some(n)
  BY <1>4
<1> QED
  BY <1>5 DEF Some

(* stage is h at no place, at one, ..., at all n. *)
ByStages(stage, h, D, base, step, n) ==
  /\ stage \in [0 .. n -> D] /\ StepsFrom(stage, base, step, n)
  /\ stage[n] = h[1 .. n]

(* What is made at no place, one, ..., all places is made step by step.     *)
LEMMA MakesStages ==
  ASSUME NEW n \in Nat, NEW D, NEW base, NEW step, NEW h \in [SUBSET (1 .. n) -> D],
         Makes(h, base, step, n)
  PROVE  \E stage : ByStages(stage, h, D, base, step, n)
<1> DEFINE stage == [k \in 0 .. n |-> h[1 .. k]]
<1>1. \A k \in 0 .. n : 1 .. k \in SUBSET (1 .. n)
  OBVIOUS
<1>2. stage \in [0 .. n -> D]
  BY <1>1
<1>3. ASSUME NEW k \in 1 .. n PROVE stage[k] = step[k][stage[k - 1]]
  <2> DEFINE S == 1 .. k
  <2>1. S \in SUBSET (1 .. n) /\ S # {} /\ k \in S
    OBVIOUS
  <2>2. Max(S) = k
    <3>1. \A y \in S : k >= y /\ y \in Int
      OBVIOUS
    <3>2. Max(S) \in S /\ \A y \in S : Max(S) >= y
      BY <2>1, <3>1 DEF Max
    <3> QED
      BY <2>1, <3>1, <3>2
  <2>3. S \ {k} = 1 .. k - 1
    OBVIOUS
  <2>4. stage[k] = h[S] /\ stage[k - 1] = h[1 .. k - 1]
    OBVIOUS
  <2> HIDE DEF S, stage
  <2> QED
    BY <2>1, <2>2, <2>3, <2>4 DEF Makes
<1>4. stage[0] = base
  <2>1. 1 .. 0 = {} /\ stage[0] = h[1 .. 0] /\ {} \in SUBSET (1 .. n)
    OBVIOUS
  <2> HIDE DEF stage
  <2> QED
    BY <2>1 DEF Makes
<1>5. stage[n] = h[1 .. n]
  OBVIOUS
<1> HIDE DEF stage
<1> QED
  BY <1>2, <1>3, <1>4, <1>5 DEF StepsFrom, ByStages

(* Where the greatest of some places is, and where the others are. *)
LEMMA GreatestPlace ==
  ASSUME NEW n \in Nat, NEW S \in SUBSET (1 .. n), S # {}
  PROVE  /\ Max(S) \in S /\ Max(S) \in 1 .. n /\ \A k \in S : k <= Max(S)
         /\ S \ {Max(S)} \in SUBSET (1 .. Max(S) - 1)
<1>1. S \in SUBSET (0 .. n)
  OBVIOUS
<1>2. \E m \in S : \A k \in S : k <= m
  BY <1>1, GreatestElement
<1>3. Max(S) \in S /\ \A k \in S : k <= Max(S)
  BY <1>2 DEF Max
<1> DEFINE m == Max(S)
<1> HIDE DEF m
<1>4. ASSUME NEW k \in S, k # m PROVE k \in 1 .. m - 1
  <2>1. k \in 1 .. n /\ m \in 1 .. n /\ k <= m
    BY <1>3 DEF m
  <2> QED
    BY <1>4, <2>1
<1> QED
  BY <1>3, <1>4 DEF m

(* What is made stays in D, if each step stays there.                       *)
LEMMA MadeIn ==
  ASSUME NEW n \in Nat, NEW D, NEW g, g[{}] \in D,
         \A S \in SUBSET (1 .. n) : S # {} /\ g[S \ {Max(S)}] \in D => g[S] \in D
  PROVE  \A S \in SUBSET (1 .. n) : g[S] \in D
<1> DEFINE Within(m) == \A S \in SUBSET (1 .. m) : g[S] \in D
           G == {m \in Nat : m <= n => Within(m)}
<1>1. Within(0)
  <2>1. \A S \in SUBSET (1 .. 0) : S = {}
    OBVIOUS
  <2> QED
    BY <2>1
<1>2. ASSUME NEW m \in Nat, m + 1 <= n, Within(m) PROVE Within(m + 1)
  <2> SUFFICES ASSUME NEW S \in SUBSET (1 .. m + 1) PROVE g[S] \in D
    OBVIOUS
  <2>1. CASE S = {}
    BY <2>1
  <2>2. CASE S # {}
    <3>1. Max(S) \in 1 .. m + 1 /\ S \ {Max(S)} \in SUBSET (1 .. Max(S) - 1)
      BY <2>2, GreatestPlace
    <3>2. 1 .. Max(S) - 1 \subseteq 1 .. m
      BY <3>1
    <3>3. g[S \ {Max(S)}] \in D
      BY <1>2, <3>1, <3>2
    <3>4. S \in SUBSET (1 .. n)
      BY <1>2
    <3> QED
      BY <2>2, <3>3, <3>4
  <2> QED
    BY <2>1, <2>2
<1> HIDE DEF Within
<1>3. G \in SUBSET Nat /\ 0 \in G /\ \A m \in G : m + 1 \in G
  BY <1>1, <1>2
<1> HIDE DEF G
<1>4. G = Nat
  BY <1>3, Induction
<1>5. Within(n)
  BY <1>4 DEF G
<1> QED
  BY <1>5 DEF Within
=============================================================================
