---------------------------- MODULE NumbersProofs ---------------------------
(***************************************************************************)
(* Proofs about the numbers: Search, Family, Paired, Sequential and Power, *)
(* for ranges, families, pairs and numbers of trials of every size.  A     *)
(* search returns the first index at which its predicate holds; each       *)
(* correction decides as the procedure it is named for; the tests' tails   *)
(* are outcomes counted one by one; a plan's region and effect are right.  *)
(* Induction is over a set of naturals (Extremes).                         *)
(***************************************************************************)
EXTENDS Power, Family, Paired, Sequential, Extremes

-----------------------------------------------------------------------------
(* Searches *)

Loop == {"first", "out", "in", "close", "found", "ValueError"}

Types ==
  /\ top \in Nat /\ holds \in [0 .. top -> BOOLEAN]
  /\ loop \in Loop
  /\ low \in Nat /\ high \in Nat
  /\ guess \in Nat /\ guess >= 1 /\ guess <= top + 1
  /\ step \in Nat /\ step >= 1

(* _settle never asks about 0.                                              *)
Rising ==
  \A i, j \in 0 .. top : i <= j /\ holds[i] /\ (i > 0 \/ guess = top + 1) => holds[j]

(* What _first keeps: below low the predicate fails, from high on it holds. *)
Bisecting ==
  guess = top + 1 =>
    /\ loop \in {"first", "found"} /\ low <= high /\ high <= top + 1
    /\ \A i \in 0 .. top : i < low => ~holds[i]
    /\ \A i \in 0 .. top : i >= high => holds[i]
    /\ loop = "found" => low = high

(* What _settle keeps: once it turns inward high reaches, and once it       *)
(* bisects low fails or is 0.                                               *)
Galloping ==
  guess <= top =>
    /\ loop # "first" /\ low < high /\ high <= top
    /\ loop \in {"in", "close", "found"} => holds[high]
    /\ loop \in {"close", "found"} => low = 0 \/ ~holds[low]
    /\ loop = "found" => high = low + 1
    /\ loop = "ValueError" => high = top /\ ~holds[top]

Inv == Types /\ Rising /\ Bisecting /\ Galloping

-----------------------------------------------------------------------------
(* The middle of two bounds is between them. *)
LEMMA MidBetween ==
  ASSUME NEW a \in Nat, NEW b \in Nat, a < b
  PROVE  /\ (a + b) \div 2 \in Nat /\ a <= (a + b) \div 2 /\ (a + b) \div 2 < b
         /\ b - a > 1 => a < (a + b) \div 2
OBVIOUS

(* A search starts on a monotone predicate, with its bounds in the range. *)
LEMMA SearchStarts == SearchInit => Inv /\ top <= MaxTop
<1> SUFFICES ASSUME SearchInit PROVE Inv /\ top <= MaxTop
  OBVIOUS
<1>1. PICK last \in 0 .. MaxTop, from \in 0 .. MaxTop + 1 :
        LET f == [i \in 0 .. last |-> i >= from]
        IN  \/ StartFirst(f, last)
            \/ \E at \in 1 .. last : StartSettle(f, last, at)
  BY DEF SearchInit
<1> DEFINE f == [i \in 0 .. last |-> i >= from]
<1>2. holds = f /\ top = last
  BY <1>1 DEF StartFirst, StartSettle
<1>3. holds \in [0 .. top -> BOOLEAN] /\ top \in Nat /\ top <= MaxTop
  BY <1>2, MaxTopAssumption
<1>4. Rising
  <2> SUFFICES ASSUME NEW i \in 0 .. top, NEW j \in 0 .. top, i <= j, holds[i] PROVE holds[j]
    BY DEF Rising
  <2>1. i >= from
    BY <1>2
  <2>2. j >= from
    BY <2>1, <1>2, MaxTopAssumption
  <2> QED
    BY <2>2, <1>2
<1>5. CASE StartFirst(f, last)
  BY <1>3, <1>4, <1>5 DEF StartFirst, Inv, Types, Loop, Bisecting, Galloping
<1>6. ASSUME NEW at \in 1 .. last, StartSettle(f, last, at) PROVE Inv
  BY <1>3, <1>4, <1>6 DEF StartSettle, Inv, Types, Loop, Bisecting, Galloping
<1> QED
  BY <1>1, <1>3, <1>5, <1>6

(* Each iteration of either search keeps the invariant. *)
LEMMA NextInv == Inv /\ [SearchNext]_searchVars => Inv'
<1> SUFFICES ASSUME Inv, [SearchNext]_searchVars PROVE Inv'
  OBVIOUS
<1> USE DEF Inv, Types
<1>1. CASE Halve
  <2>1. guess = top + 1 /\ low < high
    BY <1>1 DEF Halve, Galloping
  <2>2. Mid \in 0 .. top /\ low <= Mid /\ Mid < high
    BY <1>1, <2>1, MidBetween DEF Mid, Bisecting
  <2>3. CASE holds[Mid]
    <3>1. low' = low /\ high' = Mid /\ UNCHANGED <<holds, top, loop, step, guess>>
      BY <1>1, <2>3 DEF Halve
    <3>2. \A i \in 0 .. top : i >= Mid => holds[i]
      BY <2>1, <2>2, <2>3 DEF Rising
    <3> QED
      BY <1>1, <2>1, <2>2, <3>1, <3>2 DEF Halve, Rising, Bisecting, Galloping
  <2>4. CASE ~holds[Mid]
    <3>1. low' = Mid + 1 /\ high' = high /\ UNCHANGED <<holds, top, loop, step, guess>>
      BY <1>1, <2>4 DEF Halve
    <3>2. \A i \in 0 .. top : i < Mid + 1 => ~holds[i]
      BY <2>1, <2>2, <2>4 DEF Rising
    <3> QED
      BY <1>1, <2>1, <2>2, <3>1, <3>2 DEF Halve, Rising, Bisecting, Galloping
  <2> QED
    BY <2>3, <2>4
<1>2. CASE Halved
  BY <1>2 DEF Halved, Found, Loop, Rising, Bisecting, Galloping
<1>3. CASE Outward
  <2>1. guess <= top /\ high < top /\ low < high
    BY <1>3 DEF Outward, Bisecting, Galloping
  <2>2. high' \in Nat /\ high < high' /\ high' <= top
    BY <1>3, <2>1 DEF Outward, LeastOf
  <2> QED
    BY <1>3, <2>1, <2>2 DEF Outward, Rising, Bisecting, Galloping
<1>4. CASE OutOfRange
  <2>1. guess <= top
    BY <1>4 DEF OutOfRange, Bisecting
  <2> QED
    BY <1>4, <2>1 DEF OutOfRange, Loop, Rising, Bisecting, Galloping
<1>5. CASE Reached
  <2>1. guess <= top
    BY <1>5 DEF Reached, Bisecting
  <2> QED
    BY <1>5, <2>1 DEF Reached, Loop, Rising, Bisecting, Galloping
<1>6. CASE Inward
  <2>1. guess <= top
    BY <1>6 DEF Inward, Bisecting
  <2>2. low' \in Nat /\ low' < low /\ low < high /\ high <= top
    BY <1>6, <2>1 DEF Inward, GreatestOf, Galloping
  <2> QED
    BY <1>6, <2>1, <2>2 DEF Inward, Rising, Bisecting, Galloping
<1>7. CASE Bracketed
  <2>1. guess <= top
    BY <1>7 DEF Bracketed, Bisecting
  <2> QED
    BY <1>7, <2>1 DEF Bracketed, Loop, Rising, Bisecting, Galloping
<1>8. CASE Close
  <2>1. guess <= top /\ high - low > 1
    BY <1>8 DEF Close, Bisecting
  <2>2. Mid \in Nat /\ low < Mid /\ Mid < high
    BY <2>1, MidBetween DEF Mid, Galloping
  <2> QED
    BY <1>8, <2>1, <2>2 DEF Close, Rising, Bisecting, Galloping
<1>9. CASE Closed
  BY <1>9 DEF Closed, Found, Loop, Rising, Bisecting, Galloping
<1>10. CASE UNCHANGED searchVars
  BY <1>10 DEF searchVars, Rising, Bisecting, Galloping
<1> QED
  BY <1>1, <1>2, <1>3, <1>4, <1>5, <1>6, <1>7, <1>8, <1>9, <1>10 DEF SearchNext, Loops, SearchRest

(* The invariant holds throughout. *)
THEOREM InvHolds == SearchSpec => []Inv
BY SearchStarts, NextInv, PTL DEF SearchSpec

(* What is searched stays as it was. *)
LEMMA LoopsKeep == Loops => UNCHANGED <<holds, top, guess>>
BY DEF Loops, Halve, Halved, Found, Outward, OutOfRange, Reached, Inward, Bracketed, Close, Closed

(* For every range, the bounds stay where the predicate is defined, so that *)
(* neither search asks about an index it does not have (power.py:51-59,     *)
(* 156-176).                                                                *)
THEOREM TypeCorrect == SearchSpec => []SearchTypeOK
<1>1. Inv /\ top <= MaxTop => SearchTypeOK
  BY MaxTopAssumption DEF Inv, Types, Loop, Bisecting, Galloping, SearchTypeOK
<1>2. top <= MaxTop /\ [SearchNext]_searchVars => (top <= MaxTop)'
  BY LoopsKeep DEF SearchNext, SearchRest, searchVars
<1> QED
  BY SearchStarts, InvHolds, <1>1, <1>2, PTL DEF SearchSpec

(* For every range, every monotone predicate and every guess, what is       *)
(* returned is the first index at which the predicate holds                 *)
(* (power.py:52, 157-162).                                                  *)
THEOREM FirstFound == SearchSpec => []FindsFirst
<1>1. Inv => FindsFirst
  <2> SUFFICES ASSUME Inv PROVE FindsFirst
    OBVIOUS
  <2>1. CASE guess = top + 1
    BY <2>1 DEF Inv, Types, Bisecting, FindsFirst
  <2>2. CASE guess <= top
    <3>1. ASSUME loop = "found", NEW i \in 0 .. top, i < high, i > 0 PROVE ~holds[i]
      BY <2>2, <3>1 DEF Inv, Types, Galloping, Rising
    <3>2. ASSUME loop = "ValueError", NEW i \in 1 .. top PROVE ~holds[i]
      BY <2>2, <3>2 DEF Inv, Types, Galloping, Rising
    <3> QED
      BY <2>2, <3>1, <3>2 DEF Inv, Types, Galloping, FindsFirst
  <2> QED
    BY <2>1, <2>2 DEF Inv, Types
<1> QED
  BY InvHolds, <1>1, PTL

-----------------------------------------------------------------------------
(* What a correction decides, of p-values by their places *)

(* A set of as many elements as places holds, at one place each. *)
Placed(D, at, m) ==
  /\ m \in Nat /\ at \in [D -> 1 .. m]
  /\ \A x, y \in D : at[x] = at[y] => x = y
  /\ \A k \in 1 .. m : \E x \in D : at[x] = k

Rises(v, m) == v \in [1 .. m -> Nat] /\ \A j, k \in 1 .. m : j <= k => v[j] <= v[k]

(* There are as many elements as the places they have. *)
LEMMA AsManyAsPlaces ==
  ASSUME NEW D, NEW at, NEW m, Placed(D, at, m), NEW S \in SUBSET D, NEW a \in Nat, NEW b \in Nat,
         1 <= a, b <= m, a <= b + 1
  PROVE  /\ IsFiniteSet(S) /\ Cardinality(S) \in Nat
         /\ (\A x \in S : at[x] \in a .. b) => Cardinality(S) <= b - a + 1
         /\ (\A x \in D : at[x] \in a .. b => x \in S) => Cardinality(S) >= b - a + 1
<1> DEFINE K == {at[x] : x \in S}
           f == [x \in S |-> at[x]]
<1>1. \A x \in S : at[x] \in 1 .. m
  BY DEF Placed
<1>2. f \in Injection(S, K) /\ f \in Surjection(S, K)
  BY DEF Placed, Injection, Surjection, IsInjective
<1>3. IsFiniteSet(1 .. m) /\ K \in SUBSET (1 .. m)
  BY <1>1, FS_Interval DEF Placed
<1>4. IsFiniteSet(K)
  BY <1>3, FS_Subset
<1> HIDE DEF f
<1>5. IsFiniteSet(S) /\ Cardinality(S) = Cardinality(K)
  BY <1>2, <1>4, FS_Injection
<1>6. IsFiniteSet(a .. b) /\ Cardinality(a .. b) = b - a + 1
  <2>1. IsFiniteSet(a .. b) /\ Cardinality(a .. b) = IF a > b THEN 0 ELSE b - a + 1
    BY FS_Interval
  <2>2. CASE a > b
    BY <2>1, <2>2
  <2>3. CASE ~(a > b)
    BY <2>1, <2>3
  <2> QED
    BY <2>2, <2>3
<1>7. Cardinality(S) \in Nat
  BY <1>5, FS_CardinalityType
<1>8. ASSUME \A x \in S : at[x] \in a .. b PROVE Cardinality(S) <= b - a + 1
  <2>1. K \in SUBSET (a .. b)
    BY <1>8
  <2> HIDE DEF K
  <2> QED
    BY <1>5, <1>6, <2>1, FS_Subset
<1>9. ASSUME \A x \in D : at[x] \in a .. b => x \in S PROVE Cardinality(S) >= b - a + 1
  <2>1. (a .. b) \in SUBSET K
    <3>1. ASSUME NEW k \in a .. b PROVE k \in K
      <4>1. k \in 1 .. m
        BY DEF Placed
      <4>2. PICK x \in D : at[x] = k
        BY <4>1 DEF Placed
      <4> QED
        BY <1>9, <4>2
    <3> QED
      BY <3>1
  <2> HIDE DEF K
  <2>2. Cardinality(a .. b) <= Cardinality(K)
    BY <1>4, <2>1, FS_Subset
  <2>3. Cardinality(K) \in Nat
    BY <1>5, <1>7
  <2> QED
    BY <1>5, <1>6, <2>2, <2>3
<1> QED
  BY <1>5, <1>7, <1>8, <1>9

(* Products grow with their factors. *)
LEMMA ProductsGrow ==
  ASSUME NEW a \in Nat, NEW b \in Nat, NEW c \in Nat, NEW d \in Nat, a <= b, c <= d
  PROVE  a * c \in Nat /\ a * c <= b * d
<1>1. PICK e \in Nat : b = a + e
  <2>1. b - a \in Nat /\ b = a + (b - a)
    OBVIOUS
  <2> QED
    BY <2>1
<1>2. PICK g \in Nat : d = c + g
  <2>1. d - c \in Nat /\ d = c + (d - c)
    OBVIOUS
  <2> QED
    BY <2>1
<1>3. \A x, y \in Nat : x * y \in Nat
  OBVIOUS
<1>4. a * c \in Nat /\ a * g \in Nat /\ e * c \in Nat /\ e * g \in Nat
  BY <1>3
<1>5. b * d = a * c + a * g + e * c + e * g
  BY <1>1, <1>2
<1> QED
  BY <1>4, <1>5

(* Each place up to that of x passes its step down exactly when each set    *)
(* that holds x has an element that, times the size of the set, passes.     *)
LEMMA StepsDown ==
  ASSUME NEW D, NEW at, NEW m, Placed(D, at, m), NEW v, Rises(v, m), NEW alpha \in Nat, NEW x \in D
  PROVE  (\A k \in 1 .. at[x] : (m - k + 1) * v[k] <= alpha)
         <=> \A S \in SUBSET D : x \in S => \E o \in S : Cardinality(S) * v[at[o]] <= alpha
<1>1. m \in Nat /\ \A y \in D : at[y] \in 1 .. m
  BY DEF Placed
<1>2. \A k \in 1 .. m : v[k] \in Nat
  BY DEF Rises
<1>3. ASSUME \A k \in 1 .. at[x] : (m - k + 1) * v[k] <= alpha, NEW S \in SUBSET D, x \in S
      PROVE  \E o \in S : Cardinality(S) * v[at[o]] <= alpha
  <2> DEFINE K == {at[y] : y \in S}
  <2>1. K \in SUBSET Nat /\ K # {}
    BY <1>1, <1>3
  <2>2. PICK k \in K : \A j \in K : k <= j
    BY <2>1, LeastElement
  <2>3. PICK o \in S : k = at[o]
    OBVIOUS
  <2>4. \A y \in S : at[y] \in k .. m
    BY <1>1, <2>2
  <2>5. k \in Nat /\ 1 <= k /\ k <= m /\ k <= at[x] /\ m \in Nat /\ m <= m /\ k <= m + 1
    BY <1>1, <1>3, <2>2, <2>3
  <2>6. Cardinality(S) \in Nat /\ Cardinality(S) <= m - k + 1
    BY <2>4, <2>5, AsManyAsPlaces
  <2>7. v[k] \in Nat /\ m - k + 1 \in Nat /\ v[k] <= v[k]
    BY <1>2, <2>5
  <2>8. Cardinality(S) * v[k] <= (m - k + 1) * v[k]
    BY <2>6, <2>7, ProductsGrow
  <2>9. (m - k + 1) * v[k] <= alpha
    BY <1>3, <2>5
  <2>10. Cardinality(S) * v[k] \in Nat /\ (m - k + 1) * v[k] \in Nat
    BY <2>6, <2>7, ProductsGrow
  <2> QED
    BY <2>3, <2>8, <2>9, <2>10
<1>4. ASSUME \A S \in SUBSET D : x \in S => \E o \in S : Cardinality(S) * v[at[o]] <= alpha,
             NEW k \in 1 .. at[x]
      PROVE  (m - k + 1) * v[k] <= alpha
  <2> DEFINE S == {y \in D : at[y] >= k}
  <2>1. k \in Nat /\ 1 <= k /\ k <= m /\ m <= m /\ k <= m + 1 /\ k \in 1 .. m
    BY <1>1
  <2>2. S \in SUBSET D /\ x \in S
    BY <1>1
  <2>3. \A y \in D : at[y] \in k .. m => y \in S
    OBVIOUS
  <2>4. PICK o \in S : Cardinality(S) * v[at[o]] <= alpha
    BY <1>4, <2>2
  <2>5. at[o] \in 1 .. m /\ k <= at[o]
    BY <1>1
  <2> HIDE DEF S
  <2>6. Cardinality(S) \in Nat /\ Cardinality(S) >= m - k + 1
    BY <1>1, <2>1, <2>2, <2>3, AsManyAsPlaces
  <2>7. v[k] \in Nat /\ v[at[o]] \in Nat /\ v[k] <= v[at[o]]
    BY <1>2, <2>1, <2>5 DEF Rises
  <2>8. m - k + 1 \in Nat /\ m - k + 1 <= Cardinality(S)
    BY <1>1, <2>1, <2>6
  <2>9. (m - k + 1) * v[k] \in Nat /\ (m - k + 1) * v[k] <= Cardinality(S) * v[at[o]]
    BY <2>6, <2>7, <2>8, ProductsGrow
  <2>10. Cardinality(S) * v[at[o]] \in Nat
    BY <2>6, <2>7, ProductsGrow
  <2> QED
    BY <2>4, <2>9, <2>10
<1> QED
  BY <1>3, <1>4

(* The elements that are at most k / m of the level.                        *)
Within(D, at, m, v, alpha, k) == {o \in D : v[at[o]] * m <= k * alpha}

(* Some place from that of x on passes exactly when, for some k, x and at   *)
(* least k in all are at most k / m of the level.                           *)
LEMMA StepsUp ==
  ASSUME NEW D, NEW at, NEW m, Placed(D, at, m), NEW v, Rises(v, m), NEW alpha \in Nat, NEW x \in D
  PROVE  (\E k \in at[x] .. m : v[k] * m <= k * alpha)
         <=> \E k \in 1 .. m : /\ x \in Within(D, at, m, v, alpha, k)
                               /\ Cardinality(Within(D, at, m, v, alpha, k)) >= k
<1> DEFINE Up(k) == {o \in D : v[at[o]] * m <= k * alpha}
<1>1. m \in Nat /\ \A y \in D : at[y] \in 1 .. m
  BY DEF Placed
<1>2. \A k \in 1 .. m : v[k] \in Nat
  BY DEF Rises
<1>3. ASSUME NEW j \in 1 .. m, NEW k \in 1 .. m, j <= k
      PROVE  /\ v[j] * m \in Nat /\ v[j] * m <= v[k] * m /\ v[k] * m \in Nat
             /\ j * alpha \in Nat /\ j * alpha <= k * alpha /\ k * alpha \in Nat
  <2>1. v[j] \in Nat /\ v[k] \in Nat /\ v[j] <= v[k] /\ j \in Nat /\ k \in Nat
    BY <1>1, <1>2, <1>3 DEF Rises
  <2>2. \A y, z, w \in Nat : y * w \in Nat /\ (y <= z => y * w <= z * w)
    <3>1. ASSUME NEW y \in Nat, NEW z \in Nat, NEW w \in Nat, y <= z PROVE y * w <= z * w
      BY <3>1, ProductsGrow
    <3>2. \A y, w \in Nat : y * w \in Nat
      OBVIOUS
    <3> QED
      BY <3>1, <3>2
  <2> QED
    BY <1>1, <1>3, <2>1, <2>2
<1>4. ASSUME NEW k \in at[x] .. m, v[k] * m <= k * alpha
      PROVE  k \in 1 .. m /\ x \in Up(k) /\ Cardinality(Up(k)) >= k
  <2>1. k \in 1 .. m /\ at[x] \in 1 .. m /\ at[x] <= k
    BY <1>1
  <2>2. ASSUME NEW o \in D, at[o] <= k PROVE o \in Up(k)
    <3>1. at[o] \in 1 .. m
      BY <1>1
    <3>2. v[at[o]] * m \in Nat /\ v[at[o]] * m <= v[k] * m /\ v[k] * m \in Nat /\ k * alpha \in Nat
      BY <1>3, <2>1, <2>2, <3>1
    <3>3. v[at[o]] * m <= k * alpha
      BY <1>4, <3>2
    <3> QED
      BY <3>3
  <2>3. Up(k) \in SUBSET D /\ \A o \in D : at[o] \in 1 .. k => o \in Up(k)
    BY <2>2
  <2>4. x \in Up(k)
    BY <2>1, <2>2
  <2>5. k \in Nat /\ 1 \in Nat /\ 1 <= 1 /\ k <= m /\ 1 <= k + 1
    BY <2>1
  <2> HIDE DEF Up
  <2>6. Cardinality(Up(k)) \in Nat /\ Cardinality(Up(k)) >= k - 1 + 1
    BY <2>3, <2>5, AsManyAsPlaces
  <2> QED
    BY <2>1, <2>4, <2>5, <2>6
<1>5. ASSUME NEW k \in 1 .. m, x \in Up(k), Cardinality(Up(k)) >= k
      PROVE  \E j \in at[x] .. m : v[j] * m <= j * alpha
  <2>1. at[x] \in 1 .. m /\ v[at[x]] * m <= k * alpha
    BY <1>1, <1>5
  <2>2. CASE at[x] >= k
    <3>1. v[at[x]] * m \in Nat /\ k * alpha \in Nat /\ k * alpha <= at[x] * alpha /\ at[x] * alpha \in Nat
      BY <1>3, <2>1, <2>2
    <3>2. at[x] \in at[x] .. m
      BY <1>1, <2>1
    <3> QED
      BY <2>1, <3>1, <3>2
  <2>3. CASE at[x] < k
    <3>1. \E o \in Up(k) : at[o] >= k
      <4>1. SUFFICES ASSUME \A o \in Up(k) : at[o] < k PROVE FALSE
        BY <1>1
      <4>2. /\ Up(k) \in SUBSET D /\ \A o \in Up(k) : at[o] \in 1 .. k - 1
        BY <1>1, <4>1
      <4>3. k - 1 \in Nat /\ 1 \in Nat /\ 1 <= 1 /\ k - 1 <= m /\ 1 <= (k - 1) + 1
        BY <1>1
      <4> HIDE DEF Up
      <4>4. Cardinality(Up(k)) \in Nat /\ Cardinality(Up(k)) <= (k - 1) - 1 + 1
        BY <4>2, <4>3, AsManyAsPlaces
      <4> QED
        BY <1>5, <4>3, <4>4
    <3>2. PICK o \in Up(k) : at[o] >= k
      BY <3>1
    <3>3. o \in D /\ v[at[o]] * m <= k * alpha /\ at[o] \in 1 .. m
      BY <1>1
    <3>4. v[k] * m \in Nat /\ v[k] * m <= v[at[o]] * m /\ v[at[o]] * m \in Nat /\ k * alpha \in Nat
      BY <1>3, <3>2, <3>3
    <3>5. v[k] * m <= k * alpha
      BY <3>3, <3>4
    <3>6. k \in at[x] .. m
      BY <1>1, <2>1, <2>3
    <3> QED
      BY <3>5, <3>6
  <2> QED
    BY <1>1, <2>1, <2>2, <2>3
<1>6. \A k : Up(k) = Within(D, at, m, v, alpha, k)
  BY DEF Within
<1> HIDE DEF Up
<1>7. (\E k \in at[x] .. m : v[k] * m <= k * alpha)
      <=> \E k \in 1 .. m : x \in Up(k) /\ Cardinality(Up(k)) >= k
  BY <1>4, <1>5
<1> QED
  BY <1>6, <1>7

-----------------------------------------------------------------------------
(* Places *)

(* Each p-value has its place, and they rise from place to place. *)
LEMMA Places ==
  ASSUME NEW ps \in Seq(Nat)
  PROVE  LET n == Len(ps)
         IN  /\ n \in Nat /\ DOMAIN ps = 1 .. n
             /\ \A i \in 1 .. n : Place(ps, i) \in 1 .. n
             /\ \A i, j \in 1 .. n : Place(ps, i) = Place(ps, j) => i = j
             /\ \A i, j \in 1 .. n : Place(ps, i) <= Place(ps, j) => ps[i] <= ps[j]
             /\ \A k \in 1 .. n : /\ Order(ps)[k] \in 1 .. n
                                  /\ Place(ps, Order(ps)[k]) = k
<1> DEFINE n     == Len(ps)
           I     == 1 .. n
           below == [i \in I |-> {j \in I : ps[j] < ps[i] \/ (ps[j] = ps[i] /\ j < i)}]
<1>1. n \in Nat /\ DOMAIN ps = I /\ \A i \in I : ps[i] \in Nat
  OBVIOUS
<1>2. IsFiniteSet(I)
  BY <1>1, FS_Interval
<1>3. \A i \in I : Place(ps, i) = 1 + Cardinality(below[i])
  BY <1>1 DEF Place
<1>4. below \in [I -> SUBSET I]
  OBVIOUS
<1>5. \A i \in I : i \notin below[i]
  BY <1>1
<1>6. \A i, j \in I : i # j => \/ below[i] \subseteq below[j] /\ i \in below[j]
                               \/ below[j] \subseteq below[i] /\ j \in below[i]
  <2>1. ASSUME NEW i \in I, NEW j \in I, i \in below[j] PROVE below[i] \subseteq below[j]
    BY <1>1, <2>1
  <2>2. \A i, j \in I : i # j => i \in below[j] \/ j \in below[i]
    BY <1>1
  <2> QED
    BY <2>1, <2>2
<1>7. \A i, j \in I : ps[j] < ps[i] => j \in below[i]
  OBVIOUS
<1> HIDE DEF n, I, below
<1>8. /\ \A i \in I : IsFiniteSet(below[i]) /\ Cardinality(below[i]) \in 0 .. Cardinality(I) - 1
      /\ \A i, j \in I : i \in below[j] => Cardinality(below[i]) < Cardinality(below[j])
      /\ \A i, j \in I : Cardinality(below[i]) = Cardinality(below[j]) => i = j
      /\ \A k \in 1 .. Cardinality(I) : \E i \in I : Cardinality(below[i]) = k - 1
  BY <1>2, <1>4, <1>5, <1>6, Ranks, ZenonT(60)
<1>9. Cardinality(I) = n
  <2>1. Cardinality(1 .. n) = IF 1 > n THEN 0 ELSE n - 1 + 1
    BY <1>1, FS_Interval
  <2> QED
    BY <1>1, <2>1 DEF I
<1>10. \A i \in I : Cardinality(below[i]) \in Nat /\ Place(ps, i) \in 1 .. n
  <2> TAKE i \in I
  <2>1. Cardinality(below[i]) \in 0 .. n - 1 /\ Place(ps, i) = 1 + Cardinality(below[i])
    BY <1>3, <1>8, <1>9
  <2> QED
    BY <1>1, <2>1
<1>11. \A i, j \in I : Place(ps, i) = Place(ps, j) => i = j
  BY <1>3, <1>8, <1>10
<1>12. \A i, j \in I : Place(ps, i) <= Place(ps, j) => ps[i] <= ps[j]
  <2> SUFFICES ASSUME NEW i \in I, NEW j \in I, ps[j] < ps[i]
               PROVE  Place(ps, j) < Place(ps, i)
    BY <1>1, <1>10
  <2>1. Cardinality(below[j]) < Cardinality(below[i])
    BY <1>7, <1>8
  <2> QED
    BY <1>3, <1>10, <2>1
<1>13. ASSUME NEW k \in I PROVE \E i \in I : Place(ps, i) = k
  <2>1. k \in 1 .. n
    BY DEF I
  <2>2. PICK i \in I : Cardinality(below[i]) = k - 1
    BY <1>8, <1>9, <2>1
  <2>3. Place(ps, i) = 1 + (k - 1)
    BY <1>3, <2>2
  <2> QED
    BY <1>1, <2>1, <2>3
<1>14. \A k \in I : Order(ps)[k] \in I /\ Place(ps, Order(ps)[k]) = k
  <2> SUFFICES ASSUME NEW k \in I
               PROVE  Order(ps)[k] \in I /\ Place(ps, Order(ps)[k]) = k
    OBVIOUS
  <2>1. Order(ps)[k] = CHOOSE i \in I : Place(ps, i) = k
    BY <1>1 DEF Order, I
  <2> QED
    BY <1>13, <2>1
<1> QED
  BY <1>1, <1>10, <1>11, <1>12, <1>14 DEF n, I

-----------------------------------------------------------------------------
(* The corrections *)

(* What is taken of the two numbers is the lesser of them. *)
LEMMA LesserOfTwo ==
  ASSUME NEW a \in Nat, NEW b \in Nat
  PROVE  Min({a, b}) = IF a <= b THEN a ELSE b
<1>1. Min({a, b}) = CHOOSE x \in {a, b} : \A y \in {a, b} : x <= y
  BY DEF Min
<1>2. CASE a <= b
  BY <1>1, <1>2
<1>3. CASE ~(a <= b)
  BY <1>1, <1>3
<1> QED
  BY <1>2, <1>3

(* Holm's adjusted p-value passes when each step down to its place does.    *)
LEMMA HolmPasses ==
  ASSUME One \in Nat, NEW ps \in Seq(Nat), NEW i \in 1 .. Len(ps), NEW alpha \in 0 .. One - 1
  PROVE  Holm(ps)[i] <= alpha <=>
           \A k \in 1 .. Place(ps, i) : (Len(ps) - k + 1) * ps[Order(ps)[k]] <= alpha
<1> DEFINE n       == Len(ps)
           Step(k) == (n - k + 1) * ps[Order(ps)[k]]
           T       == {StepDown(ps, k) : k \in 1 .. Place(ps, i)}
<1>1. /\ n \in Nat /\ DOMAIN ps = 1 .. n /\ i \in 1 .. n /\ Place(ps, i) \in 1 .. n
      /\ \A k \in 1 .. n : Order(ps)[k] \in 1 .. n
  BY Places
<1>2. ASSUME NEW k \in 1 .. n
      PROVE  /\ Step(k) \in Nat /\ StepDown(ps, k) \in 0 .. One
             /\ StepDown(ps, k) <= alpha <=> Step(k) <= alpha
  <2>1. ps[Order(ps)[k]] \in Nat /\ n - k + 1 \in Nat
    BY <1>1
  <2>2. \A y, z \in Nat : y * z \in Nat
    OBVIOUS
  <2>3. Step(k) \in Nat
    BY <2>1, <2>2
  <2>4. StepDown(ps, k) = Min({One, Step(k)})
    BY DEF StepDown
  <2> HIDE DEF Step
  <2>5. StepDown(ps, k) = IF One <= Step(k) THEN One ELSE Step(k)
    BY <2>3, <2>4, LesserOfTwo
  <2> QED
    BY <2>3, <2>5
<1>3. Holm(ps)[i] = CHOOSE x \in T : \A y \in T : x >= y
  BY <1>1 DEF Holm, Max
<1>4. T \in SUBSET (0 .. One) /\ T # {}
  <2>1. \A k \in 1 .. Place(ps, i) : k \in 1 .. n
    BY <1>1
  <2>2. 1 \in 1 .. Place(ps, i)
    BY <1>1
  <2> QED
    BY <1>2, <2>1, <2>2
<1>5. \E x \in T : \A y \in T : x >= y
  <2> HIDE DEF T
  <2>1. PICK x \in T : \A y \in T : y <= x
    BY <1>4, GreatestElement
  <2>2. \A y \in T : y \in Nat
    BY <1>4
  <2> QED
    BY <2>1, <2>2
<1>6. Holm(ps)[i] \in T /\ \A y \in T : Holm(ps)[i] >= y
  <2> HIDE DEF T
  <2> QED
    BY <1>3, <1>5
<1>7. Holm(ps)[i] <= alpha <=> \A y \in T : y <= alpha
  <2> HIDE DEF T
  <2>1. \A y \in T : y \in Nat
    BY <1>4
  <2> QED
    BY <1>6, <2>1
<1>8. \A k \in 1 .. Place(ps, i) : StepDown(ps, k) <= alpha <=> Step(k) <= alpha
  <2>1. \A k \in 1 .. Place(ps, i) : k \in 1 .. n
    BY <1>1
  <2> QED
    BY <1>2, <2>1
<1>9. (\A y \in T : y <= alpha) <=> \A k \in 1 .. Place(ps, i) : StepDown(ps, k) <= alpha
  OBVIOUS
<1> HIDE DEF T, Step
<1>10. Holm(ps)[i] <= alpha <=> \A k \in 1 .. Place(ps, i) : Step(k) <= alpha
  BY <1>7, <1>8, <1>9, Zenon
<1> QED
  BY <1>10 DEF Step

(* A quotient that comes out even is bounded as what it is of. *)
LEMMA EvenQuotient ==
  ASSUME NEW a \in Nat, NEW k \in Nat \ {0}, a % k = 0, NEW alpha \in Nat
  PROVE  a \div k \in Nat /\ (a \div k <= alpha <=> a <= k * alpha)
<1> DEFINE q == a \div k
<1>1. q \in Nat /\ a = k * q
  OBVIOUS
<1> HIDE DEF q
<1>2. \A x, y \in Nat : x <= y => k * x <= k * y
  BY ProductsGrow
<1>3. ASSUME ~(q <= alpha) PROVE ~(a <= k * alpha)
  <2>1. k * (alpha + 1) <= k * q
    BY <1>1, <1>2, <1>3
  <2>2. k * (alpha + 1) = k * alpha + k /\ k * alpha \in Nat
    OBVIOUS
  <2> QED
    BY <1>1, <2>1, <2>2
<1>4. q <= alpha => a <= k * alpha
  BY <1>1, <1>2
<1> QED
  BY <1>1, <1>3, <1>4 DEF q

(* Benjamini and Hochberg's passes when one of the steps up from its place  *)
(* does, as long as the divisions come out even.                            *)
LEMMA BHPasses ==
  ASSUME One \in Nat, NEW ps \in Seq(Nat), NEW i \in 1 .. Len(ps), NEW alpha \in 0 .. One - 1,
         \A j, k \in 1 .. Len(ps) : (ps[j] * Len(ps)) % k = 0
  PROVE  BenjaminiHochberg(ps)[i] <= alpha <=>
           \E k \in Place(ps, i) .. Len(ps) : ps[Order(ps)[k]] * Len(ps) <= k * alpha
<1> DEFINE n       == Len(ps)
           T       == {One} \cup {StepUp(ps, k) : k \in Place(ps, i) .. n}
<1>1. /\ n \in Nat /\ DOMAIN ps = 1 .. n /\ i \in 1 .. n /\ Place(ps, i) \in 1 .. n
      /\ \A k \in 1 .. n : Order(ps)[k] \in 1 .. n
  BY Places
<1>2. ASSUME NEW k \in 1 .. n
      PROVE  /\ StepUp(ps, k) \in Nat
             /\ StepUp(ps, k) <= alpha <=> ps[Order(ps)[k]] * n <= k * alpha
  <2> DEFINE a == ps[Order(ps)[k]] * n
  <2>1. ps[Order(ps)[k]] \in Nat /\ alpha \in Nat /\ k \in Nat \ {0}
    BY <1>1
  <2>2. \A y, z \in Nat : y * z \in Nat
    OBVIOUS
  <2>3. a \in Nat
    BY <1>1, <2>1, <2>2
  <2>4. a % k = 0
    BY <1>1
  <2>5. StepUp(ps, k) = a \div k
    BY DEF StepUp
  <2> HIDE DEF a
  <2>6. a \div k \in Nat /\ (a \div k <= alpha <=> a <= k * alpha)
    BY <2>1, <2>3, <2>4, EvenQuotient
  <2> QED
    BY <2>5, <2>6 DEF a
<1>3. BenjaminiHochberg(ps)[i] = CHOOSE x \in T : \A y \in T : x <= y
  BY <1>1 DEF BenjaminiHochberg, Min
<1>4. \A k \in Place(ps, i) .. n : k \in 1 .. n
  BY <1>1
<1>5. T \in SUBSET Nat /\ T # {} /\ One \in T
  BY <1>2, <1>4
<1>6. \E x \in T : \A y \in T : x <= y
  <2> HIDE DEF T
  <2> QED
    BY <1>5, LeastElement
<1>7. BenjaminiHochberg(ps)[i] \in T /\ \A y \in T : BenjaminiHochberg(ps)[i] <= y
  <2> HIDE DEF T
  <2> QED
    BY <1>3, <1>6
<1>8. BenjaminiHochberg(ps)[i] <= alpha <=> \E y \in T : y <= alpha
  <2> HIDE DEF T
  <2>1. \A y \in T : y \in Nat
    BY <1>5
  <2> QED
    BY <1>7, <2>1
<1>9. ~(One <= alpha)
  OBVIOUS
<1> QED
  BY <1>2, <1>4, <1>8, <1>9

-----------------------------------------------------------------------------
(* A family from its declaration on *)

(* The results in the order in which the members were declared. *)
Ps == [i \in DOMAIN members |-> results[members[i]]]

PlaceOf(name) == CHOOSE i \in DOMAIN members : members[i] = name

(* Only members have results, and what was adjusted is all of them.         *)
FamilyInv ==
  /\ members \in Seq(Names) /\ Len(members) \in 1 .. Cardinality(Names)
  /\ Distinct(members)
  /\ correction \in Corrections
  /\ DOMAIN results \subseteq Declared
  /\ \A name \in DOMAIN results : results[name] \in PValues
  /\ adjusted # Unadjusted =>
       /\ Declared \subseteq DOMAIN results
       /\ adjusted = [name \in Declared |-> Adjust(correction, Ps)[PlaceOf(name)]]

LEMMA FamilyStarts == FamilyInit => FamilyInv
<1> SUFFICES ASSUME FamilyInit PROVE FamilyInv
  OBVIOUS
<1>1. PICK m \in 1 .. Cardinality(Names) : members \in [1 .. m -> Names]
  BY DEF FamilyInit
<1>2. members \in Seq(Names) /\ Len(members) = m
  BY <1>1
<1>3. Distinct(members)
  BY DEF FamilyInit
<1>4. DOMAIN results = {} /\ adjusted = Unadjusted /\ correction \in Corrections
  BY DEF FamilyInit
<1> QED
  BY <1>1, <1>2, <1>3, <1>4 DEF FamilyInv

LEMMA AddKeeps ==
  ASSUME FamilyInv, NEW name \in Names, NEW p \in PValues, Add(name, p)
  PROVE  FamilyInv'
<1>1. /\ name \in Declared /\ name \notin DOMAIN results
      /\ results' = [each \in DOMAIN results \cup {name} |-> IF each = name THEN p ELSE results[each]]
      /\ members' = members /\ correction' = correction /\ adjusted' = adjusted
  BY DEF Add
<1>2. adjusted = Unadjusted
  BY <1>1 DEF FamilyInv
<1>3. DOMAIN results' = DOMAIN results \cup {name}
      /\ \A each \in DOMAIN results' : results'[each] \in PValues
  BY <1>1 DEF FamilyInv
<1>4. Declared' = Declared /\ Distinct(members)' /\ Unadjusted' = Unadjusted
  BY <1>1 DEF FamilyInv, Declared, Distinct, Unadjusted
<1> QED
  BY <1>1, <1>2, <1>3, <1>4 DEF FamilyInv

LEMMA AdjustKeeps == ASSUME FamilyInv, Adjusted PROVE FamilyInv'
<1>1. /\ Declared \subseteq DOMAIN results
      /\ adjusted' = [name \in Declared |-> Adjust(correction, Ps)[PlaceOf(name)]]
      /\ members' = members /\ correction' = correction /\ results' = results
  BY DEF Adjusted, Ps, PlaceOf
<1>2. Declared' = Declared /\ Distinct(members)'
  BY <1>1 DEF FamilyInv, Declared, Distinct
<1>3. Ps' = Ps /\ \A name : PlaceOf(name)' = PlaceOf(name)
  BY <1>1 DEF Ps, PlaceOf
<1>4. Adjust(correction, Ps)' = Adjust(correction, Ps)
  BY <1>1, <1>3
<1>5. adjusted' = [name \in Declared |-> Adjust(correction, Ps)[PlaceOf(name)]]'
  BY <1>1, <1>2, <1>3, <1>4
<1> QED
  BY <1>1, <1>2, <1>5 DEF FamilyInv

LEMMA FamilyGoesOn == FamilyInv /\ [FamilyNext]_familyVars => FamilyInv'
<1> SUFFICES ASSUME FamilyInv, [FamilyNext]_familyVars PROVE FamilyInv'
  OBVIOUS
<1>1. CASE \E name \in Names, p \in PValues : Add(name, p)
  BY <1>1, AddKeeps
<1>2. CASE Adjusted
  BY <1>2, AdjustKeeps
<1>3. CASE UNCHANGED familyVars
  <2>1. members' = members /\ correction' = correction /\ results' = results /\ adjusted' = adjusted
    BY <1>3 DEF familyVars
  <2>2. Declared' = Declared /\ Distinct(members)' = Distinct(members)
    BY <2>1 DEF Declared, Distinct
  <2>3. Ps' = Ps /\ \A name : PlaceOf(name)' = PlaceOf(name)
    BY <2>1 DEF Ps, PlaceOf
  <2>4. Adjust(correction, Ps)' = Adjust(correction, Ps)
    BY <2>1, <2>3
  <2>5. [name \in Declared |-> Adjust(correction, Ps)[PlaceOf(name)]]'
        = [name \in Declared |-> Adjust(correction, Ps)[PlaceOf(name)]]
    BY <2>2, <2>3, <2>4
  <2>6. Unadjusted' = Unadjusted /\ Corrections' = Corrections
    BY DEF Unadjusted
  <2> QED
    BY <2>1, <2>2, <2>5, <2>6 DEF FamilyInv
<1>4. FamilyRest => UNCHANGED familyVars
  BY DEF FamilyRest
<1> QED
  BY <1>1, <1>2, <1>3, <1>4 DEF FamilyNext

(* Members by the places of their results. *)
LEMMA MembersPlaced ==
  ASSUME One \in Nat, PValues \subseteq 0 .. One, FamilyInv, adjusted # Unadjusted
  PROVE  LET m  == Len(members)
             at == [name \in Declared |-> Place(Ps, PlaceOf(name))]
             v  == [k \in 1 .. m |-> Ps[Order(Ps)[k]]]
         IN  /\ Ps \in Seq(PValues) /\ Ps \in Seq(Nat) /\ Len(Ps) = m
             /\ Placed(Declared, at, m) /\ Rises(v, m)
             /\ \A name \in Declared :
                  PlaceOf(name) \in 1 .. m /\ results[name] = v[at[name]]
<1> DEFINE m  == Len(members)
           at == [name \in Declared |-> Place(Ps, PlaceOf(name))]
           v  == [k \in 1 .. m |-> Ps[Order(Ps)[k]]]
<1>1. members \in Seq(Names) /\ m \in Nat /\ DOMAIN members = 1 .. m
  BY DEF FamilyInv
<1>2. \A i \in 1 .. m : members[i] \in Declared
  BY <1>1 DEF Declared
<1>3. \A name \in Declared : results[name] \in PValues
  BY DEF FamilyInv
<1>4. Ps = [i \in 1 .. m |-> results[members[i]]] /\ Ps \in [1 .. m -> PValues]
  BY <1>1, <1>2, <1>3 DEF Ps
<1>5. Ps \in Seq(PValues) /\ Len(Ps) = m
  BY <1>1, <1>4
<1>6. Ps \in Seq(Nat) /\ \A i \in 1 .. m : Ps[i] \in Nat
  <2>1. PValues \subseteq Nat
    OBVIOUS
  <2>2. Ps \in [1 .. m -> Nat]
    BY <1>4, <2>1
  <2> QED
    BY <1>1, <2>2
<1>7. \A name \in Declared : PlaceOf(name) \in 1 .. m /\ members[PlaceOf(name)] = name
  BY <1>1 DEF Declared, PlaceOf
<1>8. \A i \in 1 .. m : PlaceOf(members[i]) = i
  <2>1. \A i, j \in 1 .. m : members[i] = members[j] => i = j
    BY <1>1 DEF FamilyInv, Distinct
  <2> QED
    BY <1>2, <1>7, <2>1
<1>9. /\ \A i \in 1 .. m : Place(Ps, i) \in 1 .. m
      /\ \A i, j \in 1 .. m : Place(Ps, i) = Place(Ps, j) => i = j
      /\ \A i, j \in 1 .. m : Place(Ps, i) <= Place(Ps, j) => Ps[i] <= Ps[j]
      /\ \A k \in 1 .. m : /\ Order(Ps)[k] \in 1 .. m
                           /\ Place(Ps, Order(Ps)[k]) = k
  BY <1>5, <1>6, Places
<1>10. Placed(Declared, at, m)
  <2>1. at \in [Declared -> 1 .. m]
    BY <1>7, <1>9
  <2>2. \A x, y \in Declared : at[x] = at[y] => x = y
    BY <1>7, <1>9
  <2>3. ASSUME NEW k \in 1 .. m PROVE \E x \in Declared : at[x] = k
    <3>1. Order(Ps)[k] \in 1 .. m /\ Place(Ps, Order(Ps)[k]) = k
      BY <1>9
    <3> DEFINE x == members[Order(Ps)[k]]
    <3>2. x \in Declared /\ PlaceOf(x) = Order(Ps)[k]
      BY <1>2, <1>8, <3>1
    <3> QED
      BY <3>1, <3>2
  <2> QED
    BY <1>1, <2>1, <2>2, <2>3 DEF Placed
<1>11. Rises(v, m)
  <2>1. \A k \in 1 .. m : v[k] = Ps[Order(Ps)[k]]
    OBVIOUS
  <2>2. v \in [1 .. m -> Nat]
    BY <1>6, <1>9
  <2>3. \A j, k \in 1 .. m : j <= k => v[j] <= v[k]
    BY <1>9, <2>1
  <2> QED
    BY <2>2, <2>3 DEF Rises
<1>12. ASSUME NEW name \in Declared PROVE results[name] = v[at[name]]
  <2>1. PlaceOf(name) \in 1 .. m /\ at[name] \in 1 .. m
    BY <1>7, <1>9
  <2>2. Order(Ps)[at[name]] = PlaceOf(name)
    BY <1>9, <2>1
  <2> QED
    BY <1>4, <1>7, <2>1, <2>2
<1> QED
  BY <1>5, <1>6, <1>7, <1>10, <1>11, <1>12

(* What a family says once it is adjusted is what its procedure says.       *)
LEMMA FamilyDecides ==
  ASSUME One \in Nat, Divisible, FamilyInv
  PROVE  DecidesAsNamed
<1> DEFINE m  == Len(members)
           at == [name \in Declared |-> Place(Ps, PlaceOf(name))]
           v  == [k \in 1 .. m |-> Ps[Order(Ps)[k]]]
<1>1. SUFFICES ASSUME adjusted # Unadjusted PROVE DecidesAsNamed
  BY DEF DecidesAsNamed, HolmCloses, BHStepsUp
<1>2. PValues \subseteq 0 .. One
  BY DEF Divisible
<1>3. /\ Ps \in Seq(PValues) /\ Ps \in Seq(Nat) /\ Len(Ps) = m
      /\ Placed(Declared, at, m) /\ Rises(v, m)
      /\ \A other \in Declared : PlaceOf(other) \in 1 .. m /\ results[other] = v[at[other]]
  BY <1>1, <1>2, MembersPlaced
<1>4. /\ m \in Nat /\ m \in 1 .. Cardinality(Names)
      /\ \A name \in Declared :
           /\ adjusted[name] = Adjust(correction, Ps)[PlaceOf(name)]
           /\ at[name] = Place(Ps, PlaceOf(name)) /\ at[name] \in 1 .. m
  BY <1>1, <1>3 DEF FamilyInv, Placed
<1>5. \A k \in 1 .. m : v[k] = Ps[Order(Ps)[k]]
  OBVIOUS
<1> HIDE DEF m, at, v
<1>6. Cardinality(Declared) = m
  <2>1. /\ IsFiniteSet(1 .. m) /\ Cardinality(1 .. m) = IF 1 > m THEN 0 ELSE m - 1 + 1
    BY <1>4, FS_Interval
  <2>2. at \in Injection(Declared, 1 .. m) /\ at \in Surjection(Declared, 1 .. m)
    BY <1>3 DEF Placed, Injection, Surjection, IsInjective
  <2>3. Cardinality(Declared) = Cardinality(1 .. m)
    BY <2>1, <2>2, FS_Injection
  <2> QED
    BY <1>4, <2>1, <2>3
<1>7. ASSUME correction = "holm", NEW name \in Declared, NEW alpha \in 0 .. One - 1
      PROVE  Decide(adjusted[name], alpha) <=>
               \A S \in SUBSET Declared : name \in S =>
                 \E other \in S : Cardinality(S) * results[other] <= alpha
  <2>1. alpha \in Nat /\ Placed(Declared, at, m) /\ Rises(v, m)
    BY <1>3
  <2>2. adjusted[name] = Holm(Ps)[PlaceOf(name)]
    BY <1>4, <1>7 DEF Adjust
  <2>3. Holm(Ps)[PlaceOf(name)] <= alpha <=>
          \A k \in 1 .. at[name] : (m - k + 1) * Ps[Order(Ps)[k]] <= alpha
    BY <1>3, <1>4, HolmPasses
  <2>4. \A k \in 1 .. at[name] : Ps[Order(Ps)[k]] = v[k]
    BY <1>4, <1>5
  <2>5. (\A k \in 1 .. at[name] : (m - k + 1) * v[k] <= alpha)
        <=> \A S \in SUBSET Declared : name \in S =>
              \E other \in S : Cardinality(S) * v[at[other]] <= alpha
    BY <2>1, StepsDown, ZenonT(60)
  <2>6. \A S \in SUBSET Declared : \A other \in S :
          Cardinality(S) * v[at[other]] = Cardinality(S) * results[other]
    BY <1>3
  <2> QED
    BY <2>2, <2>3, <2>4, <2>5, <2>6 DEF Decide
<1>8. ASSUME correction = "benjamini-hochberg", NEW name \in Declared, NEW alpha \in 0 .. One - 1
      PROVE  Decide(adjusted[name], alpha) <=>
               \E k \in 1 .. m :
                 LET Up == {other \in Declared : results[other] * m <= k * alpha}
                 IN  name \in Up /\ Cardinality(Up) >= k
  <2>1. alpha \in Nat /\ Placed(Declared, at, m) /\ Rises(v, m)
    BY <1>3
  <2>2. adjusted[name] = BenjaminiHochberg(Ps)[PlaceOf(name)]
    BY <1>4, <1>8 DEF Adjust
  <2>3. \A j, k \in 1 .. m : (Ps[j] * m) % k = 0
    <3>1. \A j \in 1 .. m : Ps[j] \in PValues
      BY <1>3
    <3> QED
      BY <1>4, <3>1 DEF Divisible
  <2>4. BenjaminiHochberg(Ps)[PlaceOf(name)] <= alpha <=>
          \E k \in at[name] .. m : Ps[Order(Ps)[k]] * m <= k * alpha
    <3>1. /\ Ps \in Seq(Nat) /\ Len(Ps) = m /\ PlaceOf(name) \in 1 .. Len(Ps)
          /\ Place(Ps, PlaceOf(name)) = at[name]
      BY <1>3, <1>4
    <3>2. \A j, k \in 1 .. Len(Ps) : (Ps[j] * Len(Ps)) % k = 0
      BY <2>3, <3>1
    <3>3. BenjaminiHochberg(Ps)[PlaceOf(name)] <= alpha <=>
            \E k \in Place(Ps, PlaceOf(name)) .. Len(Ps) : Ps[Order(Ps)[k]] * Len(Ps) <= k * alpha
      BY <3>1, <3>2, BHPasses
    <3> QED
      BY <3>1, <3>3
  <2>5. \A k \in at[name] .. m : Ps[Order(Ps)[k]] = v[k]
    BY <1>4, <1>5
  <2>6. (\E k \in at[name] .. m : v[k] * m <= k * alpha)
        <=> \E k \in 1 .. m : /\ name \in Within(Declared, at, m, v, alpha, k)
                              /\ Cardinality(Within(Declared, at, m, v, alpha, k)) >= k
    BY <2>1, StepsUp, ZenonT(60)
  <2>7. \A k : Within(Declared, at, m, v, alpha, k)
               = {other \in Declared : results[other] * m <= k * alpha}
    BY <1>3 DEF Within
  <2> QED
    BY <2>2, <2>4, <2>5, <2>6, <2>7 DEF Decide
<1>9. HolmCloses
  BY <1>7 DEF HolmCloses
<1>10. BHStepsUp
  BY <1>6, <1>8 DEF BHStepsUp
<1> QED
  BY <1>9, <1>10 DEF DecidesAsNamed

(* However many members a family has, and in whatever order their results   *)
(* come in, Holm's correction rejects what the closed test by Bonferroni    *)
(* does, and Benjamini and Hochberg's what the step-up procedure does.      *)
THEOREM DecidesAsNamedHolds ==
  ASSUME Divisible
  PROVE  FamilySpec => []DecidesAsNamed
<1>1. FamilyInv => DecidesAsNamed
  BY OneAssumption, FamilyDecides
<1> QED
  BY <1>1, FamilyStarts, FamilyGoesOn, PTL DEF FamilySpec

-----------------------------------------------------------------------------
(* Powers and binomial coefficients *)

(* What Raise computes, turn by turn.                                       *)
LEMMA RaiseSteps ==
  ASSUME NEW b \in Int
  PROVE  /\ Raise(b, 0) = 1
         /\ \A e \in Nat : Raise(b, e) \in Int /\ Raise(b, e + 1) = Raise(b, e) * b
<1> DEFINE turn == [k \in Nat \ {0} |-> [v \in Int |-> v * b]]
<1>1. PICK F : LeadsTo(Int, 1, turn, F)
  <2>1. turn \in [Nat \ {0} -> [Int -> Int]]
    OBVIOUS
  <2>2. 1 \in Int
    OBVIOUS
  <2> HIDE DEF turn
  <2> QED
    BY <2>1, <2>2, RecursionOnNat, Zenon
<1>2. F \in [Nat -> Int] /\ F[0] = 1 /\ \A k \in Nat \ {0} : F[k] = F[k - 1] * b
  <2>1. F \in [Nat -> Int] /\ F[0] = 1 /\ \A k \in Nat \ {0} : F[k] = turn[k][F[k - 1]]
    BY <1>1 DEF LeadsTo
  <2>2. \A k \in Nat \ {0} : F[k - 1] \in Int
    BY <2>1
  <2> QED
    BY <2>1, <2>2
<1>3. ASSUME NEW e \in Nat PROVE Raise(b, e) = F[e]
  <2> DEFINE power[i \in 0 .. e] == IF i = 0 THEN 1 ELSE power[i - 1] * b
             G == [i \in 0 .. e |-> F[i]]
  <2>1. Raise(b, e) = power[e]
    BY DEF Raise
  <2>2. G = [i \in 0 .. e |-> IF i = 0 THEN 1 ELSE G[i - 1] * b]
    <3>1. \A i \in 0 .. e : G[i] = IF i = 0 THEN 1 ELSE G[i - 1] * b
      BY <1>2
    <3> QED
      BY <3>1
  <2>3. power = [i \in 0 .. e |-> IF i = 0 THEN 1 ELSE power[i - 1] * b]
    <3> HIDE DEF G
    <3> QED
      BY <2>2, Zenon
  <2> HIDE DEF power
  <2> DEFINE S == {i \in 0 .. e : power[i] = F[i]}
  <2>4. 0 \in S /\ \A i \in 0 .. e - 1 : i \in S => i + 1 \in S
    BY <1>2, <2>3
  <2>5. 0 .. e \subseteq S
    <3> HIDE DEF S
    <3> QED
      BY <2>4, InductionTo
  <2> QED
    BY <2>1, <2>5
<1> QED
  BY <1>1, <1>2, <1>3

(* A power is a natural number, and positive unless the base is 0.          *)
LEMMA RaiseNat ==
  ASSUME NEW b \in Nat, NEW e \in Nat
  PROVE  Raise(b, e) \in Nat /\ (b > 0 => Raise(b, e) > 0)
<1> DEFINE S == {i \in Nat : Raise(b, i) \in Nat /\ (b > 0 => Raise(b, i) > 0)}
<1>1. 0 \in S
  BY RaiseSteps
<1>2. \A y, z \in Nat : y * z \in Nat /\ (y > 0 /\ z > 0 => y * z > 0)
  OBVIOUS
<1>3. ASSUME NEW i \in S PROVE i + 1 \in S
  <2>1. Raise(b, i + 1) = Raise(b, i) * b
    BY RaiseSteps
  <2> QED
    BY <1>2, <2>1
<1>4. S = Nat
  <2> HIDE DEF S
  <2>1. S \in SUBSET Nat
    BY DEF S
  <2> QED
    BY <1>1, <1>3, <2>1, Induction
<1> QED
  BY <1>4

(* Pascal's triangle, a row as a function of every number.                  *)
IsPascal(rows) ==
  /\ rows \in [Nat -> [Int -> Nat]]
  /\ rows[0] = [k \in Int |-> IF k = 0 THEN 1 ELSE 0]
  /\ \A n \in Nat \ {0} : rows[n] = [k \in Int |-> rows[n - 1][k] + rows[n - 1][k - 1]]

Pascal == CHOOSE rows : IsPascal(rows)

Comb(n, k) == Pascal[n][k]

(* Binomial coefficients are those of Pascal's triangle.                    *)
LEMMA CombSteps ==
  ASSUME NEW n \in Nat, NEW k \in Int
  PROVE  /\ Comb(n, k) \in Nat
         /\ Comb(0, k) = IF k = 0 THEN 1 ELSE 0
         /\ Comb(n + 1, k) = Comb(n, k) + Comb(n, k - 1)
<1> DEFINE V == [Int -> Nat]
           base == [j \in Int |-> IF j = 0 THEN 1 ELSE 0]
           turn == [m \in Nat \ {0} |-> [row \in V |-> [j \in Int |-> row[j] + row[j - 1]]]]
<1>1. base \in V /\ turn \in [Nat \ {0} -> [V -> V]]
  OBVIOUS
<1>2. PICK F : LeadsTo(V, base, turn, F)
  <2> HIDE DEF V, base, turn
  <2> QED
    BY <1>1, RecursionOnNat, Zenon
<1>3. /\ F \in [Nat -> [Int -> Nat]] /\ F[0] = base
      /\ \A m \in Nat \ {0} : F[m] = [j \in Int |-> F[m - 1][j] + F[m - 1][j - 1]]
  <2>1. F \in [Nat -> V] /\ F[0] = base /\ \A m \in Nat \ {0} : F[m] = turn[m][F[m - 1]]
    BY <1>2 DEF LeadsTo
  <2>2. \A m \in Nat \ {0} : F[m - 1] \in V
    BY <2>1
  <2>3. \A m \in Nat \ {0} : \A row \in V : turn[m][row] = [j \in Int |-> row[j] + row[j - 1]]
    BY Zenon
  <2> HIDE DEF turn
  <2> QED
    BY <2>1, <2>2, <2>3
<1>4. IsPascal(Pascal)
  <2>1. IsPascal(F)
    BY <1>3 DEF IsPascal
  <2> QED
    BY <2>1, Zenon DEF Pascal
<1>5. n + 1 \in Nat \ {0} /\ n + 1 - 1 = n
  OBVIOUS
<1>6. Pascal[n + 1] = [j \in Int |-> Pascal[n][j] + Pascal[n][j - 1]]
  BY <1>4, <1>5 DEF IsPascal
<1> QED
  BY <1>4, <1>6 DEF IsPascal, Comb

(* No number outside 0 .. n has a coefficient, and the ends have 1.         *)
LEMMA CombEnds ==
  ASSUME NEW n \in Nat
  PROVE  /\ \A k \in Int : (k < 0 \/ k > n) => Comb(n, k) = 0
         /\ Comb(n, 0) = 1 /\ Comb(n, n) = 1
<1> DEFINE S == {m \in Nat : /\ \A k \in Int : (k < 0 \/ k > m) => Comb(m, k) = 0
                             /\ Comb(m, 0) = 1 /\ Comb(m, m) = 1}
<1>1. 0 \in S
  BY CombSteps
<1>2. ASSUME NEW m \in S PROVE m + 1 \in S
  <2>1. \A k \in Int : Comb(m + 1, k) = Comb(m, k) + Comb(m, k - 1)
    BY CombSteps
  <2> QED
    BY <2>1
<1>3. S = Nat
  <2>1. S \in SUBSET Nat
    OBVIOUS
  <2> HIDE DEF S
  <2> QED
    BY <1>1, <1>2, <2>1, Induction
<1> QED
  BY <1>3

(* A row reads the same both ways.                                          *)
LEMMA CombMirror ==
  ASSUME NEW n \in Nat, NEW k \in Int
  PROVE  Comb(n, k) = Comb(n, n - k)
<1> DEFINE S == {m \in Nat : \A j \in Int : Comb(m, j) = Comb(m, m - j)}
<1>1. 0 \in S
  <2>1. \A j \in Int : Comb(0, j) = IF j = 0 THEN 1 ELSE 0
    BY CombSteps
  <2>2. \A j \in Int : Comb(0, j) = Comb(0, 0 - j)
    BY <2>1
  <2> QED
    BY <2>2
<1>2. ASSUME NEW m \in S, NEW j \in Int PROVE Comb(m + 1, j) = Comb(m + 1, m + 1 - j)
  <2>1. Comb(m + 1, j) = Comb(m, j) + Comb(m, j - 1)
    BY CombSteps
  <2>2. Comb(m + 1, m + 1 - j) = Comb(m, m + 1 - j) + Comb(m, m + 1 - j - 1)
    BY CombSteps
  <2>3. Comb(m, j) = Comb(m, m - j) /\ Comb(m, j - 1) = Comb(m, m - (j - 1))
    OBVIOUS
  <2>4. m + 1 - j - 1 = m - j /\ m - (j - 1) = m + 1 - j
    OBVIOUS
  <2>5. \A i \in Int : Comb(m, i) \in Nat
    BY CombSteps
  <2> QED
    BY <2>1, <2>2, <2>3, <2>4, <2>5
<1>3. S = Nat
  <2>1. S \in SUBSET Nat /\ \A m \in S : m + 1 \in S
    BY <1>2
  <2> HIDE DEF S
  <2> QED
    BY <1>1, <2>1, Induction
<1> QED
  BY <1>3

(* Each coefficient from the one before it.                                 *)
LEMMA CombNext ==
  ASSUME NEW n \in Nat, NEW k \in Int
  PROVE  k * Comb(n, k) = (n - k + 1) * Comb(n, k - 1)
<1> DEFINE S == {m \in Nat : \A j \in Int : j * Comb(m, j) = (m - j + 1) * Comb(m, j - 1)}
<1>1. 0 \in S
  <2>1. \A j \in Int : Comb(0, j) = IF j = 0 THEN 1 ELSE 0
    BY CombSteps
  <2>2. ASSUME NEW j \in Int PROVE j * Comb(0, j) = (0 - j + 1) * Comb(0, j - 1)
    <3>1. CASE j = 0
      BY <2>1, <3>1
    <3>2. CASE j = 1
      BY <2>1, <3>2
    <3>3. CASE j \notin {0, 1}
      BY <2>1, <3>3
    <3> QED
      BY <3>1, <3>2, <3>3
  <2> QED
    BY <2>2
<1>2. ASSUME NEW m \in S, NEW j \in Int
      PROVE  j * Comb(m + 1, j) = (m + 1 - j + 1) * Comb(m + 1, j - 1)
  <2> DEFINE a == Comb(m, j)
             b == Comb(m, j - 1)
             c == Comb(m, j - 2)
  <2>1. a \in Nat /\ b \in Nat /\ c \in Nat
    BY CombSteps
  <2>2. Comb(m + 1, j) = a + b
    BY CombSteps
  <2>3. Comb(m + 1, j - 1) = b + c
    <3>1. j - 1 - 1 = j - 2
      OBVIOUS
    <3> QED
      BY <3>1, CombSteps
  <2>4. j * a = (m - j + 1) * b
    OBVIOUS
  <2>5. (j - 1) * b = (m - j + 2) * c
    <3>1. (j - 1) * Comb(m, j - 1) = (m - (j - 1) + 1) * Comb(m, j - 1 - 1)
      OBVIOUS
    <3>2. j - 1 - 1 = j - 2 /\ m - (j - 1) + 1 = m - j + 2
      OBVIOUS
    <3> QED
      BY <3>1, <3>2
  <2> HIDE DEF a, b, c
  <2>6. j * (a + b) = (m - j + 1) * b + j * b
    BY <2>1, <2>4
  <2>7. (m - j + 2) * (b + c) = (m - j + 2) * b + (j - 1) * b
    BY <2>1, <2>5
  <2>8. (m - j + 1) * b + j * b = (m - j + 2) * b + (j - 1) * b
    BY <2>1
  <2>9. m + 1 - j + 1 = m - j + 2
    OBVIOUS
  <2> QED
    BY <2>2, <2>3, <2>6, <2>7, <2>8, <2>9
<1>3. S = Nat
  <2>1. S \in SUBSET Nat /\ \A m \in S : m + 1 \in S
    BY <1>2
  <2> HIDE DEF S
  <2> QED
    BY <1>1, <2>1, Induction
<1> QED
  BY <1>3
(* What a product leaves when it is divided by one of its factors.          *)
LEMMA DividesOut ==
  ASSUME NEW a \in Nat, NEW d \in Nat \ {0}
  PROVE  (a * d) \div d = a
<1> DEFINE x == a * d
<1>1. x \in Nat /\ a * d <= x /\ x < (a + 1) * d
  OBVIOUS
<1>2. x \div d \in Nat /\ d * (x \div d) <= x /\ x < d * (x \div d) + d
  <2> HIDE DEF x
  <2> QED
    BY <1>1
<1> DEFINE q == x \div d
<1>3. q < a + 1
  <2>1. \A y \in Nat : y >= a + 1 => d * y >= d * (a + 1)
    OBVIOUS
  <2>2. d * (a + 1) = (a + 1) * d
    OBVIOUS
  <2> HIDE DEF x, q
  <2> QED
    BY <1>1, <1>2, <2>1, <2>2 DEF q
<1>4. a < q + 1
  <2>1. \A y \in Nat : a >= y + 1 => a * d >= d * y + d
    OBVIOUS
  <2> HIDE DEF x
  <2> QED
    BY <1>1, <1>2, <2>1
<1> QED
  <2>1. q \in Nat
    BY <1>2
  <2> HIDE DEF q
  <2>2. q = a
    BY <1>3, <1>4, <2>1
  <2> QED
    BY <2>2 DEF q

(* The factorials of the library are those of the usual recursion.          *)
LEMMA FactorialSteps ==
  /\ factorial \in [Nat -> Nat \ {0}]
  /\ factorial[0] = 1 /\ \A n \in Nat \ {0} : factorial[n] = n * factorial[n - 1]
<1> DEFINE V == Nat \ {0}
           turn == [k \in Nat \ {0} |-> [v \in V |-> k * v]]
<1>1. 1 \in V /\ turn \in [Nat \ {0} -> [V -> V]]
  OBVIOUS
<1>2. PICK F : LeadsTo(V, 1, turn, F)
  <2> HIDE DEF V, turn
  <2> QED
    BY <1>1, RecursionOnNat, Zenon
<1>3. F \in [Nat -> V] /\ F[0] = 1 /\ \A k \in Nat \ {0} : F[k] = k * F[k - 1]
  <2>1. F \in [Nat -> V] /\ F[0] = 1 /\ \A k \in Nat \ {0} : F[k] = turn[k][F[k - 1]]
    BY <1>2 DEF LeadsTo
  <2>2. \A k \in Nat \ {0} : F[k - 1] \in V
    BY <2>1
  <2> QED
    BY <2>1, <2>2
<1>4. F = [n \in Nat |-> IF n = 0 THEN 1 ELSE n * F[n - 1]]
  <2>1. \A n \in Nat : F[n] = IF n = 0 THEN 1 ELSE n * F[n - 1]
    BY <1>3
  <2> QED
    BY <1>3, <2>1
<1>5. factorial = [n \in Nat |-> IF n = 0 THEN 1 ELSE n * factorial[n - 1]]
  <2> HIDE DEF V
  <2> QED
    BY <1>4, Zenon DEF factorial
<1>6. factorial[0] = 1 /\ \A n \in Nat \ {0} : factorial[n] = n * factorial[n - 1]
  BY <1>5
<1> DEFINE S == {n \in Nat : factorial[n] \in V}
<1>7. 0 \in S
  BY <1>6
<1>8. ASSUME NEW n \in S PROVE n + 1 \in S
  <2>1. factorial[n + 1] = (n + 1) * factorial[n]
    BY <1>6
  <2>2. \A x, y \in Nat \ {0} : x * y \in Nat \ {0}
    OBVIOUS
  <2> QED
    BY <2>1, <2>2
<1>9. S = Nat
  <2>1. S \in SUBSET Nat
    OBVIOUS
  <2> HIDE DEF S
  <2> QED
    BY <1>7, <1>8, <2>1, Induction
<1>10. \A n \in Nat : factorial[n] \in Nat \ {0}
  BY <1>9
<1>11. factorial \in [Nat -> Nat \ {0}]
  <2>1. \E rule : factorial = [n \in Nat |-> rule[n]]
    BY <1>5
  <2> QED
    BY <1>10, <2>1
<1> QED
  BY <1>6, <1>11

(* math.comb is the triangle's coefficient.                                 *)
LEMMA ChooseIsComb ==
  ASSUME NEW n \in Nat, NEW k \in 0 .. n
  PROVE  choose(n, k) = Comb(n, k)
<1> DEFINE S == {j \in 0 .. n : Comb(n, j) * (factorial[j] * factorial[n - j]) = factorial[n]}
<1>1. 0 \in S
  <2>1. Comb(n, 0) = 1 /\ factorial[0] = 1 /\ factorial[n] \in Nat
    BY CombEnds, FactorialSteps
  <2> QED
    BY <2>1
<1>2. ASSUME NEW j \in 0 .. n - 1, j \in S PROVE j + 1 \in S
  <2> DEFINE a == Comb(n, j)
             b == Comb(n, j + 1)
             f == factorial[j]
             g == factorial[n - (j + 1)]
  <2>1. j \in Nat /\ j + 1 \in Nat \ {0} /\ n - j \in Nat \ {0} /\ n - (j + 1) \in Nat /\ j + 1 \in 0 .. n
    OBVIOUS
  <2>2. factorial[j + 1] = (j + 1) * f
    BY <2>1, FactorialSteps
  <2>3. factorial[n - j] = (n - j) * g
    <3>1. n - j - 1 = n - (j + 1)
      OBVIOUS
    <3> QED
      BY <2>1, <3>1, FactorialSteps
  <2>4. (j + 1) * b = (n - j) * a
    <3>1. j + 1 \in Int /\ j + 1 - 1 = j /\ n - (j + 1) + 1 = n - j
      OBVIOUS
    <3> QED
      BY <3>1, CombNext
  <2>5. a \in Nat /\ b \in Nat /\ f \in Nat /\ g \in Nat
    <3>1. a \in Nat /\ b \in Nat
      <4>1. j \in Int /\ j + 1 \in Int
        OBVIOUS
      <4> QED
        BY <4>1, CombSteps
    <3>2. f \in Nat /\ g \in Nat
      BY <2>1, FactorialSteps
    <3> QED
      BY <3>1, <3>2
  <2>6. a * (f * ((n - j) * g)) = factorial[n]
    BY <1>2, <2>3
  <2> HIDE DEF a, b, f, g
  <2>7. b * (((j + 1) * f) * g) = ((j + 1) * b) * (f * g)
    BY <2>1, <2>5
  <2>8. ((n - j) * a) * (f * g) = a * (f * ((n - j) * g))
    BY <2>1, <2>5
  <2>9. b * (((j + 1) * f) * g) = factorial[n]
    BY <2>4, <2>6, <2>7, <2>8
  <2> QED
    BY <2>1, <2>2, <2>9 DEF b, g
<1>3. 0 .. n \subseteq S
  <2> HIDE DEF S
  <2> QED
    BY <1>1, <1>2, InductionTo
<1> DEFINE d == factorial[k] * factorial[n - k]
<1>4. d \in Nat \ {0}
  <2>1. factorial[k] \in Nat \ {0} /\ factorial[n - k] \in Nat \ {0}
    BY FactorialSteps
  <2>2. \A x, y \in Nat \ {0} : x * y \in Nat \ {0}
    OBVIOUS
  <2> QED
    BY <2>1, <2>2
<1>5. factorial[n] = Comb(n, k) * d /\ Comb(n, k) \in Nat
  BY <1>3, CombSteps
<1>6. choose(n, k) = (Comb(n, k) * d) \div d
  BY <1>5 DEF choose
<1> HIDE DEF d
<1> QED
  BY <1>4, <1>5, <1>6, DividesOut

-----------------------------------------------------------------------------
(* Counting outcomes *)

(* How many of the first n come out in A, and the ways to have k that do.   *)
Hits(o, n, A)       == Cardinality({i \in 1 .. n : o[i] \in A})
HitWays(X, A, n, k) == {o \in [1 .. n -> X] : Hits(o, n, A) = k}

(* How many ways there are, if a of the values count and b do not.          *)
Weight(a, b, n, k) == IF k \in 0 .. n THEN Comb(n, k) * Raise(a, k) * Raise(b, n - k) ELSE 0

(* Counts of trials.                                                        *)
LEMMA HitsType ==
  ASSUME NEW n \in Nat, NEW o, NEW A
  PROVE  IsFiniteSet({i \in 1 .. n : o[i] \in A}) /\ Hits(o, n, A) \in 0 .. n
<1>1. IsFiniteSet(1 .. n) /\ Cardinality(1 .. n) = n
  BY FS_Interval
<1>2. {i \in 1 .. n : o[i] \in A} \in SUBSET (1 .. n)
  OBVIOUS
<1>3. IsFiniteSet({i \in 1 .. n : o[i] \in A}) /\ Hits(o, n, A) <= n
  BY <1>1, <1>2, FS_Subset DEF Hits
<1>4. Hits(o, n, A) \in Nat
  BY <1>3, FS_CardinalityType DEF Hits
<1> QED
  BY <1>3, <1>4

(* One more comes out.                                                      *)
LEMMA HitsStep ==
  ASSUME NEW n \in Nat, NEW o, NEW u, NEW A, \A i \in 1 .. n : o[i] = u[i]
  PROVE  Hits(o, n + 1, A) = Hits(u, n, A) + (IF o[n + 1] \in A THEN 1 ELSE 0)
<1> DEFINE S == {i \in 1 .. n : u[i] \in A}
           T == {i \in 1 .. n + 1 : o[i] \in A}
<1>1. T = IF o[n + 1] \in A THEN S \cup {n + 1} ELSE S
  OBVIOUS
<1>2. IsFiniteSet(S) /\ n + 1 \notin S /\ Cardinality(S) \in Nat
  <2>1. IsFiniteSet({i \in 1 .. n : u[i] \in A}) /\ Hits(u, n, A) \in 0 .. n
    BY HitsType
  <2> QED
    BY <2>1 DEF Hits
<1>3. Cardinality(S \cup {n + 1}) = Cardinality(S) + 1
  <2> HIDE DEF S
  <2> QED
    BY <1>2, FS_AddElement
<1> QED
  BY <1>1, <1>2, <1>3 DEF Hits

(* Weights follow from row to row as the outcomes they count do.            *)
LEMMA WeightStep ==
  ASSUME NEW a \in Nat, NEW b \in Nat, NEW n \in Nat, NEW k \in Int
  PROVE  /\ Weight(a, b, n, k) \in Nat
         /\ Weight(a, b, n + 1, k) = Weight(a, b, n, k - 1) * a + Weight(a, b, n, k) * b
<1> DEFINE C(j) == Comb(n, j)
<1>0. \A x, y \in Nat : x * y \in Nat
  OBVIOUS
<1>1. \A j \in Int : C(j) \in Nat /\ Comb(n + 1, k) = C(k) + C(k - 1)
  BY CombSteps
<1>2. /\ \A e \in Nat : Raise(a, e) \in Nat /\ Raise(b, e) \in Nat
      /\ \A e \in Nat : Raise(a, e + 1) = Raise(a, e) * a /\ Raise(b, e + 1) = Raise(b, e) * b
      /\ Raise(a, 0) = 1 /\ Raise(b, 0) = 1
  <2>1. ASSUME NEW e \in Nat PROVE Raise(a, e) \in Nat /\ Raise(b, e) \in Nat
    BY RaiseNat
  <2>2. a \in Int /\ b \in Int
    OBVIOUS
  <2>3. Raise(a, 0) = 1 /\ \A e \in Nat : Raise(a, e + 1) = Raise(a, e) * a
    BY <2>2, RaiseSteps
  <2>4. Raise(b, 0) = 1 /\ \A e \in Nat : Raise(b, e + 1) = Raise(b, e) * b
    BY <2>2, RaiseSteps
  <2> QED
    BY <2>1, <2>3, <2>4
<1>3. C(0) = 1 /\ C(n) = 1 /\ C(-1) = 0 /\ C(n + 1) = 0
  BY CombEnds
<1>4. ASSUME NEW m \in Nat, NEW j \in Int PROVE Weight(a, b, m, j) \in Nat
  <2>1. CASE j \in 0 .. m
    <3>0. j \in Nat /\ m - j \in Nat
      BY <2>1
    <3>1. Comb(m, j) \in Nat /\ Raise(a, j) \in Nat /\ Raise(b, m - j) \in Nat
      BY <1>2, <3>0, CombSteps
    <3> QED
      BY <1>0, <2>1, <3>1 DEF Weight
  <2> QED
    BY <2>1 DEF Weight
<1> HIDE DEF C
<1>5. CASE k = 0
  <2>1. Weight(a, b, n + 1, k) = Comb(n + 1, 0) * Raise(a, 0) * Raise(b, n + 1)
    BY <1>5 DEF Weight
  <2>2. Weight(a, b, n, k) = 1 * 1 * Raise(b, n) /\ Weight(a, b, n, k - 1) = 0
    BY <1>2, <1>3, <1>5 DEF Weight, C
  <2>3. Comb(n + 1, 0) = 1
    BY CombEnds
  <2> QED
    BY <1>2, <1>4, <2>1, <2>2, <2>3
<1>6. CASE k = n + 1
  <2>1. Weight(a, b, n + 1, k) = Comb(n + 1, n + 1) * Raise(a, n + 1) * Raise(b, 0)
    BY <1>6 DEF Weight
  <2>2. Weight(a, b, n, k) = 0 /\ Weight(a, b, n, k - 1) = 1 * Raise(a, n) * 1
    BY <1>2, <1>3, <1>6 DEF Weight, C
  <2>3. Comb(n + 1, n + 1) = 1
    BY CombEnds
  <2> QED
    BY <1>2, <1>4, <2>1, <2>2, <2>3
<1>7. CASE k \in 1 .. n
  <2> DEFINE x == C(k - 1)
             y == C(k)
             s == Raise(a, k - 1)
             t == Raise(b, n - k)
  <2>1. k - 1 \in Nat /\ n - k \in Nat /\ k - 1 + 1 = k /\ n - k + 1 = n + 1 - k /\ n - (k - 1) = n + 1 - k
    BY <1>7
  <2>2. x \in Nat /\ y \in Nat /\ s \in Nat /\ t \in Nat
    BY <1>1, <1>2, <2>1
  <2>3. Raise(a, k) = s * a /\ Raise(b, n + 1 - k) = t * b
    BY <1>2, <2>1
  <2>4. Weight(a, b, n + 1, k) = (y + x) * (s * a) * (t * b)
    BY <1>1, <1>7, <2>3 DEF Weight
  <2>5. Weight(a, b, n, k - 1) = x * s * (t * b)
    BY <1>7, <2>1, <2>3 DEF Weight, C
  <2>6. Weight(a, b, n, k) = y * (s * a) * t
    BY <1>7, <2>3 DEF Weight, C
  <2> HIDE DEF x, y, s, t
  <2>7. (y + x) * (s * a) * (t * b) = (x * s * (t * b)) * a + (y * (s * a) * t) * b
    BY <2>2
  <2> QED
    BY <1>4, <2>4, <2>5, <2>6, <2>7
<1>8. CASE k \notin 0 .. n + 1
  BY <1>8 DEF Weight
<1> QED
  BY <1>4, <1>5, <1>6, <1>7, <1>8

(* Whatever the values are, only how many of them count makes a difference. *)
LEMMA WaysCounted ==
  ASSUME NEW X, IsFiniteSet(X), NEW A \in SUBSET X, NEW n \in Nat
  PROVE  \A k \in Int : /\ IsFiniteSet(HitWays(X, A, n, k))
                        /\ Cardinality(HitWays(X, A, n, k))
                             = Weight(Cardinality(A), Cardinality(X \ A), n, k)
<1> DEFINE a == Cardinality(A)
           b == Cardinality(X \ A)
           E(m, k) == HitWays(X, A, m, k)
           S == {m \in Nat : \A k \in Int : IsFiniteSet(E(m, k)) /\ Cardinality(E(m, k)) = Weight(a, b, m, k)}
<1>1. /\ IsFiniteSet(A) /\ IsFiniteSet(X \ A) /\ a \in Nat /\ b \in Nat
  BY FS_Subset, FS_Difference, FS_CardinalityType
<1>2. 0 \in S
  <2> DEFINE e == [i \in 1 .. 0 |-> 0]
  <2>1. [1 .. 0 -> X] = {e}
    <3>1. ASSUME NEW o \in [1 .. 0 -> X] PROVE o = e
      OBVIOUS
    <3>2. e \in [1 .. 0 -> X]
      OBVIOUS
    <3> HIDE DEF e
    <3> QED
      BY <3>1, <3>2, Zenon
  <2>2. Hits(e, 0, A) = 0
    <3> HIDE DEF e
    <3>1. 0 \in Nat /\ Hits(e, 0, A) \in 0 .. 0
      BY HitsType
    <3> QED
      BY <3>1
  <2>3. E(0, 0) = {e} /\ \A k \in Int \ {0} : E(0, k) = {}
    <3> HIDE DEF e
    <3>1. ASSUME NEW k \in Int PROVE E(0, k) = {o \in {e} : Hits(o, 0, A) = k}
      BY <2>1 DEF HitWays
    <3> HIDE DEF E
    <3>2. ASSUME NEW k \in Int, k # 0 PROVE E(0, k) = {}
      BY <3>1, <3>2, <2>2
    <3>3. E(0, 0) = {e}
      BY <3>1, <2>2
    <3> QED
      BY <3>2, <3>3
  <2>4. Weight(a, b, 0, 0) = 1 /\ \A k \in Int \ {0} : Weight(a, b, 0, k) = 0
    <3>1. Comb(0, 0) = 1
      BY CombSteps
    <3> HIDE DEF a, b
    <3>2. a \in Int /\ b \in Int
      BY <1>1
    <3>3. Raise(a, 0) = 1 /\ Raise(b, 0) = 1
      BY <3>2, RaiseSteps
    <3> QED
      BY <3>1, <3>3 DEF Weight
  <2> HIDE DEF E, a, b, e
  <2> QED
    <3>1. IsFiniteSet({e}) /\ Cardinality({e}) = 1 /\ IsFiniteSet({}) /\ Cardinality({}) = 0
      BY FS_Singleton, FS_EmptySet, Zenon
    <3>2. \A k \in Int : IsFiniteSet(E(0, k)) /\ Cardinality(E(0, k)) = Weight(a, b, 0, k)
      BY <2>3, <2>4, <3>1
    <3> QED
      BY <3>2
<1>3. ASSUME NEW m \in Nat, NEW k \in Int,
             \A j \in Int : IsFiniteSet(E(m, j)) /\ Cardinality(E(m, j)) = Weight(a, b, m, j)
      PROVE  IsFiniteSet(E(m + 1, k)) /\ Cardinality(E(m + 1, k)) = Weight(a, b, m + 1, k)
  <2> DEFINE Cut(o) == [i \in 1 .. m |-> o[i]]
             Put(y) == [i \in 1 .. m + 1 |-> IF i <= m THEN y[1][i] ELSE y[2]]
  <2>01. ASSUME NEW o \in [1 .. m + 1 -> X]
         PROVE  Cut(o) \in [1 .. m -> X] /\ o[m + 1] \in X /\ Put(<<Cut(o), o[m + 1]>>) = o
    <3>1. Cut(o) \in [1 .. m -> X] /\ o[m + 1] \in X
      OBVIOUS
    <3>2. \A i \in 1 .. m + 1 : (IF i <= m THEN Cut(o)[i] ELSE o[m + 1]) = o[i]
      OBVIOUS
    <3> HIDE DEF Cut
    <3>3. Put(<<Cut(o), o[m + 1]>>) = [i \in 1 .. m + 1 |-> IF i <= m THEN Cut(o)[i] ELSE o[m + 1]]
      OBVIOUS
    <3>4. Put(<<Cut(o), o[m + 1]>>) = [i \in 1 .. m + 1 |-> o[i]]
      BY <3>2, <3>3
    <3> QED
      BY <3>1, <3>4
  <2>02. ASSUME NEW y \in [1 .. m -> X] \X X
         PROVE  /\ Put(y) \in [1 .. m + 1 -> X] /\ Put(y)[m + 1] = y[2]
                /\ Cut(Put(y)) = y[1] /\ y = <<y[1], y[2]>>
    <3>1. y = <<y[1], y[2]>> /\ y[1] \in [1 .. m -> X] /\ y[2] \in X
      OBVIOUS
    <3>2. PICK z \in [1 .. m -> X], v \in X : z = y[1] /\ v = y[2]
      BY <3>1
    <3>3. Put(y) = [i \in 1 .. m + 1 |-> IF i <= m THEN z[i] ELSE v]
      BY <3>2
    <3> HIDE DEF Put
    <3>4. Put(y) \in [1 .. m + 1 -> X] /\ Put(y)[m + 1] = v
      BY <3>3
    <3>5. \A i \in 1 .. m : Put(y)[i] = z[i]
      BY <3>3
    <3>6. Cut(Put(y)) = z
      BY <3>5
    <3> QED
      BY <3>1, <3>2, <3>4, <3>6
  <2> DEFINE Ends(B) == {o \in E(m + 1, k) : o[m + 1] \in B}
  <2>1. ASSUME NEW B \in SUBSET X, NEW j \in Int, (B = A /\ j = k - 1) \/ (B = X \ A /\ j = k)
        PROVE  IsFiniteSet(Ends(B)) /\ Cardinality(Ends(B)) = Weight(a, b, m, j) * Cardinality(B)
    <3> DEFINE U == {o \in E(m + 1, k) : o[m + 1] \in B}
               P == E(m, j) \X B
    <3>1. IsFiniteSet(B)
      BY <1>1, <2>1
    <3>2. IsFiniteSet(P) /\ Cardinality(P) = Weight(a, b, m, j) * Cardinality(B)
      BY <1>3, <3>1, FS_Product
    <3>3. ASSUME NEW o \in [1 .. m + 1 -> X], o[m + 1] \in B
          PROVE  o \in E(m + 1, k) <=> Cut(o) \in E(m, j)
      <4>1. \A i \in 1 .. m : o[i] = Cut(o)[i]
        OBVIOUS
      <4>2. Hits(o, m + 1, A) = Hits(Cut(o), m, A) + (IF o[m + 1] \in A THEN 1 ELSE 0)
        <5> HIDE DEF Cut
        <5> QED
          BY <4>1, HitsStep
      <4>3. o[m + 1] \in A <=> j = k - 1
        BY <2>1, <3>3
      <4>4. Hits(Cut(o), m, A) \in Int
        <5> HIDE DEF Cut
        <5>1. Hits(Cut(o), m, A) \in 0 .. m
          BY HitsType
        <5> QED
          BY <5>1
      <4>5. Hits(o, m + 1, A) = k <=> Hits(Cut(o), m, A) = j
        BY <2>1, <4>2, <4>3, <4>4
      <4> HIDE DEF Cut
      <4> QED
        BY <2>01, <2>02, <3>3, <4>5 DEF HitWays
    <3> DEFINE f == [o \in U |-> <<Cut(o), o[m + 1]>>]
               g == [y \in P |-> Put(y)]
    <3>4. U \subseteq [1 .. m + 1 -> X] /\ P \subseteq [1 .. m -> X] \X X
      BY DEF HitWays
    <3> HIDE DEF Cut, Put, E
    <3>5. \A o \in U : <<Cut(o), o[m + 1]>> \in P
      BY <3>3, <3>4
    <3>6. \A y \in P : Put(y) \in U
      BY <2>01, <2>02, <3>3, <3>4
    <3>7. g \in [P -> U] /\ f \in [U -> P]
      BY <3>5, <3>6
    <3>8. \A y \in P : f[g[y]] = y
      BY <2>01, <2>02, <3>4, <3>6
    <3>9. \A o \in U : g[f[o]] = o
      BY <2>01, <2>02, <3>4, <3>5
    <3> HIDE DEF U, P, f, g
    <3>10. IsFiniteSet(U) /\ Cardinality(U) = Cardinality(P)
      BY <3>2, <3>7, <3>8, <3>9, SameSize
    <3> QED
      BY <3>2, <3>10 DEF U
  <2> DEFINE U == Ends(A)
             W == Ends(X \ A)
  <2>2. IsFiniteSet(U) /\ Cardinality(U) = Weight(a, b, m, k - 1) * a
    <3>1. k - 1 \in Int
      OBVIOUS
    <3> HIDE DEF Ends, a, b
    <3>2. IsFiniteSet(Ends(A)) /\ Cardinality(Ends(A)) = Weight(a, b, m, k - 1) * Cardinality(A)
      BY <2>1, <3>1
    <3> QED
      BY <3>2 DEF a
  <2>3. IsFiniteSet(W) /\ Cardinality(W) = Weight(a, b, m, k) * b
    <3>1. X \ A \in SUBSET X
      OBVIOUS
    <3> HIDE DEF Ends, a, b
    <3>2. IsFiniteSet(Ends(X \ A)) /\ Cardinality(Ends(X \ A)) = Weight(a, b, m, k) * Cardinality(X \ A)
      BY <2>1, <3>1
    <3> QED
      BY <3>2 DEF b
  <2>4. E(m + 1, k) = U \cup W /\ U \cap W = {}
    <3>1. \A o \in E(m + 1, k) : o[m + 1] \in X
      BY DEF HitWays
    <3> HIDE DEF E
    <3> QED
      BY <3>1
  <2> HIDE DEF E, U, W, a, b
  <2>5. IsFiniteSet(E(m + 1, k)) /\ Cardinality(E(m + 1, k)) = Cardinality(U) + Cardinality(W)
    BY <2>2, <2>3, <2>4, ApartAdd
  <2>6. Weight(a, b, m + 1, k) = Weight(a, b, m, k - 1) * a + Weight(a, b, m, k) * b
    BY <1>1, WeightStep
  <2> QED
    BY <2>2, <2>3, <2>5, <2>6
<1>4. S = Nat
  <2>1. S \in SUBSET Nat /\ \A m \in S : m + 1 \in S
    <3> HIDE DEF E, a, b
    <3> QED
      BY <1>3
  <2> HIDE DEF S
  <2> QED
    BY <1>2, <2>1, Induction
<1> QED
  BY <1>4

-----------------------------------------------------------------------------
(* Tails *)

(* The two parts of a probability.                                          *)
LEMMA FractionParts ==
  ASSUME NEW p \in Fractions
  PROVE  p.num \in Nat /\ p.den \in Nat \ {0} /\ p.den - p.num \in Nat
  BY DEF Fractions

(* The outcomes with one count, and all of them.                            *)
LEMMA WaysOne ==
  ASSUME NEW n \in Nat, NEW p \in Fractions, NEW k \in Int
  PROVE  /\ {o \in Outcomes(n, p) : Successes(o, p) = k}
              = HitWays(1 .. p.den, 1 .. p.num, n, k)
         /\ IsFiniteSet(HitWays(1 .. p.den, 1 .. p.num, n, k))
         /\ Ways({k}, n, p) = Weight(p.num, p.den - p.num, n, k)
<1> DEFINE X == 1 .. p.den
           A == 1 .. p.num
<1>1. p.num \in Nat /\ p.den \in Nat /\ p.num <= p.den
  BY DEF Fractions
<1>2. ASSUME NEW o \in [1 .. n -> X] PROVE Successes(o, p) = Hits(o, n, A)
  <2>1. {i \in DOMAIN o : o[i] <= p.num} = {i \in 1 .. n : o[i] \in A}
    BY <1>1
  <2> QED
    BY <2>1 DEF Successes, Hits
<1>3. {o \in Outcomes(n, p) : Successes(o, p) = k} = HitWays(X, A, n, k)
  BY <1>2 DEF Outcomes, HitWays
<1>4. {o \in Outcomes(n, p) : Successes(o, p) \in {k}} = HitWays(X, A, n, k)
  BY <1>3
<1>5. IsFiniteSet(X) /\ A \in SUBSET X /\ Cardinality(A) = p.num /\ Cardinality(X \ A) = p.den - p.num
  <2>1. IsFiniteSet(X)
    BY <1>1, FS_Interval
  <2>2. Cardinality(A) = p.num
    BY <1>1, FS_Interval
  <2>3. X \ A = p.num + 1 .. p.den
    BY <1>1
  <2>4. Cardinality(p.num + 1 .. p.den) = p.den - p.num
    BY <1>1, FS_Interval
  <2>5. A \in SUBSET X
    BY <1>1
  <2> HIDE DEF X, A
  <2> QED
    BY <2>1, <2>2, <2>3, <2>4, <2>5
<1>6. IsFiniteSet(HitWays(X, A, n, k)) /\ Cardinality(HitWays(X, A, n, k)) = Weight(p.num, p.den - p.num, n, k)
  <2> HIDE DEF X, A
  <2> QED
    BY <1>5, WaysCounted
<1> QED
  BY <1>3, <1>4, <1>6 DEF Ways

(* Counts of successes.                                                     *)
LEMMA SuccessesType ==
  ASSUME NEW n \in Nat, NEW p \in Fractions, NEW o \in Outcomes(n, p)
  PROVE  Successes(o, p) \in 0 .. n
<1>1. IsFiniteSet(1 .. n) /\ Cardinality(1 .. n) = n
  BY FS_Interval
<1> DEFINE S == {i \in DOMAIN o : o[i] <= p.num}
<1>2. S \in SUBSET (1 .. n)
  BY DEF Outcomes
<1>3. IsFiniteSet(S) /\ Cardinality(S) <= n
  <2> HIDE DEF S
  <2> QED
    BY <1>1, <1>2, FS_Subset
<1>4. Cardinality(S) \in Nat
  BY <1>3, FS_CardinalityType
<1> QED
  BY <1>3, <1>4 DEF Successes

(* There are so many outcomes, by the turns in which the counts are added.  *)
LEMMA WaysFinite ==
  ASSUME NEW n \in Nat, NEW p \in Fractions, NEW counts
  PROVE  /\ IsFiniteSet({o \in Outcomes(n, p) : Successes(o, p) \in counts})
         /\ Ways(counts, n, p) \in Nat
<1> DEFINE E(k) == {o \in Outcomes(n, p) : Successes(o, p) \in {k}}
           U(j) == {o \in Outcomes(n, p) : Successes(o, p) \in 0 .. j - 1}
           S == {j \in Nat : IsFiniteSet(U(j))}
<1>1. U(0) = {}
  BY SuccessesType
<1>2. 0 \in S
  BY <1>1, FS_EmptySet
<1>3. ASSUME NEW j \in S PROVE j + 1 \in S
  <2>1. U(j + 1) = U(j) \cup E(j)
    BY SuccessesType
  <2>2. IsFiniteSet(E(j))
    <3>1. E(j) = {o \in Outcomes(n, p) : Successes(o, p) = j} /\ j \in Int
      OBVIOUS
    <3>2. /\ {o \in Outcomes(n, p) : Successes(o, p) = j} = HitWays(1 .. p.den, 1 .. p.num, n, j)
          /\ IsFiniteSet(HitWays(1 .. p.den, 1 .. p.num, n, j))
      BY <3>1, WaysOne
    <3> HIDE DEF E
    <3> QED
      BY <3>1, <3>2
  <2> HIDE DEF U, E
  <2>3. IsFiniteSet(U(j + 1))
    BY <2>1, <2>2, FS_Union
  <2> QED
    BY <2>3
<1>4. S = Nat
  <2>1. S \in SUBSET Nat
    OBVIOUS
  <2> HIDE DEF S
  <2> QED
    BY <1>2, <1>3, <2>1, Induction
<1>5. IsFiniteSet(Outcomes(n, p))
  <2>1. Outcomes(n, p) = U(n + 1)
    BY SuccessesType
  <2>2. n + 1 \in S
    <3> HIDE DEF S
    <3> QED
      BY <1>4
  <2> HIDE DEF U
  <2> QED
    BY <2>1, <2>2
<1>6. IsFiniteSet({o \in Outcomes(n, p) : Successes(o, p) \in counts})
  BY <1>5, FS_Subset
<1> QED
  BY <1>6, FS_CardinalityType DEF Ways

(* The outcomes with a count in either of two sets, counted once.           *)
LEMMA WaysAdd ==
  ASSUME NEW n \in Nat, NEW p \in Fractions, NEW these, NEW those, these \cap those = {}
  PROVE  Ways(these \cup those, n, p) = Ways(these, n, p) + Ways(those, n, p)
<1> DEFINE S == {o \in Outcomes(n, p) : Successes(o, p) \in these}
           T == {o \in Outcomes(n, p) : Successes(o, p) \in those}
<1>1. S \cap T = {} /\ {o \in Outcomes(n, p) : Successes(o, p) \in these \cup those} = S \cup T
  OBVIOUS
<1>2. IsFiniteSet(S) /\ IsFiniteSet(T)
  BY WaysFinite
<1>3. Cardinality(S \cup T) = Cardinality(S) + Cardinality(T)
  <2> HIDE DEF S, T
  <2> QED
    BY <1>1, <1>2, ApartAdd
<1> QED
  BY <1>1, <1>3 DEF Ways

(* More counts, no fewer outcomes.                                          *)
LEMMA WaysWithin ==
  ASSUME NEW n \in Nat, NEW p \in Fractions, NEW these, NEW those,
         \A k \in 0 .. n : k \in these => k \in those
  PROVE  Ways(these, n, p) <= Ways(those, n, p)
<1> DEFINE S == {o \in Outcomes(n, p) : Successes(o, p) \in these}
           T == {o \in Outcomes(n, p) : Successes(o, p) \in those}
<1>1. S \in SUBSET T
  BY SuccessesType
<1>2. IsFiniteSet(T)
  BY WaysFinite
<1>3. Cardinality(S) <= Cardinality(T)
  <2> HIDE DEF S, T
  <2> QED
    BY <1>1, <1>2, FS_Subset
<1> QED
  BY <1>3 DEF Ways

(* A run of counts, one longer.                                             *)
LEMMA WaysNext ==
  ASSUME NEW n \in Nat, NEW p \in Fractions, NEW i \in Int, NEW j \in Int, i <= j
  PROVE  /\ Ways(i .. i - 1, n, p) = 0
         /\ Ways(i .. j, n, p) = Ways(i .. j - 1, n, p) + Weight(p.num, p.den - p.num, n, j)
<1>1. Ways(i .. i - 1, n, p) = 0
  <2>1. {o \in Outcomes(n, p) : Successes(o, p) \in i .. i - 1} = {}
    OBVIOUS
  <2> QED
    BY <2>1, FS_EmptySet DEF Ways
<1>2. i .. j = (i .. j - 1) \cup {j} /\ (i .. j - 1) \cap {j} = {}
  OBVIOUS
<1>3. Ways(i .. j, n, p) = Ways(i .. j - 1, n, p) + Ways({j}, n, p)
  <2> DEFINE B == i .. j - 1
             T == i .. j
  <2>1. T = B \cup {j} /\ B \cap {j} = {}
    BY <1>2
  <2> HIDE DEF B, T
  <2>2. Ways(B \cup {j}, n, p) = Ways(B, n, p) + Ways({j}, n, p)
    BY <2>1, WaysAdd
  <2> QED
    BY <2>1, <2>2 DEF B, T
<1>4. Ways({j}, n, p) = Weight(p.num, p.den - p.num, n, j)
  BY WaysOne
<1> QED
  BY <1>1, <1>3, <1>4

(* The code's next coefficient from the one before, exact (binomial.py).    *)
LEMMA NextCoefficient ==
  ASSUME NEW n \in Nat, NEW j \in 1 .. n
  PROVE  (Comb(n, j - 1) * (n - j + 1)) \div j = Comb(n, j)
<1> DEFINE a == Comb(n, j)
           b == Comb(n, j - 1)
<1>1. a \in Nat /\ b \in Nat
  <2>1. j \in Int /\ j - 1 \in Int
    OBVIOUS
  <2> QED
    BY <2>1, CombSteps
<1>2. j * a = (n - j + 1) * b
  BY CombNext
<1> HIDE DEF a, b
<1>3. b * (n - j + 1) = a * j
  BY <1>1, <1>2
<1>4. (a * j) \div j = a
  BY <1>1, DividesOut
<1>5. (b * (n - j + 1)) \div j = a
  BY <1>3, <1>4
<1> QED
  BY <1>5 DEF a, b

(* 1/2 is the fraction it says.                                             *)
LEMMA HalfFraction == Half \in Fractions /\ Half.num = 1 /\ Half.den = 2 /\ Half.den - Half.num = 1
  BY DEF Half, Fractions

(* Powers of 1.                                                             *)
LEMMA OnesRaised == ASSUME NEW e \in Nat PROVE Raise(1, e) = 1
<1> DEFINE S == {i \in Nat : Raise(1, i) = 1}
<1>1. 0 \in S /\ \A i \in S : i + 1 \in S
  BY RaiseSteps
<1>2. S = Nat
  <2>1. S \in SUBSET Nat
    OBVIOUS
  <2> HIDE DEF S
  <2> QED
    BY <1>1, <2>1, Induction
<1> QED
  BY <1>2

(* At 1/2 only the coefficient is left of a weight.                         *)
LEMMA HalfWeight ==
  ASSUME NEW n \in Nat, NEW k \in 0 .. n
  PROVE  Weight(1, 1, n, k) = Comb(n, k)
<1>1. k \in Nat /\ n - k \in Nat /\ k \in Int
  OBVIOUS
<1>2. Raise(1, k) = 1 /\ Raise(1, n - k) = 1 /\ Comb(n, k) \in Nat
  <2>1. Raise(1, k) = 1 /\ Raise(1, n - k) = 1
    BY <1>1, OnesRaised
  <2> QED
    BY <1>1, <2>1, CombSteps
<1> QED
  BY <1>2 DEF Weight

(* The running sums are the outcomes with fewer successes.                  *)
LEMMA PrefixIsWays ==
  ASSUME NEW n \in Nat, NEW k \in 0 .. n + 1
  PROVE  HalfPrefix(n)[k] = Ways(0 .. k - 1, n, Half)
<1> DEFINE row[j \in 0 .. n] == IF j = 0 THEN 1 ELSE (row[j - 1] * (n - j + 1)) \div j
           sums[j \in 0 .. n + 1] == IF j = 0 THEN 0 ELSE sums[j - 1] + row[j - 1]
           G == [j \in 0 .. n |-> Comb(n, j)]
           H == [j \in 0 .. n + 1 |-> Ways(0 .. j - 1, n, Half)]
<1>1. HalfPrefix(n) = sums
  BY DEF HalfPrefix
<1>2. G = [j \in 0 .. n |-> IF j = 0 THEN 1 ELSE (G[j - 1] * (n - j + 1)) \div j]
  <2>1. \A j \in 0 .. n : G[j] = IF j = 0 THEN 1 ELSE (G[j - 1] * (n - j + 1)) \div j
    <3>1. G[0] = 1
      BY CombEnds
    <3>2. ASSUME NEW j \in 1 .. n PROVE G[j] = (G[j - 1] * (n - j + 1)) \div j
      <4>1. G[j] = Comb(n, j) /\ G[j - 1] = Comb(n, j - 1)
        OBVIOUS
      <4> HIDE DEF G
      <4> QED
        BY <4>1, NextCoefficient
    <3>3. \A j \in 0 .. n : j = 0 \/ (j # 0 /\ j \in 1 .. n)
      OBVIOUS
    <3> HIDE DEF G
    <3> QED
      BY <3>1, <3>2, <3>3
  <2> QED
    BY <2>1
<1>3. row = [j \in 0 .. n |-> IF j = 0 THEN 1 ELSE (row[j - 1] * (n - j + 1)) \div j]
  <2> HIDE DEF G
  <2> QED
    BY <1>2, Zenon
<1> HIDE DEF row
<1> DEFINE S == {j \in 0 .. n : row[j] = Comb(n, j)}
<1>4. 0 \in S /\ \A j \in 0 .. n - 1 : j \in S => j + 1 \in S
  <2>1. 0 \in S
    BY <1>3, CombEnds
  <2>2. ASSUME NEW j \in 0 .. n - 1, row[j] = Comb(n, j) PROVE row[j + 1] = Comb(n, j + 1)
    <3>1. j + 1 \in 1 .. n /\ j + 1 - 1 = j /\ j + 1 # 0
      OBVIOUS
    <3>2. row[j + 1] = (row[j + 1 - 1] * (n - (j + 1) + 1)) \div (j + 1)
      BY <1>3, <3>1
    <3>3. (Comb(n, j + 1 - 1) * (n - (j + 1) + 1)) \div (j + 1) = Comb(n, j + 1)
      BY <3>1, NextCoefficient
    <3> QED
      BY <2>2, <3>1, <3>2, <3>3
  <2> QED
    BY <2>1, <2>2
<1>5. \A j \in 0 .. n : row[j] = Comb(n, j)
  <2>1. 0 .. n \subseteq S
    <3> HIDE DEF S
    <3> QED
      BY <1>4, InductionTo
  <2> QED
    BY <2>1
<1>6. ASSUME NEW j \in 0 .. n
      PROVE  Ways(0 .. j + 1 - 1, n, Half) = Ways(0 .. j - 1, n, Half) + Comb(n, j)
  <2>1. Ways(0 .. j, n, Half) = Ways(0 .. j - 1, n, Half) + Weight(Half.num, Half.den - Half.num, n, j)
    <3>1. 0 \in Int /\ j \in Int /\ 0 <= j
      OBVIOUS
    <3> QED
      BY <3>1, HalfFraction, WaysNext
  <2>2. Weight(Half.num, Half.den - Half.num, n, j) = Comb(n, j)
    BY HalfFraction, HalfWeight
  <2>3. j + 1 - 1 = j
    OBVIOUS
  <2> QED
    BY <2>1, <2>2, <2>3
<1>7. Ways(0 .. 0 - 1, n, Half) = 0
  BY HalfFraction, WaysNext
<1>8. H = [j \in 0 .. n + 1 |-> IF j = 0 THEN 0 ELSE H[j - 1] + row[j - 1]]
  <2>1. \A j \in 0 .. n + 1 : H[j] = IF j = 0 THEN 0 ELSE H[j - 1] + row[j - 1]
    <3>1. H[0] = 0
      BY <1>7
    <3>2. ASSUME NEW j \in 1 .. n + 1 PROVE H[j] = H[j - 1] + row[j - 1]
      <4>1. j - 1 \in 0 .. n /\ j - 1 + 1 = j
        OBVIOUS
      <4>2. H[j] = Ways(0 .. j - 1, n, Half) /\ H[j - 1] = Ways(0 .. j - 1 - 1, n, Half)
        OBVIOUS
      <4>3. row[j - 1] = Comb(n, j - 1)
        BY <1>5, <4>1
      <4> HIDE DEF H
      <4> QED
        BY <1>6, <4>1, <4>2, <4>3
    <3>3. \A j \in 0 .. n + 1 : j = 0 \/ (j # 0 /\ j \in 1 .. n + 1)
      OBVIOUS
    <3> HIDE DEF H
    <3> QED
      BY <3>1, <3>2, <3>3
  <2> QED
    BY <2>1
<1>9. sums = [j \in 0 .. n + 1 |-> IF j = 0 THEN 0 ELSE sums[j - 1] + row[j - 1]]
  <2> HIDE DEF H
  <2> QED
    BY <1>8, Zenon
<1> HIDE DEF sums
<1> DEFINE T == {j \in 0 .. n + 1 : sums[j] = Ways(0 .. j - 1, n, Half)}
<1>10. 0 \in T /\ \A j \in 0 .. n + 1 - 1 : j \in T => j + 1 \in T
  <2>1. 0 \in T
    BY <1>7, <1>9
  <2>2. ASSUME NEW j \in 0 .. n, sums[j] = Ways(0 .. j - 1, n, Half)
        PROVE  sums[j + 1] = Ways(0 .. j + 1 - 1, n, Half)
    <3>1. sums[j + 1] = sums[j] + row[j]
      <4>1. j + 1 \in 0 .. n + 1 /\ j + 1 # 0 /\ j + 1 - 1 = j
        OBVIOUS
      <4> QED
        BY <1>9, <4>1
    <3> QED
      BY <1>5, <1>6, <2>2, <3>1
  <2>3. \A j \in 0 .. n + 1 - 1 : j \in 0 .. n /\ j + 1 \in 0 .. n + 1
    OBVIOUS
  <2> QED
    BY <2>1, <2>2, <2>3
<1>11. 0 .. n + 1 \subseteq T
  <2> HIDE DEF T
  <2>1. n + 1 \in Nat
    OBVIOUS
  <2> QED
    BY <1>10, <2>1, InductionTo
<1> QED
  BY <1>1, <1>11

(* The tails at 1/2, from the running sums of a row.                        *)
LEMMA HalfTailIsWays ==
  ASSUME NEW n \in Nat, NEW k \in 0 .. n
  PROVE  /\ HalfTail(k, n, "upper") = Ways(k .. n, n, Half)
         /\ HalfTail(k, n, "lower") = Ways(0 .. k, n, Half)
<1>1. HalfPrefix(n)[n + 1] = Ways(0 .. n, n, Half)
  <2>1. n + 1 \in 0 .. n + 1 /\ n + 1 - 1 = n
    OBVIOUS
  <2> QED
    BY <2>1, PrefixIsWays
<1>2. HalfPrefix(n)[k] = Ways(0 .. k - 1, n, Half)
  <2>1. k \in 0 .. n + 1
    OBVIOUS
  <2> QED
    BY <2>1, PrefixIsWays
<1>3. HalfPrefix(n)[k + 1] = Ways(0 .. k, n, Half)
  <2>1. k + 1 \in 0 .. n + 1 /\ k + 1 - 1 = k
    OBVIOUS
  <2> QED
    BY <2>1, PrefixIsWays
<1>4. Ways(0 .. n, n, Half) = Ways(0 .. k - 1, n, Half) + Ways(k .. n, n, Half)
  <2> DEFINE B == 0 .. k - 1
             C == k .. n
  <2>1. 0 .. n = B \cup C /\ B \cap C = {}
    OBVIOUS
  <2> HIDE DEF B, C
  <2>2. Ways(B \cup C, n, Half) = Ways(B, n, Half) + Ways(C, n, Half)
    BY <2>1, WaysAdd, HalfFraction
  <2> QED
    BY <2>1, <2>2 DEF B, C
<1>5. Ways(k .. n, n, Half) \in Nat /\ Ways(0 .. k - 1, n, Half) \in Nat
  BY HalfFraction, WaysFinite
<1> QED
  BY <1>1, <1>2, <1>3, <1>4, <1>5 DEF HalfTail

(* Horner's rule sums the ways, count by count.                             *)
LEMMA HornerTailIsWays ==
  ASSUME NEW n \in Nat, NEW p \in Fractions, NEW k \in 0 .. n, NEW tail \in {"upper", "lower"}
  PROVE  HornerTail(k, n, p, tail) =
           Ways((IF tail = "upper" THEN k ELSE 0) .. (IF tail = "upper" THEN n ELSE k), n, p)
<1> DEFINE q == p.den - p.num
           first == IF tail = "upper" THEN k ELSE 0
           last  == IF tail = "upper" THEN n ELSE k
           term[j \in first .. last] ==
             IF j = first THEN choose(n, first) * Raise(p.num, first)
             ELSE ((term[j - 1] * (n - j + 1)) \div j) * p.num
           total[j \in first - 1 .. last] ==
             IF j < first THEN 0 ELSE total[j - 1] * q + term[j]
           G == [j \in first .. last |-> Comb(n, j) * Raise(p.num, j)]
<1>1. HornerTail(k, n, p, tail) = total[last] * Raise(q, n - last)
  BY DEF HornerTail
<1>2. first \in Nat /\ last \in Nat /\ first <= last /\ last <= n
  OBVIOUS
<1>3. q \in Nat /\ p.num \in Nat
  BY FractionParts
<1> HIDE DEF first, last
<1>4. ASSUME NEW j \in first .. last
      PROVE  j \in Nat /\ j \in 0 .. n /\ Comb(n, j) \in Nat /\ Raise(p.num, j) \in Nat
  <2>1. j \in Nat /\ j \in Int /\ j \in 0 .. n
    BY <1>2
  <2>2. Raise(p.num, j) \in Nat
    BY <1>3, <2>1, RaiseNat
  <2> QED
    BY <2>1, <2>2, CombSteps
<1>5. ASSUME NEW j \in first .. last, j # first
      PROVE  (((Comb(n, j - 1) * Raise(p.num, j - 1)) * (n - j + 1)) \div j) * p.num
                = Comb(n, j) * Raise(p.num, j)
  <2> DEFINE a == Comb(n, j)
             b == Comb(n, j - 1)
             r == Raise(p.num, j - 1)
  <2>1. j \in Nat \ {0} /\ j - 1 \in first .. last /\ j - 1 \in Nat /\ j - 1 + 1 = j /\ j \in Int
    BY <1>2, <1>5
  <2>2. a \in Nat /\ b \in Nat /\ r \in Nat
    BY <1>4, <2>1
  <2>3. j * a = (n - j + 1) * b
    BY <2>1, CombNext
  <2>4. Raise(p.num, j) = r * p.num
    <3>1. p.num \in Int
      BY <1>3
    <3>2. Raise(p.num, j - 1 + 1) = Raise(p.num, j - 1) * p.num
      BY <2>1, <3>1, RaiseSteps
    <3> QED
      BY <2>1, <3>2
  <2> HIDE DEF a, b, r
  <2>5. (b * r) * (n - j + 1) = (a * r) * j
    <3>1. (b * r) * (n - j + 1) = ((n - j + 1) * b) * r
      BY <2>1, <2>2
    <3>2. (j * a) * r = (a * r) * j
      BY <2>1, <2>2
    <3> QED
      BY <2>3, <3>1, <3>2
  <2>6. ((a * r) * j) \div j = a * r
    <3>1. a * r \in Nat
      BY <2>2
    <3> HIDE DEF a, r
    <3> QED
      BY <2>1, <3>1, DividesOut
  <2>7. (a * r) * p.num = a * (r * p.num)
    BY <1>3, <2>2
  <2>8. (((b * r) * (n - j + 1)) \div j) * p.num = a * (r * p.num)
    BY <2>5, <2>6, <2>7
  <2> QED
    BY <2>4, <2>8 DEF a, b, r
<1>6. choose(n, first) = Comb(n, first)
  <2>1. first \in 0 .. n
    BY <1>2
  <2> QED
    BY <2>1, ChooseIsComb
<1>7. G = [j \in first .. last |-> IF j = first THEN choose(n, first) * Raise(p.num, first)
                                   ELSE ((G[j - 1] * (n - j + 1)) \div j) * p.num]
  <2>1. ASSUME NEW j \in first .. last
        PROVE  G[j] = IF j = first THEN choose(n, first) * Raise(p.num, first)
                      ELSE ((G[j - 1] * (n - j + 1)) \div j) * p.num
    <3>1. CASE j = first
      BY <1>6, <3>1
    <3>2. CASE j # first
      <4>1. j - 1 \in first .. last
        BY <1>2, <3>2
      <4>2. G[j] = Comb(n, j) * Raise(p.num, j) /\ G[j - 1] = Comb(n, j - 1) * Raise(p.num, j - 1)
        BY <4>1
      <4> HIDE DEF G
      <4> QED
        BY <1>5, <3>2, <4>2
    <3> QED
      BY <3>1, <3>2
  <2> QED
    BY <2>1
<1>8. term = [j \in first .. last |-> IF j = first THEN choose(n, first) * Raise(p.num, first)
                                      ELSE ((term[j - 1] * (n - j + 1)) \div j) * p.num]
  <2> HIDE DEF G
  <2> QED
    BY <1>7, Zenon
<1> HIDE DEF term, q
<1>9. ASSUME NEW j \in first .. last PROVE term[j] = Comb(n, j) * Raise(p.num, j)
  <2> DEFINE S == {i \in 0 .. last - first : term[first + i] = Comb(n, first + i) * Raise(p.num, first + i)}
  <2>1. 0 \in S
    BY <1>2, <1>6, <1>8
  <2>2. ASSUME NEW i \in 0 .. last - first - 1, i \in S PROVE i + 1 \in S
    <3> DEFINE h == first + (i + 1)
    <3>1. h \in first .. last /\ h # first /\ h - 1 = first + i /\ i + 1 \in 0 .. last - first
      BY <1>2
    <3>2. term[h - 1] = Comb(n, h - 1) * Raise(p.num, h - 1)
      BY <2>2, <3>1
    <3> HIDE DEF h
    <3>3. term[h] = ((term[h - 1] * (n - h + 1)) \div h) * p.num
      BY <1>8, <3>1
    <3>4. term[h] = Comb(n, h) * Raise(p.num, h)
      BY <1>5, <3>1, <3>2, <3>3
    <3> QED
      BY <3>1, <3>4 DEF h
  <2>3. 0 .. last - first \subseteq S
    <3>1. last - first \in Nat
      BY <1>2
    <3> HIDE DEF S
    <3> QED
      BY <2>1, <2>2, <3>1, InductionTo
  <2>4. j - first \in 0 .. last - first /\ first + (j - first) = j
    BY <1>2
  <2> QED
    BY <2>3, <2>4
<1>10. ASSUME NEW j \in first .. last PROVE term[j] \in Nat
  <2>1. \A x, y \in Nat : x * y \in Nat
    OBVIOUS
  <2> QED
    BY <1>4, <1>9, <2>1
<1>11. total = [j \in first - 1 .. last |-> IF j < first THEN 0 ELSE total[j - 1] * q + term[j]]
  <2> DEFINE turn == [i \in Nat \ {0} |-> [v \in Nat |->
                        v * q + (IF first + i - 1 \in first .. last THEN term[first + i - 1] ELSE 0)]]
  <2>1. turn \in [Nat \ {0} -> [Nat -> Nat]]
    <3>1. \A x, y \in Nat : x * y \in Nat
      OBVIOUS
    <3>2. \A v \in Nat : v * q \in Nat
      BY <1>3, <3>1
    <3> QED
      BY <1>10, <3>2
  <2>2. PICK F : LeadsTo(Nat, 0, turn, F)
    <3>1. 0 \in Nat
      OBVIOUS
    <3> HIDE DEF turn
    <3> QED
      BY <2>1, <3>1, RecursionOnNat, Zenon
  <2>3. F \in [Nat -> Nat] /\ F[0] = 0 /\ \A i \in Nat \ {0} : F[i] = turn[i][F[i - 1]]
    BY <2>2 DEF LeadsTo
  <2> DEFINE H == [j \in first - 1 .. last |-> F[j - first + 1]]
  <2>4. H = [j \in first - 1 .. last |-> IF j < first THEN 0 ELSE H[j - 1] * q + term[j]]
    <3>1. ASSUME NEW j \in first - 1 .. last
          PROVE  H[j] = IF j < first THEN 0 ELSE H[j - 1] * q + term[j]
      <4>1. CASE j < first
        <5>1. j - first + 1 = 0
          BY <1>2, <4>1
        <5> QED
          BY <2>3, <4>1, <5>1
      <4>2. CASE ~(j < first)
        <5> DEFINE i == j - first + 1
        <5>1. i \in Nat \ {0} /\ i - 1 = (j - 1) - first + 1 /\ first + i - 1 = j /\ j \in first .. last
          BY <1>2, <4>2
        <5>2. j - 1 \in first - 1 .. last
          BY <1>2, <4>2
        <5>3. H[j] = F[i] /\ H[j - 1] = F[i - 1]
          BY <5>1, <5>2
        <5>4. F[i] = turn[i][F[i - 1]] /\ F[i - 1] \in Nat
          <6>1. i - 1 \in Nat
            BY <5>1
          <6> HIDE DEF i, turn
          <6> QED
            BY <2>3, <5>1, <6>1
        <5> HIDE DEF i, H
        <5>5. turn[i][F[i - 1]] = F[i - 1] * q + term[j]
          BY <5>1, <5>4
        <5> QED
          BY <4>2, <5>3, <5>4, <5>5
      <4> QED
        BY <4>1, <4>2
    <3> QED
      BY <3>1
  <2> HIDE DEF H
  <2> QED
    BY <2>4, Zenon
<1> HIDE DEF total
<1> DEFINE W(j) == Weight(p.num, q, n, j)
           U(j) == Ways(first .. j, n, p)
<1>12. ASSUME NEW j \in first .. last
       PROVE  /\ U(j) = U(j - 1) + W(j) /\ W(j) \in Nat /\ U(j - 1) \in Nat
              /\ W(j) = term[j] * Raise(q, n - j)
  <2>1. j \in Int /\ first \in Int /\ first <= j
    BY <1>2
  <2>2. U(j) = U(j - 1) + W(j)
    BY <2>1, WaysNext DEF q
  <2>3. W(j) \in Nat
    BY <1>3, <2>1, WeightStep
  <2>4. U(j - 1) \in Nat
    BY WaysFinite
  <2>5. W(j) = term[j] * Raise(q, n - j)
    BY <1>4, <1>9 DEF Weight
  <2> QED
    BY <2>2, <2>3, <2>4, <2>5
<1> DEFINE T == {i \in 0 .. last - first + 1 :
                   /\ total[first - 1 + i] \in Nat
                   /\ total[first - 1 + i] * Raise(q, n - (first - 1 + i)) = U(first - 1 + i)}
<1>13. 0 \in T
  <2>1. first - 1 \in first - 1 .. last /\ first - 1 < first
    BY <1>2
  <2>2. total[first - 1] = 0
    BY <1>11, <2>1
  <2>3. U(first - 1) = 0
    <3>1. first \in Int
      BY <1>2
    <3> QED
      BY <3>1, WaysNext
  <2>4. Raise(q, n - (first - 1)) \in Nat
    <3>1. n - (first - 1) \in Nat
      BY <1>2
    <3> QED
      BY <1>3, <3>1, RaiseNat
  <2>5. first - 1 + 0 = first - 1 /\ 0 \in 0 .. last - first + 1
    BY <1>2
  <2> HIDE DEF U
  <2> QED
    BY <2>2, <2>3, <2>4, <2>5
<1>14. ASSUME NEW i \in 0 .. last - first + 1 - 1, i \in T PROVE i + 1 \in T
  <2> DEFINE j == first + i
             r == Raise(q, n - j)
             t == total[j - 1]
  <2>1. /\ j \in first .. last /\ first - 1 + (i + 1) = j /\ first - 1 + i = j - 1
        /\ i + 1 \in 0 .. last - first + 1 /\ n - j \in Nat /\ n - (j - 1) = n - j + 1
        /\ j \in first - 1 .. last /\ ~(j < first) /\ i \in 0 .. last - first + 1
    BY <1>2
  <2>2. t \in Nat /\ t * Raise(q, n - (j - 1)) = U(j - 1)
    BY <1>14, <2>1
  <2>3. r \in Nat /\ Raise(q, n - (j - 1)) = r * q
    <3>1. q \in Int
      BY <1>3
    <3>2. Raise(q, n - j + 1) = Raise(q, n - j) * q
      BY <2>1, <3>1, RaiseSteps
    <3>3. r \in Nat
      BY <1>3, <2>1, RaiseNat
    <3> QED
      BY <2>1, <3>2, <3>3
  <2>4. total[j] = t * q + term[j]
    BY <1>11, <2>1
  <2>5. term[j] \in Nat
    BY <1>10, <2>1
  <2>6. U(j) = U(j - 1) + term[j] * r
    BY <1>12, <2>1
  <2> HIDE DEF j, r, t, U
  <2>7. (t * q + term[j]) * r = t * (r * q) + term[j] * r
    BY <1>3, <2>2, <2>3, <2>5
  <2>8. total[j] * r = U(j)
    BY <2>2, <2>3, <2>4, <2>6, <2>7
  <2>9. total[j] \in Nat
    BY <1>3, <2>2, <2>4, <2>5
  <2> QED
    BY <2>1, <2>8, <2>9 DEF r
<1>15. total[last] * Raise(q, n - last) = U(last)
  <2>1. last - first + 1 \in Nat /\ last - first + 1 \in 0 .. last - first + 1 /\ first - 1 + (last - first + 1) = last
    BY <1>2
  <2>2. 0 .. last - first + 1 \subseteq T
    <3> DEFINE N == last - first + 1
    <3>0. \A i \in 0 .. last - first + 1 - 1 : i \in T => i + 1 \in T
      <4> HIDE DEF T
      <4> QED
        BY <1>14
    <3> HIDE DEF T
    <3>1. \A i \in 0 .. N - 1 : i \in T => i + 1 \in T
      BY <1>2, <3>0
    <3>2. N \in Nat
      BY <2>1
    <3> HIDE DEF N
    <3>3. 0 .. N \subseteq T
      BY <1>13, <3>1, <3>2, InductionTo
    <3> QED
      BY <3>3 DEF N
  <2>3. last - first + 1 \in T
    BY <2>1, <2>2
  <2> HIDE DEF U
  <2> QED
    BY <2>1, <2>3
<1> QED
  BY <1>1, <1>15 DEF first, last

(* binom_tail counts the outcomes of its tail, whichever way it takes.      *)
LEMMA TailsAreExact ==
  ASSUME NEW n \in Nat, NEW p \in Fractions, NEW k \in 0 .. n
  PROVE  /\ BinomTail(k, n, p, "upper") = Ways(k .. n, n, p)
         /\ BinomTail(k, n, p, "lower") = Ways(0 .. k, n, p)
<1>1. k <= n /\ ~(k > n)
  OBVIOUS
<1>2. CASE p = Half
  <2>1. /\ BinomTail(k, n, p, "upper") = HalfTail(k, n, "upper")
        /\ BinomTail(k, n, p, "lower") = HalfTail(k, n, "lower")
    BY <1>1, <1>2 DEF BinomTail
  <2> QED
    BY <1>2, <2>1, HalfTailIsWays
<1>3. CASE p # Half
  <2>1. /\ BinomTail(k, n, p, "upper") = HornerTail(k, n, p, "upper")
        /\ BinomTail(k, n, p, "lower") = HornerTail(k, n, p, "lower")
    BY <1>1, <1>3 DEF BinomTail
  <2>2. HornerTail(k, n, p, "upper") =
           Ways((IF "upper" = "upper" THEN k ELSE 0) .. (IF "upper" = "upper" THEN n ELSE k), n, p)
    BY HornerTailIsWays
  <2>3. HornerTail(k, n, p, "lower") =
           Ways((IF "lower" = "upper" THEN k ELSE 0) .. (IF "lower" = "upper" THEN n ELSE k), n, p)
    BY HornerTailIsWays
  <2> QED
    BY <2>1, <2>2, <2>3
<1> QED
  BY <1>2, <1>3

(* A p-value is the outcomes at least as extreme, counted one by one:       *)
(* _p_exact for every count, null and alternative (binomial.py:79-85).      *)
THEOREM PValuesAreExact ==
  ASSUME NEW n \in Nat, NEW p \in Fractions, NEW k \in 0 .. n, NEW side \in Alternatives
  PROVE  PExact(k, n, p, side) = ByCounting(k, n, p, side)
BY TailsAreExact DEF PExact, ByCounting, Alternatives

(* At 1/2 the outcomes read the same both ways.                             *)
LEMMA WaysMirror ==
  ASSUME NEW n \in Nat, NEW k \in 0 .. n
  PROVE  Ways(0 .. k, n, Half) = Ways(n - k .. n, n, Half)
<1> DEFINE S == {j \in 0 .. n : Ways(0 .. j, n, Half) = Ways(n - j .. n, n, Half)}
<1>0. ASSUME NEW j \in 0 .. n PROVE Ways({j}, n, Half) = Ways({n - j}, n, Half)
  <2>1. j \in Int /\ n - j \in Int /\ n - j \in 0 .. n
    OBVIOUS
  <2>2. Ways({j}, n, Half) = Weight(1, 1, n, j) /\ Ways({n - j}, n, Half) = Weight(1, 1, n, n - j)
    BY <2>1, HalfFraction, WaysOne
  <2> QED
    BY <2>1, <2>2, HalfWeight, CombMirror
<1>1. 0 \in S
  <2>1. 0 .. 0 = {0} /\ n - 0 .. n = {n - 0} /\ 0 \in 0 .. n
    OBVIOUS
  <2> QED
    BY <1>0, <2>1
<1>2. ASSUME NEW j \in 0 .. n - 1, j \in S PROVE j + 1 \in S
  <2> DEFINE A == 0 .. j
             B == n - j .. n
  <2>1. /\ j + 1 \in 0 .. n
        /\ 0 .. j + 1 = A \cup {j + 1} /\ A \cap {j + 1} = {}
        /\ n - (j + 1) .. n = B \cup {n - (j + 1)} /\ B \cap {n - (j + 1)} = {}
    OBVIOUS
  <2>2. Ways(A, n, Half) = Ways(B, n, Half)
    BY <1>2
  <2> HIDE DEF A, B
  <2>3. Ways(A \cup {j + 1}, n, Half) = Ways(A, n, Half) + Ways({j + 1}, n, Half)
    BY <2>1, HalfFraction, WaysAdd
  <2>4. Ways(B \cup {n - (j + 1)}, n, Half) = Ways(B, n, Half) + Ways({n - (j + 1)}, n, Half)
    BY <2>1, HalfFraction, WaysAdd
  <2> QED
    BY <1>0, <2>1, <2>2, <2>3, <2>4
<1>3. 0 .. n \subseteq S
  <2> HIDE DEF S
  <2> QED
    BY <1>1, <1>2, InductionTo
<1> QED
  BY <1>3

(* Where the p-value falls, or rises, as the count grows.                   *)
LEMMA PValueMonotone ==
  ASSUME NEW n \in Nat, NEW p \in Fractions, NEW i \in 0 .. n, NEW j \in 0 .. n, i <= j
  PROVE  /\ PExact(j, n, p, "greater") <= PExact(i, n, p, "greater")
         /\ PExact(i, n, p, "less") <= PExact(j, n, p, "less")
         /\ p = Half /\ j <= n \div 2 => PExact(i, n, p, "two-sided") <= PExact(j, n, p, "two-sided")
         /\ p = Half => PExact(i, n, p, "two-sided") = PExact(n - i, n, p, "two-sided")
<1> DEFINE U(k) == Ways(k .. n, n, p)
           L(k) == Ways(0 .. k, n, p)
<1>1. ASSUME NEW k \in 0 .. n
      PROVE  /\ PExact(k, n, p, "greater") = U(k) /\ PExact(k, n, p, "less") = L(k)
             /\ PExact(k, n, p, "two-sided")
                  = LesserOf(Raise(p.den, n), 2 * LesserOf(U(k), L(k)))
             /\ U(k) \in Nat /\ L(k) \in Nat
  BY TailsAreExact, WaysFinite DEF PExact
<1>2. U(j) <= U(i) /\ L(i) <= L(j)
  BY WaysWithin
<1>3. p = Half => \A k \in 0 .. n : n - k \in 0 .. n /\ L(k) = U(n - k) /\ L(n - k) = U(k)
  <2>1. ASSUME NEW k \in 0 .. n, p = Half PROVE n - k \in 0 .. n /\ L(k) = U(n - k) /\ L(n - k) = U(k)
    <3>1. n - k \in 0 .. n /\ n - (n - k) = k
      OBVIOUS
    <3> QED
      BY <2>1, <3>1, WaysMirror
  <2> QED
    BY <2>1
<1>4. p = Half => PExact(i, n, p, "two-sided") = PExact(n - i, n, p, "two-sided")
  <2> HIDE DEF U, L
  <2> QED
    BY <1>1, <1>3 DEF LesserOf
<1>5. p = Half /\ j <= n \div 2 => PExact(i, n, p, "two-sided") <= PExact(j, n, p, "two-sided")
  <2> SUFFICES ASSUME p = Half, j <= n \div 2
               PROVE  PExact(i, n, p, "two-sided") <= PExact(j, n, p, "two-sided")
    OBVIOUS
  <2>1. j <= n - j /\ i <= n - i
    OBVIOUS
  <2>2. L(j) <= U(j) /\ L(i) <= U(i)
    <3>1. L(j) <= L(n - j) /\ L(i) <= L(n - i)
      BY <2>1, WaysWithin
    <3> QED
      BY <1>3, <3>1
  <2>3. Raise(p.den, n) \in Nat
    BY FractionParts, RaiseNat
  <2> HIDE DEF U, L
  <2> QED
    BY <1>1, <1>2, <2>2, <2>3 DEF LesserOf
<1> QED
  BY <1>1, <1>2, <1>4, <1>5

-----------------------------------------------------------------------------
(* The rejection region *)

ExactRegion(d) ==
  {k \in 0 .. d.n : d.n > 0 /\ AtMost(ByCounting(k, d.n, d.null, d.alternative),
                                      Raise(d.null.den, d.n), d.alpha)}

(* What the bisection of a design asks, and up to which count.              *)
LastAsked(d) == IF d.alternative = "two-sided" THEN d.n \div 2 ELSE d.n
Asks(d) == [k \in 0 .. LastAsked(d) |-> IF d.alternative = "greater" THEN RejectsIn(d, k) ELSE ~RejectsIn(d, k)]

(* While there is no region, the edge is between low and high.              *)
Edging ==
  /\ top = LastAsked(design) /\ holds = Asks(design) /\ guess = top + 1
  /\ loop \in {"first", "found"}
  /\ low \in Nat /\ high \in Nat /\ low <= high /\ high <= top + 1
  /\ \A i \in 0 .. top : i < low => ~holds[i]
  /\ \A i \in 0 .. top : i >= high => holds[i]
  /\ loop = "found" => low = high

RegionInv ==
  /\ design \in Designs
  /\ region = NotYet => design.n # 0 /\ answer = NotYet /\ Edging
  /\ region # NotYet => region = ExactRegion(design)

(* What is known of a design.                                               *)
LEMMA DesignFacts ==
  ASSUME NEW d \in Designs
  PROVE  /\ d.n \in Nat /\ LastAsked(d) \in Nat /\ LastAsked(d) <= d.n
         /\ d.alternative \in Alternatives /\ d.null \in Fractions /\ d.alpha \in Fractions
         /\ d.alternative = "two-sided" => d.null = Half /\ LastAsked(d) = d.n \div 2
         /\ d.alternative # "two-sided" => LastAsked(d) = d.n
  BY DesignsAssumption DEF LastAsked

(* What rejects is at most alpha of the whole.                              *)
LEMMA SmallerRejects ==
  ASSUME NEW x \in Int, NEW y \in Int, x <= y, NEW w \in Int, NEW f \in Fractions, AtMost(y, w, f)
  PROVE  AtMost(x, w, f)
<1> DEFINE a == f.den
           b == f.num * w
<1>1. a \in Nat /\ b \in Int
  <2>1. f.num \in Nat
    BY FractionParts
  <2> QED
    BY <2>1, FractionParts
<1>2. y * a <= b
  BY DEF AtMost
<1>3. x * a <= y * a
  <2> HIDE DEF a
  <2> QED
    BY <1>1
<1> QED
  <2>1. x * a <= b
    <3>1. x * a \in Int /\ y * a \in Int
      BY <1>1
    <3> HIDE DEF a, b
    <3> QED
      BY <1>1, <1>2, <1>3, <3>1
  <2> QED
    BY <2>1 DEF AtMost

(* The region, count by count.                                              *)
LEMMA RejectsExactly ==
  ASSUME NEW d \in Designs, d.n # 0
  PROVE  ExactRegion(d) = {k \in 0 .. d.n : RejectsIn(d, k)}
<1>1. d.n > 0 /\ d.n \in Nat
  BY DesignFacts
<1>2. ASSUME NEW k \in 0 .. d.n
      PROVE  RejectsIn(d, k) <=> AtMost(ByCounting(k, d.n, d.null, d.alternative),
                                        Raise(d.null.den, d.n), d.alpha)
  <2>1. PExact(k, d.n, d.null, d.alternative) = ByCounting(k, d.n, d.null, d.alternative)
    BY DesignFacts, PValuesAreExact
  <2> QED
    BY <2>1 DEF RejectsIn, Rejects
<1> QED
  BY <1>1, <1>2 DEF ExactRegion

(* P-values are whole numbers of parts.                                     *)
LEMMA PExactType ==
  ASSUME NEW d \in Designs, NEW k \in 0 .. d.n
  PROVE  PExact(k, d.n, d.null, d.alternative) \in Int /\ Raise(d.null.den, d.n) \in Int
<1>1. d.n \in Nat /\ d.null \in Fractions /\ d.alternative \in Alternatives
  BY DesignFacts
<1>2. Raise(d.null.den, d.n) \in Nat
  BY <1>1, FractionParts, RaiseNat
<1>3. Ways(k .. d.n, d.n, d.null) \in Nat /\ Ways(0 .. k, d.n, d.null) \in Nat
  BY <1>1, WaysFinite
<1> QED
  BY <1>1, <1>2, <1>3, TailsAreExact DEF PExact, LesserOf, Alternatives

(* The region is one tail, or two mirrored tails: past an index where what  *)
(* the bisection asks holds, it holds (power.py:39-40).                     *)
LEMMA AsksRise ==
  ASSUME NEW d \in Designs
  PROVE  /\ \A i, j \in 0 .. LastAsked(d) : i <= j /\ Asks(d)[i] => Asks(d)[j]
         /\ d.alternative = "two-sided" =>
              \A k \in 0 .. d.n : d.n - k \in 0 .. d.n /\ (RejectsIn(d, k) <=> RejectsIn(d, d.n - k))
<1> DEFINE P(k) == PExact(k, d.n, d.null, d.alternative)
           w == Raise(d.null.den, d.n)
<1>1. d.n \in Nat /\ d.null \in Fractions /\ d.alternative \in Alternatives /\ d.alpha \in Fractions
  BY DesignFacts
<1>2. ASSUME NEW i \in 0 .. d.n, NEW j \in 0 .. d.n, P(i) <= P(j), RejectsIn(d, j) PROVE RejectsIn(d, i)
  <2>1. AtMost(P(j), w, d.alpha)
    BY <1>2 DEF RejectsIn, Rejects
  <2>2. P(i) \in Int /\ P(j) \in Int /\ w \in Int
    BY PExactType
  <2> HIDE DEF P, w
  <2>3. AtMost(P(i), w, d.alpha)
    BY <1>1, <1>2, <2>1, <2>2, SmallerRejects
  <2> QED
    BY <2>3 DEF RejectsIn, Rejects, P, w
<1>3. ASSUME NEW i \in 0 .. LastAsked(d), NEW j \in 0 .. LastAsked(d), i <= j, Asks(d)[i] PROVE Asks(d)[j]
  <2>1. i \in 0 .. d.n /\ j \in 0 .. d.n
    BY DesignFacts
  <2>2. CASE d.alternative = "greater"
    <3>1. P(j) <= P(i)
      BY <1>1, <1>3, <2>1, <2>2, PValueMonotone
    <3>2. RejectsIn(d, i)
      BY <1>3, <2>2 DEF Asks
    <3>3. RejectsIn(d, j)
      BY <1>2, <2>1, <3>1, <3>2
    <3> QED
      BY <2>2, <3>3 DEF Asks
  <2>3. CASE d.alternative = "less"
    <3>1. P(i) <= P(j)
      BY <1>1, <1>3, <2>1, <2>3, PValueMonotone
    <3>2. ~RejectsIn(d, i)
      BY <1>3, <2>3 DEF Asks
    <3>3. ~RejectsIn(d, j)
      BY <1>2, <2>1, <3>1, <3>2
    <3> QED
      BY <2>3, <3>3 DEF Asks
  <2>4. CASE d.alternative = "two-sided"
    <3>1. P(i) <= P(j)
      <4>1. d.null = Half /\ j <= d.n \div 2
        BY <2>4, DesignFacts
      <4> QED
        BY <1>1, <1>3, <2>1, <2>4, <4>1, PValueMonotone
    <3>2. ~RejectsIn(d, i)
      BY <1>3, <2>4 DEF Asks
    <3>3. ~RejectsIn(d, j)
      BY <1>2, <2>1, <3>1, <3>2
    <3> QED
      BY <2>4, <3>3 DEF Asks
  <2> QED
    BY <1>1, <2>2, <2>3, <2>4 DEF Alternatives
<1>4. ASSUME NEW k \in 0 .. d.n, d.alternative = "two-sided"
      PROVE  d.n - k \in 0 .. d.n /\ (RejectsIn(d, k) <=> RejectsIn(d, d.n - k))
  <2>1. d.n - k \in 0 .. d.n
    BY <1>1
  <2>2. P(k) = P(d.n - k)
    <3>1. d.null = Half
      BY <1>4, DesignFacts
    <3> QED
      BY <1>1, <1>4, <3>1, PValueMonotone
  <2>3. RejectsIn(d, k) <=> RejectsIn(d, d.n - k)
    BY <2>2 DEF RejectsIn, Rejects
  <2> QED
    BY <2>1, <2>3
<1> QED
  BY <1>3, <1>4

(* A plan starts with its search for the edge.                              *)
LEMMA PlanStarts == PlanInit => RegionInv
<1> SUFFICES ASSUME PlanInit PROVE RegionInv
  OBVIOUS
<1>1. design \in Designs
  BY DEF PlanInit
<1>2. CASE design.n = 0
  <2>1. region = {} /\ NotYet # {}
    BY <1>2, AnswersAssumption DEF PlanInit
  <2>2. ExactRegion(design) = {}
    BY <1>2 DEF ExactRegion
  <2> QED
    BY <1>1, <2>1, <2>2 DEF RegionInv
<1>3. CASE design.n # 0
  <2>1. region = NotYet /\ answer = NotYet
    BY <1>3 DEF PlanInit
  <2>2. StartFirst(Asks(design), LastAsked(design))
    <3>1. CASE design.alternative = "greater"
      <4>1. Asks(design) = [k \in 0 .. design.n |-> RejectsIn(design, k)] /\ LastAsked(design) = design.n
        BY <3>1 DEF Asks, LastAsked
      <4> QED
        BY <3>1, <4>1 DEF PlanInit, EdgeSearch
    <3>2. CASE design.alternative = "less"
      <4>1. Asks(design) = [k \in 0 .. design.n |-> ~RejectsIn(design, k)] /\ LastAsked(design) = design.n
        BY <3>2 DEF Asks, LastAsked
      <4> QED
        BY <3>2, <4>1 DEF PlanInit, EdgeSearch
    <3>3. CASE design.alternative = "two-sided"
      <4>1. Asks(design) = [k \in 0 .. design.n \div 2 |-> ~RejectsIn(design, k)] /\ LastAsked(design) = design.n \div 2
        BY <3>3 DEF Asks, LastAsked
      <4> QED
        BY <3>3, <4>1 DEF PlanInit, EdgeSearch
    <3> QED
      BY <1>1, <3>1, <3>2, <3>3, DesignFacts DEF Alternatives
  <2>3. Edging
    BY <1>1, <2>2, DesignFacts DEF StartFirst, Edging
  <2> QED
    BY <1>1, <1>3, <2>1, <2>3 DEF RegionInv
<1> QED
  BY <1>2, <1>3

(* One turn of the bisection.                                               *)
LEMMA EdgeCloses ==
  ASSUME design \in Designs, Edging, Loops, UNCHANGED design
  PROVE  Edging'
<1>1. top \in Nat
  BY DesignFacts DEF Edging
<1>2. CASE Halve
  <2>1. /\ Mid \in Nat /\ low <= Mid /\ Mid < high /\ Mid \in 0 .. top
    <3>1. low < high /\ low \in Nat /\ high \in Nat /\ high <= top + 1
      BY <1>2 DEF Halve, Edging
    <3>2. Mid \in Nat /\ low <= Mid /\ Mid < high
      BY <3>1, MidBetween DEF Mid
    <3> QED
      BY <1>1, <3>1, <3>2
  <2>2. \A i, j \in 0 .. top : i <= j /\ holds[i] => holds[j]
    BY AsksRise DEF Edging
  <2>3. CASE holds[Mid]
    <3>1. high' = Mid /\ UNCHANGED <<low, holds, top, loop, step, guess>>
      BY <1>2, <2>3 DEF Halve
    <3>2. \A i \in 0 .. top : i >= Mid => holds[i]
      BY <2>1, <2>2, <2>3
    <3>3. loop = "first" /\ loop # "found"
      BY <1>2 DEF Halve
    <3> HIDE DEF Mid
    <3> QED
      BY <1>1, <2>1, <3>1, <3>2, <3>3 DEF Edging
  <2>4. CASE ~holds[Mid]
    <3>1. low' = Mid + 1 /\ UNCHANGED <<high, holds, top, loop, step, guess>>
      BY <1>2, <2>4 DEF Halve
    <3>2. \A i \in 0 .. top : i < Mid + 1 => ~holds[i]
      BY <2>1, <2>2, <2>4
    <3>3. loop = "first" /\ loop # "found"
      BY <1>2 DEF Halve
    <3> HIDE DEF Mid
    <3> QED
      BY <1>1, <2>1, <3>1, <3>2, <3>3 DEF Edging
  <2> QED
    BY <2>3, <2>4
<1>3. CASE Halved
  BY <1>1, <1>3 DEF Edging, Halved, Found
<1>4. loop \in {"first", "found"}
  BY DEF Edging
<1> QED
  BY <1>2, <1>3, <1>4 DEF Loops, Outward, OutOfRange, Reached, Inward, Bracketed, Close, Closed

(* Where what is asked begins to hold is the edge of the region.            *)
LEMMA EdgeAt ==
  ASSUME NEW d \in Designs, d.n # 0, NEW edge \in Nat, edge <= LastAsked(d) + 1,
         \A k \in 0 .. LastAsked(d) : Asks(d)[k] <=> k >= edge
  PROVE  RegionAt(d, edge) = ExactRegion(d)
<1> DEFINE R == {k \in 0 .. d.n : RejectsIn(d, k)}
<1>1. ExactRegion(d) = R
  BY RejectsExactly
<1>2. d.n \in Nat /\ LastAsked(d) \in Nat /\ LastAsked(d) <= d.n /\ d.alternative \in Alternatives
  BY DesignFacts
<1>3. edge \in Nat /\ edge <= LastAsked(d) + 1
  OBVIOUS
<1>4. \A k \in 0 .. LastAsked(d) : Asks(d)[k] <=> k >= edge
  OBVIOUS
<1>5. CASE d.alternative = "greater"
  <2>1. LastAsked(d) = d.n
    BY <1>5, DesignFacts
  <2>2. \A k \in 0 .. d.n : RejectsIn(d, k) <=> k >= edge
    BY <1>4, <1>5, <2>1 DEF Asks
  <2>3. R = edge .. d.n
    BY <1>2, <1>3, <2>2
  <2>4. RegionAt(d, edge) = edge .. d.n
    BY <1>5 DEF RegionAt
  <2> QED
    BY <1>1, <2>3, <2>4
<1>6. CASE d.alternative = "less"
  <2>1. LastAsked(d) = d.n
    BY <1>6, DesignFacts
  <2>2. ASSUME NEW k \in 0 .. d.n PROVE RejectsIn(d, k) <=> k < edge
    <3>1. Asks(d)[k] <=> ~RejectsIn(d, k)
      BY <1>6, <2>1 DEF Asks
    <3>2. k \in Nat /\ (Asks(d)[k] <=> k >= edge)
      BY <1>2, <1>4, <2>1
    <3> QED
      BY <1>3, <3>1, <3>2
  <2>3. R = 0 .. edge - 1
    BY <1>2, <1>3, <2>1, <2>2
  <2>4. RegionAt(d, edge) = 0 .. edge - 1
    BY <1>6 DEF RegionAt
  <2> QED
    BY <1>1, <2>3, <2>4
<1>7. CASE d.alternative = "two-sided"
  <2>1. LastAsked(d) = d.n \div 2
    BY <1>7, DesignFacts
  <2>2. ASSUME NEW k \in 0 .. d.n \div 2 PROVE RejectsIn(d, k) <=> k < edge
    <3>1. Asks(d)[k] <=> ~RejectsIn(d, k)
      BY <1>7, <2>1 DEF Asks
    <3>2. k \in Nat /\ (Asks(d)[k] <=> k >= edge)
      BY <1>2, <1>4, <2>1
    <3> QED
      BY <1>3, <3>1, <3>2
  <2>3. \A k \in 0 .. d.n : RejectsIn(d, k) <=> RejectsIn(d, d.n - k)
    BY <1>7, AsksRise
  <2>4. \A k \in 0 .. d.n : k \in 0 .. d.n \div 2 \/ d.n - k \in 0 .. d.n \div 2
    BY <1>2
  <2>5. RegionAt(d, edge) = (0 .. edge - 1) \cup {d.n - k : k \in 0 .. edge - 1}
    BY <1>7 DEF RegionAt
  <2>6. \A k \in 0 .. edge - 1 : k \in 0 .. d.n \div 2 /\ k \in 0 .. d.n /\ d.n - k \in 0 .. d.n
    BY <1>2, <1>3, <2>1
  <2>7. ASSUME NEW k \in R PROVE k \in (0 .. edge - 1) \cup {d.n - j : j \in 0 .. edge - 1}
    <3>1. CASE k \in 0 .. d.n \div 2
      BY <1>3, <2>2, <3>1
    <3>2. CASE d.n - k \in 0 .. d.n \div 2
      <4>1. RejectsIn(d, d.n - k) /\ d.n - (d.n - k) = k
        BY <1>2, <2>3
      <4>2. d.n - k \in 0 .. edge - 1
        BY <1>3, <2>2, <3>2, <4>1
      <4> QED
        BY <4>1, <4>2
    <3> QED
      BY <2>4, <3>1, <3>2
  <2>8. ASSUME NEW k \in 0 .. edge - 1 PROVE k \in R /\ d.n - k \in R
    <3>1. k \in 0 .. d.n \div 2 /\ k < edge /\ k \in 0 .. d.n /\ d.n - k \in 0 .. d.n
      BY <1>3, <2>6
    <3>2. RejectsIn(d, k)
      BY <2>2, <3>1
    <3> QED
      BY <2>3, <3>1, <3>2
  <2> HIDE DEF R
  <2>9. R = (0 .. edge - 1) \cup {d.n - k : k \in 0 .. edge - 1}
    <3>1. R \subseteq (0 .. edge - 1) \cup {d.n - k : k \in 0 .. edge - 1}
      BY <2>7
    <3>2. (0 .. edge - 1) \cup {d.n - k : k \in 0 .. edge - 1} \subseteq R
      BY <2>8
    <3> QED
      BY <3>1, <3>2
  <2> QED
    BY <1>1, <2>5, <2>9
<1> QED
  BY <1>2, <1>5, <1>6, <1>7 DEF Alternatives

(* Where the bisection ends is that edge.                                   *)
LEMMA EdgeIsRegion ==
  ASSUME design \in Designs, design.n # 0, Edging, loop = "found"
  PROVE  RegionAt(design, low) = ExactRegion(design)
<1>1. LastAsked(design) \in Nat
  BY DesignFacts
<1>2. low \in Nat /\ low <= LastAsked(design) + 1
  BY <1>1 DEF Edging
<1>3. \A k \in 0 .. LastAsked(design) : Asks(design)[k] <=> k >= low
  <2>1. \A i \in 0 .. top : (i < low => ~holds[i]) /\ (i >= low => holds[i])
    BY DEF Edging
  <2> QED
    BY <1>1, <1>2, <2>1 DEF Edging
<1> QED
  BY <1>2, <1>3, EdgeAt

(* Each step of a plan keeps what is known of its region.                   *)
LEMMA RegionStep ==
  ASSUME RegionInv, [PlanNext]_planVars
  PROVE  RegionInv'
<1>1. CASE Seek
  <2>1. region = NotYet /\ design.n # 0 /\ answer = NotYet /\ Edging /\ design \in Designs
    BY <1>1 DEF Seek, RegionInv
  <2>2. Loops /\ UNCHANGED <<design, region, answer>>
    BY <1>1 DEF Seek
  <2>3. Edging'
    BY <2>1, <2>2, EdgeCloses
  <2> QED
    BY <2>1, <2>2, <2>3 DEF RegionInv
<1>2. CASE Bound
  <2>1. region = NotYet /\ design.n # 0 /\ answer = NotYet /\ Edging /\ design \in Designs
    BY <1>2 DEF Bound, RegionInv
  <2>2. loop = "found" /\ region' = RegionAt(design, low) /\ UNCHANGED <<searchVars, design, answer>>
    BY <1>2 DEF Bound
  <2>3. region' = ExactRegion(design)
    BY <2>1, <2>2, EdgeIsRegion
  <2>4. Edging' /\ ExactRegion(design)' = ExactRegion(design)
    BY <2>1, <2>2 DEF Edging, searchVars, LastAsked, Asks, ExactRegion
  <2> QED
    BY <2>1, <2>2, <2>3, <2>4 DEF RegionInv
<1>3. ASSUME UNCHANGED <<design, region>>, region # NotYet PROVE RegionInv'
  BY <1>3 DEF RegionInv
<1>4. CASE Hopeless \/ Aim \/ Settle \/ Conclude
  BY <1>3, <1>4 DEF Hopeless, Aim, Settle, Conclude, Settling
<1>5. CASE UNCHANGED planVars
  BY <1>5 DEF planVars, searchVars, RegionInv, Edging, LastAsked, Asks, ExactRegion
<1> QED
  BY <1>1, <1>2, <1>4, <1>5 DEF PlanNext, PlanRest

(* For every design of any number of trials: the region that the search     *)
(* ends with holds exactly the counts whose p-value, as outcomes counted    *)
(* one by one, is at most the level (power.py:21).                          *)
THEOREM RegionHolds == PlanSpec => []RegionIsExact
<1>1. PlanInit => RegionInv
  BY PlanStarts
<1>2. RegionInv /\ [PlanNext]_planVars => RegionInv'
  BY RegionStep
<1>3. RegionInv => RegionIsExact
  BY DEF RegionInv, RegionIsExact, ExactRegion
<1> QED
  BY <1>1, <1>2, <1>3, PTL DEF PlanSpec

-----------------------------------------------------------------------------
(* The two sides of a paired test *)

Measured == Values \cup {Missing}

PairsInv == pairs \in Seq([a : Measured, b : Measured])

(* The p-value of one side is that of the other with the counts turned.     *)
LEMMA SidesOpposed ==
  ASSUME NEW n \in Nat, NEW k \in 0 .. n
  PROVE  /\ PExact(k, n, Half, "greater") = PExact(n - k, n, Half, "less")
         /\ PExact(k, n, Half, "less") = PExact(n - k, n, Half, "greater")
         /\ PExact(k, n, Half, "two-sided") = PExact(n - k, n, Half, "two-sided")
<1>1. n - k \in 0 .. n /\ n - (n - k) = k
  OBVIOUS
<1>2. Ways(0 .. k, n, Half) = Ways(n - k .. n, n, Half)
  BY WaysMirror
<1>3. Ways(0 .. n - k, n, Half) = Ways(k .. n, n, Half)
  BY <1>1, WaysMirror
<1>4. ASSUME NEW j \in 0 .. n
      PROVE  PExact(j, n, Half, "greater") = Ways(j .. n, n, Half) /\ PExact(j, n, Half, "less") = Ways(0 .. j, n, Half)
  BY HalfFraction, TailsAreExact DEF PExact
<1>5. PExact(k, n, Half, "two-sided") = PExact(n - k, n, Half, "two-sided")
  BY HalfFraction, PValueMonotone
<1> QED
  BY <1>1, <1>2, <1>3, <1>4, <1>5

(* What a count of the pairs becomes when their sides are exchanged.        *)
LEMMA CountsSwap ==
  ASSUME NEW seq \in Seq([a : Measured, b : Measured])
  PROVE  /\ Count(Swapped(seq), Gap) = Count(seq, Gap)
         /\ Count(Swapped(seq), Win) = Count(seq, Loss)
         /\ Count(Swapped(seq), Loss) = Count(seq, Win)
         /\ Count(Swapped(seq), Tie) = Count(seq, Tie)
         /\ Count(seq, Win) \in Nat /\ Count(seq, Loss) \in Nat
<1> DEFINE D == DOMAIN seq
           other == Swapped(seq)
<1>1. D = 1 .. Len(seq) /\ Len(seq) \in Nat /\ IsFiniteSet(D)
  <2>1. D = 1 .. Len(seq) /\ Len(seq) \in Nat
    OBVIOUS
  <2>2. IsFiniteSet(1 .. Len(seq))
    BY <2>1, FS_Interval
  <2> QED
    BY <2>1, <2>2
<1>2. DOMAIN other = D /\ \A i \in D : other[i] = [a |-> seq[i].b, b |-> seq[i].a]
  BY DEF Swapped
<1>3. ASSUME NEW i \in D
      PROVE  /\ Gap(other[i]) <=> Gap(seq[i])
             /\ Win(other[i]) <=> Loss(seq[i])
             /\ Loss(other[i]) <=> Win(seq[i])
             /\ Tie(other[i]) <=> Tie(seq[i])
  <2>1. seq[i].a \in Measured /\ seq[i].b \in Measured
    <3>1. i \in 1 .. Len(seq)
      BY <1>1
    <3> DEFINE T == [a : Measured, b : Measured]
    <3>2. seq[i] \in T
      <4>1. seq \in Seq(T)
        OBVIOUS
      <4> HIDE DEF T, D, other
      <4> QED
        BY <3>1, <4>1
    <3> QED
      BY <3>2
  <2>2. other[i].a = seq[i].b /\ other[i].b = seq[i].a
    BY <1>2
  <2>3. seq[i].a = Missing \/ seq[i].a \in Int
    BY <2>1, ValuesAssumption DEF Measured
  <2>4. seq[i].b = Missing \/ seq[i].b \in Int
    BY <2>1, ValuesAssumption DEF Measured
  <2> HIDE DEF other
  <2> QED
    BY <2>2, <2>3, <2>4 DEF Gap, Win, Loss, Tie
<1> HIDE DEF D, other
<1>4. Count(other, Gap) = Count(seq, Gap)
  <2>1. {i \in D : Gap(other[i])} = {i \in D : Gap(seq[i])}
    BY <1>3
  <2> QED
    BY <1>2, <2>1 DEF Count, D
<1>5. Count(other, Win) = Count(seq, Loss)
  <2>1. {i \in D : Win(other[i])} = {i \in D : Loss(seq[i])}
    BY <1>3
  <2> QED
    BY <1>2, <2>1 DEF Count, D
<1>6. Count(other, Loss) = Count(seq, Win)
  <2>1. {i \in D : Loss(other[i])} = {i \in D : Win(seq[i])}
    BY <1>3
  <2> QED
    BY <1>2, <2>1 DEF Count, D
<1>7. Count(other, Tie) = Count(seq, Tie)
  <2>1. {i \in D : Tie(other[i])} = {i \in D : Tie(seq[i])}
    BY <1>3
  <2> QED
    BY <1>2, <2>1 DEF Count, D
<1>8. Count(seq, Win) \in Nat
  <2>1. IsFiniteSet({i \in D : Win(seq[i])})
    BY <1>1, FS_Subset
  <2> QED
    BY <2>1, FS_CardinalityType DEF Count, D
<1>9. Count(seq, Loss) \in Nat
  <2>1. IsFiniteSet({i \in D : Loss(seq[i])})
    BY <1>1, FS_Subset
  <2> QED
    BY <2>1, FS_CardinalityType DEF Count, D
<1> QED
  BY <1>4, <1>5, <1>6, <1>7, <1>8, <1>9 DEF other

(* A test that was made is neither of the errors.                           *)
LEMMA ResultsAnswer ==
  ASSUME NEW wins, NEW n, NEW ties, NEW side, NEW gaps, NEW pvalue,
         NEW r, r = [p |-> pvalue, successes |-> wins, n |-> n, ties |-> ties, missing |-> gaps]
  PROVE  r # Empty /\ Answered(r)
<1>1. "p" \in DOMAIN r
  OBVIOUS
<1>2. "p" \notin DOMAIN Empty /\ "p" \notin DOMAIN Gaps
  BY DEF Empty, Gaps
<1>3. r \notin {Empty, Gaps}
  BY <1>1, <1>2
<1> QED
  BY <1>3 DEF Answered

(* The test of pairs, with the two sides called the other way round.        *)
LEMMA PairsMirror ==
  ASSUME PairsInv
  PROVE  SidesMirror
<1> SUFFICES ASSUME NEW missing \in {"refuse", "drop"}, NEW side \in Alternatives
             PROVE  LET other == IF side = "two-sided" THEN side ELSE Opposite[side]
                        here  == PairedSignTest(pairs, side, missing)
                        there == PairedSignTest(Swapped(pairs), other, missing)
                    IN  IF Answered(here) /\ Answered(there)
                        THEN /\ here.p = there.p /\ here.n = there.n
                             /\ here.ties = there.ties /\ here.missing = there.missing
                        ELSE ~Answered(here) /\ ~Answered(there)
  BY DEF SidesMirror
<1> DEFINE other == IF side = "two-sided" THEN side ELSE Opposite[side]
           here  == PairedSignTest(pairs, side, missing)
           there == PairedSignTest(Swapped(pairs), other, missing)
           w == Count(pairs, Win)
           l == Count(pairs, Loss)
           t == Count(pairs, Tie)
           g == Count(pairs, Gap)
           r1 == Result(w, w + l, t, 0, side)
           r2 == Result(l, l + w, t, 0, other)
           s1 == [r1 EXCEPT !.missing = g]
           s2 == [r2 EXCEPT !.missing = g]
           m == w + l
<1>1. /\ w \in Nat /\ l \in Nat
      /\ Count(Swapped(pairs), Gap) = g /\ Count(Swapped(pairs), Tie) = t
      /\ Count(Swapped(pairs), Win) = l /\ Count(Swapped(pairs), Loss) = w
  BY CountsSwap DEF PairsInv
<1>2. /\ here = CASE g > 0 /\ missing = "refuse" -> Gaps
                  [] ~(g > 0 /\ missing = "refuse") /\ SignTest(w, l, t, side) = Empty -> Empty
                  [] OTHER -> [SignTest(w, l, t, side) EXCEPT !.missing = g]
      /\ there = CASE g > 0 /\ missing = "refuse" -> Gaps
                   [] ~(g > 0 /\ missing = "refuse") /\ SignTest(l, w, t, other) = Empty -> Empty
                   [] OTHER -> [SignTest(l, w, t, other) EXCEPT !.missing = g]
  <2> HIDE DEF w, l, t, g, other
  <2> QED
    BY <1>1, Zenon DEF PairedSignTest, w, l, t, g
<1>3. ~Answered(Gaps) /\ ~Answered(Empty)
  BY DEF Answered
<1> HIDE DEF here, there, w, l, t, g
<1>4. CASE g > 0 /\ missing = "refuse"
  BY <1>2, <1>3, <1>4 DEF here, there
<1>5. CASE ~(g > 0 /\ missing = "refuse") /\ w + l = 0
  <2>1. SignTest(w, l, t, side) = Empty /\ SignTest(l, w, t, other) = Empty
    BY <1>1, <1>5 DEF SignTest
  <2> HIDE DEF other
  <2>2. here = Empty /\ there = Empty
    BY <1>2, <1>5, <2>1
  <2> QED
    BY <1>3, <2>2 DEF here, there, other
<1>6. CASE ~(g > 0 /\ missing = "refuse") /\ w + l # 0
  <2>1. SignTest(w, l, t, side) = r1 /\ SignTest(l, w, t, other) = r2
    BY <1>1, <1>6 DEF SignTest
  <2>2. /\ r1 # Empty /\ Answered(s1) /\ s1.p = PExact(w, w + l, Half, side)
        /\ s1.n = w + l /\ s1.ties = t /\ s1.missing = g
    <3>1. r1 = [p |-> PExact(w, w + l, Half, side), successes |-> w, n |-> w + l, ties |-> t, missing |-> 0]
      BY DEF Result
    <3>2. s1 = [p |-> PExact(w, w + l, Half, side), successes |-> w, n |-> w + l, ties |-> t, missing |-> g]
      BY DEF Result
    <3> HIDE DEF r1, s1
    <3>3. r1 # Empty
      BY <3>1, ResultsAnswer, Zenon
    <3>4. Answered(s1)
      BY <3>2, ResultsAnswer, Zenon
    <3> QED
      BY <3>2, <3>3, <3>4
  <2>3. /\ r2 # Empty /\ Answered(s2) /\ s2.p = PExact(l, l + w, Half, other)
        /\ s2.n = l + w /\ s2.ties = t /\ s2.missing = g
    <3> HIDE DEF other
    <3>1. r2 = [p |-> PExact(l, l + w, Half, other), successes |-> l, n |-> l + w, ties |-> t, missing |-> 0]
      BY DEF Result
    <3>2. s2 = [p |-> PExact(l, l + w, Half, other), successes |-> l, n |-> l + w, ties |-> t, missing |-> g]
      BY DEF Result
    <3> HIDE DEF r2, s2
    <3>3. r2 # Empty
      BY <3>1, ResultsAnswer, Zenon
    <3>4. Answered(s2)
      BY <3>2, ResultsAnswer, Zenon
    <3> QED
      BY <3>2, <3>3, <3>4
  <2>4. PExact(w, w + l, Half, side) = PExact(l, l + w, Half, other)
    <3>1. m \in Nat /\ w \in 0 .. m /\ m - w = l /\ l + w = m
      BY <1>1
    <3> HIDE DEF m
    <3>2. /\ PExact(w, m, Half, "greater") = PExact(m - w, m, Half, "less")
          /\ PExact(w, m, Half, "less") = PExact(m - w, m, Half, "greater")
          /\ PExact(w, m, Half, "two-sided") = PExact(m - w, m, Half, "two-sided")
      BY <3>1, SidesOpposed
    <3>3. PExact(w, m, Half, side) = PExact(l, m, Half, other)
      BY <3>1, <3>2 DEF Alternatives, Opposite
    <3> QED
      BY <3>1, <3>3 DEF m
  <2>5. l + w = w + l
    BY <1>1
  <2> HIDE DEF r1, r2, other
  <2>6. here = s1 /\ there = s2
    BY <1>2, <1>6, <2>1, <2>2, <2>3
  <2> HIDE DEF s1, s2
  <2>7. /\ Answered(here) /\ Answered(there) /\ here.p = there.p /\ here.n = there.n
        /\ here.ties = there.ties /\ here.missing = there.missing
    BY <2>2, <2>3, <2>4, <2>5, <2>6
  <2> QED
    BY <2>7 DEF here, there, other
<1> QED
  BY <1>4, <1>5, <1>6

(* "p" says the same of both names: binomial.py:155, 176-181.               *)
THEOREM SidesAlwaysMirror == PairedSpec => []SidesMirror
<1>1. PairedInit => PairsInv
  BY DEF PairedInit, PairsInv
<1>2. PairsInv /\ [PairedNext]_pairs => PairsInv'
  <2> SUFFICES ASSUME PairsInv, [PairedNext]_pairs PROVE PairsInv'
    OBVIOUS
  <2>1. CASE Measure
    <3>1. PICK a, b \in Measured : pairs' = Append(pairs, [a |-> a, b |-> b])
      BY <2>1 DEF Measure, Measured
    <3>2. [a |-> a, b |-> b] \in [a : Measured, b : Measured]
      OBVIOUS
    <3> QED
      BY <3>1, <3>2 DEF PairsInv
  <2>2. CASE UNCHANGED pairs
    BY <2>2 DEF PairsInv
  <2> QED
    BY <2>1, <2>2 DEF PairedNext, PairedRest
<1>3. PairsInv => SidesMirror
  BY PairsMirror
<1> QED
  BY <1>1, <1>2, <1>3, PTL DEF PairedSpec

-----------------------------------------------------------------------------
(* How power grows with the effect *)

Above(n, k, p) == Ways(k .. n, n, p)

(* A tail over one more trial, by how that trial comes out.                 *)
LEMMA AboveSteps ==
  ASSUME NEW n \in Nat, NEW p \in Fractions, NEW k \in Int
  PROVE  /\ Above(n, k, p) \in Nat /\ Above(0, k, p) = IF k <= 0 THEN 1 ELSE 0
         /\ Above(n, k + 1, p) <= Above(n, k, p)
         /\ Above(n + 1, k, p) = p.num * Above(n, k - 1, p) + (p.den - p.num) * Above(n, k, p)
<1> DEFINE a == p.num
           q == p.den - p.num
           W(m, j) == Weight(a, q, m, j)
<1>1. a \in Nat /\ q \in Nat
  BY FractionParts
<1>2. ASSUME NEW m \in Nat, NEW j \in Int
      PROVE  /\ Above(m, j, p) \in Nat
             /\ j > m => Above(m, j, p) = 0
             /\ Above(m, j, p) = Above(m, j + 1, p) + W(m, j) /\ W(m, j) \in Nat
  <2>1. Above(m, j, p) \in Nat
    BY WaysFinite DEF Above
  <2>2. CASE j > m
    <3>1. j .. m = {} /\ j + 1 .. m = {}
      BY <2>2
    <3>2. Ways({}, m, p) = 0
      <4>1. {o \in Outcomes(m, p) : Successes(o, p) \in {}} = {}
        OBVIOUS
      <4> QED
        BY <4>1, FS_EmptySet DEF Ways
    <3>3. W(m, j) = 0
      BY <2>2 DEF Weight
    <3> QED
      BY <3>1, <3>2, <3>3 DEF Above
  <2>3. CASE j <= m
    <3> DEFINE B == j + 1 .. m
    <3>1. j .. m = {j} \cup B /\ {j} \cap B = {}
      BY <2>3
    <3>2. Ways({j}, m, p) = W(m, j)
      BY WaysOne
    <3> HIDE DEF B, W
    <3>3. Ways({j} \cup B, m, p) = Ways({j}, m, p) + Ways(B, m, p)
      BY <3>1, WaysAdd
    <3>4. Ways(B, m, p) \in Nat /\ Ways({j}, m, p) \in Nat
      BY WaysFinite
    <3>5. Above(m, j, p) = Ways({j} \cup B, m, p) /\ Above(m, j + 1, p) = Ways(B, m, p)
      BY <3>1, Zenon DEF Above, B
    <3>6. W(m, j) \in Nat
      BY <3>2, <3>4
    <3>7. Above(m, j, p) = Above(m, j + 1, p) + W(m, j)
      BY <3>2, <3>3, <3>4, <3>5
    <3>8. ~(j > m)
      BY <2>3
    <3> QED
      BY <2>1, <3>6, <3>7, <3>8
  <2> QED
    BY <2>1, <2>2, <2>3
<1>3. Above(0, k, p) = IF k <= 0 THEN 1 ELSE 0
  <2> DEFINE S == {j \in Nat : Above(0, 0 - j, p) = 1}
  <2>1. \A j \in Int : W(0, j) = IF j = 0 THEN 1 ELSE 0
    <3>1. Comb(0, 0) = 1
      BY CombSteps
    <3> HIDE DEF a, q
    <3>2. Raise(a, 0) = 1 /\ Raise(q, 0) = 1
      <4>1. a \in Int /\ q \in Int
        BY <1>1
      <4> QED
        BY <4>1, RaiseSteps
    <3> QED
      BY <3>1, <3>2 DEF Weight
  <2> HIDE DEF W
  <2>2. 0 \in S
    <3>1. Above(0, 1, p) = 0 /\ Above(0, 0, p) = Above(0, 0 + 1, p) + W(0, 0)
      BY <1>2
    <3>2. Above(0, 0, p) = 1
      BY <2>1, <3>1
    <3> QED
      BY <3>2
  <2>3. ASSUME NEW j \in S PROVE j + 1 \in S
    <3>1. 0 - (j + 1) \in Int /\ 0 - (j + 1) + 1 = 0 - j /\ 0 - (j + 1) # 0
      OBVIOUS
    <3>2. Above(0, 0 - (j + 1), p) = Above(0, 0 - (j + 1) + 1, p) + W(0, 0 - (j + 1))
      BY <1>2, <3>1
    <3>3. W(0, 0 - (j + 1)) = 0
      BY <2>1, <3>1
    <3>4. Above(0, 0 - (j + 1), p) = 1
      BY <3>1, <3>2, <3>3
    <3> QED
      BY <3>4
  <2>4. S = Nat
    <3>1. S \in SUBSET Nat
      OBVIOUS
    <3> HIDE DEF S
    <3> QED
      BY <2>2, <2>3, <3>1, Induction
  <2>5. CASE k <= 0
    <3>1. 0 - k \in S /\ 0 - (0 - k) = k
      BY <2>4, <2>5
    <3> QED
      BY <2>5, <3>1
  <2>6. CASE k > 0
    BY <1>2, <2>6
  <2> QED
    BY <2>5, <2>6
<1> DEFINE Steps(j) == Above(n + 1, j, p) = a * Above(n, j - 1, p) + q * Above(n, j, p)
           T == {i \in Nat : Steps(n + 2 - i)}
<1>4. 0 \in T
  <2>1. n + 2 > n + 1 /\ n + 2 - 1 > n /\ n + 2 > n
    OBVIOUS
  <2>2. Above(n + 1, n + 2, p) = 0 /\ Above(n, n + 2 - 1, p) = 0 /\ Above(n, n + 2, p) = 0
    BY <1>2
  <2> HIDE DEF a, q
  <2> QED
    BY <1>1, <2>2
<1>5. ASSUME NEW i \in Nat, Steps(n + 2 - i) PROVE Steps(n + 2 - (i + 1))
  <2> DEFINE j == n + 2 - (i + 1)
  <2>1. j \in Int /\ j - 1 \in Int /\ j - 1 + 1 = j /\ n + 2 - i = j + 1 /\ j + 1 - 1 = j /\ n + 1 \in Nat
    OBVIOUS
  <2>2. Above(n + 1, j + 1, p) = a * Above(n, j, p) + q * Above(n, j + 1, p)
    BY <1>5, <2>1
  <2> HIDE DEF j
  <2>3. Above(n + 1, j, p) = Above(n + 1, j + 1, p) + W(n + 1, j)
    BY <1>2, <2>1
  <2> HIDE DEF W
  <2>4. Above(n, j - 1, p) = Above(n, j, p) + W(n, j - 1) /\ W(n, j - 1) \in Nat
    BY <1>2, <2>1
  <2>5. Above(n, j, p) = Above(n, j + 1, p) + W(n, j) /\ W(n, j) \in Nat /\ Above(n, j + 1, p) \in Nat
    <3>1. j + 1 \in Int
      BY <2>1
    <3> QED
      BY <1>2, <2>1, <3>1
  <2> HIDE DEF a, q
  <2>6. W(n + 1, j) = W(n, j - 1) * a + W(n, j) * q
    BY <1>1, <2>1, WeightStep DEF W

  <2>7. \A x, y, z \in Nat :
          (a * (x + y) + q * x) + (z * a + y * q) = a * ((x + y) + z) + q * (x + y)
    BY <1>1
  <2>8. Above(n + 1, j, p) = a * Above(n, j - 1, p) + q * Above(n, j, p)
    BY <2>2, <2>3, <2>4, <2>5, <2>6, <2>7
  <2> QED
    BY <2>8 DEF j, a, q
<1>6. T = Nat
  <2>1. T \in SUBSET Nat /\ \A i \in T : i + 1 \in T
    <3> HIDE DEF Steps
    <3> QED
      BY <1>5
  <2> HIDE DEF T
  <2> QED
    BY <1>4, <2>1, Induction
<1>7. Above(n + 1, k, p) = a * Above(n, k - 1, p) + q * Above(n, k, p)
  <2>1. CASE k <= n + 2
    <3>0. n + 2 - k \in Nat /\ n + 2 - (n + 2 - k) = k
      BY <2>1
    <3>1. n + 2 - k \in T /\ n + 2 - (n + 2 - k) = k
      <4> HIDE DEF T
      <4> QED
        BY <1>6, <3>0
    <3>2. Steps(n + 2 - (n + 2 - k))
      BY <3>1
    <3> QED
      BY <3>1, <3>2
  <2>2. CASE k > n + 2
    <3>1. Above(n + 1, k, p) = 0 /\ Above(n, k - 1, p) = 0 /\ Above(n, k, p) = 0
      BY <1>2, <2>2
    <3> HIDE DEF a, q
    <3> QED
      BY <1>1, <3>1
  <2> QED
    BY <2>1, <2>2
<1>8. Above(n, k + 1, p) <= Above(n, k, p)
  <2>0. k + 1 \in Int
    OBVIOUS
  <2> HIDE DEF W
  <2>1. Above(n, k, p) = Above(n, k + 1, p) + W(n, k) /\ W(n, k) \in Nat /\ Above(n, k + 1, p) \in Nat
    BY <1>2, <2>0
  <2> QED
    BY <2>1
<1> QED
  BY <1>2, <1>3, <1>7, <1>8

(* All outcomes have 0 successes or more.                                   *)
LEMMA WholeAbove ==
  ASSUME NEW n \in Nat, NEW p \in Fractions, NEW k \in Int, k <= 0
  PROVE  Above(n, k, p) = Raise(p.den, n)
<1> DEFINE S == {m \in Nat : \A j \in Int : j <= 0 => Above(m, j, p) = Raise(p.den, m)}
<1>1. p.den \in Nat /\ p.num \in Nat /\ p.den - p.num \in Nat /\ p.den \in Int
  BY FractionParts
<1>2. 0 \in S
  <2>1. Raise(p.den, 0) = 1
    BY <1>1, RaiseSteps
  <2>2. \A j \in Int : j <= 0 => Above(0, j, p) = 1
    BY AboveSteps
  <2> QED
    BY <2>1, <2>2
<1>3. ASSUME NEW m \in S, NEW j \in Int, j <= 0 PROVE Above(m + 1, j, p) = Raise(p.den, m + 1)
  <2>1. Above(m + 1, j, p) = p.num * Above(m, j - 1, p) + (p.den - p.num) * Above(m, j, p)
    BY AboveSteps
  <2>2. Above(m, j - 1, p) = Raise(p.den, m) /\ Above(m, j, p) = Raise(p.den, m)
    BY <1>3
  <2>3. Raise(p.den, m + 1) = Raise(p.den, m) * p.den /\ Raise(p.den, m) \in Int
    BY <1>1, RaiseSteps
  <2>4. \A x \in Int : p.num * x + (p.den - p.num) * x = x * p.den
    BY <1>1
  <2> QED
    BY <2>1, <2>2, <2>3, <2>4
<1>4. S = Nat
  <2>1. S \in SUBSET Nat /\ \A m \in S : m + 1 \in S
    BY <1>3
  <2> HIDE DEF S
  <2> QED
    BY <1>2, <2>1, Induction
<1> QED
  BY <1>4

-----------------------------------------------------------------------------
(* Sums of the sizes of sets *)

AllOf(D, s) == UNION {D[x] : x \in s}
Pick(s)     == CHOOSE x \in s : TRUE

(* g sums f over the subsets of S, taking one element at a time.            *)
SumsBy(g, f, S) ==
  g = [s \in SUBSET S |-> IF s = {} THEN 0 ELSE f[Pick(s)] + g[s \ {Pick(s)}]]

Sizes(D, S) == [s \in SUBSET S |-> Cardinality(AllOf(D, s))]

(* Finite sets, no two of which meet: how many elements they have together. *)
LEMMA SizesSum ==
  ASSUME NEW S, IsFiniteSet(S), NEW D, NEW f,
         \A x \in S : IsFiniteSet(D[x]) /\ f[x] = Cardinality(D[x]),
         \A x, y \in S : x # y => D[x] \cap D[y] = {}
  PROVE  /\ IsFiniteSet(AllOf(D, S))
         /\ SumsBy(Sizes(D, S), f, S)
         /\ \A g : SumsBy(g, f, S) => g[S] = Cardinality(AllOf(D, S))
<1> DEFINE G == Sizes(D, S)
           Right(s) == /\ IsFiniteSet(AllOf(D, s))
                       /\ \A g : SumsBy(g, f, S) => g[s] = G[s]
           Step(s) == G[s] = IF s = {} THEN 0 ELSE f[Pick(s)] + G[s \ {Pick(s)}]
           T == {n \in Nat : \A s \in SUBSET S : Cardinality(s) = n => Right(s) /\ Step(s)}
<1>1. AllOf(D, {}) = {} /\ Cardinality({}) = 0 /\ IsFiniteSet({})
  <2>1. AllOf(D, {}) = {}
    BY DEF AllOf
  <2> QED
    BY <2>1, FS_EmptySet
<1>2. \A s \in SUBSET S : IsFiniteSet(s) /\ Cardinality(s) \in Nat /\ (Cardinality(s) = 0 <=> s = {})
  BY FS_Subset, FS_CardinalityType, FS_EmptySet
<1>3. \A s \in SUBSET S : s # {} => Pick(s) \in s
  BY DEF Pick
<1>4. \A s \in SUBSET S : G[s] = Cardinality(AllOf(D, s))
  BY DEF Sizes
<1>5. \A g : SumsBy(g, f, S) =>
        \A s \in SUBSET S : g[s] = IF s = {} THEN 0 ELSE f[Pick(s)] + g[s \ {Pick(s)}]
  BY DEF SumsBy
<1> HIDE DEF G
<1>6. ASSUME NEW s \in SUBSET S, Cardinality(s) = 0 PROVE Right(s) /\ Step(s)
  <2>1. s = {}
    BY <1>2, <1>6
  <2> QED
    BY <1>1, <1>4, <1>5, <2>1
<1>7. 0 \in T
  BY <1>6
<1>8. ASSUME NEW n \in Nat, NEW s \in SUBSET S, Cardinality(s) = n + 1,
             \A r \in SUBSET S : Cardinality(r) = n => Right(r)
      PROVE  Right(s) /\ Step(s)
  <2> DEFINE x == Pick(s)
             r == s \ {x}
  <2>1. s # {} /\ x \in s /\ x \in S
    BY <1>2, <1>3, <1>8
  <2> HIDE DEF x
  <2>2. r \in SUBSET S /\ Cardinality(r) = n
    <3>1. IsFiniteSet(s) /\ Cardinality(s) \in Nat
      BY <1>2
    <3>2. Cardinality(s \ {x}) = Cardinality(s) - 1
      BY <2>1, <3>1, FS_RemoveElement
    <3> QED
      BY <1>8, <3>2
  <2>3. Right(r)
    BY <1>8, <2>2
  <2>4. AllOf(D, s) = AllOf(D, r) \cup D[x] /\ AllOf(D, r) \cap D[x] = {}
    <3>1. \A y \in r : y \in S /\ y # x
      OBVIOUS
    <3>2. \A y \in r : D[y] \cap D[x] = {}
      BY <2>1, <3>1
    <3>3. s = r \cup {x}
      BY <2>1
    <3> HIDE DEF r
    <3> QED
      BY <3>2, <3>3 DEF AllOf
  <2>5. IsFiniteSet(AllOf(D, s)) /\ Cardinality(AllOf(D, s)) = Cardinality(AllOf(D, r)) + Cardinality(D[x])
    <3>1. IsFiniteSet(D[x]) /\ IsFiniteSet(AllOf(D, r))
      BY <2>1, <2>3
    <3> HIDE DEF r
    <3> QED
      BY <2>4, <3>1, ApartAdd
  <2>6. G[s] = f[x] + G[r]
    <3>1. f[x] = Cardinality(D[x]) /\ IsFiniteSet(D[x]) /\ Cardinality(D[x]) \in Nat
      BY <2>1, FS_CardinalityType
    <3>2. G[r] = Cardinality(AllOf(D, r)) /\ G[s] = Cardinality(AllOf(D, s)) /\ G[r] \in Nat
      BY <1>4, <2>2, <2>3, FS_CardinalityType
    <3> HIDE DEF r
    <3> QED
      BY <2>5, <3>1, <3>2
  <2>7. \A g : SumsBy(g, f, S) => g[s] = f[x] + g[r]
    BY <1>5, <2>1 DEF x
  <2>8. \A g : SumsBy(g, f, S) => g[s] = G[s]
    BY <2>3, <2>6, <2>7
  <2>9. Step(s)
    BY <2>1, <2>6 DEF x
  <2> QED
    BY <2>5, <2>8, <2>9
<1> HIDE DEF Right, Step
<1>9. T = Nat
  <2>1. T \in SUBSET Nat /\ \A n \in T : n + 1 \in T
    BY <1>8
  <2> HIDE DEF T
  <2> QED
    BY <1>7, <2>1, Induction
<1>10. \A s \in SUBSET S : Right(s) /\ Step(s)
  <2> SUFFICES ASSUME NEW s \in SUBSET S PROVE Right(s) /\ Step(s)
    OBVIOUS
  <2>1. Cardinality(s) \in T
    BY <1>2, <1>9
  <2> QED
    BY <2>1
<1>11. SumsBy(G, f, S)
  <2>1. G = [s \in SUBSET S |-> G[s]]
    BY DEF G, Sizes
  <2>2. \A s \in SUBSET S : G[s] = IF s = {} THEN 0 ELSE f[Pick(s)] + G[s \ {Pick(s)}]
    BY <1>10 DEF Step
  <2>3. [s \in SUBSET S |-> G[s]] = [s \in SUBSET S |-> IF s = {} THEN 0 ELSE f[Pick(s)] + G[s \ {Pick(s)}]]
    BY <2>2
  <2> QED
    BY <2>1, <2>3 DEF SumsBy
<1>12. S \in SUBSET S
  OBVIOUS
<1> QED
  BY <1>4, <1>10, <1>11, <1>12 DEF G, Right

-----------------------------------------------------------------------------
(* The power of a set of counts *)

Starts(counts) == {k \in counts : k - 1 \notin counts}

(* A run ends before the next count that is missing.                        *)
LEMMA RunsEnd ==
  ASSUME NEW n \in Nat, NEW R \in SUBSET (0 .. n), NEW k \in R
  PROVE  /\ RunEnd(R, k) \in R /\ RunEnd(R, k) >= k
         /\ k .. RunEnd(R, k) \subseteq R /\ RunEnd(R, k) + 1 \notin R
<1> DEFINE T == {m \in Nat : m > k /\ m \notin R}
<1>1. PICK m \in T : \A j \in T : m <= j
  <2>1. T \in SUBSET Nat /\ n + 1 \in T
    OBVIOUS
  <2> HIDE DEF T
  <2> QED
    BY <2>1, LeastElement
<1>2. \A j \in k .. m - 1 : j \in R
  <2> SUFFICES ASSUME NEW j \in k .. m - 1 PROVE j \in R
    OBVIOUS
  <2>1. j \notin T /\ j \in Nat
    BY <1>1
  <2> QED
    BY <2>1
<1>3. m - 1 \in R /\ m - 1 >= k /\ k .. m - 1 \subseteq R /\ m - 1 + 1 \notin R
  BY <1>1, <1>2
<1>4. \E e \in R : e >= k /\ k .. e \subseteq R /\ e + 1 \notin R
  BY <1>3
<1> QED
  BY <1>4, Zenon DEF RunEnd

(* Runs do not meet, and every count is in one.                             *)
LEMMA RunsPart ==
  ASSUME NEW n \in Nat, NEW R \in SUBSET (0 .. n)
  PROVE  /\ \A i, j \in Starts(R) : i # j => (i .. RunEnd(R, i)) \cap (j .. RunEnd(R, j)) = {}
         /\ \A k \in R : \E i \in Starts(R) : k \in i .. RunEnd(R, i)
<1> DEFINE e(i) == RunEnd(R, i)
<1>1. \A i \in R : e(i) \in R /\ e(i) >= i /\ (\A k \in i .. e(i) : k \in R) /\ e(i) + 1 \notin R
  BY RunsEnd
<1> HIDE DEF e
<1>0. \A i \in R : i \in Int /\ e(i) \in Int
  <2>1. \A i \in R : i \in Int
    OBVIOUS
  <2> QED
    BY <1>1, <2>1
<1>2. ASSUME NEW i \in Starts(R), NEW j \in Starts(R), i < j PROVE e(i) < j
  <2>1. i \in R /\ j \in R /\ j - 1 \notin R
    BY DEF Starts
  <2>2. j - 1 \notin i .. e(i)
    BY <1>1, <2>1
  <2>3. e(i) \in Int /\ i \in Int /\ j \in Int
    BY <1>0, <2>1
  <2> QED
    BY <1>2, <2>2, <2>3
<1>3. ASSUME NEW i \in Starts(R), NEW j \in Starts(R), i # j PROVE (i .. e(i)) \cap (j .. e(j)) = {}
  <2>1. e(i) \in Int /\ i \in Int /\ j \in Int /\ e(j) \in Int
    BY <1>0 DEF Starts
  <2>2. CASE i < j
    BY <1>2, <2>1, <2>2
  <2>3. CASE j < i
    BY <1>2, <2>1, <2>3
  <2> QED
    BY <1>3, <2>1, <2>2, <2>3
<1>4. ASSUME NEW k \in R PROVE \E i \in Starts(R) : k \in i .. e(i)
  <2> DEFINE T == {m \in Nat : m <= k /\ \A j \in m .. k : j \in R}
  <2>1. PICK m \in T : \A j \in T : m <= j
    <3>1. T \in SUBSET Nat /\ k \in T
      OBVIOUS
    <3> HIDE DEF T
    <3> QED
      BY <3>1, LeastElement
  <2>2. m \in R /\ m \in Nat /\ m <= k /\ \A j \in m .. k : j \in R
    BY <2>1
  <2>3. m - 1 \notin R
    <3> SUFFICES ASSUME m - 1 \in R PROVE FALSE
      OBVIOUS
    <3>1. m - 1 \in Nat /\ m - 1 <= k
      BY <2>2
    <3>2. \A j \in m - 1 .. k : j \in R
      BY <2>2
    <3>3. m - 1 \in T
      BY <3>1, <3>2
    <3> QED
      BY <2>1, <3>1, <3>3
  <2> HIDE DEF T
  <2>4. m \in Starts(R)
    BY <2>2, <2>3 DEF Starts
  <2>5. k <= e(m)
    <3>1. e(m) \in R /\ e(m) + 1 \notin R /\ e(m) >= m
      BY <1>1, <2>2
    <3>2. e(m) + 1 \notin m .. k
      BY <2>2, <3>1
    <3>3. e(m) \in Int /\ m \in Int /\ k \in Int
      BY <1>0, <2>2
    <3> QED
      BY <3>1, <3>2, <3>3
  <2>6. k \in m .. e(m)
    <3>1. e(m) \in R
      BY <1>1, <2>2
    <3> QED
      BY <2>2, <2>5, <3>1
  <2> QED
    BY <2>4, <2>6
<1> QED
  BY <1>3, <1>4 DEF e

(* A run's probability is read off the tails it lies between.               *)
LEMMA RunIsWays ==
  ASSUME NEW n \in Nat, NEW p \in Fractions, NEW i \in 0 .. n, NEW k \in 0 .. n, i <= k
  PROVE  RunPower(i, k, n, p) = Ways(i .. k, n, p)
<1>1. CASE i = 0
  BY <1>1, TailsAreExact DEF RunPower
<1>2. CASE i > 0 /\ k = n
  BY <1>2, TailsAreExact DEF RunPower
<1>3. CASE i > 0 /\ k # n
  <2>1. k + 1 \in 0 .. n
    BY <1>3
  <2>2. RunPower(i, k, n, p) = Ways(i .. n, n, p) - Ways(k + 1 .. n, n, p)
    BY <1>3, <2>1, TailsAreExact DEF RunPower
  <2> DEFINE A == i .. k
             B == k + 1 .. n
  <2>3. i .. n = A \cup B /\ A \cap B = {}
    OBVIOUS
  <2> HIDE DEF A, B
  <2>4. Ways(A \cup B, n, p) = Ways(A, n, p) + Ways(B, n, p)
    BY <2>3, WaysAdd
  <2>5. Ways(A, n, p) \in Nat /\ Ways(B, n, p) \in Nat
    BY WaysFinite
  <2>6. Ways(i .. n, n, p) = Ways(A, n, p) + Ways(B, n, p)
    BY <2>3, <2>4, Zenon
  <2> QED
    BY <2>2, <2>5, <2>6 DEF A, B
<1> QED
  BY <1>1, <1>2, <1>3

(* "P(X in region)" (power.py:96): the power that is summed from the tails  *)
(* of the runs of a set of counts is the number of outcomes that have one   *)
(* of them, whatever the set.                                               *)
THEOREM PowersAreExact ==
  ASSUME NEW n \in Nat, NEW p \in Fractions, NEW counts \in SUBSET (0 .. n)
  PROVE  RegionPower(counts, n, p) = Ways(counts, n, p)
<1> DEFINE S == Starts(counts)
           P(i) == RunPower(i, RunEnd(counts, i), n, p)
           f == [i \in S |-> P(i)]
           D == [i \in S |-> {o \in Outcomes(n, p) : Successes(o, p) \in i .. RunEnd(counts, i)}]
<1>1. S \in SUBSET (0 .. n) /\ IsFiniteSet(S) /\ S \in SUBSET counts
  <2>1. S \in SUBSET (0 .. n) /\ S \in SUBSET counts
    BY DEF Starts
  <2>2. IsFiniteSet(0 .. n)
    BY FS_Interval
  <2> HIDE DEF S
  <2> QED
    BY <2>1, <2>2, FS_Subset
<1>2. ASSUME NEW i \in S PROVE IsFiniteSet(D[i]) /\ f[i] = Cardinality(D[i])
  <2> DEFINE e == RunEnd(counts, i)
  <2>1. i \in counts
    BY <1>1
  <2>2. e \in counts /\ e >= i
    BY <2>1, RunsEnd
  <2>3. i \in 0 .. n /\ e \in 0 .. n /\ i <= e
    BY <2>1, <2>2
  <2>4. P(i) = Ways(i .. e, n, p)
    <3> HIDE DEF e
    <3>1. RunPower(i, e, n, p) = Ways(i .. e, n, p)
      BY <2>3, RunIsWays
    <3> QED
      BY <3>1 DEF e
  <2>5. IsFiniteSet(D[i]) /\ Ways(i .. e, n, p) = Cardinality(D[i])
    BY WaysFinite DEF Ways
  <2> QED
    BY <2>4, <2>5
<1>3. ASSUME NEW i \in S, NEW j \in S, i # j PROVE D[i] \cap D[j] = {}
  <2>1. (i .. RunEnd(counts, i)) \cap (j .. RunEnd(counts, j)) = {}
    BY <1>3, RunsPart
  <2> QED
    BY <2>1
<1>4. AllOf(D, S) = {o \in Outcomes(n, p) : Successes(o, p) \in counts}
  <2>1. \A i \in S : i .. RunEnd(counts, i) \subseteq counts
    BY <1>1, RunsEnd
  <2>2. \A k \in counts : \E i \in S : k \in i .. RunEnd(counts, i)
    BY RunsPart
  <2>3. ASSUME NEW o \in AllOf(D, S) PROVE o \in Outcomes(n, p) /\ Successes(o, p) \in counts
    BY <2>1 DEF AllOf
  <2>4. ASSUME NEW o \in Outcomes(n, p), Successes(o, p) \in counts PROVE o \in AllOf(D, S)
    <3>1. PICK i \in S : Successes(o, p) \in i .. RunEnd(counts, i)
      BY <2>2, <2>4
    <3> QED
      BY <3>1 DEF AllOf
  <2> QED
    BY <2>3, <2>4
<1> DEFINE Right(h) == h = [s \in SUBSET S |-> IF s = {} THEN 0 ELSE P(Pick(s)) + h[s \ {Pick(s)}]]
           g == CHOOSE h : Right(h)
<1>5. \A h : Right(h) <=> SumsBy(h, f, S)
  <2> HIDE DEF P, S
  <2>1. \A s \in SUBSET S : s # {} => f[Pick(s)] = P(Pick(s))
    BY DEF Pick
  <2> HIDE DEF f
  <2>2. \A h : [s \in SUBSET S |-> IF s = {} THEN 0 ELSE P(Pick(s)) + h[s \ {Pick(s)}]]
             = [s \in SUBSET S |-> IF s = {} THEN 0 ELSE f[Pick(s)] + h[s \ {Pick(s)}]]
    BY <2>1
  <2> QED
    BY <2>2 DEF SumsBy
<1>6. RegionPower(counts, n, p) = g[S]
  BY Zenon DEF RegionPower, MapThenSumSet, MapThenFoldSet, Pick, Starts
<1> HIDE DEF S, D, f, Right
<1>7. SumsBy(Sizes(D, S), f, S) /\ \A h : SumsBy(h, f, S) => h[S] = Cardinality(AllOf(D, S))
  BY <1>1, <1>2, <1>3, SizesSum, Zenon
<1>8. Right(g)
  BY <1>5, <1>7, Zenon
<1>9. g[S] = Cardinality(AllOf(D, S))
  BY <1>5, <1>7, <1>8, Zenon
<1> QED
  BY <1>4, <1>6, <1>9 DEF Ways

-----------------------------------------------------------------------------
(* One effect further out: a tail *)

(* The greater of two numbers stays so, times a natural number.             *)
LEMMA TimesMore ==
  ASSUME NEW x \in Int, NEW y \in Int, NEW z \in Nat, x <= y
  PROVE  z * x <= z * y
<1>1. z * (y - x) \in Nat
  OBVIOUS
<1>2. z * (y - x) = z * y - z * x
  OBVIOUS
<1> QED
  BY <1>1, <1>2

(* A turn with a in d for it weighs X less than one with b in f does, if    *)
(* a / d is at most b / f and X is at least Y.                              *)
LEMMA TurnMore ==
  ASSUME NEW a \in Nat, NEW d \in Nat, NEW b \in Nat, NEW f \in Nat, a * f <= b * d,
         NEW X \in Int, NEW Y \in Int, Y <= X
  PROVE  f * (a * X + (d - a) * Y) <= d * (b * X + (f - b) * Y)
<1> DEFINE z == X - Y
<1>1. z \in Nat
  OBVIOUS
<1>2. z * (a * f) <= z * (b * d)
  BY <1>1, TimesMore
<1>3. f * (a * X + (d - a) * Y) = z * (a * f) + (d * f) * Y
  OBVIOUS
<1>4. d * (b * X + (f - b) * Y) = z * (b * d) + (d * f) * Y
  OBVIOUS
<1> HIDE DEF z
<1>5. z * (a * f) \in Int /\ z * (b * d) \in Int /\ (d * f) * Y \in Int
  BY <1>1
<1> QED
  BY <1>2, <1>3, <1>4, <1>5

Likelier(p, r) == p.num * r.den <= r.num * p.den

(* The chance of k successes or more grows with the chance of one.          *)
LEMMA AboveGrows ==
  ASSUME NEW p \in Fractions, NEW r \in Fractions, Likelier(p, r), NEW n \in Nat, NEW k \in Int
  PROVE  Raise(r.den, n) * Above(n, k, p) <= Raise(p.den, n) * Above(n, k, r)
<1> DEFINE a == p.num
           d == p.den
           b == r.num
           f == r.den
           Grow(m, j) == Raise(f, m) * Above(m, j, p) <= Raise(d, m) * Above(m, j, r)
           T == {m \in Nat : \A j \in Int : Grow(m, j)}
<1>1. a \in Nat /\ d \in Nat /\ b \in Nat /\ f \in Nat /\ a * f <= b * d
  BY FractionParts DEF Likelier
<1>2. 0 \in T
  <2>1. Raise(d, 0) = 1 /\ Raise(f, 0) = 1
    <3>1. d \in Int /\ f \in Int
      BY <1>1
    <3> HIDE DEF d, f
    <3> QED
      BY <3>1, RaiseSteps
  <2>2. \A j \in Int : Above(0, j, p) = Above(0, j, r) /\ Above(0, j, r) \in Nat
    <3>1. \A j \in Int : Above(0, j, p) = IF j <= 0 THEN 1 ELSE 0
      BY AboveSteps
    <3>2. \A j \in Int : Above(0, j, r) = IF j <= 0 THEN 1 ELSE 0
      BY AboveSteps
    <3> QED
      BY <3>1, <3>2
  <2> HIDE DEF d, f
  <2> QED
    BY <2>1, <2>2
<1>3. ASSUME NEW m \in T, NEW j \in Int PROVE Grow(m + 1, j)
  <2> DEFINE x == Above(m, j - 1, p)
             y == Above(m, j, p)
             X == Above(m, j - 1, r)
             Y == Above(m, j, r)
             D == Raise(d, m)
             E == Raise(f, m)
  <2>1. m \in Nat /\ j - 1 \in Int /\ j - 1 + 1 = j
    OBVIOUS
  <2>2. x \in Nat /\ y \in Nat /\ X \in Nat /\ Y \in Nat /\ Y <= X
    <3>1. Above(m, j - 1 + 1, r) <= Above(m, j - 1, r)
      BY <2>1, AboveSteps
    <3> QED
      BY <2>1, <3>1, AboveSteps
  <2>3. Above(m + 1, j, p) = a * x + (d - a) * y /\ Above(m + 1, j, r) = b * X + (f - b) * Y
    BY <2>1, AboveSteps
  <2>4. D \in Nat /\ E \in Nat /\ Raise(d, m + 1) = D * d /\ Raise(f, m + 1) = E * f
    <3>1. d \in Int /\ f \in Int /\ m \in Nat
      BY <1>1
    <3> HIDE DEF d, f
    <3> QED
      BY <1>1, <3>1, RaiseSteps, RaiseNat
  <2>5. E * x <= D * X /\ E * y <= D * Y
    BY <1>3, <2>1
  <2>6. d - a \in Nat
    BY FractionParts
  <2> HIDE DEF x, y, X, Y, D, E, a, b, d, f
  <2>7. f * (a * X + (d - a) * Y) <= d * (b * X + (f - b) * Y)
    BY <1>1, <2>2, TurnMore
  <2>8. a * (E * x) <= a * (D * X) /\ (d - a) * (E * y) <= (d - a) * (D * Y)
    <3>1. E * x \in Int /\ D * X \in Int /\ E * y \in Int /\ D * Y \in Int
      BY <2>2, <2>4
    <3> QED
      BY <1>1, <2>5, <2>6, <3>1, TimesMore
  <2> DEFINE q == d - a
             s == f - b
  <2>9. q \in Nat /\ s \in Int
    BY <1>1, <2>6
  <2> HIDE DEF q, s
  <2>10. E * (a * x + q * y) <= D * (a * X + q * Y)
    <3>1. E * (a * x + q * y) = a * (E * x) + q * (E * y)
      BY <1>1, <2>2, <2>4, <2>9
    <3>2. D * (a * X + q * Y) = a * (D * X) + q * (D * Y)
      BY <1>1, <2>2, <2>4, <2>9
    <3>3. /\ a * (E * x) \in Int /\ q * (E * y) \in Int
          /\ a * (D * X) \in Int /\ q * (D * Y) \in Int
      BY <1>1, <2>2, <2>4, <2>9
    <3> QED
      BY <2>8, <3>1, <3>2, <3>3 DEF q
  <2> DEFINE u == a * x + q * y
             v == a * X + q * Y
             w == b * X + s * Y
  <2>11. u \in Int /\ v \in Int /\ w \in Int
    BY <1>1, <2>2, <2>9
  <2>12. E * u <= D * v /\ f * v <= d * w
    BY <2>7, <2>10 DEF q, s
  <2> HIDE DEF u, v, w
  <2>13. f * (E * u) <= f * (D * v) /\ D * (f * v) <= D * (d * w)
    <3>1. E * u \in Int /\ D * v \in Int /\ f * v \in Int /\ d * w \in Int
      BY <1>1, <2>4, <2>11
    <3> QED
      BY <1>1, <2>4, <2>12, <3>1, TimesMore
  <2>14. (E * f) * u <= (D * d) * w
    <3>1. (E * f) * u = f * (E * u) /\ (D * d) * w = D * (d * w) /\ f * (D * v) = D * (f * v)
      BY <1>1, <2>4, <2>11
    <3>2. f * (E * u) \in Int /\ D * (f * v) \in Int /\ D * (d * w) \in Int
      BY <1>1, <2>4, <2>11
    <3> QED
      BY <2>13, <3>1, <3>2
  <2> QED
    BY <2>3, <2>4, <2>14 DEF u, w, q, s, a, b, d, f
<1>4. T = Nat
  <2>1. T \in SUBSET Nat /\ \A m \in T : m + 1 \in T
    <3> HIDE DEF Grow
    <3> QED
      BY <1>3
  <2> HIDE DEF T
  <2> QED
    BY <1>2, <2>1, Induction
<1> QED
  BY <1>4

-----------------------------------------------------------------------------
(* One effect further out: two mirrored tails                               *)
(* What is left between two mirrored tails loses weight as the chance of    *)
(* success moves up from 1/2.  Trials are taken one at a time, some with    *)
(* the smaller chance and some with the larger: a row holds the tails from  *)
(* each count up, and leans if its upper half is the heavier.               *)

Rows == [Int -> Int]

Turned(V, a, q) == [k \in Int |-> a * V[k - 1] + q * V[k]]

(* The rows that follow V, one trial a row. *)
RowsFrom(F, V, a, q) ==
  F \in [Nat -> Rows] /\ F[0] = V /\ \A n \in Nat : F[n + 1] = Turned(F[n], a, q)

Mass(V, j) == V[j] - V[j + 1]

Leans(V, m) ==
  /\ \A j \in Int : Mass(V, j) >= 0
  /\ \A j \in Int : 2 * j <= m => Mass(V, m - j) >= Mass(V, j) /\ Mass(V, j) >= Mass(V, j - 1)

(* One trial more.                                                          *)
LEMMA TurnedType ==
  ASSUME NEW V \in Rows, NEW a \in Nat, NEW q \in Nat
  PROVE  /\ Turned(V, a, q) \in Rows
         /\ \A j \in Int : Turned(V, a, q)[j] = a * V[j - 1] + q * V[j]
         /\ \A j \in Int : Mass(V, j) \in Int /\ Mass(Turned(V, a, q), j) = a * Mass(V, j - 1) + q * Mass(V, j)
<1> DEFINE T == Turned(V, a, q)
<1>0. \A j \in Int : V[j] \in Int
  BY DEF Rows
<1>1. \A j \in Int : T[j] = a * V[j - 1] + q * V[j]
  BY DEF Turned
<1>2. \A j \in Int : a * V[j - 1] + q * V[j] \in Int
  <2> SUFFICES ASSUME NEW j \in Int PROVE a * V[j - 1] + q * V[j] \in Int
    OBVIOUS
  <2>1. V[j - 1] \in Int /\ V[j] \in Int
    BY <1>0
  <2> QED
    BY <2>1
<1>3. T \in Rows
  BY <1>2 DEF Turned, Rows
<1> HIDE DEF T
<1>4. ASSUME NEW j \in Int PROVE Mass(V, j) \in Int /\ Mass(T, j) = a * Mass(V, j - 1) + q * Mass(V, j)
  <2> DEFINE x == V[j - 1]
             y == V[j]
             z == V[j + 1]
  <2>1. x \in Int /\ y \in Int /\ z \in Int
    BY <1>0
  <2>2. T[j] = a * x + q * y /\ T[j + 1] = a * y + q * z
    <3>1. j + 1 \in Int /\ j + 1 - 1 = j
      OBVIOUS
    <3> QED
      BY <1>1, <3>1
  <2>3. Mass(V, j) = y - z /\ Mass(V, j - 1) = x - y /\ Mass(T, j) = T[j] - T[j + 1]
    <3>1. j - 1 + 1 = j
      OBVIOUS
    <3> QED
      BY <3>1 DEF Mass
  <2> HIDE DEF x, y, z
  <2>4. (a * x + q * y) - (a * y + q * z) = a * (x - y) + q * (y - z)
    BY <2>1
  <2> QED
    BY <2>1, <2>2, <2>3, <2>4
<1> QED
  BY <1>1, <1>3, <1>4 DEF T

(* A trial that is as likely to succeed as not keeps a row leaning.         *)
LEMMA TurnedLeans ==
  ASSUME NEW V \in Rows, NEW m \in Nat, Leans(V, m), NEW a \in Nat, NEW q \in Nat, q <= a
  PROVE  Leans(Turned(V, a, q), m + 1)
<1> DEFINE w(j) == Mass(V, j)
           t(j) == Mass(Turned(V, a, q), j)
<1>1. \A j \in Int : w(j) \in Int /\ t(j) = a * w(j - 1) + q * w(j)
  BY TurnedType
<1>2. \A j \in Int : w(j) >= 0
  BY DEF Leans
<1>3. \A j \in Int : 2 * j <= m => w(m - j) >= w(j) /\ w(j) >= w(j - 1)
  BY DEF Leans
<1> HIDE DEF w, t
<1>4. ASSUME NEW j \in Int PROVE t(j) >= 0
  <2>1. w(j - 1) \in Nat /\ w(j) \in Nat
    BY <1>1, <1>2
  <2>2. a * w(j - 1) \in Nat /\ q * w(j) \in Nat
    BY <2>1
  <2> QED
    BY <1>1, <2>2
<1>5. ASSUME NEW j \in Int, 2 * j <= m + 1 PROVE t(m + 1 - j) >= t(j)
  <2>1. CASE 2 * j = m + 1
    <3>1. m + 1 - j = j
      BY <2>1
    <3>2. t(j) \in Int
      <4>1. w(j - 1) \in Int /\ w(j) \in Int
        BY <1>1
      <4> QED
        BY <1>1, <4>1
    <3> QED
      BY <3>1, <3>2
  <2>2. CASE 2 * j <= m
    <3> DEFINE x == w(m - j)
               y == w(m - (j - 1))
               u == w(j)
               v == w(j - 1)
    <3>1. x \in Int /\ y \in Int /\ u \in Int /\ v \in Int
      BY <1>1
    <3>2. x >= u /\ u >= v /\ y >= v
      <4>1. j - 1 \in Int /\ 2 * (j - 1) <= m
        BY <2>2
      <4> QED
        BY <1>3, <2>2, <4>1
    <3>3. t(j) = a * v + q * u /\ t(m + 1 - j) = a * x + q * y
      <4>1. m + 1 - j \in Int /\ m + 1 - j - 1 = m - j /\ m + 1 - j = m - (j - 1)
        OBVIOUS
      <4>2. t(m + 1 - j) = a * w(m + 1 - j - 1) + q * w(m + 1 - j)
        BY <1>1, <4>1
      <4> QED
        BY <1>1, <4>1, <4>2
    <3> HIDE DEF x, y, u, v
    <3>4. a * u <= a * x /\ q * v <= q * y
      BY <3>1, <3>2, TimesMore
    <3>5. q * (u - v) <= a * (u - v)
      <4>1. u - v \in Nat
        BY <3>1, <3>2
      <4> DEFINE z == u - v
      <4> HIDE DEF z
      <4>2. z * q <= z * a
        BY <4>1, TimesMore DEF z
      <4>3. z * q = q * z /\ z * a = a * z
        BY <4>1 DEF z
      <4> QED
        BY <4>2, <4>3 DEF z
    <3>6. q * (u - v) = q * u - q * v /\ a * (u - v) = a * u - a * v
      BY <3>1
    <3>7. /\ a * u \in Int /\ a * x \in Int /\ a * v \in Int
          /\ q * v \in Int /\ q * y \in Int /\ q * u \in Int
      BY <3>1
    <3> QED
      BY <3>3, <3>4, <3>5, <3>6, <3>7
  <2> QED
    BY <1>5, <2>1, <2>2
<1>6. ASSUME NEW j \in Int, 2 * j <= m + 1 PROVE t(j) >= t(j - 1)
  <2> DEFINE u == w(j)
             v == w(j - 1)
             x == w(j - 1 - 1)
  <2>1. u \in Int /\ v \in Int /\ x \in Int
    BY <1>1
  <2>2. j - 1 \in Int /\ 2 * (j - 1) <= m
    BY <1>6
  <2>3. v >= x
    BY <1>3, <2>2
  <2>4. u >= v
    <3>1. CASE 2 * j = m + 1
      <4>1. m - (j - 1) = j
        BY <3>1
      <4> QED
        BY <1>3, <2>2, <4>1
    <3>2. CASE 2 * j <= m
      BY <1>3, <3>2
    <3> QED
      BY <1>6, <3>1, <3>2
  <2>5. t(j) = a * v + q * u /\ t(j - 1) = a * x + q * v
    BY <1>1, <2>2
  <2> HIDE DEF u, v, x
  <2>6. a * x <= a * v /\ q * v <= q * u
    BY <2>1, <2>3, <2>4, TimesMore
  <2>7. a * x \in Int /\ a * v \in Int /\ q * v \in Int /\ q * u \in Int
    BY <2>1
  <2> QED
    BY <2>5, <2>6, <2>7
<1> QED
  BY <1>4, <1>5, <1>6 DEF Leans, t

(* A trial of each kind, either first, comes to the same.                   *)
LEMMA TurnsCommute ==
  ASSUME NEW V \in Rows, NEW a \in Nat, NEW q \in Nat, NEW b \in Nat, NEW s \in Nat
  PROVE  Turned(Turned(V, a, q), b, s) = Turned(Turned(V, b, s), a, q)
<1> DEFINE A == Turned(V, a, q)
           B == Turned(V, b, s)
<1>1. ASSUME NEW j \in Int PROVE b * A[j - 1] + s * A[j] = a * B[j - 1] + q * B[j]
  <2> DEFINE x == V[j - 1 - 1]
             y == V[j - 1]
             z == V[j]
  <2>1. x \in Int /\ y \in Int /\ z \in Int
    BY DEF Rows
  <2>2. /\ A[j - 1] = a * x + q * y /\ A[j] = a * y + q * z
        /\ B[j - 1] = b * x + s * y /\ B[j] = b * y + s * z
    <3>1. j - 1 \in Int
      OBVIOUS
    <3>2. \A i \in Int : A[i] = a * V[i - 1] + q * V[i]
      BY TurnedType
    <3>3. \A i \in Int : B[i] = b * V[i - 1] + s * V[i]
      BY TurnedType
    <3> HIDE DEF A, B
    <3> QED
      BY <3>1, <3>2, <3>3
  <2> HIDE DEF x, y, z, A, B
  <2>3. b * (a * x + q * y) + s * (a * y + q * z) = a * (b * x + s * y) + q * (b * y + s * z)
    BY <2>1
  <2> QED
    BY <2>2, <2>3
<1> HIDE DEF A, B
<1>2. Turned(A, b, s) = Turned(B, a, q)
  BY <1>1 DEF Turned
<1> QED
  BY <1>2 DEF A, B

(* One trial with the larger chance for one with the smaller.               *)
LEMMA BandTurns ==
  ASSUME NEW W \in Rows, NEW m \in Nat, Leans(W, m), NEW c \in Int, 2 * (c - 1) <= m,
         NEW a \in Nat, NEW q \in Nat, NEW b \in Nat, NEW s \in Nat, a * (b + s) <= b * (a + q)
  PROVE  LET A == Turned(W, a, q)
             B == Turned(W, b, s)
         IN  (b + s) * (A[m + 2 - c] - A[c]) <= (a + q) * (B[m + 2 - c] - B[c])
<1> DEFINE A == Turned(W, a, q)
           B == Turned(W, b, s)
           e == m + 2 - c
           x == W[c - 1]
           y == W[c]
           u == W[e - 1]
           v == W[e]
           X == u - x
           Y == v - y
<1>1. x \in Int /\ y \in Int /\ u \in Int /\ v \in Int
  BY DEF Rows
<1>2. u - v >= x - y
  <2>1. Mass(W, m - (c - 1)) >= Mass(W, c - 1)
    BY DEF Leans
  <2>2. m - (c - 1) = e - 1 /\ e - 1 + 1 = e /\ c - 1 + 1 = c
    OBVIOUS
  <2>3. Mass(W, e - 1) = u - v
    BY <2>2 DEF Mass
  <2>4. Mass(W, c - 1) = x - y
    BY <2>2 DEF Mass
  <2>5. Mass(W, e - 1) >= Mass(W, c - 1)
    BY <2>1, <2>2
  <2> QED
    BY <2>3, <2>4, <2>5
<1>3. A[e] = a * u + q * v /\ A[c] = a * x + q * y /\ B[e] = b * u + s * v /\ B[c] = b * x + s * y
  <2>1. e \in Int
    OBVIOUS
  <2>2. \A i \in Int : A[i] = a * W[i - 1] + q * W[i]
    BY TurnedType
  <2>3. \A i \in Int : B[i] = b * W[i - 1] + s * W[i]
    BY TurnedType
  <2> HIDE DEF e, A, B
  <2> QED
    BY <2>1, <2>2, <2>3
<1> HIDE DEF A, B, e, x, y, u, v
<1>4. A[e] - A[c] = a * X + q * Y /\ B[e] - B[c] = b * X + s * Y
  BY <1>1, <1>3
<1>5. X \in Int /\ Y \in Int /\ Y <= X
  BY <1>1, <1>2
<1> HIDE DEF X, Y
<1> DEFINE d == a + q
           f == b + s
<1>6. d \in Nat /\ f \in Nat /\ d - a = q /\ f - b = s /\ a * f <= b * d
  OBVIOUS
<1> HIDE DEF d, f
<1>7. f * (a * X + q * Y) <= d * (b * X + s * Y)
  <2>1. f * (a * X + (d - a) * Y) <= d * (b * X + (f - b) * Y)
    BY <1>5, <1>6, TurnMore
  <2> QED
    BY <1>6, <2>1
<1> QED
  BY <1>4, <1>7 DEF A, B, e, d, f

(* Rows lean on for as long as trials are added.                            *)
LEMMA RowsLean ==
  ASSUME NEW V \in Rows, NEW m \in Nat, Leans(V, m), NEW a \in Nat, NEW q \in Nat, q <= a,
         NEW F, RowsFrom(F, V, a, q), NEW n \in Nat
  PROVE  F[n] \in Rows /\ Leans(F[n], m + n)
<1> DEFINE T == {i \in Nat : Leans(F[i], m + i)}
<1>1. F \in [Nat -> Rows] /\ F[0] = V /\ \A i \in Nat : F[i + 1] = Turned(F[i], a, q)
  BY DEF RowsFrom
<1>2. 0 \in T
  BY <1>1
<1>3. ASSUME NEW i \in T PROVE i + 1 \in T
  <2>1. F[i] \in Rows /\ m + i \in Nat /\ Leans(F[i], m + i)
    BY <1>1
  <2>2. Leans(Turned(F[i], a, q), m + i + 1)
    BY <2>1, TurnedLeans
  <2>3. m + (i + 1) = m + i + 1
    OBVIOUS
  <2> QED
    BY <1>1, <2>2, <2>3
<1>4. T = Nat
  <2>1. T \in SUBSET Nat
    OBVIOUS
  <2> HIDE DEF T
  <2> QED
    BY <1>2, <1>3, <2>1, Induction
<1> QED
  BY <1>1, <1>4

(* All the trials with the larger chance for all with the smaller, one by   *)
(* one: what is between two mirrored tails shrinks.                         *)
LEMMA BandShrinks ==
  ASSUME NEW a \in Nat, NEW q \in Nat, q <= a, NEW b \in Nat, NEW s \in Nat, s <= b,
         a * (b + s) <= b * (a + q)
  PROVE  \A n \in Nat, V \in Rows, m \in Nat, c \in Int : \A F, G :
           Leans(V, m) /\ 2 * c <= m + n + 1 /\ RowsFrom(F, V, a, q) /\ RowsFrom(G, V, b, s) =>
             Raise(b + s, n) * (F[n][m + n + 1 - c] - F[n][c])
               <= Raise(a + q, n) * (G[n][m + n + 1 - c] - G[n][c])
<1> DEFINE d == a + q
           f == b + s
           Shrink(n, m, c, F, G) == Raise(f, n) * (F[n][m + n + 1 - c] - F[n][c])
                                      <= Raise(d, n) * (G[n][m + n + 1 - c] - G[n][c])
           From(n, V, m, c, F, G) ==
             Leans(V, m) /\ 2 * c <= m + n + 1 /\ RowsFrom(F, V, a, q) /\ RowsFrom(G, V, b, s)
           T == {n \in Nat : \A V \in Rows, m \in Nat, c \in Int : \A F, G :
                               From(n, V, m, c, F, G) => Shrink(n, m, c, F, G)}
<1>0. d \in Nat /\ f \in Nat /\ d \in Int /\ f \in Int
  OBVIOUS
<1>1. 0 \in T
  <2> SUFFICES ASSUME NEW V \in Rows, NEW m \in Nat, NEW c \in Int, NEW F, NEW G, From(0, V, m, c, F, G)
               PROVE  Shrink(0, m, c, F, G)
    OBVIOUS
  <2>1. F[0] = V /\ G[0] = V
    BY DEF RowsFrom
  <2>2. Raise(d, 0) = 1 /\ Raise(f, 0) = 1
    <3> HIDE DEF d, f
    <3> QED
      BY <1>0, RaiseSteps
  <2>3. V[m + 0 + 1 - c] \in Int /\ V[c] \in Int
    BY DEF Rows
  <2> HIDE DEF d, f
  <2> QED
    BY <2>1, <2>2, <2>3
<1>2. ASSUME NEW n \in T, NEW V \in Rows, NEW m \in Nat, NEW c \in Int, NEW F, NEW G,
             From(n + 1, V, m, c, F, G)
      PROVE  Shrink(n + 1, m, c, F, G)
  <2> DEFINE B == Turned(V, b, s)
             H == [i \in Nat |-> Turned(F[i], b, s)]
             K == [i \in Nat |-> G[i + 1]]
             e == m + n + 2 - c
  <2>1. F \in [Nat -> Rows] /\ F[0] = V /\ \A i \in Nat : F[i + 1] = Turned(F[i], a, q)
    BY <1>2 DEF RowsFrom
  <2>2. G \in [Nat -> Rows] /\ G[0] = V /\ \A i \in Nat : G[i + 1] = Turned(G[i], b, s)
    BY <1>2 DEF RowsFrom
  <2>3. B \in Rows /\ Leans(B, m + 1)
    BY <1>2, TurnedType, TurnedLeans
  <2>4. RowsFrom(H, B, a, q)
    <3>1. \A i \in Nat : F[i] \in Rows
      BY <2>1
    <3>2. H \in [Nat -> Rows]
      BY <3>1, TurnedType
    <3>3. H[0] = B
      BY <2>1
    <3>4. ASSUME NEW i \in Nat PROVE H[i + 1] = Turned(H[i], a, q)
      <4>0. i + 1 \in Nat
        OBVIOUS
      <4>1. H[i + 1] = Turned(Turned(F[i], a, q), b, s) /\ H[i] = Turned(F[i], b, s)
        BY <2>1, <4>0
      <4> QED
        BY <3>1, <4>1, TurnsCommute
    <3> HIDE DEF H, B
    <3> QED
      BY <3>2, <3>3, <3>4 DEF RowsFrom
  <2>5. RowsFrom(K, B, b, s)
    <3>0. K \in [Nat -> Rows]
      BY <2>2
    <3>2. K[0] = B
      BY <2>2
    <3>3. ASSUME NEW i \in Nat PROVE K[i + 1] = Turned(K[i], b, s)
      <4>1. i + 1 \in Nat /\ K[i] = G[i + 1] /\ K[i + 1] = G[i + 1 + 1]
        OBVIOUS
      <4> HIDE DEF K
      <4> QED
        BY <2>2, <4>1
    <3>1. K \in [Nat -> Rows] /\ K[0] = B /\ \A i \in Nat : K[i + 1] = Turned(K[i], b, s)
      BY <3>0, <3>2, <3>3
    <3> HIDE DEF K, B
    <3> QED
      BY <3>1 DEF RowsFrom
  <2>6. m + 1 \in Nat /\ 2 * c <= (m + 1) + n + 1 /\ (m + 1) + n + 1 - c = e /\ m + (n + 1) + 1 - c = e
    BY <1>2
  <2>7. Raise(f, n) * (H[n][e] - H[n][c]) <= Raise(d, n) * (K[n][e] - K[n][c])
    <3> HIDE DEF B, H, K, e
    <3>1. From(n, B, m + 1, c, H, K)
      BY <2>3, <2>4, <2>5, <2>6
    <3>2. Shrink(n, m + 1, c, H, K)
      <4> HIDE DEF From, Shrink
      <4> QED
        BY <2>3, <2>6, <3>1
    <3> QED
      BY <2>6, <3>2
  <2>8. f * (F[n + 1][e] - F[n + 1][c]) <= d * (H[n][e] - H[n][c])
    <3> DEFINE W == F[n]
    <3>1. W \in Rows /\ Leans(W, m + n) /\ m + n \in Nat /\ n \in Nat
      BY <1>2, RowsLean
    <3>2. 2 * (c - 1) <= m + n /\ m + n + 2 - c = e
      BY <1>2
    <3>3. F[n + 1] = Turned(W, a, q) /\ H[n] = Turned(W, b, s)
      BY <2>1, <3>1
    <3> HIDE DEF W, H, e
    <3>4. (b + s) * (Turned(W, a, q)[m + n + 2 - c] - Turned(W, a, q)[c])
            <= (a + q) * (Turned(W, b, s)[m + n + 2 - c] - Turned(W, b, s)[c])
      BY <3>1, <3>2, BandTurns
    <3> QED
      BY <3>2, <3>3, <3>4
  <2> DEFINE x == F[n + 1][e] - F[n + 1][c]
             y == H[n][e] - H[n][c]
             z == K[n][e] - K[n][c]
             D == Raise(d, n)
             E == Raise(f, n)
  <2>9. x \in Int /\ y \in Int /\ z \in Int
    <3>1. n \in Nat /\ n + 1 \in Nat /\ e \in Int
      OBVIOUS
    <3>2. F[n + 1] \in Rows /\ H[n] \in Rows /\ K[n] \in Rows
      BY <2>1, <2>4, <2>5, <3>1 DEF RowsFrom
    <3> HIDE DEF H, K, e
    <3> QED
      BY <3>1, <3>2 DEF Rows
  <2>10. D \in Nat /\ E \in Nat /\ Raise(d, n + 1) = D * d /\ Raise(f, n + 1) = E * f
    <3> HIDE DEF d, f
    <3> QED
      BY <1>0, RaiseSteps, RaiseNat
  <2>11. K[n] = G[n + 1]
    OBVIOUS
  <2>12. Shrink(n + 1, m, c, F, G) <=> (E * f) * x <= (D * d) * z
    <3> HIDE DEF e, K, d, f
    <3> QED
      BY <2>6, <2>10, <2>11
  <2>13. E * y <= D * z /\ f * x <= d * y
    BY <2>7, <2>8
  <2> HIDE DEF x, y, z, D, E, d, f, Shrink
  <2>14. d * (E * y) <= d * (D * z) /\ E * (f * x) <= E * (d * y)
    <3>1. E * y \in Int /\ D * z \in Int /\ f * x \in Int /\ d * y \in Int
      BY <1>0, <2>9, <2>10
    <3> QED
      BY <1>0, <2>10, <2>13, <3>1, TimesMore
  <2>15. (E * f) * x <= (D * d) * z
    <3>1. (E * f) * x = E * (f * x) /\ (D * d) * z = d * (D * z) /\ E * (d * y) = d * (E * y)
      BY <1>0, <2>9, <2>10
    <3>2. E * (f * x) \in Int /\ d * (D * z) \in Int /\ d * (E * y) \in Int
      BY <1>0, <2>9, <2>10
    <3> QED
      BY <2>14, <3>1, <3>2
  <2> QED
    BY <2>12, <2>15
<1>3. T = Nat
  <2>1. T \in SUBSET Nat /\ \A n \in T : n + 1 \in T
    <3> HIDE DEF From, Shrink
    <3> QED
      BY <1>2
  <2> HIDE DEF T
  <2> QED
    BY <1>1, <2>1, Induction
<1> QED
  <2> HIDE DEF From, Shrink
  <2>1. \A n \in Nat, V \in Rows, m \in Nat, c \in Int : \A F, G : From(n, V, m, c, F, G) => Shrink(n, m, c, F, G)
    BY <1>3
  <2> QED
    BY <2>1 DEF From, Shrink, d, f

-----------------------------------------------------------------------------
(* The grid of effects *)

(* A positive factor cancels.                                               *)
LEMMA Cancels ==
  ASSUME NEW x \in Int, NEW y \in Int, NEW z \in Nat \ {0}, z * x <= z * y
  PROVE  x <= y
<1> SUFFICES ASSUME y + 1 <= x PROVE FALSE
  OBVIOUS
<1>1. z * (y + 1) <= z * x
  BY TimesMore
<1>2. z * (y + 1) = z * y + z
  OBVIOUS
<1>3. z * x \in Int /\ z * y \in Int
  OBVIOUS
<1> QED
  BY <1>1, <1>2, <1>3

(* Division with a remainder, as Python's.                                  *)
LEMMA QuotientOf ==
  ASSUME NEW a \in Int, NEW g \in Nat \ {0}
  PROVE  /\ a \div g \in Int /\ a % g \in Int /\ 0 <= a % g /\ a % g < g
         /\ a = g * (a \div g) + (a % g)
<1>1. a \div g \in Int
  OBVIOUS
<1>2. a % g \in Int
  OBVIOUS
<1>3. 0 <= a % g
  OBVIOUS
<1>4. a % g < g
  OBVIOUS
<1>5. a = g * (a \div g) + (a % g)
  OBVIOUS
<1> QED
  BY <1>1, <1>2, <1>3, <1>4, <1>5

(* A fraction in lowest terms is the same fraction.                         *)
LEMMA LowestFraction ==
  ASSUME NEW b \in Nat \ {0}, NEW a \in 0 .. b
  PROVE  /\ Lowest(a, b) \in Fractions
         /\ Lowest(a, b).num * b = a * Lowest(a, b).den
<1> DEFINE S == {d \in 1 .. b : a % d = 0 /\ b % d = 0}
           g == Max(S)
           x == a \div g
           y == b \div g
<1>1. g \in S
  <2>1. 1 \in S
    <3>1. a % 1 = 0 /\ b % 1 = 0
      OBVIOUS
    <3> QED
      BY <3>1
  <2>2. S \in SUBSET (0 .. b) /\ b \in Nat
    OBVIOUS
  <2> HIDE DEF S
  <2>3. \E m \in S : \A k \in S : k <= m
    BY <2>1, <2>2, GreatestElement
  <2>4. \A k, m \in S : k <= m => m >= k
    BY <2>2
  <2>5. \E m \in S : \A k \in S : m >= k
    BY <2>3, <2>4
  <2> QED
    BY <2>5, Zenon DEF Max
<1>2. g \in Nat \ {0} /\ a % g = 0 /\ b % g = 0
  <2> HIDE DEF g
  <2> QED
    BY <1>1
<1>3. Lowest(a, b) = [num |-> x, den |-> y]
  BY DEF Lowest
<1> HIDE DEF g
<1>4. x \in Int /\ y \in Int /\ a = g * x /\ b = g * y
  <2>1. a \in Int /\ b \in Int
    OBVIOUS
  <2>2. a = g * x + (a % g) /\ b = g * y + (b % g) /\ x \in Int /\ y \in Int
    BY <1>2, <2>1, QuotientOf
  <2> HIDE DEF x, y
  <2>3. g * x \in Int /\ g * y \in Int
    BY <1>2, <2>2
  <2> QED
    BY <1>2, <2>2, <2>3
<1> HIDE DEF x, y
<1>5. x <= y /\ 0 <= x
  <2>1. g * x <= g * y /\ g * 0 <= g * x
    BY <1>2, <1>4
  <2> QED
    BY <1>2, <1>4, <2>1, Cancels
<1>6. y # 0
  <2> SUFFICES ASSUME y = 0 PROVE FALSE
    OBVIOUS
  <2>1. g * y = 0
    BY <1>2
  <2> QED
    BY <1>4, <2>1
<1>7. x * b = a * y
  BY <1>2, <1>4
<1> QED
  BY <1>3, <1>4, <1>5, <1>6, <1>7 DEF Fractions

(* The null's place among the multiples of 1 / GRID.                        *)
LEMMA GridFacts ==
  ASSUME NEW d \in Designs
  PROVE  /\ GridBase(d) \in 0 .. Grid /\ GridTop(d) \in 0 .. Grid
         /\ d.alternative = "two-sided" => Grid <= 2 * (GridBase(d) + 1)
<1> DEFINE u == d.null.num
           v == d.null.den
           x == u * Grid
<1>1. u \in Nat /\ v \in Nat \ {0} /\ u <= v /\ Grid \in Nat \ {0}
  <2>1. d.null \in Fractions
    BY DesignFacts
  <2> QED
    BY <2>1, GridAssumption DEF Fractions
<1> HIDE DEF u, v
<1>2. x \in Nat /\ x <= v * Grid
  <2>1. Grid * u <= Grid * v
    BY <1>1, TimesMore
  <2>2. Grid * u = u * Grid /\ Grid * v = v * Grid /\ u * Grid \in Nat
    BY <1>1
  <2> QED
    BY <2>1, <2>2
<1> HIDE DEF x
<1>3. x \div v \in 0 .. Grid
  <2> DEFINE y == x \div v
             r == x % v
  <2>1. y \in Int /\ r \in Int /\ 0 <= r /\ r < v /\ x = v * y + r
    BY <1>1, <1>2, QuotientOf
  <2> HIDE DEF y, r
  <2>2. v * y <= v * Grid /\ v * 0 <= v * (y + 1)
    <3>1. v * (y + 1) = v * y + v /\ v * y \in Int /\ v * Grid \in Int
      BY <1>1, <2>1
    <3> QED
      BY <1>1, <1>2, <2>1, <3>1
  <2>3. y <= Grid
    BY <1>1, <2>1, <2>2, Cancels
  <2>4. ~(y + 1 <= 0)
    <3> SUFFICES ASSUME y + 1 <= 0 PROVE FALSE
      OBVIOUS
    <3>1. v * (y + 1) <= v * 0
      BY <1>1, <2>1, TimesMore
    <3>2. v * (y + 1) = v * y + v /\ v * y \in Int
      BY <1>1, <2>1
    <3> QED
      BY <1>1, <1>2, <2>1, <3>1, <3>2
  <2> QED
    BY <1>1, <2>1, <2>3, <2>4 DEF y
<1>4. -((-x) \div v) \in 0 .. Grid
  <2> DEFINE y == (-x) \div v
             r == (-x) % v
  <2>1. -x \in Int
    BY <1>2
  <2>2. y \in Int /\ r \in Int /\ 0 <= r /\ r < v /\ -x = v * y + r
    BY <1>1, <2>1, QuotientOf
  <2> HIDE DEF y, r
  <2>3. v * y <= v * 0
    <3>1. v * y \in Int
      BY <1>1, <2>2
    <3> QED
      BY <1>1, <1>2, <2>2, <3>1
  <2>4. y <= 0
    BY <1>1, <2>2, <2>3, Cancels
  <2>5. ~(y <= -(Grid + 1))
    <3> SUFFICES ASSUME y <= -(Grid + 1) PROVE FALSE
      OBVIOUS
    <3>1. v * y <= v * (-(Grid + 1))
      BY <1>1, <2>2, TimesMore
    <3>2. v * (-(Grid + 1)) = -(v * Grid) - v /\ v * Grid \in Int /\ v * y \in Int
      BY <1>1, <2>2
    <3> QED
      BY <1>1, <1>2, <2>2, <3>1, <3>2
  <2> QED
    BY <1>1, <2>2, <2>4, <2>5 DEF y
<1>5. GridBase(d) \in 0 .. Grid
  <2>1. CASE Upward(d)
    BY <1>3, <2>1 DEF GridBase, x, u, v
  <2>2. CASE ~Upward(d)
    BY <1>4, <2>2 DEF GridBase, x, u, v
  <2> QED
    BY <2>1, <2>2
<1>6. GridTop(d) \in 0 .. Grid
  BY <1>1, <1>5 DEF GridTop
<1>7. ASSUME d.alternative = "two-sided" PROVE Grid <= 2 * (GridBase(d) + 1)
  <2>1. u = 1 /\ v = 2 /\ Upward(d)
    BY <1>7, DesignFacts DEF Half, Upward, u, v
  <2>2. GridBase(d) = Grid \div 2
    BY <1>1, <2>1 DEF GridBase, u, v
  <2> QED
    BY <1>1, <2>2
<1> QED
  BY <1>5, <1>6, <1>7

(* The point at an index, before it is reduced.                             *)
Tick(d, i) == IF Upward(d) THEN GridBase(d) + i ELSE GridBase(d) - i

(* A point of the grid is a probability.                                    *)
LEMMA PointFacts ==
  ASSUME NEW d \in Designs, NEW i \in 0 .. GridTop(d)
  PROVE  /\ Tick(d, i) \in 0 .. Grid /\ GridPoint(d, i) \in Fractions
         /\ GridPoint(d, i).num * Grid = Tick(d, i) * GridPoint(d, i).den
<1>1. Grid \in Nat \ {0} /\ GridBase(d) \in 0 .. Grid /\ GridTop(d) \in 0 .. Grid
  BY GridFacts, GridAssumption
<1>2. Tick(d, i) \in 0 .. Grid
  BY <1>1 DEF Tick, GridTop
<1>3. GridPoint(d, i) = Lowest(Tick(d, i), Grid)
  BY DEF GridPoint, Tick
<1> QED
  BY <1>1, <1>2, <1>3, LowestFraction

(* Points in order are chances in order.                                    *)
LEMMA PointsInOrder ==
  ASSUME NEW p \in Fractions, NEW r \in Fractions, NEW x \in Nat, NEW y \in Nat, x <= y,
         NEW g \in Nat \ {0}, p.num * g = x * p.den, r.num * g = y * r.den
  PROVE  /\ Likelier(p, r)
         /\ g <= 2 * x => p.den <= 2 * p.num
<1> DEFINE a == p.num
           d == p.den
           b == r.num
           f == r.den
<1>1. a \in Nat /\ d \in Nat /\ b \in Nat /\ f \in Nat
  BY FractionParts
<1>2. a * g = x * d /\ b * g = y * f
  OBVIOUS
<1> HIDE DEF a, b, d, f
<1>3. a * f <= b * d
  <2>1. d * f \in Nat
    BY <1>1
  <2>2. (d * f) * x <= (d * f) * y
    BY <2>1, TimesMore
  <2>3. g * (a * f) = f * (a * g) /\ g * (b * d) = d * (b * g)
    BY <1>1
  <2>4. f * (x * d) = (d * f) * x /\ d * (y * f) = (d * f) * y
    BY <1>1
  <2>5. g * (a * f) <= g * (b * d)
    BY <1>2, <2>2, <2>3, <2>4
  <2>6. a * f \in Int /\ b * d \in Int
    BY <1>1
  <2> QED
    BY <2>5, <2>6, Cancels
<1>4. ASSUME g <= 2 * x PROVE d <= 2 * a
  <2>1. d * g <= d * (2 * x)
    BY <1>1, <1>4, TimesMore
  <2>2. d * (2 * x) = 2 * (x * d) /\ g * (2 * a) = 2 * (a * g) /\ g * d = d * g
    BY <1>1
  <2>3. g * d <= g * (2 * a)
    BY <1>2, <2>1, <2>2
  <2>4. d \in Int /\ 2 * a \in Int
    BY <1>1
  <2> QED
    BY <2>3, <2>4, Cancels
<1> QED
  BY <1>3, <1>4 DEF Likelier, a, b, d, f

-----------------------------------------------------------------------------
(* Power grows along the grid *)

(* A tail and what is below it are all.                                     *)
LEMMA BelowAndAbove ==
  ASSUME NEW n \in Nat, NEW p \in Fractions, NEW c \in 0 .. n + 1
  PROVE  /\ Ways(0 .. c - 1, n, p) \in Nat /\ Above(n, c, p) \in Nat
         /\ Ways(0 .. c - 1, n, p) + Above(n, c, p) = Raise(p.den, n)
<1> DEFINE A == 0 .. c - 1
           B == c .. n
<1>1. 0 .. n = A \cup B /\ A \cap B = {}
  OBVIOUS
<1>2. Ways(0 .. n, n, p) = Raise(p.den, n)
  <2>1. Above(n, 0, p) = Raise(p.den, n)
    BY WholeAbove
  <2> QED
    BY <2>1 DEF Above
<1> HIDE DEF A, B
<1>3. Ways(A \cup B, n, p) = Ways(A, n, p) + Ways(B, n, p)
  BY <1>1, WaysAdd
<1>4. Ways(A, n, p) \in Nat /\ Ways(B, n, p) \in Nat
  BY WaysFinite
<1>5. Ways(A, n, p) + Ways(B, n, p) = Raise(p.den, n)
  BY <1>1, <1>2, <1>3
<1> QED
  BY <1>4, <1>5 DEF A, B, Above

(* A set of counts no less likely with one chance than with another.        *)
Gains(counts, n, p, r) ==
  Raise(r.den, n) * Ways(counts, n, p) <= Raise(p.den, n) * Ways(counts, n, r)

(* There are outcomes.                                                      *)
LEMMA WholesType ==
  ASSUME NEW n \in Nat, NEW p \in Fractions
  PROVE  Raise(p.den, n) \in Nat \ {0}
<1>1. p.den \in Nat /\ p.den > 0
  BY FractionParts
<1>2. Raise(p.den, n) \in Nat /\ Raise(p.den, n) > 0
  <2> DEFINE d == p.den
  <2> HIDE DEF d
  <2> QED
    BY <1>1, RaiseNat DEF d
<1> QED
  BY <1>2

(* A lower tail gains as successes become less likely.                      *)
LEMMA LowerGains ==
  ASSUME NEW n \in Nat, NEW p \in Fractions, NEW r \in Fractions, Likelier(r, p), NEW c \in 0 .. n + 1
  PROVE  Gains(0 .. c - 1, n, p, r)
<1> DEFINE D == Raise(p.den, n)
           E == Raise(r.den, n)
           x == Ways(0 .. c - 1, n, p)
           y == Above(n, c, p)
           X == Ways(0 .. c - 1, n, r)
           Y == Above(n, c, r)
<1>1. /\ x \in Nat /\ y \in Nat /\ x + y = D
      /\ X \in Nat /\ Y \in Nat /\ X + Y = E
  BY BelowAndAbove
<1>2. D * Y <= E * y
  BY AboveGrows
<1>3. D \in Nat /\ E \in Nat
  BY WholesType
<1>4. Gains(0 .. c - 1, n, p, r) <=> E * x <= D * X
  BY DEF Gains
<1> HIDE DEF D, E, x, y, X, Y
<1>5. E * x = E * D - E * y /\ D * X = E * D - D * Y
  <2>1. x = D - y /\ X = E - Y
    BY <1>1, <1>3
  <2>2. E * (D - y) = E * D - E * y /\ D * (E - Y) = E * D - D * Y
    BY <1>1, <1>3
  <2> QED
    BY <2>1, <2>2
<1>6. E * D \in Int /\ E * y \in Int /\ D * Y \in Int
  BY <1>1, <1>3
<1> QED
  BY <1>2, <1>4, <1>5, <1>6

(* An upper tail gains as successes become likelier.                        *)
LEMMA UpperGains ==
  ASSUME NEW n \in Nat, NEW p \in Fractions, NEW r \in Fractions, Likelier(p, r), NEW c \in Int
  PROVE  Gains(c .. n, n, p, r)
BY AboveGrows DEF Gains, Above

(* The rows of tails.                                                       *)
Row(p) == [n \in Nat |-> [k \in Int |-> Above(n, k, p)]]

FirstRow == [k \in Int |-> IF k <= 0 THEN 1 ELSE 0]

(* The tails follow from row to row.                                        *)
LEMMA RowFollows ==
  ASSUME NEW p \in Fractions
  PROVE  RowsFrom(Row(p), FirstRow, p.num, p.den - p.num)
<1> DEFINE F == Row(p)
<1>1. \A n \in Nat, k \in Int : F[n][k] = Above(n, k, p)
  BY DEF Row
<1>2. \A n \in Nat, k \in Int : Above(n, k, p) \in Int
  BY AboveSteps
<1>3. F \in [Nat -> Rows]
  BY <1>2 DEF Row, Rows
<1>4. F[0] = FirstRow
  <2>1. \A k \in Int : Above(0, k, p) = IF k <= 0 THEN 1 ELSE 0
    BY AboveSteps
  <2>2. F[0] = [k \in Int |-> Above(0, k, p)]
    BY DEF Row
  <2> QED
    BY <2>1, <2>2 DEF FirstRow
<1>5. ASSUME NEW n \in Nat PROVE F[n + 1] = Turned(F[n], p.num, p.den - p.num)
  <2>1. \A k \in Int : Above(n + 1, k, p) = p.num * Above(n, k - 1, p) + (p.den - p.num) * Above(n, k, p)
    BY AboveSteps
  <2>2. F[n + 1] = [k \in Int |-> Above(n + 1, k, p)]
    BY DEF Row
  <2>3. \A k \in Int : F[n][k - 1] = Above(n, k - 1, p) /\ F[n][k] = Above(n, k, p)
    BY <1>1
  <2> HIDE DEF F
  <2> QED
    BY <2>1, <2>2, <2>3 DEF Turned
<1> HIDE DEF F
<1> QED
  BY <1>3, <1>4, <1>5 DEF RowsFrom, F

(* The tails of no trials lean.                                             *)
LEMMA FirstLeans == FirstRow \in Rows /\ Leans(FirstRow, 0)
<1>1. FirstRow \in Rows
  BY DEF FirstRow, Rows
<1>2. \A j \in Int : Mass(FirstRow, j) = IF j = 0 THEN 1 ELSE 0
  BY DEF FirstRow, Mass
<1> QED
  BY <1>1, <1>2 DEF Leans

(* From 1/2 up, both of two mirrored tails together gain.                   *)
LEMMA BothGain ==
  ASSUME NEW n \in Nat, NEW p \in Fractions, NEW r \in Fractions, Likelier(p, r),
         p.den <= 2 * p.num, r.den <= 2 * r.num, NEW c \in 0 .. n + 1
  PROVE  Gains((0 .. c - 1) \cup (n - c + 1 .. n), n, p, r)
<1> DEFINE R == (0 .. c - 1) \cup (n - c + 1 .. n)
           D == Raise(p.den, n)
           E == Raise(r.den, n)
           e == n + 1 - c
           L(s) == Ways(0 .. c - 1, n, s)
           A(s, j) == Above(n, j, s)
<1>0. D \in Nat /\ E \in Nat
  BY WholesType
<1>1. CASE 2 * c <= n + 1
  <2>1. E * (A(p, e) - A(p, c)) <= D * (A(r, e) - A(r, c))
    <3> DEFINE a == p.num
               q == p.den - p.num
               b == r.num
               s == r.den - r.num
               F == Row(p)
               G == Row(r)
    <3>1. a \in Nat /\ q \in Nat /\ b \in Nat /\ s \in Nat /\ a + q = p.den /\ b + s = r.den
      BY FractionParts
    <3>2. q <= a /\ s <= b
      BY FractionParts
    <3>3. a * (b + s) <= b * (a + q)
      BY <3>1 DEF Likelier
    <3>4. RowsFrom(F, FirstRow, a, q) /\ RowsFrom(G, FirstRow, b, s)
      BY RowFollows
    <3>5. /\ F[n][e] = A(p, e) /\ F[n][c] = A(p, c)
          /\ G[n][e] = A(r, e) /\ G[n][c] = A(r, c)
      BY DEF Row
    <3>6. c \in Int /\ 0 \in Nat /\ 2 * c <= 0 + n + 1 /\ 0 + n + 1 - c = e
      BY <1>1
    <3> HIDE DEF a, q, b, s, F, G, e, A
    <3>7. Raise(b + s, n) * (F[n][0 + n + 1 - c] - F[n][c]) <= Raise(a + q, n) * (G[n][0 + n + 1 - c] - G[n][c])
      BY <3>1, <3>2, <3>3, <3>4, <3>6, FirstLeans, BandShrinks
    <3> QED
      BY <3>1, <3>5, <3>6, <3>7
  <2>2. ASSUME NEW s \in Fractions
        PROVE  Ways(R, n, s) = Raise(s.den, n) + (A(s, e) - A(s, c)) /\ A(s, e) \in Nat /\ A(s, c) \in Nat
    <3> DEFINE T == 0 .. c - 1
               U == n - c + 1 .. n
    <3>1. T \cap U = {} /\ U = e .. n
      BY <1>1
    <3>2. L(s) \in Nat /\ A(s, c) \in Nat /\ L(s) + A(s, c) = Raise(s.den, n)
      BY BelowAndAbove
    <3>3. A(s, e) = Ways(U, n, s) /\ A(s, e) \in Nat
      BY <3>1, WaysFinite DEF Above
    <3>4. L(s) = Ways(T, n, s) /\ R = T \cup U
      OBVIOUS
    <3> HIDE DEF T, U, R
    <3>5. Ways(T \cup U, n, s) = Ways(T, n, s) + Ways(U, n, s)
      BY <3>1, WaysAdd
    <3> HIDE DEF L, A
    <3> QED
      BY <3>2, <3>3, <3>4, <3>5
  <2> DEFINE u == A(p, e) - A(p, c)
             v == A(r, e) - A(r, c)
  <2>3. u \in Int /\ v \in Int /\ Ways(R, n, p) = D + u /\ Ways(R, n, r) = E + v
    <3> HIDE DEF A, R
    <3> QED
      BY <2>2
  <2>4. E * u <= D * v
    BY <2>1
  <2> HIDE DEF u, v, D, E, R
  <2>5. E * (D + u) <= D * (E + v)
    <3>1. E * (D + u) = E * D + E * u /\ D * (E + v) = E * D + D * v
      BY <1>0, <2>3
    <3>2. E * D \in Int /\ E * u \in Int /\ D * v \in Int
      BY <1>0, <2>3
    <3> QED
      BY <2>4, <3>1, <3>2
  <2> QED
    BY <2>3, <2>5 DEF Gains, D, E, R
<1>2. CASE 2 * c > n + 1
  <2>1. ASSUME NEW s \in Fractions PROVE Ways(R, n, s) = Raise(s.den, n)
    <3>1. \A k \in 0 .. n : k \in R
      BY <1>2
    <3>2. R \subseteq 0 .. n
      OBVIOUS
    <3>3. R = 0 .. n
      <4> HIDE DEF R
      <4> QED
        BY <3>1, <3>2
    <3>4. Above(n, 0, s) = Raise(s.den, n)
      BY WholeAbove
    <3> HIDE DEF R
    <3> QED
      BY <3>3, <3>4 DEF Above
  <2>2. Ways(R, n, p) = D /\ Ways(R, n, r) = E
    BY <2>1
  <2> HIDE DEF R, D, E
  <2>3. E * D <= D * E
    <3>1. E * D = D * E /\ E * D \in Int
      BY <1>0
    <3> QED
      BY <3>1
  <2> QED
    BY <2>2, <2>3 DEF Gains, R, D, E
<1> QED
  BY <1>1, <1>2

(* A rejection region is a tail, or two mirrored ones.                      *)
LEMMA RegionShape ==
  ASSUME NEW d \in Designs
  PROVE  /\ ExactRegion(d) \in SUBSET (0 .. d.n)
         /\ \E edge \in 0 .. d.n + 1 : ExactRegion(d) = RegionAt(d, edge)
<1>1. d.n \in Nat /\ LastAsked(d) \in Nat /\ LastAsked(d) <= d.n /\ d.alternative \in Alternatives
  BY DesignFacts
<1>2. ExactRegion(d) \in SUBSET (0 .. d.n)
  BY DEF ExactRegion
<1>3. CASE d.n = 0
  <2>1. ExactRegion(d) = {}
    BY <1>3 DEF ExactRegion
  <2>2. CASE d.alternative = "greater"
    <3>1. RegionAt(d, 1) = {} /\ 1 \in 0 .. d.n + 1
      BY <1>3, <2>2 DEF RegionAt
    <3> QED
      BY <1>2, <2>1, <3>1
  <2>3. CASE d.alternative # "greater"
    <3>1. RegionAt(d, 0) = {} /\ 0 \in 0 .. d.n + 1
      BY <1>1, <1>3, <2>3 DEF RegionAt, Alternatives
    <3> QED
      BY <1>2, <2>1, <3>1
  <2> QED
    BY <2>2, <2>3
<1>4. CASE d.n # 0
  <2> DEFINE T == {k \in 0 .. LastAsked(d) + 1 : k <= LastAsked(d) => Asks(d)[k]}
  <2>1. PICK edge \in T : \A k \in T : edge <= k
    <3>1. T \in SUBSET Nat /\ LastAsked(d) + 1 \in T
      BY <1>1
    <3> HIDE DEF T
    <3> QED
      BY <3>1, LeastElement
  <2>2. edge \in Nat /\ edge <= LastAsked(d) + 1 /\ edge \in 0 .. d.n + 1
    BY <1>1
  <2>3. ASSUME NEW k \in 0 .. LastAsked(d) PROVE Asks(d)[k] <=> k >= edge
    <3>1. ASSUME Asks(d)[k] PROVE k >= edge
      <4>1. k \in T
        BY <1>1, <3>1
      <4>2. edge <= k
        BY <2>1, <4>1
      <4> QED
        BY <2>2, <4>2
    <3>2. ASSUME k >= edge PROVE Asks(d)[k]
      <4>1. edge \in 0 .. LastAsked(d) /\ edge <= k
        BY <1>1, <2>2, <3>2
      <4>2. Asks(d)[edge]
        BY <2>1, <4>1
      <4> QED
        BY <4>1, <4>2, AsksRise
    <3> QED
      BY <3>1, <3>2
  <2>4. RegionAt(d, edge) = ExactRegion(d)
    <3> HIDE DEF T
    <3> QED
      BY <1>4, <2>2, <2>3, EdgeAt
  <2> QED
    BY <1>2, <2>2, <2>4
<1> QED
  BY <1>3, <1>4

(* The mirrored tail is a run of counts.                                    *)
LEMMA Mirrored ==
  ASSUME NEW n \in Nat, NEW c \in 0 .. n + 1
  PROVE  {n - k : k \in 0 .. c - 1} = n - c + 1 .. n
<1>1. ASSUME NEW j \in n - c + 1 .. n PROVE j \in {n - k : k \in 0 .. c - 1}
  <2>1. n - j \in 0 .. c - 1 /\ j = n - (n - j)
    OBVIOUS
  <2> QED
    BY <2>1
<1>2. \A k \in 0 .. c - 1 : n - k \in n - c + 1 .. n
  OBVIOUS
<1> QED
  BY <1>1, <1>2

(* Further from the null, and for two sides from 1/2 up.                    *)
Further(d, p, r) ==
  IF Upward(d) THEN Likelier(p, r) /\ (d.alternative = "two-sided" => p.den <= 2 * p.num)
  ELSE Likelier(r, p)

(* "power rises in index" (power.py:144): further from the null, the counts *)
(* that reject are no less likely.                                          *)
LEMMA RegionGains ==
  ASSUME NEW d \in Designs, NEW p \in Fractions, NEW r \in Fractions, Further(d, p, r)
  PROVE  Gains(ExactRegion(d), d.n, p, r)
<1> DEFINE n == d.n
<1>1. d.n \in Nat /\ d.alternative \in Alternatives
  BY DesignFacts
<1>2. PICK edge \in 0 .. d.n + 1 : ExactRegion(d) = RegionAt(d, edge)
  BY RegionShape
<1>3. CASE d.alternative = "greater"
  <2>1. RegionAt(d, edge) = edge .. n /\ edge \in Int
    BY <1>3 DEF RegionAt
  <2>2. Likelier(p, r)
    BY <1>3 DEF Further, Upward
  <2>3. Gains(edge .. n, n, p, r)
    BY <1>1, <2>1, <2>2, UpperGains
  <2> QED
    BY <1>2, <2>1, <2>3
<1>4. CASE d.alternative = "two-sided"
  <2>1. RegionAt(d, edge) = (0 .. edge - 1) \cup (n - edge + 1 .. n)
    BY <1>1, <1>4, Mirrored DEF RegionAt
  <2>2. Likelier(p, r) /\ p.den <= 2 * p.num
    BY <1>4 DEF Further, Upward
  <2>3. r.den <= 2 * r.num
    <3> DEFINE a == p.num
               e == p.den
               b == r.num
               f == r.den
    <3>1. a \in Nat /\ e \in Nat \ {0} /\ b \in Nat /\ f \in Nat
      BY FractionParts
    <3>2. a * f <= b * e /\ e <= 2 * a
      BY <2>2 DEF Likelier
    <3> HIDE DEF a, e, b, f
    <3>3. f * e <= f * (2 * a)
      BY <3>1, <3>2, TimesMore
    <3>4. f * (2 * a) = 2 * (a * f) /\ f * e = e * f /\ e * (2 * b) = 2 * (b * e)
      BY <3>1
    <3>5. a * f \in Int /\ b * e \in Int
      BY <3>1
    <3>6. e * f <= e * (2 * b)
      <4>1. 2 * (a * f) <= 2 * (b * e)
        BY <3>2, <3>5
      <4>2. e * f <= 2 * (a * f)
        BY <3>3, <3>4
      <4>3. e * f \in Int /\ 2 * (a * f) \in Int /\ 2 * (b * e) \in Int
        BY <3>1
      <4>4. e * f <= 2 * (b * e)
        BY <4>1, <4>2, <4>3
      <4> QED
        BY <3>4, <4>4
    <3>7. f <= 2 * b
      <4>1. f \in Int /\ 2 * b \in Int
        BY <3>1
      <4> QED
        BY <3>1, <3>6, <4>1, Cancels
    <3> QED
      BY <3>7 DEF b, f
  <2>4. Gains((0 .. edge - 1) \cup (n - edge + 1 .. n), n, p, r)
    BY <1>1, <2>2, <2>3, BothGain
  <2> QED
    BY <1>2, <2>1, <2>4
<1>5. CASE d.alternative = "less"
  <2>1. RegionAt(d, edge) = 0 .. edge - 1
    BY <1>5 DEF RegionAt
  <2>2. Likelier(r, p)
    BY <1>5 DEF Further, Upward
  <2>3. Gains(0 .. edge - 1, n, p, r)
    BY <1>1, <2>2, LowerGains
  <2> QED
    BY <1>2, <2>1, <2>3
<1> QED
  BY <1>1, <1>3, <1>4, <1>5 DEF Alternatives

(* A greater index is further from the null.                                *)
LEMMA PointsFurther ==
  ASSUME NEW d \in Designs, NEW i \in 1 .. GridTop(d), NEW j \in 1 .. GridTop(d), i <= j
  PROVE  Further(d, GridPoint(d, i), GridPoint(d, j))
<1> DEFINE p == GridPoint(d, i)
           r == GridPoint(d, j)
           x == Tick(d, i)
           y == Tick(d, j)
<1>1. Grid \in Nat \ {0} /\ GridBase(d) \in 0 .. Grid /\ GridTop(d) \in 0 .. Grid
  BY GridFacts, GridAssumption
<1>2. /\ p \in Fractions /\ x \in Nat /\ p.num * Grid = x * p.den
      /\ r \in Fractions /\ y \in Nat /\ r.num * Grid = y * r.den
  <2>1. i \in 0 .. GridTop(d) /\ j \in 0 .. GridTop(d)
    BY <1>1
  <2> QED
    BY <2>1, PointFacts
<1>3. CASE Upward(d)
  <2>1. x <= y /\ x = GridBase(d) + i
    BY <1>1, <1>3 DEF Tick
  <2>2. d.alternative = "two-sided" => Grid <= 2 * x
    <3>1. d.alternative = "two-sided" => Grid <= 2 * (GridBase(d) + 1)
      BY GridFacts
    <3> QED
      BY <1>1, <2>1, <3>1
  <2> HIDE DEF p, r, x, y
  <2>3. Likelier(p, r) /\ (Grid <= 2 * x => p.den <= 2 * p.num)
    BY <1>1, <1>2, <2>1, PointsInOrder
  <2> QED
    BY <1>3, <2>2, <2>3 DEF Further, p, r
<1>4. CASE ~Upward(d)
  <2>1. y <= x
    BY <1>1, <1>4 DEF Tick
  <2> HIDE DEF p, r, x, y
  <2>2. Likelier(r, p)
    BY <1>1, <1>2, <2>1, PointsInOrder
  <2> QED
    BY <1>4, <2>2 DEF Further, p, r
<1> QED
  BY <1>3, <1>4

(* The target is reached, of the outcomes counted.                          *)
Enough(d, p) == AtLeast(Ways(ExactRegion(d), d.n, p), Raise(p.den, d.n), d.target)

(* The code's power, and the outcomes counted.                              *)
LEMMA EnoughIs ==
  ASSUME NEW d \in Designs, NEW p \in Fractions
  PROVE  Suffices(d, ExactRegion(d), p) <=> Enough(d, p)
<1>1. d.n \in Nat /\ ExactRegion(d) \in SUBSET (0 .. d.n)
  BY DesignFacts, RegionShape
<1>2. RegionPower(ExactRegion(d), d.n, p) = Ways(ExactRegion(d), d.n, p)
  BY <1>1, PowersAreExact
<1> QED
  BY <1>2 DEF Suffices, PowerAt, Enough

(* What reaches the target still does further out.                          *)
LEMMA EnoughOn ==
  ASSUME NEW d \in Designs, NEW p \in Fractions, NEW r \in Fractions, Further(d, p, r), Enough(d, p)
  PROVE  Enough(d, r)
<1> DEFINE D == Raise(p.den, d.n)
           E == Raise(r.den, d.n)
           P == Ways(ExactRegion(d), d.n, p)
           Q == Ways(ExactRegion(d), d.n, r)
           t == d.target.num
           w == d.target.den
<1>1. d.n \in Nat
  BY DesignFacts
<1>2. D \in Nat \ {0} /\ E \in Nat \ {0} /\ P \in Nat /\ Q \in Nat
  BY <1>1, WholesType, WaysFinite
<1>3. t \in Nat /\ w \in Nat
  <2>1. d.target \in Fractions
    BY DesignsAssumption
  <2> QED
    BY <2>1, FractionParts
<1>4. E * P <= D * Q
  BY RegionGains DEF Gains
<1>5. P * w >= t * D
  BY DEF Enough, AtLeast
<1>6. Enough(d, r) <=> Q * w >= t * E
  BY DEF Enough, AtLeast
<1> HIDE DEF D, E, P, Q, t, w
<1>7. E * (t * D) <= E * (P * w) /\ w * (E * P) <= w * (D * Q)
  <2>1. t * D \in Int /\ P * w \in Int /\ E * P \in Int /\ D * Q \in Int
    BY <1>2, <1>3
  <2> QED
    BY <1>2, <1>3, <1>4, <1>5, <2>1, TimesMore
<1>8. D * (t * E) <= D * (Q * w)
  <2>1. D * (t * E) = E * (t * D) /\ D * (Q * w) = w * (D * Q) /\ E * (P * w) = w * (E * P)
    BY <1>2, <1>3
  <2>2. E * (t * D) \in Int /\ w * (E * P) \in Int /\ w * (D * Q) \in Int
    BY <1>2, <1>3
  <2> QED
    BY <1>7, <2>1, <2>2
<1>9. t * E <= Q * w
  <2>1. t * E \in Int /\ Q * w \in Int
    BY <1>2, <1>3
  <2> QED
    BY <1>2, <1>8, <2>1, Cancels
<1> QED
  BY <1>6, <1>9, <1>2, <1>3

Attains(d, i) == Enough(d, GridPoint(d, i))

(* The code's test of a grid point, and the outcomes counted.               *)
LEMMA AttainsIs ==
  ASSUME NEW d \in Designs, NEW i \in 0 .. GridTop(d)
  PROVE  Suffices(d, ExactRegion(d), GridPoint(d, i)) <=> Attains(d, i)
BY PointFacts, EnoughIs DEF Attains

(* "power rises in index" (power.py:144).                                   *)
LEMMA AttainsOn ==
  ASSUME NEW d \in Designs, NEW i \in 1 .. GridTop(d), NEW j \in 1 .. GridTop(d), i <= j, Attains(d, i)
  PROVE  Attains(d, j)
<1>1. GridTop(d) \in Nat
  BY GridFacts, GridAssumption
<1>2. i \in 0 .. GridTop(d) /\ j \in 0 .. GridTop(d)
  BY <1>1
<1>3. GridPoint(d, i) \in Fractions /\ GridPoint(d, j) \in Fractions
  BY <1>2, PointFacts
<1> QED
  BY <1>3, PointsFurther, EnoughOn DEF Attains

(* "power is 1 at probability 1 or 0" (power.py:173): so the search always  *)
(* ends at an effect.                                                       *)
LEMMA AttainsAtLast ==
  ASSUME NEW d \in Designs, ExactRegion(d) # {}
  PROVE  Attains(d, GridTop(d))
<1> DEFINE i == GridTop(d)
           p == GridPoint(d, i)
           n == d.n
           R == ExactRegion(d)
           D == Raise(p.den, n)
<1>1. Grid \in Nat \ {0} /\ GridBase(d) \in 0 .. Grid /\ GridTop(d) \in 0 .. Grid /\ i \in 0 .. GridTop(d)
  BY GridFacts, GridAssumption
<1>2. p \in Fractions /\ p.num * Grid = Tick(d, i) * p.den /\ n \in Nat /\ d.alternative \in Alternatives
  BY <1>1, PointFacts, DesignFacts
<1>3. PICK edge \in 0 .. d.n + 1 : R = RegionAt(d, edge)
  BY RegionShape
<1>4. p.num \in Nat /\ p.den \in Nat /\ p.den - p.num \in Nat /\ p.den \in Int
  BY <1>2, FractionParts
<1>5. D \in Nat
  BY <1>2, WholesType
<1>6. ASSUME NEW k \in {0, n}, k \in R, Weight(p.num, p.den - p.num, n, k) = D PROVE Ways(R, n, p) >= D
  <2>1. k \in Int /\ Ways({k}, n, p) = D
    BY <1>2, <1>6, WaysOne
  <2>2. \A j \in 0 .. n : j \in {k} => j \in R
    BY <1>6
  <2>3. Ways({k}, n, p) <= Ways(R, n, p) /\ Ways(R, n, p) \in Nat
    BY <1>2, <2>2, WaysWithin, WaysFinite
  <2> QED
    BY <1>5, <2>1, <2>3
<1>7. ASSUME Upward(d) PROVE Ways(R, n, p) >= D
  <2>1. n \in R
    <3>1. CASE d.alternative = "greater"
      <4>1. R = edge .. n
        BY <1>3, <3>1 DEF RegionAt
      <4> QED
        BY <1>2, <4>1
    <3>2. CASE d.alternative = "two-sided"
      <4>1. R = (0 .. edge - 1) \cup {n - k : k \in 0 .. edge - 1}
        BY <1>3, <3>2 DEF RegionAt
      <4>2. 0 \in 0 .. edge - 1
        BY <1>2, <4>1
      <4>3. n - 0 \in {n - k : k \in 0 .. edge - 1} /\ n - 0 = n
        BY <1>2, <4>2
      <4> QED
        BY <4>1, <4>3
    <3> QED
      BY <1>2, <1>7, <3>1, <3>2 DEF Upward, Alternatives
  <2>2. p.num = p.den
    <3>1. Tick(d, i) = Grid
      BY <1>1, <1>7 DEF Tick, GridTop
    <3>2. Grid * p.num <= Grid * p.den /\ Grid * p.den <= Grid * p.num
      BY <1>1, <1>2, <1>4, <3>1
    <3> QED
      BY <1>1, <1>4, <3>2, Cancels
  <2>3. Weight(p.num, p.den - p.num, n, n) = D
    <3>1. Comb(n, n) = 1 /\ Raise(0, 0) = 1
      BY <1>2, CombEnds, RaiseSteps
    <3>2. p.den - p.num = 0 /\ n - n = 0 /\ n \in 0 .. n
      BY <1>2, <1>4, <2>2
    <3> HIDE DEF n, p
    <3>3. Weight(p.num, 0, n, n) = Comb(n, n) * Raise(p.den, n) * Raise(0, 0)
      BY <2>2, <3>2 DEF Weight
    <3> QED
      BY <1>5, <3>1, <3>2, <3>3
  <2> QED
    BY <1>6, <2>1, <2>3
<1>8. ASSUME ~Upward(d) PROVE Ways(R, n, p) >= D
  <2>1. 0 \in R
    <3>1. R = 0 .. edge - 1
      BY <1>3, <1>8 DEF RegionAt, Upward
    <3> QED
      BY <1>2, <3>1
  <2>2. p.num = 0
    <3>1. Tick(d, i) = 0
      BY <1>1, <1>8 DEF Tick, GridTop
    <3>2. Grid * p.num <= Grid * 0
      BY <1>1, <1>2, <1>4, <3>1
    <3>3. p.num <= 0
      BY <1>1, <1>4, <3>2, Cancels
    <3> QED
      BY <1>4, <3>3
  <2>3. Weight(p.num, p.den - p.num, n, 0) = D
    <3>1. Comb(n, 0) = 1 /\ Raise(0, 0) = 1
      BY <1>2, CombEnds, RaiseSteps
    <3>2. p.den - p.num = p.den /\ n - 0 = n /\ 0 \in 0 .. n
      BY <1>2, <1>4, <2>2
    <3> HIDE DEF n, p
    <3>3. Weight(0, p.den, n, 0) = Comb(n, 0) * Raise(0, 0) * Raise(p.den, n)
      BY <3>2 DEF Weight
    <3> QED
      BY <1>5, <2>2, <3>1, <3>2, <3>3
  <2> QED
    BY <1>6, <2>1, <2>3
<1>9. d.target \in Fractions /\ d.target.num \in Nat /\ d.target.den \in Nat /\ d.target.num <= d.target.den
  BY DesignsAssumption DEF Fractions
<1>10. Ways(R, n, p) >= D /\ Ways(R, n, p) \in Nat
  BY <1>2, <1>7, <1>8, WaysFinite
<1>11. Ways(R, n, p) * d.target.den >= d.target.num * D
  <2> DEFINE W == Ways(R, n, p)
             t == d.target.num
             w == d.target.den
  <2> HIDE DEF W, t, w, D
  <2>1. w * D <= w * W /\ D * t <= D * w
    BY <1>5, <1>9, <1>10, TimesMore DEF W, t, w
  <2>2. w * D = D * w /\ w * W = W * w /\ D * t = t * D
    BY <1>5, <1>9, <1>10 DEF W, t, w
  <2>3. w * D \in Int /\ w * W \in Int /\ D * t \in Int
    BY <1>5, <1>9, <1>10 DEF W, t, w
  <2>4. W * w >= t * D
    BY <2>1, <2>2, <2>3
  <2> QED
    BY <2>4 DEF W, t, w
<1> QED
  BY <1>11 DEF Attains, Enough, AtLeast

-----------------------------------------------------------------------------
(* The smallest effect *)

Reach(d) == [i \in 0 .. GridTop(d) |-> Suffices(d, ExactRegion(d), GridPoint(d, i))]

(* Once there is a region, the search along the grid has not begun, or it   *)
(* is for the first point that reaches, and the last one does.              *)
Waiting == guess = top + 1 /\ top \in Nat /\ loop # "ValueError" /\ answer \notin Nat

Stretching ==
  /\ guess <= top /\ top = GridTop(design) /\ holds = Reach(design) /\ holds[top] /\ Inv
  /\ answer \in Nat => loop = "found" /\ answer = high

MdeInv ==
  /\ RegionInv
  /\ region # NotYet => Waiting \/ Stretching
  /\ answer = None => region = {}

(* A plan starts with no effect.                                            *)
LEMMA MdeStarts == PlanInit => MdeInv
<1> SUFFICES ASSUME PlanInit PROVE MdeInv
  OBVIOUS
<1>1. RegionInv
  BY PlanStarts
<1>2. answer = NotYet /\ answer \notin Nat /\ answer # None
  BY AnswersAssumption DEF PlanInit
<1>3. Waiting
  <2>1. design \in Designs
    BY DEF PlanInit
  <2>2. top = LastAsked(design) /\ loop = "first" /\ guess = top + 1
    BY <2>1, DesignFacts DEF PlanInit, EdgeSearch, StartFirst, LastAsked, Alternatives
  <2> QED
    BY <1>2, <2>1, <2>2, DesignFacts DEF Waiting
<1> QED
  BY <1>1, <1>2, <1>3 DEF MdeInv

(* The search along the grid begins.                                        *)
LEMMA AimStretches ==
  ASSUME MdeInv, Aim
  PROVE  Stretching'
<1>1. design \in Designs /\ region = ExactRegion(design) /\ region # {}
  BY DEF Aim, MdeInv, RegionInv
<1>2. GridTop(design) \in Nat
  BY <1>1, GridFacts, GridAssumption
<1>3. PICK at \in 1 .. GridTop(design) : guess' = at /\ low' = at - 1 /\ high' = at
  BY DEF Aim
<1>4. top' = GridTop(design) /\ loop' = "out" /\ step' = 1 /\ design' = design /\ answer' = answer
  BY DEF Aim
<1>5. holds' = Reach(design)
  BY <1>1, <1>4 DEF Aim, Reach
<1>6. \A i \in 0 .. top' : holds'[i] <=> Attains(design, i)
  BY <1>1, <1>4, <1>5, AttainsIs DEF Reach
<1>7. holds' \in [0 .. top' -> BOOLEAN]
  BY <1>4, <1>5 DEF Reach, Suffices, AtLeast
<1>8. holds'[top']
  <2>1. Attains(design, GridTop(design))
    BY <1>1, AttainsAtLast
  <2>2. top' \in 0 .. top'
    BY <1>2, <1>4
  <2> QED
    BY <1>4, <1>6, <2>1, <2>2
<1>9. ASSUME NEW i \in 0 .. top', NEW j \in 0 .. top', i <= j, i > 0, holds'[i] PROVE holds'[j]
  <2>1. i \in 1 .. GridTop(design) /\ j \in 1 .. GridTop(design)
    BY <1>2, <1>4, <1>9
  <2>2. Attains(design, j)
    BY <1>1, <1>6, <1>9, <2>1, AttainsOn
  <2> QED
    BY <1>6, <2>2
<1>10. guess' # top' + 1 /\ guess' <= top' /\ guess' \in Nat /\ guess' >= 1 /\ top' \in Nat
  BY <1>2, <1>3, <1>4
<1>11. Inv'
  <2>1. Types'
    BY <1>2, <1>3, <1>4, <1>7, <1>10 DEF Types, Loop
  <2>2. Rising'
    BY <1>9, <1>10 DEF Rising
  <2>3. Bisecting'
    BY <1>10 DEF Bisecting
  <2>4. Galloping'
    BY <1>2, <1>3, <1>4, <1>10 DEF Galloping
  <2> QED
    BY <2>1, <2>2, <2>3, <2>4 DEF Inv
<1>12. answer \notin Nat
  BY AnswersAssumption DEF Aim
<1>13. Reach(design)' = Reach(design) /\ GridTop(design)' = GridTop(design)
  BY <1>4 DEF Reach, ExactRegion, GridTop, GridBase, Upward
<1> QED
  BY <1>4, <1>5, <1>8, <1>10, <1>11, <1>12, <1>13 DEF Stretching

(* Each step of a plan keeps what is known of its effect.                   *)
LEMMA MdeStep ==
  ASSUME MdeInv, [PlanNext]_planVars
  PROVE  MdeInv'
<1>1. RegionInv'
  BY RegionStep DEF MdeInv
<1>2. {NotYet, None, NoEffect} \cap Nat = {} /\ None # NotYet /\ None # NoEffect
  BY AnswersAssumption
<1>3. CASE Seek
  <2>1. region = NotYet /\ answer = NotYet /\ region' = region /\ answer' = answer
    BY <1>3 DEF Seek, MdeInv, RegionInv
  <2> QED
    BY <1>1, <1>2, <2>1 DEF MdeInv
<1>4. CASE Bound
  <2>1. region = NotYet /\ answer = NotYet /\ Edging /\ loop = "found" /\ design \in Designs
    BY <1>4 DEF Bound, MdeInv, RegionInv
  <2>2. UNCHANGED <<searchVars, design, answer>>
    BY <1>4 DEF Bound
  <2>3. Waiting'
    BY <1>2, <2>1, <2>2, DesignFacts DEF Waiting, Edging, searchVars
  <2> QED
    BY <1>1, <1>2, <2>1, <2>2, <2>3 DEF MdeInv
<1>5. CASE Hopeless
  <2>1. /\ answer = NotYet /\ region # NotYet /\ UNCHANGED <<searchVars, design, region>>
        /\ \/ answer' = None /\ region = {}
           \/ answer' = NoEffect
    BY <1>5 DEF Hopeless
  <2>2. answer' \notin Nat
    BY <1>2, <2>1
  <2>3. Waiting => Waiting'
    BY <2>1, <2>2 DEF Waiting, searchVars
  <2>4. Stretching => Stretching'
    <3>1. Inv => Inv'
      BY <2>1 DEF Inv, Types, Rising, Bisecting, Galloping, searchVars
    <3> QED
      BY <2>1, <2>2, <3>1 DEF Stretching, searchVars, Reach, ExactRegion, GridTop, GridBase, Upward
  <2> QED
    BY <1>1, <1>2, <2>1, <2>3, <2>4 DEF MdeInv
<1>6. CASE Aim
  <2>1. Stretching'
    BY <1>6, AimStretches
  <2>2. answer' = NotYet
    BY <1>6 DEF Aim
  <2> QED
    BY <1>1, <1>2, <2>1, <2>2 DEF MdeInv
<1>7. CASE Settle
  <2>1. region # NotYet /\ guess <= top /\ answer = NotYet /\ Loops /\ UNCHANGED <<design, region, answer>>
    BY <1>7 DEF Settle, Settling
  <2>2. ~Waiting
    BY <2>1 DEF Waiting
  <2>3. Stretching
    BY <2>1, <2>2 DEF MdeInv
  <2>4. Inv' /\ UNCHANGED <<holds, top, guess>>
    BY <2>1, <2>3, NextInv, LoopsKeep DEF Stretching, SearchNext
  <2>5. Stretching'
    BY <1>2, <2>1, <2>3, <2>4 DEF Stretching, Reach, ExactRegion, GridTop, GridBase, Upward
  <2> QED
    BY <1>1, <1>2, <2>1, <2>5 DEF MdeInv
<1>8. CASE Conclude
  <2>1. /\ region # NotYet /\ guess <= top /\ loop = "found" /\ answer' = high
        /\ UNCHANGED <<searchVars, design, region>>
    BY <1>8 DEF Conclude, Settling
  <2>2. ~Waiting
    BY <2>1 DEF Waiting
  <2>3. Stretching
    BY <2>1, <2>2 DEF MdeInv
  <2>4. Inv'
    BY <2>1, <2>3 DEF Stretching, Inv, Types, Rising, Bisecting, Galloping, searchVars
  <2>5. Stretching'
    BY <2>1, <2>3, <2>4 DEF Stretching, searchVars, Reach, ExactRegion, GridTop, GridBase, Upward
  <2>6. answer' # None
    BY <1>2, <2>1, <2>3 DEF Stretching, Inv, Types
  <2> QED
    BY <1>1, <2>5, <2>6 DEF MdeInv
<1>9. CASE UNCHANGED planVars
  <2>1. UNCHANGED <<searchVars, design, region, answer>>
    BY <1>9 DEF planVars
  <2>2. Waiting => Waiting'
    BY <2>1 DEF Waiting, searchVars
  <2>3. Stretching => Stretching'
    <3>1. Inv => Inv'
      BY <2>1 DEF Inv, Types, Rising, Bisecting, Galloping, searchVars
    <3> QED
      BY <2>1, <3>1 DEF Stretching, searchVars, Reach, ExactRegion, GridTop, GridBase, Upward
  <2> QED
    BY <1>1, <2>1, <2>2, <2>3 DEF MdeInv
<1> QED
  BY <1>3, <1>4, <1>5, <1>6, <1>7, <1>8, <1>9 DEF PlanNext, PlanRest

(* For every design, every grid and wherever the search in floats ended:    *)
(* the effect that is returned is the first multiple of 1 / GRID from the   *)
(* null at which the outcomes that reject are enough, none is returned only *)
(* if no count rejects, and the search never runs out of range              *)
(* (power.py:110-112, 145-153).                                             *)
THEOREM MdeIsNearestHolds == PlanSpec => []MdeIsNearest
<1>1. MdeInv => MdeIsNearest
  <2> SUFFICES ASSUME MdeInv PROVE MdeIsNearest
    OBVIOUS
  <2>1. region # NotYet => region = ExactRegion(design) /\ design \in Designs
    BY DEF MdeInv, RegionInv
  <2>2. ASSUME region # NotYet PROVE loop # "ValueError"
    BY <2>2 DEF MdeInv, Waiting, Stretching, Inv, Galloping
  <2>3. answer = None => region = {}
    BY DEF MdeInv
  <2>4. ASSUME answer \in Nat
        PROVE  Attains(design, answer) /\ \A i \in 1 .. answer - 1 : ~Attains(design, i)
    <3>1. region # NotYet
      BY <2>4, AnswersAssumption DEF MdeInv, RegionInv
    <3>2. Stretching
      BY <2>4, <3>1 DEF MdeInv, Waiting
    <3>3. /\ holds = Reach(design) /\ top = GridTop(design) /\ answer = high /\ top \in Nat
          /\ high = low + 1 /\ high <= top /\ low \in Nat /\ holds[high] /\ (low = 0 \/ ~holds[low])
          /\ guess <= top
      BY <2>4, <3>2 DEF Stretching, Inv, Types, Galloping
    <3>4. ASSUME NEW i \in 1 .. high - 1 PROVE ~holds[i]
      <4>1. i \in 0 .. top /\ low \in 0 .. top /\ i <= low /\ i > 0 /\ low # 0
        BY <3>3
      <4> QED
        BY <3>2, <3>3, <4>1 DEF Stretching, Inv, Rising
    <3>5. \A i \in 0 .. top : holds[i] <=> Attains(design, i)
      BY <2>1, <3>1, <3>3, AttainsIs DEF Reach
    <3>6. high \in 0 .. top /\ \A i \in 1 .. high - 1 : i \in 0 .. top
      BY <3>3
    <3> QED
      BY <3>3, <3>4, <3>5, <3>6
  <2>5. ASSUME answer \in Nat PROVE region = ExactRegion(design)
    <3>1. region # NotYet
      BY <2>5, AnswersAssumption DEF MdeInv, RegionInv
    <3> QED
      BY <2>1, <3>1
  <2> QED
    BY <2>2, <2>3, <2>4, <2>5 DEF MdeIsNearest, Attains, Enough
<1> QED
  BY MdeStarts, MdeStep, <1>1, PTL DEF PlanSpec

-----------------------------------------------------------------------------
(* The effect as it is printed *)

(* Powers grow beyond every number.                                         *)
LEMMA RaiseBeyond ==
  ASSUME NEW b \in Nat \ {0, 1}, NEW n \in Nat
  PROVE  Raise(b, n) \in Nat /\ Raise(b, n) > n
<1> DEFINE S == {m \in Nat : Raise(b, m) \in Nat /\ Raise(b, m) > m}
<1>1. \A m \in Nat : Raise(b, m) \in Int /\ Raise(b, m + 1) = Raise(b, m) * b
  BY RaiseSteps
<1>2. 0 \in S
  <2>1. Raise(b, 0) = 1
    BY RaiseSteps
  <2> QED
    BY <2>1
<1>3. ASSUME NEW m \in S PROVE m + 1 \in S
  <2> DEFINE x == Raise(b, m)
  <2>1. x \in Nat /\ x >= m + 1 /\ m \in Nat
    OBVIOUS
  <2>2. Raise(b, m + 1) = x * b
    BY <1>1
  <2> HIDE DEF x
  <2>3. x * 2 <= x * b
    BY <2>1, TimesMore
  <2>4. x * b \in Nat /\ x * b > m + 1
    BY <2>1, <2>3
  <2> QED
    BY <2>1, <2>2, <2>4
<1>4. S = Nat
  <2>1. S \in SUBSET Nat
    OBVIOUS
  <2> HIDE DEF S
  <2> QED
    BY <1>2, <1>3, <2>1, Induction
<1> QED
  BY <1>4

(* Fractions in order are chances in order.                                 *)
LEMMA RatiosInOrder ==
  ASSUME NEW p \in Fractions, NEW r \in Fractions, NEW x \in Int, NEW y \in Int,
         NEW a \in Nat \ {0}, NEW b \in Nat \ {0},
         x * p.den = p.num * a, y * r.den = r.num * b, x * b <= y * a
  PROVE  Likelier(p, r)
<1> DEFINE u == p.num
           v == p.den
           w == r.num
           z == r.den
<1>1. u \in Nat /\ v \in Nat /\ w \in Nat /\ z \in Nat
  BY FractionParts
<1>2. x * v = u * a /\ y * z = w * b
  OBVIOUS
<1> HIDE DEF u, v, w, z
<1>3. v * z \in Nat /\ x * b \in Int /\ y * a \in Int /\ a * b \in Nat \ {0}
  BY <1>1
<1>4. (v * z) * (x * b) <= (v * z) * (y * a)
  BY <1>3, TimesMore
<1>5. (v * z) * (x * b) = (a * b) * (u * z)
  <2>1. (v * z) * (x * b) = (x * v) * (b * z)
    BY <1>1
  <2>2. (u * a) * (b * z) = (a * b) * (u * z)
    BY <1>1
  <2> QED
    BY <1>2, <2>1, <2>2
<1>6. (v * z) * (y * a) = (a * b) * (w * v)
  <2>1. (v * z) * (y * a) = (y * z) * (a * v)
    BY <1>1
  <2>2. (w * b) * (a * v) = (a * b) * (w * v)
    BY <1>1
  <2> QED
    BY <1>2, <2>1, <2>2
<1>7. u * z <= w * v
  <2>1. u * z \in Int /\ w * v \in Int
    BY <1>1
  <2>2. (a * b) * (u * z) <= (a * b) * (w * v)
    BY <1>4, <1>5, <1>6
  <2> QED
    BY <1>3, <2>1, <2>2, Cancels
<1> QED
  BY <1>7 DEF Likelier, u, v, w, z

(* The gap of a point: how far it is from the null, and more than 0.        *)
Far(d, i) ==
  LET g == GridPoint(d, i).num * d.null.den - d.null.num * GridPoint(d, i).den
  IN  IF Upward(d) THEN g ELSE -g

(* The gap of a point, and that there is one.                               *)
LEMMA GapFacts ==
  ASSUME NEW d \in Designs, NEW i \in 1 .. GridTop(d)
  PROVE  /\ GridPoint(d, i) \in Fractions /\ d.null \in Fractions
         /\ GapTo(d, i) \in Fractions /\ GapTo(d, i).num > 0 /\ Far(d, i) \in Int
         /\ GapTo(d, i).num * (GridPoint(d, i).den * d.null.den) = Far(d, i) * GapTo(d, i).den
<1> DEFINE p == GridPoint(d, i)
           u == d.null.num
           v == d.null.den
           x == Tick(d, i)
           B == GridBase(d)
           s == Far(d, i)
           D == p.den * v
<1>1. Grid \in Nat \ {0} /\ B \in 0 .. Grid /\ GridTop(d) \in 0 .. Grid
  BY GridFacts, GridAssumption
<1>2. p \in Fractions /\ x \in 0 .. Grid /\ p.num * Grid = x * p.den
  <2>1. i \in 0 .. GridTop(d)
    BY <1>1
  <2> QED
    BY <2>1, PointFacts
<1>3. d.null \in Fractions /\ u \in Nat /\ v \in Nat \ {0} /\ u <= v
  <2>1. d.null \in Fractions
    BY DesignFacts
  <2> QED
    BY <2>1 DEF Fractions
<1>4. p.num \in Nat /\ p.den \in Nat \ {0} /\ p.num <= p.den
  BY <1>2 DEF Fractions
<1> DEFINE a == p.num
           b == p.den
           g == a * v - u * b
<1>5. s = IF Upward(d) THEN g ELSE -g
  BY DEF Far
<1>6. Grid * g = b * (x * v - u * Grid)
  <2> DEFINE G == Grid
  <2>1. G \in Nat /\ a \in Nat /\ b \in Nat /\ u \in Nat /\ v \in Nat /\ x \in Nat /\ a * G = x * b
    BY <1>1, <1>2, <1>3, <1>4
  <2> HIDE DEF G, a, b, u, v, x
  <2>2. G * (a * v - u * b) = (a * G) * v - b * (u * G)
    BY <2>1
  <2>3. b * (x * v - u * G) = (x * b) * v - b * (u * G)
    BY <2>1
  <2> QED
    BY <2>1, <2>2, <2>3 DEF G, a, b, u, v, x
<1>7. ASSUME Upward(d) PROVE x * v - u * Grid >= 1
  <2> DEFINE w == u * Grid
             y == w \div v
             t == w % v
  <2>1. w \in Int /\ y = B /\ x = B + i /\ i >= 1 /\ i \in Int
    <3>1. w \in Int
      BY <1>1, <1>3
    <3> QED
      BY <1>7, <3>1 DEF GridBase, Tick
  <2>2. t \in Int /\ t < v /\ w = v * y + t
    BY <1>3, <2>1, QuotientOf
  <2> HIDE DEF w, y, t, B, x, u, v
  <2>3. x * v = B * v + i * v /\ v * y = B * v
    BY <1>1, <1>3, <2>1
  <2>4. v * 1 <= v * i
    BY <1>3, <2>1, TimesMore
  <2>5. i * v = v * i /\ B * v \in Int /\ v * i \in Int
    BY <1>1, <1>3, <2>1
  <2>6. x * v - w >= 1
    BY <1>3, <2>1, <2>2, <2>3, <2>4, <2>5
  <2> QED
    BY <2>6 DEF w
<1>8. ASSUME ~Upward(d) PROVE x * v - u * Grid <= -1
  <2> DEFINE w == u * Grid
             y == (-w) \div v
             t == (-w) % v
  <2>1. w \in Int /\ -w \in Int /\ y = -B /\ x = B - i /\ i >= 1 /\ i \in Int /\ y \in Int
    <3>1. w \in Int
      BY <1>1, <1>3
    <3>2. y \in Int
      BY <1>3, <3>1, QuotientOf
    <3>3. B = -y
      BY <1>8 DEF GridBase
    <3> QED
      BY <1>8, <3>1, <3>2, <3>3 DEF Tick
  <2>2. t \in Int /\ t < v /\ -w = v * y + t
    BY <1>3, <2>1, QuotientOf
  <2> HIDE DEF w, y, t, B, x, u, v
  <2>3. x * v = B * v - i * v /\ v * y = -(B * v)
    BY <1>1, <1>3, <2>1
  <2>4. v * 1 <= v * i
    BY <1>3, <2>1, TimesMore
  <2>5. i * v = v * i /\ B * v \in Int /\ v * i \in Int
    BY <1>1, <1>3, <2>1
  <2>6. x * v - w <= -1
    BY <1>3, <2>1, <2>2, <2>3, <2>4, <2>5
  <2> QED
    BY <2>6 DEF w
<1>9. g \in Int /\ x * v - u * Grid \in Int /\ D \in Nat \ {0} /\ a * v \in Nat /\ u * b \in Nat
  BY <1>1, <1>2, <1>3, <1>4
<1>10. s \in Int /\ s >= 1
  <2> DEFINE h == x * v - u * Grid
  <2>1. h \in Int /\ Grid * g = b * h
    BY <1>6, <1>9
  <2>2. CASE Upward(d)
    <3>1. h >= 1
      BY <1>7, <2>2
    <3> HIDE DEF h, g, b
    <3>2. b * 1 <= b * h
      BY <1>4, <2>1, <3>1, TimesMore DEF b
    <3>3. ~(g <= 0)
      <4> SUFFICES ASSUME g <= 0 PROVE FALSE
        OBVIOUS
      <4>1. Grid * g <= Grid * 0
        BY <1>1, <1>9, TimesMore
      <4> QED
        BY <1>1, <1>4, <1>9, <2>1, <3>2, <4>1 DEF b
    <3> QED
      BY <1>5, <1>9, <2>2, <3>3
  <2>3. CASE ~Upward(d)
    <3>1. h <= -1
      BY <1>8, <2>3
    <3> HIDE DEF h, g, b
    <3>2. b * h <= b * (-1)
      BY <1>4, <2>1, <3>1, TimesMore DEF b
    <3>3. ~(g >= 0)
      <4> SUFFICES ASSUME g >= 0 PROVE FALSE
        OBVIOUS
      <4>1. Grid * 0 <= Grid * g
        BY <1>1, <1>9, TimesMore
      <4> QED
        BY <1>1, <1>4, <1>9, <2>1, <3>2, <4>1 DEF b
    <3> QED
      BY <1>5, <1>9, <2>3, <3>3
  <2> QED
    BY <2>2, <2>3
<1>11. s <= D
  <2>1. v * a <= v * b /\ b * u <= b * v
    <3>1. a \in Int /\ b \in Nat /\ u \in Int /\ v \in Nat /\ a <= b /\ u <= v
      BY <1>3, <1>4
    <3> HIDE DEF a, b, u, v
    <3> QED
      BY <3>1, TimesMore
  <2>2. v * a = a * v /\ v * b = D /\ b * u = u * b /\ b * v = D
    BY <1>3, <1>4
  <2>3. a * v <= D /\ u * b <= D
    BY <2>1, <2>2
  <2> HIDE DEF D
  <2>4. g <= D /\ -g <= D
    BY <1>9, <2>3
  <2> QED
    BY <1>5, <2>4
<1>12. GapTo(d, i) = Lowest(s, D)
  BY DEF GapTo, Far
<1>13. s \in 0 .. D
  <2> HIDE DEF s, D
  <2> QED
    BY <1>9, <1>10, <1>11
<1>14. GapTo(d, i) \in Fractions /\ GapTo(d, i).num * D = s * GapTo(d, i).den
  <2> HIDE DEF s, D
  <2> QED
    BY <1>9, <1>12, <1>13, LowestFraction
<1>15. GapTo(d, i).num > 0
  <2> DEFINE m == GapTo(d, i).num
             n == GapTo(d, i).den
  <2>1. m \in Nat /\ n \in Nat \ {0} /\ m * D = s * n
    BY <1>14 DEF Fractions
  <2> HIDE DEF m, n, s, D
  <2>2. n * 1 <= n * s
    BY <1>10, <2>1, TimesMore
  <2>3. n * s = s * n /\ s * n \in Int
    BY <1>10, <2>1
  <2>4. m # 0
    <3> SUFFICES ASSUME m = 0 PROVE FALSE
      OBVIOUS
    <3>1. m * D = 0
      BY <1>9
    <3> QED
      BY <2>1, <2>2, <2>3, <3>1
  <2> QED
    BY <2>1, <2>4 DEF m
<1> QED
  BY <1>2, <1>3, <1>10, <1>14, <1>15

(* A gap is rounded up, to no more than 1.                                  *)
LEMMA RoundedFacts ==
  ASSUME NEW gap \in Fractions, gap.num > 0
  PROVE  /\ RoundedUp(gap) \in Fractions
         /\ RoundedUp(gap).num * gap.den >= gap.num * RoundedUp(gap).den
<1> DEFINE a == gap.num
           b == gap.den
           enough == b * Raise(Base, MDE_DIGITS - 1)
           Right(e) == /\ a * Raise(Base, e) >= enough
                       /\ \A f \in 0 .. e - 1 : a * Raise(Base, f) < enough
           places == CHOOSE e \in 0 .. enough : Right(e)
           whole == Raise(Base, places)
           c == -((-(a * whole)) \div b)
<1>1. a \in Nat \ {0} /\ b \in Nat \ {0} /\ a <= b
  BY DEF Fractions
<1>2. Base \in Nat \ {0, 1} /\ MDE_DIGITS - 1 \in Nat
  BY DigitsAssumption
<1>3. enough \in Nat
  <2>1. Raise(Base, MDE_DIGITS - 1) \in Nat
    BY <1>2, RaiseBeyond
  <2> QED
    BY <1>1, <2>1
<1>4. RoundedUp(gap) = Lowest(c, whole)
  BY DEF RoundedUp
<1> HIDE DEF a, b, enough
<1>5. \A e \in Nat : Raise(Base, e) \in Nat /\ Raise(Base, e) > e
  BY <1>2, RaiseBeyond
<1>6. \E e \in 0 .. enough : Right(e)
  <2> DEFINE T == {e \in Nat : a * Raise(Base, e) >= enough}
  <2>1. enough \in T
    <3> DEFINE x == Raise(Base, enough)
    <3>1. x \in Nat /\ x > enough
      BY <1>3, <1>5
    <3> HIDE DEF x
    <3>2. x * 1 <= x * a
      BY <1>1, <3>1, TimesMore
    <3>3. x * a = a * x /\ a * x \in Nat
      BY <1>1, <3>1
    <3>4. a * x >= enough
      BY <1>3, <3>1, <3>2, <3>3
    <3> QED
      BY <1>3, <3>4 DEF x
  <2>2. PICK e \in T : \A f \in T : e <= f
    <3>1. T \in SUBSET Nat
      OBVIOUS
    <3> HIDE DEF T
    <3> QED
      BY <2>1, <3>1, LeastElement
  <2>3. e \in Nat /\ e <= enough /\ a * Raise(Base, e) >= enough
    BY <2>1, <2>2
  <2>4. ASSUME NEW f \in 0 .. e - 1 PROVE a * Raise(Base, f) < enough
    <3>1. f \in Nat /\ ~(e <= f)
      BY <2>3
    <3>2. f \notin T
      BY <2>2, <3>1
    <3>3. Raise(Base, f) \in Nat
      BY <1>5, <3>1
    <3>4. a * Raise(Base, f) \in Nat
      BY <1>1, <3>3
    <3> QED
      BY <1>3, <3>1, <3>2, <3>4
  <2> QED
    BY <1>3, <2>3, <2>4
<1> HIDE DEF Right
<1>7. places \in Nat /\ whole \in Nat \ {0}
  <2>1. places \in 0 .. enough
    BY <1>6
  <2> HIDE DEF places
  <2> QED
    BY <1>5, <2>1
<1> HIDE DEF whole
<1> DEFINE w == a * whole
           y == (-w) \div b
           t == (-w) % b
<1>8. w \in Nat /\ w <= b * whole
  <2>1. whole * a <= whole * b
    BY <1>1, <1>7, TimesMore
  <2>2. whole * a = w /\ whole * b = b * whole /\ w \in Nat
    BY <1>1, <1>7
  <2> QED
    BY <2>1, <2>2
<1> HIDE DEF w
<1>9. y \in Int /\ t \in Int /\ 0 <= t /\ t < b /\ -w = b * y + t
  <2>1. -w \in Int
    BY <1>8
  <2> QED
    BY <1>1, <2>1, QuotientOf
<1>10. c = -y
  BY DEF w
<1> HIDE DEF y, t, c
<1>11. c \in 0 .. whole
  <2>1. b * y <= b * 0
    <3>1. b * y \in Int
      BY <1>1, <1>9
    <3> QED
      BY <1>1, <1>8, <1>9, <3>1
  <2>2. y <= 0
    BY <1>1, <1>9, <2>1, Cancels
  <2>3. ~(y <= -(whole + 1))
    <3> SUFFICES ASSUME y <= -(whole + 1) PROVE FALSE
      OBVIOUS
    <3>1. b * y <= b * (-(whole + 1))
      BY <1>1, <1>7, <1>9, TimesMore
    <3>2. b * (-(whole + 1)) = -(b * whole) - b /\ b * whole \in Int /\ b * y \in Int
      BY <1>1, <1>7, <1>9
    <3> QED
      BY <1>1, <1>8, <1>9, <3>1, <3>2
  <2> QED
    BY <1>7, <1>9, <1>10, <2>2, <2>3
<1>12. c * b >= a * whole
  <2>1. c * b = -(b * y) /\ b * y \in Int
    BY <1>1, <1>9, <1>10
  <2> QED
    BY <1>8, <1>9, <2>1 DEF w
<1> DEFINE r == Lowest(c, whole)
<1>13. r \in Fractions /\ r.num * whole = c * r.den
  BY <1>7, <1>11, LowestFraction
<1>14. r.num \in Nat /\ r.den \in Nat
  BY <1>13, FractionParts
<1> HIDE DEF r
<1>15. a * r.den <= r.num * b
  <2> DEFINE m == r.num
             n == r.den
  <2>1. m \in Nat /\ n \in Nat /\ m * whole = c * n
    BY <1>13, <1>14
  <2>2. c \in Nat
    BY <1>11
  <2> HIDE DEF m, n
  <2>3. n * (a * whole) <= n * (c * b)
    <3>1. a * whole \in Int /\ c * b \in Int
      BY <1>1, <1>7, <2>2
    <3> QED
      BY <1>12, <2>1, <3>1, TimesMore
  <2>4. n * (a * whole) = whole * (a * n) /\ n * (c * b) = (c * n) * b /\ (m * whole) * b = whole * (m * b)
    BY <1>1, <1>7, <2>1, <2>2
  <2>5. whole * (a * n) <= whole * (m * b)
    BY <2>1, <2>3, <2>4
  <2>6. a * n \in Int /\ m * b \in Int
    BY <1>1, <2>1
  <2>7. a * n <= m * b
    BY <1>7, <2>5, <2>6, Cancels
  <2> QED
    BY <2>7 DEF m, n
<1>16. r.num * b \in Int /\ a * r.den \in Int
  BY <1>1, <1>14
<1> QED
  BY <1>4, <1>13, <1>15, <1>16 DEF r, a, b

(* A wider gap leads to an effect further out.                              *)
LEMMA WiderIsFurther ==
  ASSUME NEW d \in Designs, NEW i \in 1 .. GridTop(d), NEW gap \in Fractions,
         gap.num * GapTo(d, i).den >= GapTo(d, i).num * gap.den,
         Effect(d, gap).num \in 0 .. Effect(d, gap).den
  PROVE  LET r == Lowest(Effect(d, gap).num, Effect(d, gap).den)
         IN  r \in Fractions /\ Further(d, GridPoint(d, i), r)
<1> DEFINE p == GridPoint(d, i)
           m == GapTo(d, i)
           u == d.null.num
           v == d.null.den
           s == Far(d, i)
           e == Effect(d, gap)
           r == Lowest(e.num, e.den)
           f == Effect(d, m)
           g == gap.num
           h == gap.den
           j == m.num
           k == m.den
           a == p.num
           b == p.den
<1>1. /\ p \in Fractions /\ d.null \in Fractions /\ m \in Fractions /\ s \in Int
      /\ j * (b * v) = s * k
  BY GapFacts
<1>2. /\ u \in Nat /\ v \in Nat \ {0} /\ g \in Nat /\ h \in Nat \ {0} /\ j \in Nat /\ k \in Nat \ {0}
      /\ a \in Nat /\ b \in Nat \ {0}
  <2>1. d.null \in Fractions /\ gap \in Fractions /\ m \in Fractions /\ p \in Fractions
    BY <1>1
  <2> HIDE DEF m, p
  <2> QED
    BY <2>1, FractionParts
<1>3. /\ e.den = v * h /\ f.den = v * k
      /\ Upward(d) => e.num = u * h + g * v /\ f.num = u * k + j * v /\ s = a * v - u * b
      /\ ~Upward(d) => e.num = u * h + (-g) * v /\ f.num = u * k + (-j) * v /\ s = -(a * v - u * b)
  BY DEF Effect, Far
<1>4. j * h <= g * k
  <2>1. j * h \in Int /\ g * k \in Int
    BY <1>2
  <2> HIDE DEF j, h, g, k
  <2>2. g * k >= j * h
    BY DEF j, h, g, k
  <2> QED
    BY <2>1, <2>2
<1>5. e.den \in Nat \ {0} /\ f.den \in Nat \ {0} /\ e.num \in Int /\ f.num \in Int
  <2> DEFINE x == e.num
             y == f.num
             z == e.den
             w == f.den
  <2> HIDE DEF u, v, g, h, j, k, e, f, x, y, z, w
  <2>1. v * h \in Nat \ {0} /\ v * k \in Nat \ {0}
    BY <1>2
  <2>2. u * h \in Int /\ g * v \in Int /\ (-g) * v \in Int /\ u * k \in Int /\ j * v \in Int /\ (-j) * v \in Int
    BY <1>2
  <2> QED
    BY <1>3, <2>1, <2>2
<1>6. r \in Fractions /\ r.num * e.den = e.num * r.den
  <2>1. e.num \in 0 .. e.den
    OBVIOUS
  <2> HIDE DEF e
  <2> QED
    BY <1>5, <2>1, LowestFraction
<1>7. f.num * b = a * f.den
  <2> DEFINE y == f.num
             w == f.den
  <2>1. w = v * k /\ (Upward(d) => y = u * k + j * v /\ s = a * v - u * b)
        /\ (~Upward(d) => y = u * k + (-j) * v /\ s = -(a * v - u * b))
    BY <1>3
  <2> HIDE DEF u, v, j, k, f, y, w, a, b, s
  <2>2. j * (b * v) = s * k
    BY <1>1
  <2>3. CASE Upward(d)
    <3>1. (u * k + j * v) * b = (u * b) * k + j * (b * v)
      BY <1>2
    <3>2. (a * v - u * b) * k = a * (v * k) - (u * b) * k
      BY <1>2
    <3>3. (u * b) * k \in Int /\ a * (v * k) \in Int
      BY <1>2
    <3>4. y * b = a * w
      BY <2>1, <2>2, <2>3, <3>1, <3>2, <3>3
    <3> QED
      BY <3>4 DEF y, w
  <2>4. CASE ~Upward(d)
    <3>1. (u * k + (-j) * v) * b = (u * b) * k - j * (b * v)
      BY <1>2
    <3>2. (-(a * v - u * b)) * k = (u * b) * k - a * (v * k)
      BY <1>2
    <3>3. (u * b) * k \in Int /\ a * (v * k) \in Int
      BY <1>2
    <3>4. y * b = a * w
      BY <2>1, <2>2, <2>4, <3>1, <3>2, <3>3
    <3> QED
      BY <3>4 DEF y, w
  <2> QED
    BY <2>3, <2>4
<1>8. (v * v) * (j * h) <= (v * v) * (g * k)
  <2>1. v * v \in Nat /\ j * h \in Int /\ g * k \in Int
    BY <1>2
  <2> QED
    BY <1>4, <2>1, TimesMore
<1>9. Further(d, p, p)
  BY PointsFurther
<1>10. CASE Upward(d)
  <2>1. f.num * e.den <= e.num * f.den
    <3> DEFINE x == e.num
               y == f.num
               z == e.den
               w == f.den
    <3>1. z = v * h /\ w = v * k /\ y = u * k + j * v /\ x = u * h + g * v
      BY <1>3, <1>10
    <3> HIDE DEF u, v, g, h, j, k, e, f, x, y, z, w
    <3>2. (u * k + j * v) * (v * h) = u * k * v * h + (v * v) * (j * h)
      BY <1>2
    <3>3. (u * h + g * v) * (v * k) = u * k * v * h + (v * v) * (g * k)
      BY <1>2
    <3>4. u * k * v * h \in Int /\ (v * v) * (j * h) \in Int /\ (v * v) * (g * k) \in Int
      BY <1>2
    <3>5. y * z <= x * w
      BY <1>8, <3>1, <3>2, <3>3, <3>4
    <3> QED
      BY <3>5 DEF x, y, z, w
  <2>2. Likelier(p, r)
    <3>1. p.num = a /\ p.den = b /\ r.num * e.den = e.num * r.den
      BY <1>6
    <3> HIDE DEF p, r, e, f, a, b
    <3>2. e.num * r.den = r.num * e.den /\ f.num * p.den = p.num * f.den
      BY <1>7, <3>1
    <3> QED
      BY <1>1, <1>5, <1>6, <2>1, <3>2, RatiosInOrder
  <2> QED
    BY <1>6, <1>9, <1>10, <2>2 DEF Further
<1>11. CASE ~Upward(d)
  <2>1. e.num * f.den <= f.num * e.den
    <3> DEFINE x == e.num
               y == f.num
               z == e.den
               w == f.den
    <3>1. z = v * h /\ w = v * k /\ y = u * k + (-j) * v /\ x = u * h + (-g) * v
      BY <1>3, <1>11
    <3> HIDE DEF u, v, g, h, j, k, e, f, x, y, z, w
    <3>2. (u * k + (-j) * v) * (v * h) = u * k * v * h - (v * v) * (j * h)
      BY <1>2
    <3>3. (u * h + (-g) * v) * (v * k) = u * k * v * h - (v * v) * (g * k)
      BY <1>2
    <3>4. u * k * v * h \in Int /\ (v * v) * (j * h) \in Int /\ (v * v) * (g * k) \in Int
      BY <1>2
    <3>5. x * w <= y * z
      BY <1>8, <3>1, <3>2, <3>3, <3>4
    <3> QED
      BY <3>5 DEF x, y, z, w
  <2>2. Likelier(r, p)
    <3>1. p.num = a /\ p.den = b /\ r.num * e.den = e.num * r.den
      BY <1>6
    <3> HIDE DEF p, r, e, f, a, b
    <3>2. e.num * r.den = r.num * e.den /\ f.num * p.den = p.num * f.den
      BY <1>7, <3>1
    <3> QED
      BY <1>1, <1>5, <1>6, <2>1, <3>2, RatiosInOrder
  <2> QED
    BY <1>6, <1>11, <2>2 DEF Further
<1> QED
  BY <1>10, <1>11

(* The gap of a grid point leads back to it.                                *)
LEMMA GapLeadsBack ==
  ASSUME NEW d \in Designs, NEW i \in 1 .. GridTop(d)
  PROVE  Effect(d, GapTo(d, i)).num \in 0 .. Effect(d, GapTo(d, i)).den
<1> DEFINE p == GridPoint(d, i)
           m == GapTo(d, i)
           u == d.null.num
           v == d.null.den
           s == Far(d, i)
           f == Effect(d, m)
           j == m.num
           k == m.den
           a == p.num
           b == p.den
           y == f.num
           w == f.den
<1>1. /\ p \in Fractions /\ d.null \in Fractions /\ m \in Fractions /\ s \in Int
      /\ j * (b * v) = s * k
  BY GapFacts
<1>2. /\ u \in Nat /\ v \in Nat \ {0} /\ j \in Nat /\ k \in Nat \ {0}
      /\ a \in Nat /\ b \in Nat \ {0} /\ a <= b
  <2>1. d.null \in Fractions /\ m \in Fractions /\ p \in Fractions
    BY <1>1
  <2> HIDE DEF m, p
  <2> QED
    BY <2>1, FractionParts DEF Fractions
<1>3. w = v * k /\ (Upward(d) => y = u * k + j * v /\ s = a * v - u * b)
      /\ (~Upward(d) => y = u * k + (-j) * v /\ s = -(a * v - u * b))
  BY DEF Effect, Far
<1> HIDE DEF u, v, j, k, f, y, w, a, b, s
<1>4. w \in Nat \ {0} /\ y \in Int
  <2>1. u * k \in Int /\ j * v \in Int /\ (-j) * v \in Int /\ v * k \in Nat \ {0}
    BY <1>2
  <2> QED
    BY <1>3, <2>1
<1>5. y * b = a * w
  <2>1. CASE Upward(d)
    <3>1. (u * k + j * v) * b = (u * b) * k + j * (b * v)
      BY <1>2
    <3>2. (a * v - u * b) * k = a * (v * k) - (u * b) * k
      BY <1>2
    <3>3. (u * b) * k \in Int /\ a * (v * k) \in Int
      BY <1>2
    <3> QED
      BY <1>1, <1>3, <2>1, <3>1, <3>2, <3>3
  <2>2. CASE ~Upward(d)
    <3>1. (u * k + (-j) * v) * b = (u * b) * k - j * (b * v)
      BY <1>2
    <3>2. (-(a * v - u * b)) * k = (u * b) * k - a * (v * k)
      BY <1>2
    <3>3. (u * b) * k \in Int /\ a * (v * k) \in Int
      BY <1>2
    <3> QED
      BY <1>1, <1>3, <2>2, <3>1, <3>2, <3>3
  <2> QED
    BY <2>1, <2>2
<1>6. w * a <= w * b /\ w * a = a * w /\ w * b = b * w /\ a * w \in Nat /\ y * b = b * y /\ b * 0 = 0
  BY <1>2, <1>4, TimesMore
<1>7. b * y <= b * w /\ b * 0 <= b * y
  BY <1>5, <1>6
<1>8. y <= w /\ 0 <= y
  BY <1>2, <1>4, <1>7, Cancels
<1>9. y \in 0 .. w
  BY <1>4, <1>8
<1> QED
  BY <1>9 DEF y, w, f

(* What is printed still reaches: a gap that is rounded is rounded up, and  *)
(* one that would leave 0..1 is not rounded.                                *)
LEMMA PrintedAttains ==
  ASSUME NEW d \in Designs, NEW i \in 1 .. GridTop(d), Attains(d, i)
  PROVE  LET gap == MdeText(d, i)
             effect == Effect(d, gap)
         IN  /\ effect.num \in 0 .. effect.den
             /\ gap.num * GapTo(d, i).den >= GapTo(d, i).num * gap.den
             /\ Suffices(d, ExactRegion(d), Lowest(effect.num, effect.den))
<1> DEFINE gap == MdeText(d, i)
           m == GapTo(d, i)
           effect == Effect(d, gap)
           r == Lowest(effect.num, effect.den)
<1>1. m \in Fractions /\ m.num > 0 /\ GridPoint(d, i) \in Fractions
  BY GapFacts
<1>2. RoundedUp(m) \in Fractions /\ RoundedUp(m).num * m.den >= m.num * RoundedUp(m).den
  <2> HIDE DEF m
  <2> QED
    BY <1>1, RoundedFacts
<1>3. m.num * m.den >= m.num * m.den
  <2> HIDE DEF m
  <2>1. m.num \in Int /\ m.den \in Int
    BY <1>1, FractionParts
  <2>2. m.num * m.den \in Int
    BY <2>1
  <2> QED
    BY <2>2
<1>4. /\ gap \in Fractions
      /\ gap.num * m.den >= m.num * gap.den
      /\ effect.num \in 0 .. effect.den
  <2>1. gap = IF Effect(d, RoundedUp(m)).num \in 0 .. Effect(d, RoundedUp(m)).den THEN RoundedUp(m) ELSE m
    BY DEF MdeText
  <2>2. Effect(d, m).num \in 0 .. Effect(d, m).den
    BY GapLeadsBack
  <2> HIDE DEF gap, m
  <2> QED
    BY <1>1, <1>2, <1>3, <2>1, <2>2
<1>5. r \in Fractions /\ Further(d, GridPoint(d, i), r)
  <2> HIDE DEF gap
  <2> QED
    BY <1>4, WiderIsFurther
<1>6. Enough(d, r)
  <2>1. Enough(d, GridPoint(d, i))
    BY DEF Attains
  <2> HIDE DEF r
  <2> QED
    BY <1>1, <1>5, <2>1, EnoughOn
<1>7. Suffices(d, ExactRegion(d), r)
  <2> HIDE DEF r
  <2> QED
    BY <1>5, <1>6, EnoughIs
<1> QED
  BY <1>4, <1>7

(* For every design, grid, base and number of digits: the effect that is    *)
(* printed is a probability, is no nearer the null than the effect that was *)
(* found, and still reaches the power (_render.py:66-67).                   *)
THEOREM PrintedReachesHolds == PlanSpec => []PrintedReaches
<1>1. MdeInv => PrintedReaches
  <2> SUFFICES ASSUME MdeInv, answer \in Nat
               PROVE  LET gap    == MdeText(design, answer)
                          effect == Effect(design, gap)
                          mde    == GapTo(design, answer)
                      IN  /\ effect.num \in 0 .. effect.den
                          /\ gap.num * mde.den >= mde.num * gap.den
                          /\ Suffices(design, region, Lowest(effect.num, effect.den))
    BY DEF PrintedReaches
  <2>1. design \in Designs /\ region # NotYet /\ region = ExactRegion(design)
    BY AnswersAssumption DEF MdeInv, RegionInv
  <2>2. Stretching
    BY <2>1 DEF MdeInv, Waiting
  <2>3. answer \in 1 .. GridTop(design) /\ Attains(design, answer)
    <3>1. /\ holds = Reach(design) /\ top = GridTop(design) /\ answer = high /\ top \in Nat
          /\ high = low + 1 /\ high <= top /\ low \in Nat /\ holds[high]
      BY <2>2 DEF Stretching, Inv, Types, Galloping
    <3>2. answer \in 1 .. GridTop(design) /\ answer \in 0 .. GridTop(design)
      BY <3>1
    <3>3. Suffices(design, ExactRegion(design), GridPoint(design, answer))
      BY <3>1, <3>2 DEF Reach
    <3> QED
      BY <2>1, <3>2, <3>3, AttainsIs
  <2> QED
    BY <2>1, <2>3, PrintedAttains
<1>2. PlanSpec => []MdeInv
  BY MdeStarts, MdeStep, PTL DEF PlanSpec
<1> QED
  BY <1>1, <1>2, PTL

-----------------------------------------------------------------------------
(* Smaller p-values *)

Lower(qs, ps) == Len(qs) = Len(ps) /\ \A i \in 1 .. Len(ps) : qs[i] <= ps[i]

(* The places that p-values have once sorted.                               *)
LEMMA SortedPlaces ==
  ASSUME NEW ps \in Seq(Nat)
  PROVE  LET n == Len(ps)
             at == [i \in 1 .. n |-> Place(ps, i)]
             v == [k \in 1 .. n |-> ps[Order(ps)[k]]]
         IN  /\ n \in Nat /\ Placed(1 .. n, at, n) /\ Rises(v, n)
             /\ \A i \in 1 .. n : at[i] \in 1 .. n /\ v[at[i]] = ps[i]
<1> DEFINE n == Len(ps)
           at == [i \in 1 .. n |-> Place(ps, i)]
           v == [k \in 1 .. n |-> ps[Order(ps)[k]]]
<1>1. /\ n \in Nat /\ DOMAIN ps = 1 .. n
      /\ \A i \in 1 .. n : Place(ps, i) \in 1 .. n
      /\ \A i, j \in 1 .. n : Place(ps, i) = Place(ps, j) => i = j
      /\ \A i, j \in 1 .. n : Place(ps, i) <= Place(ps, j) => ps[i] <= ps[j]
      /\ \A k \in 1 .. n : /\ Order(ps)[k] \in 1 .. n
                           /\ Place(ps, Order(ps)[k]) = k
  BY Places
<1>2. \A i \in 1 .. n : ps[i] \in Nat
  BY <1>1
<1> HIDE DEF n
<1>3. Placed(1 .. n, at, n)
  BY <1>1 DEF Placed
<1>4. Rises(v, n)
  <2>1. \A k \in 1 .. n : v[k] \in Nat
    BY <1>1, <1>2
  <2>2. \A j, k \in 1 .. n : j <= k => v[j] <= v[k]
    BY <1>1
  <2> QED
    BY <2>1, <2>2 DEF Rises
<1>5. ASSUME NEW i \in 1 .. n PROVE at[i] \in 1 .. n /\ v[at[i]] = ps[i]
  <2>1. Order(ps)[Place(ps, i)] = i
    BY <1>1
  <2> QED
    BY <1>1, <2>1
<1> QED
  BY <1>1, <1>3, <1>4, <1>5 DEF n

(* The smaller p-values are, the smaller the one at each place.             *)
LEMMA SortedLower ==
  ASSUME NEW ps \in Seq(Nat), NEW qs \in Seq(Nat), Lower(qs, ps), NEW k \in 1 .. Len(ps)
  PROVE  qs[Order(qs)[k]] <= ps[Order(ps)[k]]
<1> DEFINE n == Len(ps)
           at == [i \in 1 .. n |-> Place(ps, i)]
           v == [j \in 1 .. n |-> ps[Order(ps)[j]]]
           to == [i \in 1 .. n |-> Place(qs, i)]
           w == [j \in 1 .. n |-> qs[Order(qs)[j]]]
           S == {i \in 1 .. n : at[i] <= k}
<1>1. /\ n \in Nat /\ Placed(1 .. n, at, n) /\ Rises(v, n)
      /\ \A i \in 1 .. n : at[i] \in 1 .. n /\ v[at[i]] = ps[i]
  BY SortedPlaces
<1>2. /\ Placed(1 .. n, to, n) /\ Rises(w, n)
      /\ \A i \in 1 .. n : to[i] \in 1 .. n /\ w[to[i]] = qs[i]
  <2>1. Len(qs) = n
    BY DEF Lower
  <2> QED
    BY <2>1, SortedPlaces
<1>3. \A i \in 1 .. n : qs[i] <= ps[i]
  BY DEF Lower
<1>4. v[k] = ps[Order(ps)[k]] /\ w[k] = qs[Order(qs)[k]] /\ k \in 1 .. n
  OBVIOUS
<1>5. \A i \in 1 .. n : ps[i] \in Nat /\ qs[i] \in Nat
  <2>1. Len(qs) = n
    BY DEF Lower
  <2> QED
    BY <2>1
<1> HIDE DEF n, at, v, to, w
<1>6. v[k] \in Nat /\ w[k] \in Nat
  BY <1>1, <1>2, <1>4 DEF Rises
<1> SUFFICES ASSUME v[k] < w[k] PROVE FALSE
  BY <1>4, <1>6
<1>7. Cardinality(S) \in Nat /\ Cardinality(S) >= k - 1 + 1
  <2>1. \A i \in 1 .. n : at[i] \in 1 .. k => i \in S
    BY <1>1
  <2>2. S \in SUBSET (1 .. n) /\ 1 \in Nat /\ k \in Nat /\ 1 <= 1 /\ k <= n /\ 1 <= k + 1
    BY <1>4
  <2> HIDE DEF S
  <2> QED
    BY <1>1, <2>1, <2>2, AsManyAsPlaces
<1>8. \A i \in S : to[i] \in 1 .. k - 1
  <2> SUFFICES ASSUME NEW i \in 1 .. n, at[i] <= k, ~(to[i] <= k - 1) PROVE FALSE
    BY <1>2
  <2>1. ps[i] <= v[k]
    BY <1>1, <1>4 DEF Rises
  <2>2. k <= to[i]
    BY <1>2, <1>4
  <2>3. w[k] <= qs[i]
    BY <1>2, <1>4, <2>2 DEF Rises
  <2> QED
    BY <1>3, <1>5, <1>6, <2>1, <2>3
<1>9. Cardinality(S) <= k - 1 - 1 + 1
  <2>1. S \in SUBSET (1 .. n) /\ 1 \in Nat /\ k - 1 \in Nat /\ 1 <= 1 /\ k - 1 <= n /\ 1 <= k - 1 + 1
    BY <1>1, <1>4
  <2> HIDE DEF S
  <2> QED
    BY <1>2, <1>8, <2>1, AsManyAsPlaces
<1> QED
  BY <1>4, <1>7, <1>9

(* Benjamini and Hochberg's adjusted p-value passes when one of the steps   *)
(* up from its place does.                                                  *)
LEMMA BHReaches ==
  ASSUME One \in Nat, NEW ps \in Seq(Nat), NEW i \in 1 .. Len(ps), NEW alpha \in 0 .. One - 1
  PROVE  BenjaminiHochberg(ps)[i] <= alpha <=> \E k \in Place(ps, i) .. Len(ps) : StepUp(ps, k) <= alpha
<1> DEFINE n == Len(ps)
           T == {One} \cup {StepUp(ps, k) : k \in Place(ps, i) .. n}
<1>1. /\ n \in Nat /\ DOMAIN ps = 1 .. n /\ i \in 1 .. n /\ Place(ps, i) \in 1 .. n
      /\ \A k \in 1 .. n : Order(ps)[k] \in 1 .. n
  BY Places
<1>2. ASSUME NEW k \in 1 .. n PROVE StepUp(ps, k) \in Nat
  <2>1. ps[Order(ps)[k]] \in Nat /\ k \in Nat \ {0}
    BY <1>1
  <2>2. \A y, z \in Nat : y * z \in Nat
    OBVIOUS
  <2>3. ps[Order(ps)[k]] * n \in Nat
    BY <1>1, <2>1, <2>2
  <2>4. \A a \in Nat, g \in Nat \ {0} : a \div g \in Nat
    OBVIOUS
  <2> QED
    BY <2>1, <2>3, <2>4 DEF StepUp
<1>3. BenjaminiHochberg(ps)[i] = CHOOSE x \in T : \A y \in T : x <= y
  BY <1>1 DEF BenjaminiHochberg, Min
<1>4. \A k \in Place(ps, i) .. n : k \in 1 .. n
  BY <1>1
<1>5. T \in SUBSET Nat /\ T # {} /\ One \in T
  BY <1>2, <1>4
<1>6. \E x \in T : \A y \in T : x <= y
  <2> HIDE DEF T
  <2> QED
    BY <1>5, LeastElement
<1>7. BenjaminiHochberg(ps)[i] \in T /\ \A y \in T : BenjaminiHochberg(ps)[i] <= y
  <2> HIDE DEF T
  <2> QED
    BY <1>3, <1>6
<1>8. BenjaminiHochberg(ps)[i] <= alpha <=> \E y \in T : y <= alpha
  <2> HIDE DEF T
  <2>1. \A y \in T : y \in Nat
    BY <1>5
  <2> QED
    BY <1>7, <2>1
<1>9. ~(One <= alpha)
  OBVIOUS
<1> QED
  BY <1>8, <1>9

(* As a p-value falls, what it is of the next place up falls too.           *)
LEMMA QuotientFalls ==
  ASSUME NEW a \in Nat, NEW b \in Nat, a <= b, NEW j \in Nat \ {0}, NEW k \in Nat \ {0}, k <= j
  PROVE  a \div j <= b \div k
<1> DEFINE x == a \div j
           y == b \div k
           s == a % j
           t == b % k
<1>1. x \in Int /\ s \in Int /\ 0 <= s /\ a = j * x + s
  BY QuotientOf
<1>2. y \in Int /\ t \in Int /\ t < k /\ b = k * y + t
  BY QuotientOf
<1>3. x \in Nat
  OBVIOUS
<1> HIDE DEF x, y, s, t
<1> SUFFICES ASSUME y + 1 <= x PROVE FALSE
  BY <1>1, <1>2 DEF x, y
<1>4. k * (y + 1) <= k * x
  BY <1>2, <1>3, TimesMore
<1>5. x * k <= x * j
  BY <1>3, TimesMore
<1>6. k * (y + 1) = k * y + k /\ k * x = x * k /\ j * x = x * j /\ k * y \in Int /\ x * k \in Int /\ x * j \in Int
  BY <1>2, <1>3
<1> QED
  BY <1>1, <1>2, <1>4, <1>5, <1>6

(* Smaller p-values never lose a decision, by either correction: a smaller  *)
(* p-value may take another place, but passes there as well.                *)
LEMMA LowerStillPasses ==
  ASSUME One \in Nat, NEW ps \in Seq(Nat), NEW qs \in Seq(Nat), Lower(qs, ps),
         NEW i \in 1 .. Len(ps), NEW alpha \in 0 .. One - 1, NEW c, Adjust(c, ps)[i] <= alpha
  PROVE  Adjust(c, qs)[i] <= alpha
<1> DEFINE n == Len(ps)
           v(k) == ps[Order(ps)[k]]
           w(k) == qs[Order(qs)[k]]
           j == Place(ps, i)
           m == Place(qs, i)
<1>1. n \in Nat /\ Len(qs) = n /\ i \in 1 .. n
  BY DEF Lower
<1>2. j \in 1 .. n /\ v(j) = ps[i] /\ \A k \in 1 .. n : v(k) \in Nat
  BY SortedPlaces DEF Rises
<1>3. m \in 1 .. n /\ w(m) = qs[i] /\ \A k \in 1 .. n : w(k) \in Nat
  BY <1>1, SortedPlaces DEF Rises
<1>4. \A k, l \in 1 .. n : (k <= l => v(k) <= v(l)) /\ (k <= l => w(k) <= w(l))
  <2>1. \A k, l \in 1 .. n : k <= l => v(k) <= v(l)
    BY SortedPlaces DEF Rises
  <2>2. \A k, l \in 1 .. n : k <= l => w(k) <= w(l)
    BY <1>1, SortedPlaces DEF Rises
  <2> QED
    BY <2>1, <2>2
<1>5. \A k \in 1 .. n : w(k) <= v(k)
  BY SortedLower
<1>6. qs[i] <= ps[i]
  BY <1>1 DEF Lower
<1>7. CASE c = "holm"
  <2>1. \A k \in 1 .. j : (n - k + 1) * v(k) <= alpha
    BY <1>7, HolmPasses DEF Adjust
  <2>2. Adjust(c, qs)[i] <= alpha <=> \A k \in 1 .. m : (n - k + 1) * w(k) <= alpha
    <3>1. Holm(qs)[i] <= alpha <=> \A k \in 1 .. m : (Len(qs) - k + 1) * w(k) <= alpha
      BY <1>1, HolmPasses
    <3> QED
      BY <1>1, <1>7, <3>1 DEF Adjust
  <2> HIDE DEF n, v, w, j, m
  <2>3. ASSUME NEW k \in 1 .. m PROVE (n - k + 1) * w(k) <= alpha
    <3>1. PICK l \in 1 .. j : l <= k /\ w(k) <= v(l)
      <4>1. CASE k <= j
        BY <1>1, <1>2, <1>3, <1>5, <4>1
      <4>2. CASE ~(k <= j)
        <5>1. k \in 1 .. n /\ j <= k /\ k <= m
          BY <1>1, <1>2, <1>3, <4>2
        <5>2. w(k) <= w(m) /\ w(m) \in Nat /\ w(k) \in Nat /\ v(j) \in Nat
          BY <1>2, <1>3, <1>4, <5>1
        <5>3. w(k) <= v(j)
          BY <1>2, <1>3, <1>6, <5>2
        <5> QED
          BY <1>2, <5>1, <5>3
      <4> QED
        BY <4>1, <4>2
    <3>2. n - k + 1 \in Nat /\ n - l + 1 \in Nat /\ n - k + 1 <= n - l + 1 /\ w(k) \in Nat /\ v(l) \in Nat
      <4>1. j \in 1 .. n /\ m \in 1 .. n
        BY <1>2, <1>3
      <4>2. k \in 1 .. n /\ l \in 1 .. n /\ l <= k
        BY <1>1, <3>1, <4>1
      <4>3. w(k) \in Nat /\ v(l) \in Nat
        BY <1>2, <1>3, <4>2
      <4> QED
        BY <1>1, <4>2, <4>3
    <3>3. (n - k + 1) * w(k) \in Nat /\ (n - k + 1) * w(k) <= (n - l + 1) * v(l)
      BY <3>1, <3>2, ProductsGrow
    <3>4. (n - l + 1) * v(l) \in Nat /\ (n - l + 1) * v(l) <= alpha
      <4>1. \A x, y \in Nat : x * y \in Nat
        OBVIOUS
      <4> QED
        BY <2>1, <3>2, <4>1
    <3> QED
      BY <3>3, <3>4
  <2> QED
    BY <2>2, <2>3
<1>8. CASE c # "holm"
  <2>1. PICK k \in j .. n : StepUp(ps, k) <= alpha
    BY <1>8, BHReaches DEF Adjust
  <2>2. Adjust(c, qs)[i] <= alpha <=> \E l \in m .. n : StepUp(qs, l) <= alpha
    <3>1. BenjaminiHochberg(qs)[i] <= alpha <=> \E l \in m .. Len(qs) : StepUp(qs, l) <= alpha
      BY <1>1, BHReaches
    <3> QED
      BY <1>1, <1>8, <3>1 DEF Adjust
  <2>3. k \in 1 .. n
    BY <1>1, <1>2
  <2>4. \A l \in 1 .. n : StepUp(ps, l) = (v(l) * n) \div l /\ StepUp(qs, l) = (w(l) * n) \div l
    BY <1>1 DEF StepUp
  <2> HIDE DEF n, v, w, j, m
  <2>5. PICK l \in m .. n : k <= l /\ w(l) <= v(k)
    <3>1. CASE m <= k
      BY <1>1, <1>3, <1>5, <2>3, <3>1
    <3>2. CASE ~(m <= k)
      <4>1. v(j) <= v(k)
        BY <1>2, <1>4, <2>1, <2>3
      <4>2. w(m) <= v(k)
        BY <1>2, <1>3, <1>6, <2>3, <4>1
      <4> QED
        BY <1>1, <1>3, <2>3, <3>2, <4>2
    <3> QED
      BY <3>1, <3>2
  <2>6. l \in 1 .. n /\ l \in Nat \ {0} /\ k \in Nat \ {0} /\ w(l) \in Nat /\ v(k) \in Nat
    <3>1. m \in 1 .. n
      BY <1>3
    <3>2. l \in 1 .. n
      BY <1>1, <2>5, <3>1
    <3>3. w(l) \in Nat /\ v(k) \in Nat
      BY <1>2, <1>3, <2>3, <3>2
    <3> QED
      BY <1>1, <2>3, <3>2, <3>3
  <2>7. w(l) * n \in Nat /\ w(l) * n <= v(k) * n /\ v(k) * n \in Nat
    <3>1. \A x, y \in Nat : x * y \in Nat
      OBVIOUS
    <3>2. n <= n /\ n \in Nat
      BY <1>1
    <3> QED
      BY <2>5, <2>6, <3>1, <3>2, ProductsGrow
  <2>8. (w(l) * n) \div l <= (v(k) * n) \div k
    BY <2>5, <2>6, <2>7, QuotientFalls
  <2>9. StepUp(qs, l) \in Int /\ StepUp(ps, k) \in Int
    <3>1. \A x \in Nat, y \in Nat \ {0} : x \div y \in Int
      OBVIOUS
    <3> QED
      BY <2>3, <2>4, <2>6, <2>7, <3>1
  <2>10. StepUp(qs, l) <= alpha
    BY <2>1, <2>3, <2>4, <2>6, <2>8, <2>9
  <2> QED
    BY <2>2, <2>5, <2>10
<1> QED
  BY <1>7, <1>8

-----------------------------------------------------------------------------
(* Better outcomes *)

(* A lesser ratio of two naturals, in parts of 1.                           *)
LEMMA RatioFalls ==
  ASSUME NEW a \in Nat, NEW b \in Nat, NEW c \in Nat \ {0}, NEW d \in Nat \ {0}, NEW t \in Nat, a * d <= b * c
  PROVE  /\ (a * t) \div c \in Nat /\ (b * t) \div d \in Nat
         /\ (a * t) \div c <= (b * t) \div d
<1> DEFINE u == a * t
           v == b * t
           x == u \div c
           y == v \div d
           r == u % c
           s == v % d
<1>1. u \in Nat /\ v \in Nat
  <2>1. \A g, h \in Nat : g * h \in Nat
    OBVIOUS
  <2> QED
    BY <2>1
<1>2. u * d <= v * c
  <2>1. t * (a * d) <= t * (b * c)
    <3>1. a * d \in Int /\ b * c \in Int
      OBVIOUS
    <3> QED
      BY <3>1, TimesMore
  <2>2. t * (a * d) = u * d /\ t * (b * c) = v * c
    OBVIOUS
  <2> QED
    BY <2>1, <2>2
<1> HIDE DEF u, v
<1>3. x \in Nat /\ y \in Nat
  <2>1. \A g \in Nat, h \in Nat \ {0} : g \div h \in Nat
    OBVIOUS
  <2> QED
    BY <1>1, <2>1
<1>4. x \in Int /\ r \in Int /\ 0 <= r /\ u = c * x + r
  BY <1>1, QuotientOf
<1>5. y \in Int /\ s \in Int /\ s < d /\ v = d * y + s
  BY <1>1, QuotientOf
<1> HIDE DEF x, y, r, s
<1>6. ~(y + 1 <= x)
  <2> SUFFICES ASSUME y + 1 <= x PROVE FALSE
    OBVIOUS
  <2>1. c * d \in Nat \ {0}
    OBVIOUS
  <2>2. (c * d) * (y + 1) <= (c * d) * x
    BY <1>3, <2>1, TimesMore
  <2>3. d * (c * x) <= d * u
    <3>1. c * x \in Int /\ c * x <= u
      <4>1. c * x \in Int
        BY <1>3
      <4> QED
        BY <1>1, <1>4, <4>1
    <3> QED
      BY <1>1, <3>1, TimesMore
  <2>4. c * v <= c * (d * y + d - 1)
    <3>1. d * y \in Int
      BY <1>3
    <3>2. v <= d * y + d - 1 /\ d * y + d - 1 \in Int
      BY <1>1, <1>5, <3>1
    <3> QED
      BY <1>1, <3>2, TimesMore
  <2>5. /\ (c * d) * (y + 1) = c * (d * y) + c * d /\ (c * d) * x = d * (c * x)
        /\ d * u = u * d /\ c * v = v * c /\ c * (d * y + d - 1) = c * (d * y) + c * d - c
    BY <1>1, <1>3
  <2>6. c * (d * y) \in Int /\ c * d \in Int /\ d * (c * x) \in Int /\ u * d \in Int /\ v * c \in Int
    BY <1>1, <1>3
  <2> HIDE DEF u
  <2> QED
    BY <1>2, <2>2, <2>3, <2>4, <2>5, <2>6
<1> QED
  BY <1>3, <1>6 DEF x, y, u, v

(* One success more, one trial more that succeeds, or one that failed       *)
(* fewer: the upper tail is no greater a part of all outcomes.              *)
LEMMA BetterTails ==
  ASSUME NEW n \in Nat, NEW p \in Fractions, NEW k \in 0 .. n
  PROVE  /\ PExact(k, n, p, "greater") \in Nat
         /\ k < n => PExact(k + 1, n, p, "greater") <= PExact(k, n, p, "greater")
         /\ PExact(k + 1, n + 1, p, "greater") <= p.den * PExact(k, n, p, "greater")
         /\ k < n => p.den * PExact(k, n - 1, p, "greater") <= PExact(k, n, p, "greater")
<1>1. ASSUME NEW m \in Nat, NEW j \in 0 .. m PROVE PExact(j, m, p, "greater") = Above(m, j, p)
  BY TailsAreExact DEF PExact, Above
<1>2. \A m \in Nat, j \in Int : /\ Above(m, j, p) \in Nat /\ Above(m, j + 1, p) <= Above(m, j, p)
        /\ Above(m + 1, j, p) = p.num * Above(m, j - 1, p) + (p.den - p.num) * Above(m, j, p)
  BY AboveSteps
<1>3. p.num \in Nat /\ p.den \in Nat /\ p.den - p.num \in Nat
  BY FractionParts
<1> DEFINE a == p.num
           q == p.den - p.num
<1>4. ASSUME NEW x \in Nat, NEW y \in Nat, x <= y
      PROVE  a * y + q * x <= p.den * y /\ p.den * x <= a * y + q * x
  <2>1. q * x <= q * y /\ a * x <= a * y
    BY <1>3, <1>4, TimesMore
  <2>2. p.den * y = a * y + q * y /\ p.den * x = a * x + q * x
    BY <1>3
  <2>3. a * y \in Int /\ q * y \in Int /\ a * x \in Int /\ q * x \in Int
    BY <1>3
  <2> QED
    BY <2>1, <2>2, <2>3
<1>5. PExact(k, n, p, "greater") = Above(n, k, p) /\ Above(n, k, p) \in Nat
  BY <1>1, <1>2
<1>6. ASSUME k < n PROVE PExact(k + 1, n, p, "greater") <= PExact(k, n, p, "greater")
  <2>1. k + 1 \in 0 .. n /\ k \in Int
    BY <1>6
  <2> QED
    BY <1>1, <1>2, <1>5, <2>1
<1>7. PExact(k + 1, n + 1, p, "greater") <= p.den * PExact(k, n, p, "greater")
  <2>1. n + 1 \in Nat /\ k + 1 \in 0 .. n + 1 /\ k + 1 \in Int /\ k \in Int /\ k + 1 - 1 = k
    OBVIOUS
  <2>2. PExact(k + 1, n + 1, p, "greater") = a * Above(n, k, p) + q * Above(n, k + 1, p)
    <3>1. PExact(k + 1, n + 1, p, "greater") = Above(n + 1, k + 1, p)
      BY <1>1, <2>1, Zenon
    <3>2. Above(n + 1, k + 1, p) = p.num * Above(n, (k + 1) - 1, p) + (p.den - p.num) * Above(n, k + 1, p)
      BY <2>1, AboveSteps, Zenon
    <3>3. (k + 1) - 1 = k
      BY <2>1
    <3> QED
      BY <3>1, <3>2, <3>3, Zenon
  <2>3. Above(n, k + 1, p) \in Nat /\ Above(n, k, p) \in Nat /\ Above(n, k + 1, p) <= Above(n, k, p)
    BY <1>2, <2>1
  <2> QED
    BY <1>4, <1>5, <2>2, <2>3
<1>8. ASSUME k < n PROVE p.den * PExact(k, n - 1, p, "greater") <= PExact(k, n, p, "greater")
  <2>1. n - 1 \in Nat /\ k \in 0 .. n - 1 /\ n - 1 + 1 = n /\ k \in Int /\ k - 1 \in Int /\ k - 1 + 1 = k
    BY <1>8
  <2>2. PExact(k, n - 1, p, "greater") = Above(n - 1, k, p)
    BY <1>1, <2>1
  <2>3. Above(n, k, p) = a * Above(n - 1, k - 1, p) + q * Above(n - 1, k, p)
    BY <1>2, <2>1
  <2>4. Above(n - 1, k, p) \in Nat /\ Above(n - 1, k - 1, p) \in Nat /\ Above(n - 1, k, p) <= Above(n - 1, k - 1, p)
    BY <1>2, <2>1
  <2> QED
    BY <1>4, <1>5, <2>2, <2>3, <2>4
<1> QED
  BY <1>5, <1>6, <1>7, <1>8

-----------------------------------------------------------------------------
(* Schedules of looks *)

Coins(n)         == [1 .. n -> {0, 1}]
Start(path, n)   == [i \in 1 .. n |-> path[i]]
After(path, n, d) == [i \in 1 .. d |-> path[n + i]]

(* Wins are the wins at the start and those after.                          *)
LEMMA WinsJoin ==
  ASSUME NEW n \in Nat, NEW d \in Nat, NEW path
  PROVE  /\ Wins(path, n + d) = Wins(path, n) + Wins(After(path, n, d), d)
         /\ Wins(path, n) \in 0 .. n /\ Wins(After(path, n, d), d) \in 0 .. d
<1> DEFINE A == {i \in 1 .. n : path[i] = 1}
           B == {i \in (n + 1) .. (n + d) : path[i] = 1}
           R == {i \in 1 .. d : After(path, n, d)[i] = 1}
           f == [i \in R |-> n + i]
           g == [i \in B |-> i - n]
<1>1. ASSUME NEW m \in Nat, NEW o
      PROVE  IsFiniteSet({i \in 1 .. m : o[i] = 1}) /\ Wins(o, m) \in 0 .. m
  <2>1. {i \in 1 .. m : o[i] = 1} = {i \in 1 .. m : o[i] \in {1}}
    OBVIOUS
  <2> QED
    BY <2>1, HitsType DEF Hits, Wins
<1>2. \A i \in 1 .. d : After(path, n, d)[i] = path[n + i]
  BY DEF After
<1>3. f \in [R -> B] /\ g \in [B -> R]
  <2>1. \A i \in R : n + i \in B
    BY <1>2
  <2>2. \A i \in B : i - n \in R
    <3> SUFFICES ASSUME NEW i \in B PROVE i - n \in R
      OBVIOUS
    <3>1. i - n \in 1 .. d /\ n + (i - n) = i
      OBVIOUS
    <3> QED
      BY <1>2, <3>1
  <2> QED
    BY <2>1, <2>2
<1>4. (\A i \in R : g[f[i]] = i) /\ (\A i \in B : f[g[i]] = i)
  <2>1. \A i \in R : i \in Int
    OBVIOUS
  <2>2. \A i \in B : i \in Int
    OBVIOUS
  <2>3. \A i \in R : n + i \in B
    BY <1>3
  <2>4. \A i \in B : i - n \in R
    BY <1>3
  <2> HIDE DEF R, B
  <2> QED
    BY <2>1, <2>2, <2>3, <2>4
<1>5. IsFiniteSet(A) /\ IsFiniteSet(R)
  BY <1>1
<1>6. IsFiniteSet(B) /\ Cardinality(B) = Cardinality(R)
  <2> HIDE DEF R, B, f, g
  <2> QED
    BY <1>3, <1>4, <1>5, SameSize
<1>7. A \cap B = {} /\ {i \in 1 .. (n + d) : path[i] = 1} = A \cup B
  OBVIOUS
<1>8. Cardinality(A \cup B) = Cardinality(A) + Cardinality(B)
  <2> HIDE DEF A, B
  <2> QED
    BY <1>5, <1>6, <1>7, ApartAdd
<1> QED
  BY <1>1, <1>6, <1>7, <1>8 DEF Wins

(* Wins so far are those of the start.                                      *)
LEMMA WinsAtStart ==
  ASSUME NEW n \in Nat, NEW m \in 0 .. n, NEW path
  PROVE  Wins(Start(path, n), m) = Wins(path, m)
<1>1. {i \in 1 .. m : Start(path, n)[i] = 1} = {i \in 1 .. m : path[i] = 1}
  BY DEF Start
<1> QED
  BY <1>1 DEF Wins

(* Paths made of a start in X and an end in Q: one for each pair of them.   *)
LEMMA Joined ==
  ASSUME NEW n \in Nat, NEW d \in Nat, NEW X \in SUBSET Coins(n), NEW Q \in SUBSET Coins(d),
         IsFiniteSet(X), IsFiniteSet(Q)
  PROVE  LET J == {path \in Coins(n + d) : Start(path, n) \in X /\ After(path, n, d) \in Q}
         IN  IsFiniteSet(J) /\ Cardinality(J) = Cardinality(X) * Cardinality(Q)
<1> DEFINE J == {path \in Coins(n + d) : Start(path, n) \in X /\ After(path, n, d) \in Q}
           P == X \X Q
           Put(y) == [i \in 1 .. n + d |-> IF i <= n THEN y[1][i] ELSE y[2][i - n]]
           f == [y \in P |-> Put(y)]
           g == [path \in J |-> <<Start(path, n), After(path, n, d)>>]
<1>1. ASSUME NEW y \in P
      PROVE  /\ Put(y) \in Coins(n + d) /\ Start(Put(y), n) = y[1] /\ After(Put(y), n, d) = y[2]
             /\ y = <<y[1], y[2]>> /\ y[1] \in X /\ y[2] \in Q
  <2>1. y = <<y[1], y[2]>> /\ y[1] \in X /\ y[2] \in Q
    OBVIOUS
  <2>2. PICK u \in [1 .. n -> {0, 1}], v \in [1 .. d -> {0, 1}] : u = y[1] /\ v = y[2]
    BY <2>1 DEF Coins
  <2>3. Put(y) = [i \in 1 .. n + d |-> IF i <= n THEN u[i] ELSE v[i - n]]
    BY <2>2
  <2> HIDE DEF Put
  <2>4. \A i \in 1 .. n + d : (i <= n => i \in 1 .. n) /\ (i > n => i - n \in 1 .. d)
    OBVIOUS
  <2>5. Put(y) \in Coins(n + d)
    BY <2>3, <2>4 DEF Coins
  <2>6. \A i \in 1 .. n : Put(y)[i] = u[i]
    BY <2>3
  <2>7. \A i \in 1 .. d : Put(y)[n + i] = v[i]
    <3>1. \A i \in 1 .. d : n + i \in 1 .. n + d /\ n + i > n /\ (n + i) - n = i
      OBVIOUS
    <3> QED
      BY <2>3, <3>1
  <2>8. Start(Put(y), n) = u
    BY <2>6 DEF Start
  <2>9. After(Put(y), n, d) = v
    BY <2>7 DEF After
  <2> QED
    BY <2>1, <2>2, <2>5, <2>8, <2>9
<1>2. ASSUME NEW path \in J PROVE Put(<<Start(path, n), After(path, n, d)>>) = path
  <2>1. path \in [1 .. n + d -> {0, 1}]
    BY DEF Coins
  <2>2. \A i \in 1 .. n : Start(path, n)[i] = path[i]
    BY DEF Start
  <2>3. \A i \in 1 .. d : After(path, n, d)[i] = path[n + i]
    BY DEF After
  <2>4. ASSUME NEW i \in 1 .. n + d
        PROVE  (IF i <= n THEN Start(path, n)[i] ELSE After(path, n, d)[i - n]) = path[i]
    <3>1. CASE i <= n
      BY <2>2, <3>1
    <3>2. CASE i > n
      <4>1. i - n \in 1 .. d /\ n + (i - n) = i
        BY <3>2
      <4> QED
        BY <2>3, <3>2, <4>1
    <3> QED
      BY <3>1, <3>2
  <2>5. [i \in 1 .. n + d |-> IF i <= n THEN Start(path, n)[i] ELSE After(path, n, d)[i - n]]
          = [i \in 1 .. n + d |-> path[i]]
    BY <2>4
  <2> QED
    BY <2>1, <2>5
<1> HIDE DEF Put
<1>3. f \in [P -> J]
  <2>1. \A y \in P : Put(y) \in J
    BY <1>1
  <2> QED
    BY <2>1
<1>4. g \in [J -> P]
  OBVIOUS
<1>5. \A y \in P : g[f[y]] = y
  <2>1. \A y \in P : Put(y) \in J
    BY <1>1
  <2> QED
    BY <1>1, <2>1
<1>6. \A path \in J : f[g[path]] = path
  <2>1. \A path \in J : <<Start(path, n), After(path, n, d)>> \in P
    OBVIOUS
  <2> QED
    BY <1>2, <2>1
<1>7. IsFiniteSet(P) /\ Cardinality(P) = Cardinality(X) * Cardinality(Q)
  BY FS_Product
<1> HIDE DEF J, P, f, g
<1>8. IsFiniteSet(J) /\ Cardinality(J) = Cardinality(P)
  BY <1>3, <1>4, <1>5, <1>6, <1>7, SameSize
<1> QED
  BY <1>7, <1>8 DEF J

(* A trial is lost or won.                                                  *)
LEMMA TwoSides == IsFiniteSet({0, 1}) /\ Cardinality({0, 1}) = 2
<1>1. IsFiniteSet({0}) /\ Cardinality({0}) = 1 /\ 1 \notin {0}
  BY FS_Singleton
<1>2. IsFiniteSet({0} \cup {1}) /\ Cardinality({0} \cup {1}) = 1 + 1
  <2> DEFINE S == {0}
  <2> HIDE DEF S
  <2>1. IsFiniteSet(S) /\ Cardinality(S) = 1 /\ 1 \notin S
    BY <1>1 DEF S
  <2>2. IsFiniteSet(S \cup {1}) /\ Cardinality(S \cup {1}) = Cardinality(S) + 1
    BY <2>1, FS_AddElement
  <2> QED
    BY <2>1, <2>2 DEF S
<1>3. {0} \cup {1} = {0, 1}
  OBVIOUS
<1> QED
  BY <1>2, <1>3

(* There are 2 ^ n sequences of n wins and losses.                          *)
LEMMA CoinsCounted ==
  ASSUME NEW n \in Nat
  PROVE  IsFiniteSet(Coins(n)) /\ Cardinality(Coins(n)) = Raise(2, n)
<1> DEFINE S == {m \in Nat : IsFiniteSet(Coins(m)) /\ Cardinality(Coins(m)) = Raise(2, m)}
<1>1. Raise(2, 0) = 1 /\ \A m \in Nat : Raise(2, m) \in Int /\ Raise(2, m + 1) = Raise(2, m) * 2
  BY RaiseSteps
<1>2. 0 \in S
  <2> DEFINE e == [i \in 1 .. 0 |-> 0]
  <2>1. Coins(0) = {e}
    <3>1. \A o \in Coins(0) : o = e
      BY DEF Coins
    <3>2. e \in Coins(0)
      BY DEF Coins
    <3> HIDE DEF e
    <3> QED
      BY <3>1, <3>2, Zenon
  <2>2. IsFiniteSet({e}) /\ Cardinality({e}) = 1
    BY FS_Singleton, Zenon
  <2> HIDE DEF e
  <2> QED
    BY <1>1, <2>1, <2>2
<1>3. IsFiniteSet(Coins(1)) /\ Cardinality(Coins(1)) = 2
  <2> DEFINE f == [x \in {0, 1} |-> [i \in 1 .. 1 |-> x]]
             g == [o \in Coins(1) |-> o[1]]
  <2>1. f \in [{0, 1} -> Coins(1)] /\ g \in [Coins(1) -> {0, 1}]
    BY DEF Coins
  <2>2. \A x \in {0, 1} : g[f[x]] = x
    BY DEF Coins
  <2>3. \A o \in Coins(1) : f[g[o]] = o
    <3> SUFFICES ASSUME NEW o \in Coins(1) PROVE [i \in 1 .. 1 |-> o[1]] = o /\ o[1] \in {0, 1}
      OBVIOUS
    <3>1. o \in [1 .. 1 -> {0, 1}]
      BY DEF Coins
    <3> QED
      BY <3>1
  <2>4. IsFiniteSet({0, 1}) /\ Cardinality({0, 1}) = 2
    BY TwoSides
  <2> HIDE DEF f, g
  <2> QED
    BY <2>1, <2>2, <2>3, <2>4, SameSize
<1>4. ASSUME NEW m \in S PROVE m + 1 \in S
  <2> DEFINE X == Coins(m)
             Q == Coins(1)
             J == {path \in Coins(m + 1) : Start(path, m) \in X /\ After(path, m, 1) \in Q}
  <2>1. J = Coins(m + 1)
    <3> SUFFICES ASSUME NEW path \in Coins(m + 1)
                 PROVE  Start(path, m) \in X /\ After(path, m, 1) \in Q
      OBVIOUS
    <3>1. \A i \in 1 .. m : path[i] \in {0, 1}
      BY DEF Coins
    <3>2. \A i \in 1 .. 1 : path[m + i] \in {0, 1}
      BY DEF Coins
    <3> QED
      BY <3>1, <3>2 DEF Start, After, Coins
  <2>2. X \in SUBSET Coins(m) /\ Q \in SUBSET Coins(1) /\ IsFiniteSet(X) /\ IsFiniteSet(Q) /\ m \in Nat /\ 1 \in Nat
    BY <1>3
  <2> HIDE DEF X, Q
  <2>3. IsFiniteSet(J) /\ Cardinality(J) = Cardinality(X) * Cardinality(Q)
    BY <2>2, Joined
  <2> HIDE DEF J
  <2>4. Cardinality(X) = Raise(2, m) /\ Cardinality(Q) = 2
    BY <1>3 DEF X, Q
  <2> QED
    BY <1>1, <2>1, <2>2, <2>3, <2>4
<1>5. S = Nat
  <2>1. S \in SUBSET Nat
    OBVIOUS
  <2> HIDE DEF S
  <2> QED
    BY <1>2, <1>4, <2>1, Induction
<1> QED
  BY <1>5

(* So many of them have j wins.                                             *)
LEMMA CoinsWithWins ==
  ASSUME NEW d \in Nat, NEW j \in 0 .. d
  PROVE  LET Q == {o \in Coins(d) : Wins(o, d) = j}
         IN  IsFiniteSet(Q) /\ Cardinality(Q) = choose(d, j)
<1> DEFINE Q == {o \in Coins(d) : Wins(o, d) = j}
<1>1. \A o : Wins(o, d) = Hits(o, d, {1})
  <2> SUFFICES ASSUME NEW o PROVE {i \in 1 .. d : o[i] = 1} = {i \in 1 .. d : o[i] \in {1}}
    BY DEF Wins, Hits
  <2> QED
    OBVIOUS
<1>2. Q = HitWays({0, 1}, {1}, d, j)
  BY <1>1 DEF HitWays, Coins
<1>3. IsFiniteSet({0, 1}) /\ {1} \in SUBSET {0, 1} /\ {0, 1} \ {1} = {0} /\ j \in Int
  BY TwoSides
<1>4. Cardinality({0}) = 1 /\ Cardinality({1}) = 1
  BY FS_Singleton
<1>5. /\ IsFiniteSet(HitWays({0, 1}, {1}, d, j))
      /\ Cardinality(HitWays({0, 1}, {1}, d, j)) = Weight(1, 1, d, j)
  <2> DEFINE X == {0, 1}
             A == {1}
             B == {0}
  <2>1. IsFiniteSet(X) /\ A \in SUBSET X /\ X \ A = B /\ Cardinality(A) = 1 /\ Cardinality(B) = 1
    BY <1>3, <1>4
  <2> HIDE DEF X, A, B
  <2>2. /\ IsFiniteSet(HitWays(X, A, d, j))
        /\ Cardinality(HitWays(X, A, d, j)) = Weight(Cardinality(A), Cardinality(X \ A), d, j)
    <3>1. \A k \in Int : /\ IsFiniteSet(HitWays(X, A, d, k))
                         /\ Cardinality(HitWays(X, A, d, k)) = Weight(Cardinality(A), Cardinality(X \ A), d, k)
      BY <2>1, WaysCounted
    <3> QED
      BY <1>3, <3>1
  <2> QED
    BY <2>1, <2>2 DEF X, A
<1>6. Weight(1, 1, d, j) = choose(d, j)
  BY HalfWeight, ChooseIsComb
<1> QED
  BY <1>2, <1>3, <1>4, <1>5, <1>6

(* The sum of f over S, as the library takes it.                            *)
Total(f, S) == (CHOOSE g : SumsBy(g, f, S))[S]

(* The sum of the sizes of sets no two of which meet.                       *)
LEMMA TotalOfSizes ==
  ASSUME NEW S, IsFiniteSet(S), NEW D, NEW f,
         \A x \in S : IsFiniteSet(D[x]) /\ f[x] = Cardinality(D[x]),
         \A x, y \in S : x # y => D[x] \cap D[y] = {}
  PROVE  Total(f, S) = Cardinality(AllOf(D, S))
<1> DEFINE g == CHOOSE h : SumsBy(h, f, S)
<1>1. SumsBy(g, f, S)
  BY SizesSum, Zenon
<1>2. g[S] = Cardinality(AllOf(D, S))
  <2> HIDE DEF g
  <2> QED
    BY <1>1, SizesSum, Zenon
<1> QED
  BY <1>2 DEF Total

(* Those outside H with k wins, and those whose start is outside H.         *)
Going(H, n, k)        == {path \in Coins(n) : path \notin H /\ Wins(path, n) = k}
GoingOn(H, n, d, k)   == {path \in Coins(n + d) : Start(path, n) \notin H /\ Wins(path, n + d) = k}
StoppedNow(H, n, d, R) == {path \in Coins(n + d) : Start(path, n) \in H \/ Wins(path, n + d) \in R}
GoingIsCounted(w, n, H) ==
  \A k \in 0 .. n : (IF k \in DOMAIN w THEN w[k] ELSE 0) = Cardinality(Going(H, n, k))

(* h sums, over the subsets of S, starts times the ways on to k wins.       *)
SumsWaysOn(h, w, d, k, S) ==
  h = [s \in SUBSET S |-> IF s = {} THEN 0
                          ELSE w[Pick(s)] * choose(d, k - Pick(s)) + h[s \ {Pick(s)}]]

WaysOn(w, d, k, S) == (CHOOSE h : SumsWaysOn(h, w, d, k, S))[S]

(* The same, for starts and the ways on from them.                          *)
LEMMA WaysOnSum ==
  ASSUME NEW d, NEW k, NEW w, NEW S, IsFiniteSet(S), NEW D,
         \A i \in S : IsFiniteSet(D[i]) /\ w[i] * choose(d, k - i) = Cardinality(D[i]),
         \A i, j \in S : i # j => D[i] \cap D[j] = {}
  PROVE  WaysOn(w, d, k, S) = Cardinality(AllOf(D, S))
<1> DEFINE f == [i \in S |-> w[i] * choose(d, k - i)]
           g == CHOOSE h : SumsWaysOn(h, w, d, k, S)
<1>1. \A i \in S : IsFiniteSet(D[i]) /\ f[i] = Cardinality(D[i])
  OBVIOUS
<1>2. \A i \in S : f[i] = w[i] * choose(d, k - i)
  OBVIOUS
<1> HIDE DEF f
<1>3. ASSUME NEW h
      PROVE  [s \in SUBSET S |-> IF s = {} THEN 0 ELSE f[Pick(s)] + h[s \ {Pick(s)}]]
               = [s \in SUBSET S |-> IF s = {} THEN 0
                                     ELSE w[Pick(s)] * choose(d, k - Pick(s)) + h[s \ {Pick(s)}]]
  <2>1. \A s \in SUBSET S : s # {} => Pick(s) \in S
    BY DEF Pick
  <2>2. \A s \in SUBSET S : s # {} => f[Pick(s)] = w[Pick(s)] * choose(d, k - Pick(s))
    BY <1>2, <2>1, Zenon
  <2> QED
    BY <2>2
<1>4. \A h : SumsWaysOn(h, w, d, k, S) <=> SumsBy(h, f, S)
  BY <1>3, Zenon DEF SumsWaysOn, SumsBy
<1>5. \E h : SumsBy(h, f, S)
  BY <1>1, SizesSum, Zenon
<1>6. SumsWaysOn(g, w, d, k, S)
  BY <1>4, <1>5, Zenon
<1>7. g[S] = Cardinality(AllOf(D, S))
  <2> HIDE DEF g
  <2>1. SumsBy(g, f, S)
    BY <1>4, <1>6, Zenon
  <2> QED
    BY <1>1, <2>1, SizesSum, Zenon
<1> QED
  BY <1>7 DEF WaysOn

(* Paths to the next look, by wins, are counted as sequential_size adds     *)
(* them up.                                                                 *)
LEMMA GoingOnCounted ==
  ASSUME NEW n \in Nat, NEW d \in Nat, NEW H, NEW w, DOMAIN w \subseteq 0 .. n,
         GoingIsCounted(w, n, H), NEW k \in 0 .. n + d
  PROVE  /\ IsFiniteSet(GoingOn(H, n, d, k))
         /\ WaysOn(w, d, k, {i \in DOMAIN w : k - i \in 0 .. d})
              = Cardinality(GoingOn(H, n, d, k))
<1> DEFINE S == {i \in DOMAIN w : k - i \in 0 .. d}
           X(i) == Going(H, n, i)
           Q(i) == {o \in Coins(d) : Wins(o, d) = k - i}
           J(i) == {path \in Coins(n + d) : Start(path, n) \in X(i) /\ After(path, n, d) \in Q(i)}
           D == [i \in S |-> J(i)]
<1>1. IsFiniteSet(S)
  <2>1. IsFiniteSet(0 .. n) /\ S \subseteq 0 .. n
    BY FS_Interval
  <2> QED
    BY <2>1, FS_Subset
<1>2. IsFiniteSet(GoingOn(H, n, d, k))
  <2>1. n + d \in Nat /\ GoingOn(H, n, d, k) \subseteq Coins(n + d)
    BY DEF GoingOn
  <2> QED
    BY <2>1, CoinsCounted, FS_Subset
<1>3. ASSUME NEW i \in S
      PROVE  IsFiniteSet(J(i)) /\ Cardinality(J(i)) = w[i] * choose(d, k - i)
  <2>1. i \in 0 .. n /\ i \in DOMAIN w /\ k - i \in 0 .. d
    OBVIOUS
  <2>2. X(i) \in SUBSET Coins(n) /\ IsFiniteSet(X(i))
    <3>1. X(i) \in SUBSET Coins(n)
      BY DEF Going
    <3> HIDE DEF X
    <3> QED
      BY <3>1, CoinsCounted, FS_Subset
  <2>3. Q(i) \in SUBSET Coins(d) /\ IsFiniteSet(Q(i)) /\ Cardinality(Q(i)) = choose(d, k - i)
    BY <2>1, CoinsWithWins
  <2>4. Cardinality(X(i)) = w[i]
    BY <2>1 DEF GoingIsCounted
  <2> HIDE DEF X, Q
  <2>5. IsFiniteSet(J(i)) /\ Cardinality(J(i)) = Cardinality(X(i)) * Cardinality(Q(i))
    BY <2>2, <2>3, Joined
  <2> QED
    BY <2>3, <2>4, <2>5
<1>4. AllOf(D, S) = GoingOn(H, n, d, k)
  <2>1. ASSUME NEW path \in Coins(n + d)
        PROVE  /\ Wins(path, n + d) = Wins(path, n) + Wins(After(path, n, d), d)
               /\ Wins(path, n) \in 0 .. n /\ Wins(After(path, n, d), d) \in 0 .. d
               /\ Wins(Start(path, n), n) = Wins(path, n)
               /\ Start(path, n) \in Coins(n) /\ After(path, n, d) \in Coins(d)
    <3>1. n \in 0 .. n
      OBVIOUS
    <3>2. \A i \in 1 .. n : path[i] \in {0, 1}
      BY DEF Coins
    <3>3. \A i \in 1 .. d : path[n + i] \in {0, 1}
      BY DEF Coins
    <3>4. Start(path, n) \in Coins(n) /\ After(path, n, d) \in Coins(d)
      BY <3>2, <3>3 DEF Start, After, Coins
    <3> QED
      BY <3>1, <3>4, WinsJoin, WinsAtStart
  <2>2. ASSUME NEW i \in S, NEW path \in J(i) PROVE path \in GoingOn(H, n, d, k)
    <3>1. path \in Coins(n + d) /\ Start(path, n) \notin H /\ Wins(Start(path, n), n) = i
          /\ Wins(After(path, n, d), d) = k - i /\ i \in Int
      BY DEF Going
    <3>2. Wins(path, n + d) = k
      BY <2>1, <3>1
    <3> QED
      BY <3>1, <3>2 DEF GoingOn
  <2>3. ASSUME NEW path \in GoingOn(H, n, d, k) PROVE \E i \in S : path \in J(i)
    <3> DEFINE i == Wins(path, n)
    <3>1. path \in Coins(n + d) /\ Start(path, n) \notin H /\ Wins(path, n + d) = k
      BY DEF GoingOn
    <3>2. /\ i \in 0 .. n /\ k = i + Wins(After(path, n, d), d) /\ Wins(After(path, n, d), d) \in 0 .. d
          /\ Wins(Start(path, n), n) = i
          /\ Start(path, n) \in Coins(n) /\ After(path, n, d) \in Coins(d)
      BY <2>1, <3>1
    <3> HIDE DEF i
    <3>3. Wins(After(path, n, d), d) = k - i /\ k - i \in 0 .. d
      BY <3>2
    <3>4. Start(path, n) \in Going(H, n, i)
      BY <3>1, <3>2 DEF Going
    <3>5. i \in DOMAIN w
      <4> SUFFICES ASSUME i \notin DOMAIN w PROVE FALSE
        OBVIOUS
      <4>1. Cardinality(Going(H, n, i)) = 0
        BY <3>2 DEF GoingIsCounted
      <4>2. IsFiniteSet(Going(H, n, i))
        <5>1. Going(H, n, i) \subseteq Coins(n)
          BY DEF Going
        <5> QED
          BY <5>1, CoinsCounted, FS_Subset
      <4> QED
        BY <3>4, <4>1, <4>2, FS_EmptySet
    <3>6. path \in J(i)
      BY <3>1, <3>2, <3>3, <3>4
    <3> QED
      BY <3>3, <3>5, <3>6
  <2>4. \A i \in S : D[i] = J(i)
    OBVIOUS
  <2> HIDE DEF D, J, S
  <2> QED
    BY <2>2, <2>3, <2>4 DEF AllOf
<1>5. ASSUME NEW i \in S, NEW j \in S, i # j PROVE D[i] \cap D[j] = {}
  BY <1>5 DEF Going
<1>6. \A i \in S : IsFiniteSet(D[i]) /\ w[i] * choose(d, k - i) = Cardinality(D[i])
  <2>1. \A i \in S : D[i] = J(i)
    OBVIOUS
  <2> HIDE DEF D, J, S
  <2> QED
    BY <1>3, <2>1
<1> HIDE DEF D, J
<1>7. WaysOn(w, d, k, S) = Cardinality(AllOf(D, S))
  <2> HIDE DEF S
  <2>1. \A i, j \in S : i # j => D[i] \cap D[j] = {}
    BY <1>5
  <2> QED
    BY <1>1, <1>6, <2>1, WaysOnSum
<1> QED
  BY <1>2, <1>4, <1>7

(* At a look those that had rejected still have, whatever came after, and   *)
(* those that reject now are the others with wins in the region.            *)
LEMMA LookCounted ==
  ASSUME NEW n \in Nat, NEW d \in Nat, NEW H \in SUBSET Coins(n), NEW R \in SUBSET (0 .. n + d),
         NEW grown, \A k \in 0 .. n + d : grown[k] = Cardinality(GoingOn(H, n, d, k))
  PROVE  /\ Cardinality(StoppedNow(H, n, d, R)) = Cardinality(H) * Raise(2, d) + Total(grown, R)
         /\ \A k \in 0 .. n + d :
              Going(StoppedNow(H, n, d, R), n + d, k) = IF k \in R THEN {} ELSE GoingOn(H, n, d, k)
<1> DEFINE now == {path \in Coins(n + d) : Start(path, n) \in H \/ Wins(path, n + d) \in R}
           before == {path \in Coins(n + d) : Start(path, n) \in H /\ After(path, n, d) \in Coins(d)}
           D == [k \in R |-> GoingOn(H, n, d, k)]
<1>1. IsFiniteSet(before) /\ Cardinality(before) = Cardinality(H) * Raise(2, d)
  <2>1. IsFiniteSet(Coins(d)) /\ Cardinality(Coins(d)) = Raise(2, d) /\ IsFiniteSet(H)
    BY CoinsCounted, FS_Subset
  <2>2. Coins(d) \in SUBSET Coins(d)
    OBVIOUS
  <2>3. IsFiniteSet(before) /\ Cardinality(before) = Cardinality(H) * Cardinality(Coins(d))
    BY <2>1, <2>2, Joined
  <2> HIDE DEF before
  <2> QED
    BY <2>1, <2>3
<1>2. \A k \in R : IsFiniteSet(D[k]) /\ grown[k] = Cardinality(D[k])
  <2> SUFFICES ASSUME NEW k \in R
               PROVE  IsFiniteSet(GoingOn(H, n, d, k)) /\ grown[k] = Cardinality(GoingOn(H, n, d, k))
    OBVIOUS
  <2>1. n + d \in Nat /\ GoingOn(H, n, d, k) \subseteq Coins(n + d)
    BY DEF GoingOn
  <2>2. IsFiniteSet(GoingOn(H, n, d, k))
    BY <2>1, CoinsCounted, FS_Subset
  <2> QED
    BY <2>2
<1>3. IsFiniteSet(R)
  <2>1. IsFiniteSet(0 .. n + d)
    BY FS_Interval
  <2> QED
    BY <2>1, FS_Subset
<1>4. \A i, j \in R : i # j => D[i] \cap D[j] = {}
  BY DEF GoingOn
<1>5. /\ IsFiniteSet(AllOf(D, R))
      /\ Total(grown, R) = Cardinality(AllOf(D, R))
  <2> HIDE DEF D
  <2> QED
    BY <1>2, <1>3, <1>4, SizesSum, TotalOfSizes, Zenon
<1>6. AllOf(D, R) = {path \in Coins(n + d) : Start(path, n) \notin H /\ Wins(path, n + d) \in R}
  <2>1. \A k \in R : D[k] = GoingOn(H, n, d, k)
    OBVIOUS
  <2>2. \A path : path \in AllOf(D, R) <=> \E k \in R : path \in D[k]
    BY DEF AllOf
  <2> HIDE DEF D
  <2>3. \A path : path \in AllOf(D, R) <=> \E k \in R : path \in GoingOn(H, n, d, k)
    BY <2>1, <2>2
  <2> QED
    BY <2>3 DEF GoingOn
<1>7. before = {path \in Coins(n + d) : Start(path, n) \in H}
  <2>1. ASSUME NEW path \in Coins(n + d) PROVE After(path, n, d) \in Coins(d)
    <3>1. \A i \in 1 .. d : path[n + i] \in {0, 1}
      BY DEF Coins
    <3> QED
      BY <3>1 DEF After, Coins
  <2> QED
    BY <2>1
<1>8. now = before \cup AllOf(D, R) /\ before \cap AllOf(D, R) = {}
  BY <1>6, <1>7
<1>9. Cardinality(now) = Cardinality(H) * Raise(2, d) + Total(grown, R)
  <2> HIDE DEF now, before, D
  <2>1. Cardinality(now) = Cardinality(before) + Cardinality(AllOf(D, R))
    BY <1>1, <1>5, <1>8, ApartAdd
  <2> QED
    BY <1>1, <1>5, <2>1
<1>10. \A k \in 0 .. n + d :
          Going(now, n + d, k) = IF k \in R THEN {} ELSE GoingOn(H, n, d, k)
  BY DEF Going, GoingOn
<1> QED
  BY <1>9, <1>10 DEF StoppedNow

(* The paths that some look of the schedule stops.                          *)
StoppedBy(path, schedule, alpha, side) ==
  \E i \in DOMAIN schedule :
    Wins(path, schedule[i]) \in RejectionRegion(schedule[i], Half, alpha, side)

StoppedPaths(n, schedule, alpha, side) ==
  {path \in Coins(n) : StoppedBy(path, schedule, alpha, side)}

(* Later looks are not before earlier ones, so a path is stopped once more  *)
(* look is taken if its start was, or if it is stopped there.               *)
LEMMA StoppedNext ==
  ASSUME NEW n \in Nat, NEW d \in Nat, NEW schedule \in Seq(0 .. n), NEW alpha, NEW side
  PROVE  StoppedPaths(n + d, Append(schedule, n + d), alpha, side)
           = {path \in Coins(n + d) :
                \/ Start(path, n) \in StoppedPaths(n, schedule, alpha, side)
                \/ Wins(path, n + d) \in RejectionRegion(n + d, Half, alpha, side)}
<1> DEFINE R(m) == RejectionRegion(m, Half, alpha, side)
           longer == Append(schedule, n + d)
<1>1. /\ DOMAIN longer = 1 .. Len(schedule) + 1 /\ DOMAIN schedule = 1 .. Len(schedule)
      /\ Len(schedule) \in Nat /\ longer[Len(schedule) + 1] = n + d
      /\ \A i \in 1 .. Len(schedule) : longer[i] = schedule[i] /\ schedule[i] \in 0 .. n
  <2>1. PICK L \in Nat : L = Len(schedule)
    OBVIOUS
  <2>2. n + d \in Int /\ schedule \in Seq(Int)
    OBVIOUS
  <2> QED
    BY <2>2
<1> HIDE DEF longer
<1>2. ASSUME NEW path \in Coins(n + d)
      PROVE  StoppedBy(path, longer, alpha, side)
               <=> StoppedBy(Start(path, n), schedule, alpha, side) \/ Wins(path, n + d) \in R(n + d)
  <2>1. \A i \in 1 .. Len(schedule) : Wins(Start(path, n), schedule[i]) = Wins(path, longer[i])
    BY <1>1, WinsAtStart
  <2>2. StoppedBy(path, longer, alpha, side)
          <=> \E i \in 1 .. Len(schedule) + 1 : Wins(path, longer[i]) \in R(longer[i])
    BY <1>1 DEF StoppedBy
  <2>3. StoppedBy(Start(path, n), schedule, alpha, side)
          <=> \E i \in 1 .. Len(schedule) : Wins(path, longer[i]) \in R(longer[i])
    BY <1>1, <2>1 DEF StoppedBy
  <2> HIDE DEF R
  <2> QED
    BY <1>1, <2>2, <2>3
<1>3. ASSUME NEW path \in Coins(n + d) PROVE Start(path, n) \in Coins(n)
  <2>1. \A i \in 1 .. n : path[i] \in {0, 1}
    BY DEF Coins
  <2> QED
    BY <2>1 DEF Start, Coins
<1> QED
  BY <1>2, <1>3 DEF StoppedPaths, longer

(* What has rejected so far, and what goes on, path by path.                *)
SizeInv ==
  /\ trials \in Nat /\ looks \in Seq(0 .. trials) /\ DOMAIN weights \subseteq 0 .. trials
  /\ rejected = Cardinality(StoppedPaths(trials, looks, level, alternative))
  /\ GoingIsCounted(weights, trials, StoppedPaths(trials, looks, level, alternative))

(* No look is taken, and there is one path.                                 *)
LEMMA SizeStarts == SizeInit => SizeInv
<1> SUFFICES ASSUME SizeInit PROVE SizeInv
  OBVIOUS
<1>1. trials = 0 /\ looks = <<>> /\ weights = [k \in {0} |-> 1] /\ rejected = 0
  BY DEF SizeInit
<1>2. StoppedPaths(trials, looks, level, alternative) = {}
  BY <1>1 DEF StoppedPaths, StoppedBy
<1>3. Going({}, 0, 0) = Coins(0)
  <2>1. \A path : Wins(path, 0) = 0
    <3> SUFFICES ASSUME NEW path PROVE Wins(path, 0) = 0
      OBVIOUS
    <3>1. 0 \in Nat /\ Wins(path, 0) \in 0 .. 0
      BY WinsJoin
    <3> QED
      BY <3>1
  <2> QED
    BY <2>1 DEF Going
<1>4. Cardinality(Coins(0)) = 1
  <2>1. 0 \in Nat /\ 2 \in Int
    OBVIOUS
  <2>2. Raise(2, 0) = 1
    BY <2>1, RaiseSteps
  <2> QED
    BY <2>1, <2>2, CoinsCounted
<1>5. GoingIsCounted(weights, 0, {})
  <2>1. DOMAIN weights = {0} /\ weights[0] = 1
    BY <1>1
  <2> QED
    BY <1>3, <1>4, <2>1 DEF GoingIsCounted
<1>6. Cardinality({}) = 0
  BY FS_EmptySet
<1>7. DOMAIN weights = {0} /\ looks \in Seq(0 .. trials)
  BY <1>1
<1> QED
  BY <1>1, <1>2, <1>5, <1>6, <1>7 DEF SizeInv

(* A look keeps the count.                                                  *)
LEMMA LookKeeps ==
  ASSUME SizeInv, NEW look \in Nat, Look(look)
  PROVE  SizeInv'
<1> DEFINE d == look - trials
           R == RegionOf(look)
           grown == Grown(look)
           H == StoppedPaths(trials, looks, level, alternative)
           now == StoppedNow(H, trials, d, R)
<1>1. /\ trials \in Nat /\ looks \in Seq(0 .. trials) /\ DOMAIN weights \subseteq 0 .. trials
      /\ rejected = Cardinality(H) /\ GoingIsCounted(weights, trials, H)
  BY DEF SizeInv
<1>2. /\ look > trials /\ weights' = [k \in (0 .. look) \ R |-> grown[k]]
      /\ rejected' = rejected * Raise(2, look - trials) + Among(R, grown)
      /\ trials' = look /\ looks' = Append(looks, look)
      /\ level' = level /\ alternative' = alternative
  BY DEF Look
<1>3. d \in Nat /\ trials + d = look
  BY <1>1, <1>2
<1>4. R = RejectionRegion(look, Half, level, alternative) /\ R \in SUBSET (0 .. look)
  BY DEF RegionOf, RejectionRegion
<1>5. H \in SUBSET Coins(trials)
  BY DEF StoppedPaths
<1>6. ASSUME NEW k \in 0 .. look PROVE grown[k] = Cardinality(GoingOn(H, trials, d, k))
  <2>1. WaysOn(weights, d, k, {i \in DOMAIN weights : k - i \in 0 .. d})
          = Cardinality(GoingOn(H, trials, d, k))
    <3> HIDE DEF H, d
    <3> QED
      BY <1>1, <1>3, GoingOnCounted
  <2>2. grown[k] = MapThenSumSet(LAMBDA i : weights[i] * choose(look - trials, k - i),
                                 {i \in DOMAIN weights : k - i \in 0 .. look - trials})
    BY DEF Grown
  <2>3. MapThenSumSet(LAMBDA i : weights[i] * choose(look - trials, k - i),
                      {i \in DOMAIN weights : k - i \in 0 .. look - trials})
          = WaysOn(weights, look - trials, k, {i \in DOMAIN weights : k - i \in 0 .. look - trials})
    BY Zenon DEF MapThenSumSet, MapThenFoldSet, WaysOn, SumsWaysOn, Pick
  <2> QED
    BY <2>1, <2>2, <2>3
<1>7. Among(R, grown) = Total(grown, R)
  BY Zenon DEF Among, MapThenSumSet, MapThenFoldSet, Total, SumsBy, Pick
<1> HIDE DEF d, R, grown, H
<1>8. /\ Cardinality(now) = Cardinality(H) * Raise(2, d) + Total(grown, R)
      /\ \A k \in 0 .. trials + d :
           Going(now, trials + d, k) = IF k \in R THEN {} ELSE GoingOn(H, trials, d, k)
  <2>1. \A k \in 0 .. trials + d : grown[k] = Cardinality(GoingOn(H, trials, d, k))
    BY <1>3, <1>6
  <2>2. R \in SUBSET (0 .. trials + d)
    BY <1>3, <1>4
  <2> QED
    BY <1>1, <1>3, <1>5, <2>1, <2>2, LookCounted
<1>9. now = StoppedPaths(look, Append(looks, look), level, alternative)
  <2>1. StoppedPaths(trials + d, Append(looks, trials + d), level, alternative)
          = {path \in Coins(trials + d) :
               \/ Start(path, trials) \in StoppedPaths(trials, looks, level, alternative)
               \/ Wins(path, trials + d) \in RejectionRegion(trials + d, Half, level, alternative)}
    BY <1>1, <1>3, StoppedNext
  <2> QED
    BY <1>3, <1>4, <2>1 DEF H, StoppedNow
<1> HIDE DEF now
<1>10. rejected' = Cardinality(now)
  BY <1>1, <1>2, <1>7, <1>8 DEF d
<1>11. GoingIsCounted(weights', look, now)
  <2> SUFFICES ASSUME NEW k \in 0 .. look
               PROVE  (IF k \in DOMAIN weights' THEN weights'[k] ELSE 0) = Cardinality(Going(now, look, k))
    BY DEF GoingIsCounted
  <2>1. Going(now, look, k) = IF k \in R THEN {} ELSE GoingOn(H, trials, d, k)
    BY <1>3, <1>8
  <2>2. (IF k \in DOMAIN weights' THEN weights'[k] ELSE 0) = IF k \in R THEN 0 ELSE grown[k]
    BY <1>2
  <2> QED
    BY <1>6, <2>1, <2>2, FS_EmptySet
<1>12. looks' \in Seq(0 .. look) /\ DOMAIN weights' \subseteq 0 .. look /\ look \in Nat
  <2>1. looks \in Seq(0 .. look)
    <3>1. 0 .. trials \subseteq 0 .. look
      BY <1>1, <1>2
    <3> QED
      BY <1>1, <3>1
  <2>2. look \in 0 .. look
    OBVIOUS
  <2>3. Append(looks, look) \in Seq(0 .. look)
    BY <2>1, <2>2
  <2>4. DOMAIN weights' = (0 .. look) \ R
    BY <1>2
  <2> QED
    BY <1>2, <2>3, <2>4
<1> QED
  BY <1>2, <1>9, <1>10, <1>11, <1>12 DEF SizeInv

(* So does every step.                                                      *)
LEMMA SizeKept == SizeInv /\ [SizeNext]_sizeVars => SizeInv'
<1> SUFFICES ASSUME SizeInv, [SizeNext]_sizeVars PROVE SizeInv'
  OBVIOUS
<1>1. ASSUME NEW look \in 1 .. MaxTrials, Look(look) PROVE SizeInv'
  <2>1. look \in Nat
    BY TrialsAssumption
  <2> QED
    BY <1>1, <2>1, LookKeeps
<1>2. CASE UNCHANGED sizeVars
  BY <1>2 DEF sizeVars, SizeInv
<1> QED
  BY <1>1, <1>2 DEF SizeNext, SizeRest

(* What is kept says what is meant.                                         *)
LEMMA SizeInvIsExact == SizeInv => SizeIsExact
<1> SUFFICES ASSUME SizeInv PROVE SizeIsExact
  OBVIOUS
<1> DEFINE H == StoppedPaths(trials, looks, level, alternative)
<1>1. H = {path \in Paths : Stopped(path)}
  BY DEF StoppedPaths, StoppedBy, Stopped, Paths, Coins, RegionOf
<1>2. \A k : Going(H, trials, k) = {path \in Paths : ~Stopped(path) /\ Wins(path, trials) = k}
  BY <1>1 DEF Going, Paths, Coins
<1> HIDE DEF H
<1>3. rejected = Cardinality(H) /\ GoingIsCounted(weights, trials, H)
  BY DEF SizeInv, H
<1> QED
  BY <1>1, <1>2, <1>3 DEF SizeIsExact, GoingIsCounted

(* For every level, side and increasing schedule of looks: after each look  *)
(* rejected is the number of sequences of wins and losses that some look    *)
(* has rejected, and weights are those of the others, by wins               *)
(* (power.py:187,200).                                                      *)
THEOREM SizeIsExactHolds == SizeSpec => []SizeIsExact
<1>1. SizeSpec => []SizeInv
  BY SizeStarts, SizeKept, PTL DEF SizeSpec
<1> QED
  BY <1>1, SizeInvIsExact, PTL

(* For every design, grid, base and number of digits, and wherever the      *)
(* search in floats ended: a plan leads to the counts whose p-value is at   *)
(* most the level, and to the nearest effect that reaches the power, and    *)
(* what is printed of it still does.                                        *)
THEOREM PlanIsRightHolds == PlanSpec => []PlanIsRight
<1>1. RegionIsExact /\ MdeIsNearest /\ PrintedReaches => PlanIsRight
  BY DEF PlanIsRight
<1> QED
  BY <1>1, RegionHolds, MdeIsNearestHolds, PrintedReachesHolds, PTL
=============================================================================
