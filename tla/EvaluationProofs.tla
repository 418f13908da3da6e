-------------------------- MODULE EvaluationProofs --------------------------
(***************************************************************************)
(* Proofs about Evaluation, for any units, rules and days, however many    *)
(* units come in: the order in which they are listed does not show, what a *)
(* unit recorded shows only if the horizon uses it, a result that was      *)
(* reached stands, and a better outcome never loses one.  PValue and the   *)
(* tests on the outcomes are any at all but in the last, which is about    *)
(* the exact ones.                                                         *)
(***************************************************************************)
EXTENDS Evaluation, NumbersProofs

(* What units record, and what that would be with one outcome changed. *)
Recorded == {u.outcomes : u \in Units}

Changes ==
  {[o EXCEPT ![h] = better] :
     o \in Recorded, h \in UNION {DOMAIN r.hypotheses : r \in Rules}, better \in DOMAIN Ranked}

Items == [id : Keys, order : Keys, outcomes : Recorded \cup Changes]

TypeOK == rule \in Rules /\ data \in Seq(Units) /\ asOf \in Days \cup {NoDay}

-----------------------------------------------------------------------------
(* Sorting *)

(* The pairs put the places in one order, with no two of them level. *)
Linear(places, before) ==
  /\ \A i \in places : <<i, i>> \notin before
  /\ \A i, j, k \in places : <<i, j>> \in before /\ <<j, k>> \in before => <<i, k>> \in before
  /\ \A i, j \in places : i # j => <<i, j>> \in before \/ <<j, i>> \in before

At(places, before, k) == CHOOSE i \in places : Cardinality(Ahead(places, before, i)) = k - 1

(* The further on a place, the more are ahead of it; so each number of      *)
(* places ahead, below that of all, belongs to one place.                   *)
LEMMA OneAtEach ==
  ASSUME NEW places \in SUBSET Nat, IsFiniteSet(places), NEW before, Linear(places, before)
  PROVE  /\ Cardinality(places) \in Nat
         /\ \A i \in places : IsFiniteSet(Ahead(places, before, i))
                              /\ Cardinality(Ahead(places, before, i)) \in 0 .. Cardinality(places) - 1
         /\ \A i, j \in places :
              Cardinality(Ahead(places, before, i)) = Cardinality(Ahead(places, before, j)) => i = j
         /\ \A k \in 1 .. Cardinality(places) :
              /\ At(places, before, k) \in places
              /\ Cardinality(Ahead(places, before, At(places, before, k))) = k - 1
<1> DEFINE A == [i \in places |-> Ahead(places, before, i)]
<1>1. ASSUME NEW i \in places, NEW j PROVE j \in A[i] <=> j \in places /\ <<j, i>> \in before
  <2>1. ASSUME j \in places PROVE j < i => j # i
    BY <2>1
  <2>2. CASE j \in places /\ j # i
    BY <2>1, <2>2 DEF Linear, Ahead
  <2>3. CASE j \in places /\ j = i
    BY <2>1, <2>3 DEF Linear, Ahead
  <2> QED
    BY <2>2, <2>3 DEF Ahead
<1>2. \A i \in places : A[i] = Ahead(places, before, i)
  OBVIOUS
<1>3. A \in [places -> SUBSET places]
  BY DEF Ahead
<1> HIDE DEF A
<1>4. \A i \in places : i \notin A[i]
  BY <1>1 DEF Linear
<1>5. \A i, j \in places : i # j => \/ A[i] \subseteq A[j] /\ i \in A[j]
                                    \/ A[j] \subseteq A[i] /\ j \in A[i]
  BY <1>1 DEF Linear
<1>6. /\ Cardinality(places) \in Nat
      /\ \A i \in places : IsFiniteSet(A[i]) /\ Cardinality(A[i]) \in 0 .. Cardinality(places) - 1
      /\ \A i, j \in places : Cardinality(A[i]) = Cardinality(A[j]) => i = j
      /\ \A k \in 1 .. Cardinality(places) : \E i \in places : Cardinality(A[i]) = k - 1
  BY <1>3, <1>4, <1>5, Ranks, ZenonT(60)
<1> QED
  BY <1>2, <1>6 DEF At

LEMMA SortedAt ==
  ASSUME NEW units, NEW places, NEW before
  PROVE  Sorted(units, places, before)
           = [k \in 1 .. Cardinality(places) |-> units[At(places, before, k)]]
BY DEF Sorted, At

(* Units that are listed otherwise are sorted the same. *)
LEMMA SortedAlike ==
  ASSUME NEW P \in SUBSET Nat, IsFiniteSet(P), NEW c, Linear(P, c),
         NEW S \in SUBSET Nat, NEW b, Linear(S, b), NEW to \in Bijection(P, S),
         \A i, j \in P : <<i, j>> \in c <=> <<to[i], to[j]>> \in b,
         NEW units, NEW listed, \A i \in P : listed[i] = units[to[i]]
  PROVE  Sorted(listed, P, c) = Sorted(units, S, b)
<1>1. /\ to \in [P -> S] /\ \A i, j \in P : to[i] = to[j] => i = j
      /\ \A s \in S : \E i \in P : to[i] = s
  BY DEF Bijection, Injection, Surjection, IsInjective
<1>2. IsFiniteSet(S) /\ Cardinality(S) = Cardinality(P)
  BY FS_Bijection DEF ExistsBijection
<1>3. ASSUME NEW i \in P
      PROVE  Cardinality(Ahead(S, b, to[i])) = Cardinality(Ahead(P, c, i))
  <2> DEFINE A == Ahead(P, c, i)
             B == Ahead(S, b, to[i])
             f == [j \in A |-> to[j]]
  <2>1. IsFiniteSet(A)
    BY OneAtEach
  <2>2. \A j : j \in A <=> j \in P /\ <<j, i>> \in c
    <3>1. \A j \in P : j < i => j # i
      OBVIOUS
    <3> QED
      BY <3>1 DEF Ahead, Linear
  <2>3. \A s : s \in B <=> s \in S /\ <<s, to[i]>> \in b
    <3>1. to[i] \in S /\ \A s \in S : s < to[i] => s # to[i]
      BY <1>1
    <3> QED
      BY <3>1 DEF Ahead, Linear
  <2> HIDE DEF A, B
  <2>4. f \in [A -> B] /\ \A s \in B : \E j \in A : f[j] = s
    BY <1>1, <2>2, <2>3
  <2>5. \A j, k \in A : f[j] = f[k] => j = k
    BY <1>1, <2>2
  <2>6. f \in Bijection(A, B)
    BY <2>4, <2>5 DEF Bijection, Injection, Surjection, IsInjective
  <2> HIDE DEF f
  <2>7. ExistsBijection(A, B)
    BY <2>6 DEF ExistsBijection
  <2> QED
    BY <2>1, <2>7, FS_Bijection DEF A, B
<1>4. ASSUME NEW k \in 1 .. Cardinality(P) PROVE to[At(P, c, k)] = At(S, b, k)
  <2>1. At(P, c, k) \in P /\ Cardinality(Ahead(P, c, At(P, c, k))) = k - 1
    BY OneAtEach
  <2>2. At(S, b, k) \in S /\ Cardinality(Ahead(S, b, At(S, b, k))) = k - 1
    BY <1>2, OneAtEach
  <2>3. to[At(P, c, k)] \in S /\ Cardinality(Ahead(S, b, to[At(P, c, k)])) = k - 1
    BY <1>1, <1>3, <2>1
  <2>4. \A i, j \in S : Cardinality(Ahead(S, b, i)) = Cardinality(Ahead(S, b, j)) => i = j
    BY <1>2, OneAtEach
  <2> QED
    BY <2>2, <2>3, <2>4, Zenon
<1>5. \A k \in 1 .. Cardinality(P) : listed[At(P, c, k)] = units[At(S, b, k)]
  BY <1>4, OneAtEach
<1> QED
  BY <1>2, <1>5, SortedAt

-----------------------------------------------------------------------------
(* The keys *)

LEMMA ItemsHaveKeys ==
  ASSUME NEW units \in Seq(Items)
  PROVE  /\ DOMAIN units = 1 .. Len(units) /\ Len(units) \in Nat
         /\ \A i \in DOMAIN units :
              /\ units[i] \in Items /\ units[i].id \in Keys /\ units[i].order \in Keys
              /\ units[i].id.rank \in Int /\ units[i].order.rank \in Int
              /\ units[i].id.type \in {"int", "str", "other"}
<1>1. DOMAIN units = 1 .. Len(units) /\ Len(units) \in Nat /\ \A i \in DOMAIN units : units[i] \in Items
  OBVIOUS
<1> QED
  BY <1>1 DEF Items, Keys

LEMMA UnitsAreItems == Seq(Units) \subseteq Seq(Items)
<1>1. \A u \in Units : u \in Items
  BY UnitsAssumption DEF Items, Recorded
<1>2. ASSUME NEW s \in Seq(Units) PROVE s \in Seq(Items)
  <2>1. s \in [1 .. Len(s) -> Units] /\ Len(s) \in Nat
    OBVIOUS
  <2>2. s \in [1 .. Len(s) -> Items]
    BY <1>1, <2>1
  <2> QED
    BY <2>1, <2>2
<1> QED
  BY <1>2

(* Where the order is not ambiguous, it is one order of all places. *)
LEMMA OrderIsLinear ==
  ASSUME NEW units \in Seq(Items), ~Ambiguous(units)
  PROVE  Linear(DOMAIN units, ByOrder(units, DOMAIN units))
<1> DEFINE D == DOMAIN units
           before == ByOrder(units, D)
<1>1. \A i, j \in D : <<i, j>> \in before <=> units[i].order.rank < units[j].order.rank
  BY DEF ByOrder, Earlier
<1>2. \A i \in D : units[i].order.rank \in Int
  BY ItemsHaveKeys
<1>3. ASSUME NEW i \in D, NEW j \in D, i # j
      PROVE  units[i].order.rank # units[j].order.rank
  <2>1. PICK o \in Keys : o = units[i].order
    BY ItemsHaveKeys
  <2>2. PICK q \in Keys : q = units[j].order
    BY ItemsHaveKeys
  <2>3. o.type = q.type /\ o # q
    BY <1>3, <2>1, <2>2, Zenon DEF Ambiguous
  <2>4. o.rank # q.rank
    BY <2>3 DEF Keys
  <2> QED
    BY <2>1, <2>2, <2>4
<1> HIDE DEF D, before
<1>4. Linear(D, before)
  BY <1>1, <1>2, <1>3 DEF Linear
<1> QED
  BY <1>4 DEF D, before

(* Day, then id as it is spelt, is one order of all units that are well made. *)
LEMMA DayThenIdIsLinear ==
  ASSUME NEW units \in Seq(Items), ~UnitsRefused(units), NEW places \in SUBSET DOMAIN units
  PROVE  Linear(places, ByDayThenId(units, places))
<1> DEFINE before == ByDayThenId(units, places)
           day(i)  == units[i].order.rank
           type(i) == units[i].id.type
           id(i)   == units[i].id.rank
<1>1. \A i, j \in places : <<i, j>> \in before <=>
        \/ day(i) < day(j)
        \/ day(i) = day(j) /\ type(i) = "str" /\ type(j) = "int"
        \/ day(i) = day(j) /\ type(i) = type(j) /\ id(i) < id(j)
  BY DEF ByDayThenId, Earlier, SpeltBefore
<1>2. \A i \in places : day(i) \in Int /\ id(i) \in Int /\ type(i) \in {"int", "str"}
  <2>1. \A i \in places : /\ day(i) \in Int /\ id(i) \in Int /\ type(i) \in {"int", "str", "other"}
                          /\ type(i) # "other"
    BY ItemsHaveKeys DEF UnitsRefused
  <2> QED
    BY <2>1
<1>3. \A i, j \in places : i # j => type(i) # type(j) \/ id(i) # id(j)
  <2>1. \A i \in places : units[i].id = [type |-> type(i), rank |-> id(i)]
    BY ItemsHaveKeys DEF Keys
  <2> QED
    BY <2>1 DEF UnitsRefused
<1> HIDE DEF before, day, type, id
<1>4. \A i \in places : <<i, i>> \notin before
  BY <1>1, <1>2
<1>5. \A i, j, k \in places : <<i, j>> \in before /\ <<j, k>> \in before => <<i, k>> \in before
  BY <1>1, <1>2
<1>6. \A i, j \in places : i # j => <<i, j>> \in before \/ <<j, i>> \in before
  BY <1>1, <1>2, <1>3
<1> QED
  BY <1>4, <1>5, <1>6 DEF Linear, before

-----------------------------------------------------------------------------
(* Answers *)

LEMMA Horizons ==
  ASSUME NEW r \in Rules
  PROVE  /\ DOMAIN r.hypotheses # {} /\ r.shared.kind \in {"count", "days"}
         /\ r.shared.size \in Nat /\ r.shared.size > 0 /\ r.shared.start \in Int
         /\ WindowEnd(r.shared) \in Int
BY RulesAssumption DEF WindowEnd

(* An evaluation is of the units chosen; it sees nothing else of the data. *)
LEMMA SameAnswer ==
  ASSUME NEW r, NEW u, NEW v, NEW day, UnitsRefused(u) <=> UnitsRefused(v),
         ~UnitsRefused(u) => Chosen(r.shared, u, day) = Chosen(r.shared, v, day)
  PROVE  Evaluate(r, u, day) = Evaluate(r, v, day)
<1> DEFINE First(w) == IF UnitsRefused(w) THEN Is("PreregError") ELSE Chosen(r.shared, w, day)
<1>1. First(u) = First(v)
  OBVIOUS
<1> QED
  BY <1>1, Zenon DEF Evaluate

(* What comes of the units a horizon chooses. *)
LEMMA Answers ==
  ASSUME NEW r, NEW u, NEW day
  PROVE  LET reply == Evaluate(r, u, day)
             chosen == Chosen(r.shared, u, day)
         IN  /\ reply.kind \in {"evaluated", "HorizonNotReachedError"} => ~UnitsRefused(u)
             /\ reply.kind = "evaluated" => chosen.kind = "used" /\ reply.used = chosen.used
             /\ reply.kind = "evaluated" =>
                  /\ reply.labels = Labels(r, chosen.used)
                  /\ \A i \in DOMAIN chosen.used : Matches(r, chosen.used[i])
                  /\ \A h \in DOMAIN r.hypotheses :
                       Test(r.hypotheses[h].test, Seen(chosen.used, h)) # Empty
             /\ ~UnitsRefused(u) /\ chosen.kind # "used" => reply = chosen
             /\ ~UnitsRefused(u) /\ chosen.kind = "used" => reply.kind # "HorizonNotReachedError"
             /\ UnitsRefused(u) => reply = Is("PreregError")
             /\ reply.kind # "evaluated" =>
                  reply \in {Is("PreregError"), Is("EmptySampleError"), Is("HorizonNotReachedError")}
<1> DEFINE chosen  == IF UnitsRefused(u) THEN Is("PreregError") ELSE Chosen(r.shared, u, day)
           matched == \A i \in DOMAIN chosen.used : Matches(r, chosen.used[i])
           empty   == \E h \in DOMAIN r.hypotheses :
                        Test(r.hypotheses[h].test, Seen(chosen.used, h)) = Empty
           full    == [kind |-> "evaluated", used |-> chosen.used, labels |-> Labels(r, chosen.used)]
           reply  == Evaluate(r, u, day)
<1>1. /\ chosen.kind # "used" => reply = chosen
      /\ chosen.kind = "used" /\ ~matched => reply = Is("PreregError")
      /\ chosen.kind = "used" /\ matched /\ empty => reply = Is("EmptySampleError")
      /\ chosen.kind = "used" /\ matched /\ ~empty => reply = full
  BY Zenon DEF Evaluate
<1>2. UnitsRefused(u) => chosen = Is("PreregError")
  OBVIOUS
<1>3. ~UnitsRefused(u) => chosen = Chosen(r.shared, u, day)
  OBVIOUS
<1>4. /\ Is("PreregError").kind = "PreregError" /\ Is("EmptySampleError").kind = "EmptySampleError"
      /\ full.kind = "evaluated" /\ full.used = chosen.used /\ full.labels = Labels(r, chosen.used)
  BY DEF Is
<1>5. /\ Chosen(r.shared, u, day).kind # "evaluated"
      /\ Chosen(r.shared, u, day).kind # "used" =>
           Chosen(r.shared, u, day) \in {Is("PreregError"), Is("HorizonNotReachedError")}
  BY DEF Chosen, CountChosen, DaysChosen, Is, Used
<1> HIDE DEF reply, full, chosen
<1>6. matched \/ ~matched
  OBVIOUS
<1>7. empty \/ ~empty
  OBVIOUS
<1>8. ~empty /\ ~UnitsRefused(u) => \A h \in DOMAIN r.hypotheses :
        Test(r.hypotheses[h].test, Seen(Chosen(r.shared, u, day).used, h)) # Empty
  BY <1>3
<1>9. matched /\ ~UnitsRefused(u) => \A i \in DOMAIN Chosen(r.shared, u, day).used :
        Matches(r, Chosen(r.shared, u, day).used[i])
  BY <1>3
<1> HIDE DEF matched, empty
<1> QED
  BY <1>1, <1>2, <1>3, <1>4, <1>5, <1>8, <1>9 DEF reply

-----------------------------------------------------------------------------
(* Listing units anew *)

LEMMA PermutedUnits ==
  ASSUME NEW units \in Seq(Items), NEW order \in Bijection(DOMAIN units, DOMAIN units)
  PROVE  LET listed == Permuted(units, order)
         IN  /\ listed \in Seq(Items) /\ DOMAIN listed = DOMAIN units /\ Len(listed) = Len(units)
             /\ \A i \in DOMAIN units : order[i] \in DOMAIN units /\ listed[i] = units[order[i]]
             /\ \A i, j \in DOMAIN units : order[i] = order[j] => i = j
             /\ \A j \in DOMAIN units : \E i \in DOMAIN units : order[i] = j
<1> DEFINE listed == Permuted(units, order)
<1>1. /\ order \in [DOMAIN units -> DOMAIN units]
      /\ \A i, j \in DOMAIN units : order[i] = order[j] => i = j
      /\ \A j \in DOMAIN units : \E i \in DOMAIN units : order[i] = j
  BY DEF Bijection, Injection, Surjection, IsInjective
<1>2. DOMAIN units = 1 .. Len(units) /\ Len(units) \in Nat
  BY ItemsHaveKeys
<1>3. listed \in [1 .. Len(units) -> Items] /\ \A i \in DOMAIN units : listed[i] = units[order[i]]
  BY <1>1, <1>2, ItemsHaveKeys DEF Permuted
<1> HIDE DEF listed
<1>4. listed \in Seq(Items) /\ Len(listed) = Len(units)
  <2>1. PICK n \in Nat : n = Len(units)
    BY <1>2
  <2>2. listed \in [1 .. n -> Items]
    BY <1>3, <2>1
  <2> QED
    BY <2>1, <2>2
<1> QED
  BY <1>1, <1>2, <1>3, <1>4 DEF listed

(* v holds each unit that u lists, the i-th at place to[i]. *)
Relists(u, v, to) ==
  /\ \A i \in DOMAIN u : to[i] \in DOMAIN v /\ u[i] = v[to[i]]
  /\ \A i, j \in DOMAIN u : to[i] = to[j] => i = j

Dated(units) == \A i \in DOMAIN units : units[i].order.type = "str"

LEMMA FaultsCarry ==
  ASSUME NEW u, NEW v, NEW to, Relists(u, v, to)
  PROVE  (UnitsRefused(u) => UnitsRefused(v)) /\ (Ambiguous(u) => Ambiguous(v)) /\ (Dated(v) => Dated(u))
<1>0. /\ \A i \in DOMAIN u : to[i] \in DOMAIN v /\ u[i] = v[to[i]]
      /\ \A i, j \in DOMAIN u : to[i] = to[j] => i = j
  BY DEF Relists
<1>1. ASSUME NEW i \in DOMAIN u, "other" \in {u[i].id.type, u[i].order.type} PROVE UnitsRefused(v)
  <2>1. to[i] \in DOMAIN v /\ "other" \in {v[to[i]].id.type, v[to[i]].order.type}
    BY <1>0, <1>1
  <2> QED
    BY <2>1, Zenon DEF UnitsRefused
<1>2. ASSUME NEW i \in DOMAIN u, NEW j \in DOMAIN u, i # j, u[i].id = u[j].id PROVE UnitsRefused(v)
  <2>1. to[i] \in DOMAIN v /\ to[j] \in DOMAIN v /\ to[i] # to[j] /\ v[to[i]].id = v[to[j]].id
    BY <1>0, <1>2
  <2> QED
    BY <2>1, Zenon DEF UnitsRefused
<1>3. ASSUME NEW i \in DOMAIN u, NEW j \in DOMAIN u, i # j,
             u[i].order.type # u[j].order.type \/ u[i].order = u[j].order
      PROVE  Ambiguous(v)
  <2>1. /\ to[i] \in DOMAIN v /\ to[j] \in DOMAIN v /\ to[i] # to[j]
        /\ v[to[i]].order.type # v[to[j]].order.type \/ v[to[i]].order = v[to[j]].order
    BY <1>0, <1>3
  <2> QED
    BY <2>1, Zenon DEF Ambiguous
<1>4. Dated(v) => Dated(u)
  BY <1>0 DEF Dated
<1>5. UnitsRefused(u) => UnitsRefused(v)
  BY <1>1, <1>2, Zenon DEF UnitsRefused
<1>6. Ambiguous(u) => Ambiguous(v)
  BY <1>3, Zenon DEF Ambiguous
<1> QED
  BY <1>4, <1>5, <1>6

LEMMA ListedAlike ==
  ASSUME NEW u, NEW v, NEW to, Relists(u, v, to), DOMAIN v = DOMAIN u,
         \A j \in DOMAIN u : \E i \in DOMAIN u : to[i] = j
  PROVE  (UnitsRefused(v) <=> UnitsRefused(u)) /\ (Ambiguous(v) <=> Ambiguous(u)) /\ (Dated(v) <=> Dated(u))
<1> DEFINE from == [j \in DOMAIN u |-> CHOOSE i \in DOMAIN u : to[i] = j]
<1>1. \A j \in DOMAIN u : from[j] \in DOMAIN u /\ to[from[j]] = j
  OBVIOUS
<1> HIDE DEF from
<1>2. ASSUME NEW j \in DOMAIN u PROVE u[from[j]] = v[j]
  <2>1. PICK i \in DOMAIN u : i = from[j]
    BY <1>1
  <2>2. u[i] = v[to[i]]
    BY Zenon DEF Relists
  <2> QED
    BY <1>1, <2>1, <2>2, Zenon
<1>3. \A i, j \in DOMAIN u : from[i] = from[j] => i = j
  BY <1>1
<1>4. Relists(v, u, from)
  BY <1>1, <1>2, <1>3, Zenon DEF Relists
<1> QED
  BY <1>4, FaultsCarry

(* Whichever way they are listed, a horizon chooses the same units and puts *)
(* them in the same order.                                                  *)
LEMMA ChosenAlike ==
  ASSUME NEW r \in Rules, NEW units \in Seq(Items), ~UnitsRefused(units), NEW day,
         NEW order \in Bijection(DOMAIN units, DOMAIN units)
  PROVE  Chosen(r.shared, Permuted(units, order), day) = Chosen(r.shared, units, day)
<1> DEFINE listed == Permuted(units, order)
           D == DOMAIN units
<1>1. /\ listed \in Seq(Items) /\ DOMAIN listed = D /\ Len(listed) = Len(units)
      /\ \A i \in D : order[i] \in D /\ listed[i] = units[order[i]]
      /\ \A i, j \in D : order[i] = order[j] => i = j
      /\ \A j \in D : \E i \in D : order[i] = j
  BY PermutedUnits
<1> HIDE DEF listed
<1>2. (UnitsRefused(listed) <=> UnitsRefused(units)) /\ (Ambiguous(listed) <=> Ambiguous(units))
      /\ (Dated(listed) <=> Dated(units))
  <2>1. Relists(listed, units, order)
    BY <1>1 DEF Relists
  <2>2. DOMAIN units = DOMAIN listed /\ \A j \in DOMAIN listed : \E i \in DOMAIN listed : order[i] = j
    BY <1>1
  <2> QED
    BY <2>1, <2>2, ListedAlike
<1>3. D \in SUBSET Nat /\ IsFiniteSet(D)
  <2>1. D = 1 .. Len(units) /\ Len(units) \in Nat
    BY ItemsHaveKeys
  <2> QED
    BY <2>1, FS_Interval
<1>4. ~Ambiguous(units) => InOrder(listed) = InOrder(units)
  <2> SUFFICES ASSUME ~Ambiguous(units) PROVE InOrder(listed) = InOrder(units)
    OBVIOUS
  <2>1. Linear(D, ByOrder(units, D)) /\ Linear(D, ByOrder(listed, D))
    BY <1>1, <1>2, OrderIsLinear
  <2>2. \A i, j \in D : <<i, j>> \in ByOrder(listed, D) <=> <<order[i], order[j]>> \in ByOrder(units, D)
    BY <1>1 DEF ByOrder, Earlier
  <2> HIDE DEF D
  <2>3. order \in Bijection(D, D)
    BY DEF D
  <2>4. Sorted(listed, D, ByOrder(listed, D)) = Sorted(units, D, ByOrder(units, D))
    <3>1. \A i \in D : listed[i] = units[order[i]]
      BY <1>1
    <3> QED
      BY <1>3, <2>1, <2>2, <2>3, <3>1, SortedAlike
  <2> QED
    BY <1>1, <2>4 DEF InOrder, D
<1>5. LET P == InWindow(r.shared, listed)
          S == InWindow(r.shared, units)
      IN  Sorted(listed, P, ByDayThenId(listed, P)) = Sorted(units, S, ByDayThenId(units, S))
  <2> DEFINE P == InWindow(r.shared, listed)
             S == InWindow(r.shared, units)
             c == ByDayThenId(listed, P)
             b == ByDayThenId(units, S)
             to == [i \in P |-> order[i]]
  <2>1. P \in SUBSET D /\ S \in SUBSET D /\ \A i \in D : i \in P <=> order[i] \in S
    BY <1>1 DEF InWindow
  <2>2. Linear(P, c) /\ Linear(S, b)
    BY <1>1, <1>2, <2>1, DayThenIdIsLinear
  <2>3. \A i, j \in P : <<i, j>> \in c <=> <<order[i], order[j]>> \in b
    BY <1>1, <2>1 DEF ByDayThenId, Earlier, SpeltBefore
  <2>4. P \in SUBSET Nat /\ S \in SUBSET Nat /\ IsFiniteSet(P)
    BY <1>3, <2>1, FS_Subset
  <2> HIDE DEF P, S, c, b
  <2>5. to \in [P -> S] /\ (\A i, j \in P : to[i] = to[j] => i = j) /\ \A s \in S : \E i \in P : to[i] = s
    BY <1>1, <2>1
  <2>6. to \in Bijection(P, S)
    BY <2>5 DEF Bijection, Injection, Surjection, IsInjective
  <2>7. \A i \in P : to[i] = order[i] /\ listed[i] = units[to[i]]
    BY <1>1, <2>1
  <2>8. \A i, j \in P : <<i, j>> \in c <=> <<to[i], to[j]>> \in b
    BY <2>3, <2>7
  <2> HIDE DEF to
  <2>9. Sorted(listed, P, c) = Sorted(units, S, b)
    BY <2>2, <2>4, <2>6, <2>7, <2>8, SortedAlike
  <2> QED
    BY <2>9 DEF P, S, c, b
<1>6. CountChosen(r.shared.size, listed) = CountChosen(r.shared.size, units)
  BY <1>1, <1>2, <1>4 DEF CountChosen
<1>7. DaysChosen(r.shared, listed, day) = DaysChosen(r.shared, units, day)
  <2>1. (\E i \in DOMAIN listed : listed[i].order.type # "str")
          <=> (\E i \in DOMAIN units : units[i].order.type # "str")
    BY <1>2, Zenon DEF Dated
  <2> HIDE DEF D
  <2> QED
    BY <2>1, <1>5 DEF DaysChosen
<1> QED
  BY <1>6, <1>7 DEF Chosen, listed

-----------------------------------------------------------------------------
(* Recording other outcomes *)

SameKeys(u, v) ==
  DOMAIN v = DOMAIN u /\ \A i \in DOMAIN u : v[i].id = u[i].id /\ v[i].order = u[i].order

(* Which units are chosen, and in which order, depends on their keys alone. *)
LEMMA KeysDecide ==
  ASSUME NEW u, NEW v, SameKeys(u, v)
  PROVE  /\ (UnitsRefused(v) <=> UnitsRefused(u)) /\ (Ambiguous(v) <=> Ambiguous(u))
         /\ Dated(v) <=> Dated(u)
         /\ ByOrder(v, DOMAIN u) = ByOrder(u, DOMAIN u)
         /\ \A horizon : InWindow(horizon, v) = InWindow(horizon, u)
         /\ \A places \in SUBSET DOMAIN u : ByDayThenId(v, places) = ByDayThenId(u, places)
<1>0. DOMAIN v = DOMAIN u /\ \A i \in DOMAIN u : v[i].id = u[i].id /\ v[i].order = u[i].order
  BY DEF SameKeys
<1>1. UnitsRefused(v) <=> UnitsRefused(u)
  BY <1>0 DEF UnitsRefused
<1>2. Ambiguous(v) <=> Ambiguous(u)
  BY <1>0 DEF Ambiguous
<1>3. Dated(v) <=> Dated(u)
  BY <1>0 DEF Dated
<1>4. ByOrder(v, DOMAIN u) = ByOrder(u, DOMAIN u)
  BY <1>0 DEF ByOrder, Earlier
<1>5. ASSUME NEW horizon PROVE InWindow(horizon, v) = InWindow(horizon, u)
  BY <1>0 DEF InWindow
<1>6. ASSUME NEW places \in SUBSET DOMAIN u PROVE ByDayThenId(v, places) = ByDayThenId(u, places)
  <2>1. \A i \in places : v[i].id = u[i].id /\ v[i].order = u[i].order
    BY <1>0
  <2> QED
    BY <2>1 DEF ByDayThenId, Earlier
<1> QED
  BY <1>1, <1>2, <1>3, <1>4, <1>5, <1>6

(* The places of the units that are chosen. *)
LEMMA InOrderAt ==
  ASSUME NEW u \in Seq(Items), ~Ambiguous(u)
  PROVE  LET at(k) == At(DOMAIN u, ByOrder(u, DOMAIN u), k)
         IN  /\ InOrder(u) \in Seq(Items) /\ Len(InOrder(u)) = Len(u)
             /\ \A k \in 1 .. Len(u) : at(k) \in DOMAIN u /\ InOrder(u)[k] = u[at(k)]
<1> DEFINE D  == DOMAIN u
           at(k) == At(D, ByOrder(u, D), k)
<1>1. PICK n \in Nat : n = Len(u) /\ D = 1 .. n
  BY ItemsHaveKeys
<1>2. D \in SUBSET Nat /\ IsFiniteSet(D) /\ Cardinality(D) = n
  <2>1. IsFiniteSet(1 .. n) /\ Cardinality(1 .. n) = n /\ 1 .. n \in SUBSET Nat
    BY FS_Interval
  <2> QED
    BY <1>1, <2>1, Zenon
<1>3. Linear(D, ByOrder(u, D))
  BY OrderIsLinear
<1>4. InOrder(u) = [k \in 1 .. Cardinality(D) |-> u[at(k)]]
  BY SortedAt DEF InOrder
<1>5. \A i \in D : u[i] \in Items
  BY ItemsHaveKeys
<1> HIDE DEF D
<1>6. \A k \in 1 .. n : at(k) \in D
  BY <1>2, <1>3, OneAtEach
<1> HIDE DEF at
<1>7. InOrder(u) \in [1 .. n -> Items] /\ \A k \in 1 .. n : InOrder(u)[k] = u[at(k)]
  BY <1>2, <1>4, <1>5, <1>6
<1>8. InOrder(u) \in Seq(Items) /\ Len(InOrder(u)) = n
  BY <1>7
<1> QED
  BY <1>1, <1>6, <1>7, <1>8 DEF at, D

LEMMA FirstOf ==
  ASSUME NEW s \in Seq(Items), NEW size \in Nat, size <= Len(s)
  PROVE  SubSeq(s, 1, size) = [k \in 1 .. size |-> s[k]]
OBVIOUS

LEMMA WindowAt ==
  ASSUME NEW u \in Seq(Items), ~UnitsRefused(u), NEW horizon
  PROVE  LET places == InWindow(horizon, u)
         IN  \A k \in 1 .. Cardinality(places) : At(places, ByDayThenId(u, places), k) \in DOMAIN u
<1> DEFINE P == InWindow(horizon, u)
<1>1. P \in SUBSET DOMAIN u
  BY DEF InWindow
<1>2. DOMAIN u \in SUBSET Nat /\ IsFiniteSet(DOMAIN u)
  <2>1. DOMAIN u = 1 .. Len(u) /\ Len(u) \in Nat
    BY ItemsHaveKeys
  <2> QED
    BY <2>1, FS_Interval
<1>3. P \in SUBSET Nat /\ IsFiniteSet(P)
  BY <1>1, <1>2, FS_Subset
<1>4. Linear(P, ByDayThenId(u, P))
  BY <1>1, DayThenIdIsLinear
<1> HIDE DEF P
<1>5. \A k \in 1 .. Cardinality(P) : At(P, ByDayThenId(u, P), k) \in P
  BY <1>3, <1>4, OneAtEach
<1> QED
  BY <1>1, <1>5 DEF P

LEMMA AtDiffer ==
  ASSUME NEW places \in SUBSET Nat, IsFiniteSet(places), NEW before, Linear(places, before),
         NEW k \in 1 .. Cardinality(places), NEW l \in 1 .. Cardinality(places),
         At(places, before, k) = At(places, before, l)
  PROVE  k = l
<1>1. Cardinality(places) \in Nat
  BY OneAtEach
<1>2. k - 1 = l - 1
  BY OneAtEach
<1> QED
  BY <1>1, <1>2

(* A horizon chooses the units at n places, each once, in this order.       *)
ChosenAt(horizon, units, day, n, at) ==
  /\ at \in [1 .. n -> DOMAIN units] /\ \A k, l \in 1 .. n : at[k] = at[l] => k = l
  /\ Chosen(horizon, units, day) = Used([k \in 1 .. n |-> units[at[k]]])

(* The places do not depend on what the units recorded.                     *)
LEMMA PlacesChosen ==
  ASSUME NEW r \in Rules, NEW u \in Seq(Items), NEW v \in Seq(Items), SameKeys(u, v),
         ~UnitsRefused(u), NEW day, Chosen(r.shared, u, day).kind = "used"
  PROVE  \E n, at : n \in Nat /\ ChosenAt(r.shared, u, day, n, at) /\ ChosenAt(r.shared, v, day, n, at)
<1> DEFINE D == DOMAIN u
           P == InWindow(r.shared, u)
           b == ByDayThenId(u, P)
<1>1. /\ UnitsRefused(v) <=> UnitsRefused(u)
      /\ Ambiguous(v) <=> Ambiguous(u)
      /\ Dated(v) <=> Dated(u)
      /\ DOMAIN v = D /\ ByOrder(v, D) = ByOrder(u, D)
      /\ InWindow(r.shared, v) = P /\ ByDayThenId(v, P) = b
  <2>1. P \in SUBSET DOMAIN u
    BY DEF InWindow
  <2> QED
    BY <2>1, KeysDecide DEF SameKeys
<1>2. D = 1 .. Len(u) /\ Len(u) \in Nat /\ Len(v) = Len(u)
  <2>1. DOMAIN u = 1 .. Len(u) /\ Len(u) \in Nat /\ DOMAIN v = 1 .. Len(v) /\ Len(v) \in Nat
    BY ItemsHaveKeys
  <2> QED
    BY <1>1, <2>1
<1>3. r.shared.size \in Nat /\ r.shared.kind \in {"count", "days"}
  BY Horizons
<1>4. D \in SUBSET Nat /\ IsFiniteSet(D) /\ Cardinality(D) = Len(u)
  <2>1. PICK n \in Nat : n = Len(u)
    BY <1>2
  <2>2. IsFiniteSet(1 .. n) /\ Cardinality(1 .. n) = n /\ 1 .. n \in SUBSET Nat
    BY FS_Interval
  <2> QED
    BY <1>2, <2>1, <2>2, Zenon
<1>5. CASE r.shared.kind = "count"
  <2>1. ~Ambiguous(u) /\ Len(u) >= r.shared.size
    BY <1>2, <1>3, <1>5 DEF Chosen, CountChosen, Is
  <2> DEFINE f(k) == At(D, ByOrder(u, D), k)
             at == [k \in 1 .. r.shared.size |-> f(k)]
             used  == SubSeq(InOrder(u), 1, r.shared.size)
             same  == SubSeq(InOrder(v), 1, r.shared.size)
  <2>2. /\ InOrder(u) \in Seq(Items) /\ Len(InOrder(u)) = Len(u)
        /\ \A k \in 1 .. Len(u) : f(k) \in D /\ InOrder(u)[k] = u[f(k)]
    BY <2>1, InOrderAt
  <2>3. /\ InOrder(v) \in Seq(Items) /\ Len(InOrder(v)) = Len(u)
        /\ \A k \in 1 .. Len(u) : InOrder(v)[k] = v[f(k)]
    BY <1>1, <1>2, <2>1, InOrderAt
  <2>4. \A k, l \in 1 .. Len(u) : f(k) = f(l) => k = l
    <3>1. Linear(D, ByOrder(u, D))
      BY <2>1, OrderIsLinear
    <3> QED
      BY <1>4, <3>1, AtDiffer
  <2> HIDE DEF f, D
  <2>5. /\ used = [k \in 1 .. r.shared.size |-> InOrder(u)[k]]
        /\ same = [k \in 1 .. r.shared.size |-> InOrder(v)[k]]
    BY <1>2, <1>3, <2>1, <2>2, <2>3, FirstOf
  <2>6. Chosen(r.shared, u, day) = Used(used)
    BY <1>2, <1>3, <1>5, <2>1 DEF Chosen, CountChosen
  <2>7. Chosen(r.shared, v, day) = Used(same)
    BY <1>1, <1>2, <1>3, <1>5, <2>1 DEF Chosen, CountChosen
  <2> HIDE DEF used, same
  <2>8. \A k \in 1 .. r.shared.size : k \in 1 .. Len(u)
    BY <1>2, <1>3, <2>1
  <2>9. at \in [1 .. r.shared.size -> D] /\ \A k, l \in 1 .. r.shared.size : at[k] = at[l] => k = l
    BY <2>2, <2>4, <2>8
  <2>10. used = [k \in 1 .. r.shared.size |-> u[at[k]]] /\ same = [k \in 1 .. r.shared.size |-> v[at[k]]]
    BY <2>2, <2>3, <2>5, <2>8
  <2> HIDE DEF at
  <2>11. /\ ChosenAt(r.shared, u, day, r.shared.size, at)
         /\ ChosenAt(r.shared, v, day, r.shared.size, at)
    BY <1>1, <2>6, <2>7, <2>9, <2>10 DEF D, ChosenAt
  <2> QED
    BY <1>3, <2>11
<1>6. CASE r.shared.kind = "days"
  <2> DEFINE f(k) == At(P, b, k)
             n == Cardinality(P)
             at == [k \in 1 .. n |-> f(k)]
  <2>1. \A k \in 1 .. n : f(k) \in D
    BY WindowAt
  <2>2. P \in SUBSET D
    BY DEF InWindow
  <2>3. P \in SUBSET Nat /\ IsFiniteSet(P)
    BY <1>4, <2>2, FS_Subset
  <2>4. Linear(P, b)
    BY <2>2, DayThenIdIsLinear
  <2>5. (\E i \in DOMAIN v : v[i].order.type # "str") <=> (\E i \in DOMAIN u : u[i].order.type # "str")
    BY <1>1, Zenon DEF Dated
  <2>6. /\ Chosen(r.shared, u, day) = Used(Sorted(u, P, b))
        /\ Chosen(r.shared, v, day) = Used(Sorted(v, P, b))
    <3> HIDE DEF D
    <3>1. /\ DaysChosen(r.shared, u, day) = Chosen(r.shared, u, day)
          /\ DaysChosen(r.shared, v, day) = Chosen(r.shared, v, day)
      BY <1>6 DEF Chosen
    <3>2. DaysChosen(r.shared, u, day).kind = "used"
      BY <3>1
    <3>3. \/ DaysChosen(r.shared, u, day) = Used(Sorted(u, P, b))
               /\ DaysChosen(r.shared, v, day) = Used(Sorted(v, P, b))
          \/ DaysChosen(r.shared, u, day) \in {Is("PreregError"), Is("HorizonNotReachedError")}
      BY <1>1, <2>5 DEF DaysChosen
    <3>4. Is("PreregError").kind # "used" /\ Is("HorizonNotReachedError").kind # "used"
      BY DEF Is
    <3> QED
      BY <3>1, <3>2, <3>3, <3>4
  <2> HIDE DEF P, b, D
  <2>7. n \in Nat
    BY <2>3, FS_CardinalityType
  <2>8. \A k, l \in 1 .. n : f(k) = f(l) => k = l
    BY <2>3, <2>4, AtDiffer
  <2>9. /\ Sorted(u, P, b) = [k \in 1 .. n |-> u[f(k)]]
        /\ Sorted(v, P, b) = [k \in 1 .. n |-> v[f(k)]]
    BY SortedAt
  <2> HIDE DEF f, n
  <2>10. at \in [1 .. n -> D] /\ \A k, l \in 1 .. n : at[k] = at[l] => k = l
    BY <2>1, <2>8
  <2>11. Sorted(u, P, b) = [k \in 1 .. n |-> u[at[k]]] /\ Sorted(v, P, b) = [k \in 1 .. n |-> v[at[k]]]
    BY <2>9
  <2> HIDE DEF at
  <2>12. ChosenAt(r.shared, u, day, n, at) /\ ChosenAt(r.shared, v, day, n, at)
    BY <1>1, <2>6, <2>10, <2>11 DEF D, ChosenAt
  <2> QED
    BY <2>7, <2>12
<1> QED
  BY <1>3, <1>5, <1>6

(* The choice is the same units as long as those it uses are as they were.  *)
LEMMA ChoiceStays ==
  ASSUME NEW r \in Rules, NEW u \in Seq(Items), NEW v \in Seq(Items), SameKeys(u, v),
         ~UnitsRefused(u), NEW day,
         Chosen(r.shared, u, day).kind = "used" =>
           \A i \in DOMAIN u : u[i] \in Range(Chosen(r.shared, u, day).used) => v[i] = u[i]
  PROVE  Chosen(r.shared, v, day) = Chosen(r.shared, u, day)
<1>1. CASE Chosen(r.shared, u, day).kind = "used"
  <2>1. PICK n, at : n \in Nat /\ ChosenAt(r.shared, u, day, n, at) /\ ChosenAt(r.shared, v, day, n, at)
    BY <1>1, PlacesChosen, Zenon
  <2> DEFINE used == [k \in 1 .. n |-> u[at[k]]]
             same == [k \in 1 .. n |-> v[at[k]]]
  <2>2. Chosen(r.shared, u, day) = Used(used) /\ Chosen(r.shared, v, day) = Used(same)
    BY <2>1 DEF ChosenAt
  <2>3. \A k \in 1 .. n : at[k] \in DOMAIN u /\ used[k] = u[at[k]] /\ k \in DOMAIN used
    BY <2>1 DEF ChosenAt
  <2>4. Chosen(r.shared, u, day).used = used
    BY <2>2 DEF Used
  <2> HIDE DEF used
  <2>5. \A k \in 1 .. n : v[at[k]] = u[at[k]]
    BY <1>1, <2>3, <2>4 DEF Range
  <2>6. same = used
    BY <2>5 DEF used
  <2> QED
    BY <2>2, <2>6
<1>2. CASE Chosen(r.shared, u, day).kind # "used"
  <2>1. /\ Ambiguous(v) <=> Ambiguous(u)
        /\ (\E i \in DOMAIN v : v[i].order.type # "str") <=> (\E i \in DOMAIN u : u[i].order.type # "str")
    BY KeysDecide, Zenon DEF Dated
  <2>2. Len(v) = Len(u)
    <3>1. DOMAIN u = 1 .. Len(u) /\ Len(u) \in Nat /\ DOMAIN v = 1 .. Len(v) /\ Len(v) \in Nat
      BY ItemsHaveKeys
    <3> QED
      BY <3>1 DEF SameKeys
  <2>3. r.shared.kind = "count" => Chosen(r.shared, v, day) = Chosen(r.shared, u, day)
    BY <1>2, <2>1, <2>2 DEF Chosen, CountChosen, Used
  <2>4. r.shared.kind # "count" => Chosen(r.shared, v, day) = Chosen(r.shared, u, day)
    BY <1>2, <2>1 DEF Chosen, DaysChosen, Used
  <2> QED
    BY <2>3, <2>4
<1> QED
  BY <1>1, <1>2

-----------------------------------------------------------------------------
(* One more unit *)

(* The units added after all that a count horizon uses change none of them. *)
LEMMA LaterCountsFor ==
  ASSUME NEW u \in Seq(Items), NEW x \in Items, NEW size \in Nat, size <= Len(u),
         ~Ambiguous(u), ~Ambiguous(Append(u, x)),
         \A k \in 1 .. size : ~Earlier(x, InOrder(u)[k])
  PROVE  SubSeq(InOrder(Append(u, x)), 1, size) = SubSeq(InOrder(u), 1, size)
<1> DEFINE v == Append(u, x)
           D == DOMAIN u
           E == DOMAIN v
           b == ByOrder(u, D)
           c == ByOrder(v, E)
           i(k) == At(D, b, k)
           j(k) == At(E, c, k)
<1>1. PICK n \in Nat : n = Len(u) /\ D = 1 .. n
  BY ItemsHaveKeys
<1>2. v \in Seq(Items) /\ Len(v) = n + 1 /\ E = 1 .. n + 1 /\ v[n + 1] = x /\ \A m \in D : v[m] = u[m]
  BY <1>1
<1>3. /\ InOrder(u) \in Seq(Items) /\ Len(InOrder(u)) = n
      /\ \A k \in 1 .. n : i(k) \in D /\ InOrder(u)[k] = u[i(k)]
  BY <1>1, InOrderAt
<1> HIDE DEF v
<1>4. /\ InOrder(v) \in Seq(Items) /\ Len(InOrder(v)) = n + 1
      /\ \A k \in 1 .. n + 1 : j(k) \in E /\ InOrder(v)[k] = v[j(k)]
  BY <1>2, InOrderAt DEF v
<1>5. Linear(D, b) /\ Linear(E, c)
  BY <1>2, OrderIsLinear DEF v
<1>6. D \in SUBSET Nat /\ IsFiniteSet(D) /\ Cardinality(D) = n
  <2>1. IsFiniteSet(1 .. n) /\ Cardinality(1 .. n) = n /\ 1 .. n \in SUBSET Nat
    BY FS_Interval
  <2> QED
    BY <1>1, <2>1, Zenon
<1>7. E \in SUBSET Nat /\ IsFiniteSet(E) /\ Cardinality(E) = n + 1
  <2>1. IsFiniteSet(1 .. n + 1) /\ Cardinality(1 .. n + 1) = n + 1 /\ 1 .. n + 1 \in SUBSET Nat
    BY FS_Interval
  <2> QED
    BY <1>2, <2>1, Zenon
<1>8. \A k, m \in D : <<k, m>> \in c <=> <<k, m>> \in b
  BY <1>1, <1>2 DEF ByOrder, Earlier
<1>9. ASSUME NEW m \in D, ~Earlier(x, u[m]) PROVE Ahead(E, c, m) = Ahead(D, b, m)
  <2>1. <<n + 1, m>> \notin c
    BY <1>1, <1>2, <1>9 DEF ByOrder
  <2>2. \A k : k \in E <=> k \in D \/ k = n + 1
    BY <1>1, <1>2
  <2>3. m \in Nat /\ ~(n + 1 < m)
    BY <1>1
  <2> HIDE DEF c, b, D, E
  <2>4. \A k : k \in Ahead(E, c, m) <=> k \in Ahead(D, b, m)
    BY <1>8, <2>1, <2>2, <2>3 DEF Ahead
  <2> QED
    BY <2>4
<1>10. \A k \in 1 .. n : i(k) \in D /\ Cardinality(Ahead(D, b, i(k))) = k - 1
  BY <1>5, <1>6, OneAtEach
<1>11. /\ \A k \in 1 .. n + 1 : j(k) \in E /\ Cardinality(Ahead(E, c, j(k))) = k - 1
       /\ \A k, m \in E : Cardinality(Ahead(E, c, k)) = Cardinality(Ahead(E, c, m)) => k = m
  BY <1>5, <1>7, OneAtEach
<1> HIDE DEF i, j, b, c
<1>12. ASSUME NEW k \in 1 .. size PROVE InOrder(v)[k] = InOrder(u)[k]
  <2>1. k \in 1 .. n /\ k \in 1 .. n + 1
    BY <1>1
  <2>2. i(k) \in D /\ InOrder(u)[k] = u[i(k)] /\ ~Earlier(x, u[i(k)])
    BY <1>3, <2>1
  <2>3. Cardinality(Ahead(E, c, i(k))) = k - 1
    BY <1>9, <1>10, <2>1, <2>2
  <2>4. i(k) \in E /\ v[i(k)] = u[i(k)]
    BY <1>1, <1>2, <2>2
  <2>5. j(k) = i(k)
    BY <1>11, <2>1, <2>3, <2>4
  <2> QED
    BY <1>4, <2>1, <2>2, <2>4, <2>5
<1>13. /\ SubSeq(InOrder(u), 1, size) = [k \in 1 .. size |-> InOrder(u)[k]]
       /\ SubSeq(InOrder(v), 1, size) = [k \in 1 .. size |-> InOrder(v)[k]]
  BY <1>1, <1>3, <1>4, FirstOf
<1> QED
  BY <1>12, <1>13 DEF v

(* A unit dated outside the window changes nothing a days horizon chooses.  *)
LEMMA OutsideCountsForNothing ==
  ASSUME NEW u \in Seq(Items), NEW x \in Items, NEW horizon, ~UnitsRefused(u),
         x.order.rank \notin horizon.start .. WindowEnd(horizon) - 1
  PROVE  LET v == Append(u, x)
             P == InWindow(horizon, u)
         IN  /\ InWindow(horizon, v) = P
             /\ Sorted(v, P, ByDayThenId(v, P)) = Sorted(u, P, ByDayThenId(u, P))
<1> DEFINE v == Append(u, x)
           D == DOMAIN u
           P == InWindow(horizon, u)
           b == ByDayThenId(u, P)
           at(k) == At(P, b, k)
<1>1. PICK n \in Nat : n = Len(u) /\ D = 1 .. n
  BY ItemsHaveKeys
<1>2. DOMAIN v = 1 .. n + 1 /\ v[n + 1] = x /\ \A m \in D : v[m] = u[m]
  BY <1>1
<1> HIDE DEF v
<1>3. InWindow(horizon, v) = P
  BY <1>1, <1>2 DEF InWindow
<1>4. P \in SUBSET D
  BY DEF InWindow
<1>5. \A k \in 1 .. Cardinality(P) : at(k) \in D
  BY WindowAt
<1> HIDE DEF P
<1>6. ByDayThenId(v, P) = b
  <2>1. \A m \in P : v[m] = u[m]
    BY <1>2, <1>4
  <2> QED
    BY <2>1 DEF ByDayThenId, Earlier
<1> HIDE DEF b, D
<1>7. /\ Sorted(u, P, b) = [k \in 1 .. Cardinality(P) |-> u[at(k)]]
      /\ Sorted(v, P, b) = [k \in 1 .. Cardinality(P) |-> v[at(k)]]
  BY SortedAt
<1> HIDE DEF at
<1>8. \A k \in 1 .. Cardinality(P) : v[at(k)] = u[at(k)]
  BY <1>2, <1>5
<1>9. Sorted(v, P, b) = Sorted(u, P, b)
  BY <1>7, <1>8
<1> QED
  BY <1>3, <1>6, <1>9 DEF v, P, b

(* No test says anything of no units. *)
LEMMA NothingToTest ==
  ASSUME NEW test, NEW used, DOMAIN used = {}, NEW h
  PROVE  Test(test, Seen(used, h)) = Empty
<1>1. Seen(used, h) = <<>>
  BY DEF Seen
<1>2. ASSUME NEW outcome PROVE Number(outcome, <<>>) = 0
  <2>1. {i \in DOMAIN <<>> : <<>>[i] = outcome} = {}
    OBVIOUS
  <2> QED
    BY <2>1, FS_EmptySet, Zenon DEF Number
<1>3. Len(<<>>) = 0
  OBVIOUS
<1>4. SignTest(0, 0, 0, test.alternative) = Empty
  BY DEF SignTest
<1>5. BinomialTest(0, 0, test.null, test.alternative) = Empty
  BY DEF BinomialTest
<1> QED
  BY <1>1, <1>2, <1>3, <1>4, <1>5, Zenon DEF Test

-----------------------------------------------------------------------------
(* Better outcomes *)

(* One outcome that changes moves the numbers by one.                       *)
LEMMA NumberMoves ==
  ASSUME NEW S, NEW T, NEW n \in Nat, DOMAIN S = 1 .. n, DOMAIN T = 1 .. n, NEW k \in 1 .. n,
         \A j \in 1 .. n : j # k => T[j] = S[j], NEW o
  PROVE  /\ Number(o, S) \in 0 .. n /\ Number(o, T) \in 0 .. n
         /\ Number(o, T) + (IF S[k] = o THEN 1 ELSE 0) = Number(o, S) + (IF T[k] = o THEN 1 ELSE 0)
<1> DEFINE R == {j \in 1 .. n : j # k /\ S[j] = o}
<1>1. IsFiniteSet(R) /\ k \notin R
  <2>1. IsFiniteSet(1 .. n)
    BY FS_Interval
  <2> QED
    BY <2>1, FS_Subset
<1>2. Cardinality(R) \in Nat /\ Cardinality(R \cup {k}) = Cardinality(R) + 1
  BY <1>1, FS_CardinalityType, FS_AddElement
<1>3. {j \in DOMAIN S : S[j] = o} = IF S[k] = o THEN R \cup {k} ELSE R
  OBVIOUS
<1>4. {j \in DOMAIN T : T[j] = o} = IF T[k] = o THEN R \cup {k} ELSE R
  OBVIOUS
<1>5. Cardinality(R \cup {k}) <= n /\ Cardinality(R) <= n
  <2>1. IsFiniteSet(1 .. n) /\ Cardinality(1 .. n) = n
    BY FS_Interval
  <2>2. R \cup {k} \subseteq 1 .. n /\ R \subseteq 1 .. n
    OBVIOUS
  <2> QED
    BY <2>1, <2>2, FS_Subset
<1> HIDE DEF R
<1>6. Number(o, S) = IF S[k] = o THEN Cardinality(R \cup {k}) ELSE Cardinality(R)
  BY <1>3 DEF Number
<1>7. Number(o, T) = IF T[k] = o THEN Cardinality(R \cup {k}) ELSE Cardinality(R)
  BY <1>4 DEF Number
<1> QED
  BY <1>2, <1>5, <1>6, <1>7

(* Of wins and losses, at 1/2.                                              *)
LEMMA SignTestIs ==
  ASSUME NEW w \in Nat, NEW l \in Nat, NEW t
  PROVE  /\ SignTest(w, l, t, "greater") = Empty <=> w + l = 0
         /\ w + l # 0 => /\ SignTest(w, l, t, "greater").p = PExact(w, w + l, Half, "greater")
                         /\ SignTest(w, l, t, "greater").n = w + l
<1>1. CASE w + l = 0
  BY <1>1 DEF SignTest
<1>2. CASE w + l # 0
  <2>1. SignTest(w, l, t, "greater") = Result(w, w + l, t, 0, "greater")
    BY <1>2 DEF SignTest
  <2> DEFINE pe == PExact(w, w + l, Half, "greater")
  <2>2. Result(w, w + l, t, 0, "greater") = [p |-> pe, successes |-> w, n |-> w + l, ties |-> t, missing |-> 0]
    BY DEF Result
  <2> HIDE DEF pe
  <2>3. /\ [p |-> pe, successes |-> w, n |-> w + l, ties |-> t, missing |-> 0].p = pe
        /\ [p |-> pe, successes |-> w, n |-> w + l, ties |-> t, missing |-> 0].n = w + l
        /\ DOMAIN [p |-> pe, successes |-> w, n |-> w + l, ties |-> t, missing |-> 0]
             = {"p", "successes", "n", "ties", "missing"}
        /\ DOMAIN Empty = {"error"}
    BY DEF Empty
  <2>4. {"p", "successes", "n", "ties", "missing"} # {"error"}
    OBVIOUS
  <2> QED
    BY <1>2, <2>1, <2>2, <2>3, <2>4 DEF pe
<1> QED
  BY <1>1, <1>2

LEMMA BinomialTestIs ==
  ASSUME NEW n \in Nat, NEW k \in 0 .. n, NEW null
  PROVE  /\ BinomialTest(k, n, null, "greater") = Empty <=> n = 0
         /\ n # 0 => /\ BinomialTest(k, n, null, "greater").p = PExact(k, n, null, "greater")
                     /\ BinomialTest(k, n, null, "greater").n = n
<1>1. CASE n = 0
  BY <1>1 DEF BinomialTest
<1>2. CASE n # 0
  <2> DEFINE pe == PExact(k, n, null, "greater")
  <2>1. BinomialTest(k, n, null, "greater") = [p |-> pe, successes |-> k, n |-> n, ties |-> 0, missing |-> 0]
    <3>1. ~(n = 0) /\ ~(n > 0 /\ (k > n \/ ("greater" = "two-sided" /\ null # Half)))
      BY <1>2
    <3> QED
      BY <3>1 DEF BinomialTest
  <2> HIDE DEF pe
  <2>3. /\ [p |-> pe, successes |-> k, n |-> n, ties |-> 0, missing |-> 0].p = pe
        /\ [p |-> pe, successes |-> k, n |-> n, ties |-> 0, missing |-> 0].n = n
        /\ DOMAIN [p |-> pe, successes |-> k, n |-> n, ties |-> 0, missing |-> 0]
             = {"p", "successes", "n", "ties", "missing"}
        /\ DOMAIN Empty = {"error"}
    BY DEF Empty
  <2>4. {"p", "successes", "n", "ties", "missing"} # {"error"}
    OBVIOUS
  <2> QED
    BY <1>2, <2>1, <2>3, <2>4 DEF pe
<1> QED
  BY <1>1, <1>2

(* The p-value of a count and what it is of a better one, in parts of 1.    *)
LEMMA PValueFalls ==
  ASSUME NEW p \in Fractions, NEW n \in Nat, NEW k \in 0 .. n, NEW m \in Nat, NEW j \in 0 .. m,
         \/ j = k + 1 /\ m = n
         \/ j = k + 1 /\ m = n + 1
         \/ j = k /\ n = m + 1
  PROVE  (PExact(j, m, p, "greater") * One) \div Raise(p.den, m)
           <= (PExact(k, n, p, "greater") * One) \div Raise(p.den, n)
<1> DEFINE a == PExact(j, m, p, "greater")
           b == PExact(k, n, p, "greater")
           c == Raise(p.den, m)
           d == Raise(p.den, n)
<1>1. a \in Nat /\ b \in Nat
  BY BetterTails
<1>2. p.den \in Nat \ {0}
  BY FractionParts
<1>3. /\ c \in Nat \ {0} /\ d \in Nat \ {0}
      /\ Raise(p.den, n + 1) = d * p.den /\ Raise(p.den, m + 1) = c * p.den
  <2>1. c \in Nat \ {0} /\ d \in Nat \ {0}
    BY WholesType
  <2>2. p.den \in Int
    BY <1>2
  <2>3. \A e \in Nat : Raise(p.den, e + 1) = Raise(p.den, e) * p.den
    BY <2>2, RaiseSteps
  <2> QED
    BY <2>1, <2>3
<1>4. a * d <= b * c
  <2>1. CASE j = k + 1 /\ m = n
    <3>1. a <= b /\ c = d
      <4>1. k < n
        BY <2>1
      <4> QED
        BY <2>1, <4>1, BetterTails
    <3> HIDE DEF a, b, c, d
    <3>2. d * a <= d * b
      BY <1>1, <1>3, <3>1, TimesMore
    <3> QED
      BY <1>1, <1>3, <3>1, <3>2
  <2>2. CASE j = k + 1 /\ m = n + 1
    <3>1. a <= p.den * b /\ c = d * p.den
      BY <1>3, <2>2, BetterTails
    <3> HIDE DEF a, b, c, d
    <3>2. p.den * b \in Int
      BY <1>1, <1>2
    <3>3. d * a <= d * (p.den * b)
      BY <1>1, <1>3, <3>1, <3>2, TimesMore
    <3>4. d * a = a * d /\ d * (p.den * b) = b * (d * p.den)
      BY <1>1, <1>2, <1>3
    <3> QED
      BY <3>1, <3>3, <3>4
  <2>3. CASE j = k /\ n = m + 1
    <3>1. p.den * a <= b /\ d = c * p.den
      <4>1. k < n /\ n - 1 = m
        BY <2>3
      <4> QED
        BY <1>3, <2>3, <4>1, BetterTails
    <3> HIDE DEF a, b, c, d
    <3>2. p.den * a \in Int
      BY <1>1, <1>2
    <3>3. c * (p.den * a) <= c * b
      BY <1>1, <1>3, <3>1, <3>2, TimesMore
    <3>4. c * b = b * c /\ c * (p.den * a) = a * (c * p.den)
      BY <1>1, <1>2, <1>3
    <3> QED
      BY <3>1, <3>3, <3>4
  <2> QED
    BY <2>1, <2>2, <2>3
<1>5. One \in Nat
  BY OneAssumption
<1> HIDE DEF a, b, c, d
<1>6. (a * One) \div c <= (b * One) \div d
  BY <1>1, <1>3, <1>4, <1>5, RatioFalls
<1> QED
  BY <1>6 DEF a, b, c, d

WellMade(test) ==
  /\ test.name \in DOMAIN OUTCOMES /\ test.null \in Fractions
  /\ test.name = "sign_test" => test.null = Half
  /\ test.alternative = "greater"

(* The p-value of outcomes, from the numbers of trials and of successes.    *)
LEMMA ExactPIs ==
  ASSUME NEW test, WellMade(test), NEW S \in Seq(OUTCOMES[test.name]), Test(test, S) # Empty
  PROVE  LET k == IF test.name = "sign_test" THEN Number("win", S) ELSE Number("success", S)
             n == IF test.name = "sign_test" THEN Number("win", S) + Number("loss", S) ELSE Len(S)
         IN  /\ n \in Nat /\ k \in 0 .. n
             /\ ExactP(test, S) = (PExact(k, n, test.null, "greater") * One) \div Raise(test.null.den, n)
             /\ ExactP(test, S) \in Nat
<1> DEFINE k == IF test.name = "sign_test" THEN Number("win", S) ELSE Number("success", S)
           n == IF test.name = "sign_test" THEN Number("win", S) + Number("loss", S) ELSE Len(S)
<1>1. DOMAIN S = 1 .. Len(S) /\ Len(S) \in Nat
  OBVIOUS
<1>2. ASSUME NEW o PROVE Number(o, S) \in 0 .. Len(S)
  <2>1. PICK z \in Nat : z = Len(S) /\ IsFiniteSet(1 .. z) /\ Cardinality(1 .. z) = z
    <3>1. IsFiniteSet(1 .. Len(S))
      BY <1>1, FS_Interval
    <3>2. \A z \in Nat : IsFiniteSet(1 .. z) /\ Cardinality(1 .. z) = z
      BY FS_Interval
    <3> QED
      BY <1>1, <3>2
  <2>2. {i \in DOMAIN S : S[i] = o} \subseteq 1 .. Len(S)
    BY <1>1
  <2> QED
    BY <1>1, <2>1, <2>2, FS_Subset, FS_CardinalityType DEF Number
<1>3. n \in Nat /\ k \in 0 .. n
  BY <1>1, <1>2
<1>4. Test(test, S).p = PExact(k, n, test.null, "greater") /\ Test(test, S).n = n
  <2>1. CASE test.name = "sign_test"
    <3>1. Test(test, S) = SignTest(Number("win", S), Number("loss", S), Number("tie", S), "greater")
      BY <2>1 DEF Test, WellMade
    <3>2. Number("win", S) \in Nat /\ Number("loss", S) \in Nat
      BY <1>2
    <3> QED
      BY <2>1, <3>1, <3>2, SignTestIs DEF WellMade
  <2>2. CASE test.name # "sign_test"
    <3>1. Test(test, S) = BinomialTest(Number("success", S), Len(S), test.null, "greater")
      BY <2>2 DEF Test, WellMade
    <3> QED
      BY <1>1, <1>2, <2>2, <3>1, BinomialTestIs
  <2> QED
    BY <2>1, <2>2
<1> HIDE DEF k, n
<1>5. ExactP(test, S) = (PExact(k, n, test.null, "greater") * One) \div Raise(test.null.den, n)
  BY <1>4 DEF ExactP
<1>6. ExactP(test, S) \in Nat
  <2>1. PExact(k, n, test.null, "greater") \in Nat
    BY <1>3, BetterTails DEF WellMade
  <2>2. Raise(test.null.den, n) \in Nat \ {0}
    BY <1>3, WholesType DEF WellMade
  <2>3. \A x, y \in Nat : x * y \in Nat
    OBVIOUS
  <2>4. \A x \in Nat, y \in Nat \ {0} : x \div y \in Nat
    OBVIOUS
  <2> QED
    BY <1>5, <2>1, <2>2, <2>3, <2>4, OneAssumption
<1> QED
  BY <1>3, <1>5, <1>6 DEF k, n

(* One outcome that is better makes the p-value no larger.                  *)
LEMMA TestImproves ==
  ASSUME NEW test, WellMade(test), NEW S \in Seq(OUTCOMES[test.name]), NEW T \in Seq(OUTCOMES[test.name]),
         Len(T) = Len(S), NEW i \in 1 .. Len(S), \A j \in 1 .. Len(S) : j # i => T[j] = S[j],
         Ranked[T[i]] > Ranked[S[i]], Test(test, S) # Empty, Test(test, T) # Empty
  PROVE  ExactP(test, T) <= ExactP(test, S)
<1>1. DOMAIN S = 1 .. Len(S) /\ DOMAIN T = 1 .. Len(S) /\ Len(S) \in Nat
  OBVIOUS
<1>2. S[i] \in OUTCOMES[test.name] /\ T[i] \in OUTCOMES[test.name]
  OBVIOUS
<1>3. ASSUME NEW o
      PROVE  /\ Number(o, S) \in Nat /\ Number(o, T) \in Nat
             /\ Number(o, T) + (IF S[i] = o THEN 1 ELSE 0) = Number(o, S) + (IF T[i] = o THEN 1 ELSE 0)
  <2>1. PICK z \in Nat : z = Len(S)
    BY <1>1
  <2>2. /\ Number(o, S) \in 0 .. z /\ Number(o, T) \in 0 .. z
        /\ Number(o, T) + (IF S[i] = o THEN 1 ELSE 0) = Number(o, S) + (IF T[i] = o THEN 1 ELSE 0)
    BY <1>1, <2>1, NumberMoves
  <2> QED
    BY <2>2
<1>4. CASE test.name = "sign_test"
  <2> DEFINE k == Number("win", S)
             n == Number("win", S) + Number("loss", S)
             j == Number("win", T)
             m == Number("win", T) + Number("loss", T)
  <2>1. /\ n \in Nat /\ k \in 0 .. n
        /\ ExactP(test, S) = (PExact(k, n, test.null, "greater") * One) \div Raise(test.null.den, n)
    BY <1>4, ExactPIs
  <2>2. /\ m \in Nat /\ j \in 0 .. m
        /\ ExactP(test, T) = (PExact(j, m, test.null, "greater") * One) \div Raise(test.null.den, m)
    BY <1>4, ExactPIs
  <2>3. \/ S[i] = "loss" /\ T[i] = "tie"
        \/ S[i] = "loss" /\ T[i] = "win"
        \/ S[i] = "tie" /\ T[i] = "win"
    BY <1>2, <1>4 DEF OUTCOMES, Ranked
  <2>4. \/ j = k + 1 /\ m = n
        \/ j = k + 1 /\ m = n + 1
        \/ j = k /\ n = m + 1
    <3>1. /\ Number("win", S) \in Nat /\ Number("win", T) \in Nat
          /\ Number("win", T) + (IF S[i] = "win" THEN 1 ELSE 0) = Number("win", S) + (IF T[i] = "win" THEN 1 ELSE 0)
      BY <1>3
    <3>2. /\ Number("loss", S) \in Nat /\ Number("loss", T) \in Nat
          /\ Number("loss", T) + (IF S[i] = "loss" THEN 1 ELSE 0) = Number("loss", S) + (IF T[i] = "loss" THEN 1 ELSE 0)
      BY <1>3
    <3> QED
      BY <2>3, <3>1, <3>2
  <2> HIDE DEF k, n, j, m
  <2>5. (PExact(j, m, test.null, "greater") * One) \div Raise(test.null.den, m)
          <= (PExact(k, n, test.null, "greater") * One) \div Raise(test.null.den, n)
    BY <2>1, <2>2, <2>4, PValueFalls DEF WellMade
  <2> QED
    BY <2>1, <2>2, <2>5
<1>5. CASE test.name # "sign_test"
  <2> DEFINE k == Number("success", S)
             n == Len(S)
             j == Number("success", T)
  <2>1. /\ n \in Nat /\ k \in 0 .. n
        /\ ExactP(test, S) = (PExact(k, n, test.null, "greater") * One) \div Raise(test.null.den, n)
    BY <1>5, ExactPIs
  <2>2. /\ j \in 0 .. n
        /\ ExactP(test, T) = (PExact(j, n, test.null, "greater") * One) \div Raise(test.null.den, n)
    BY <1>5, ExactPIs
  <2>3. S[i] = "failure" /\ T[i] = "success"
    BY <1>2, <1>5 DEF OUTCOMES, Ranked, WellMade
  <2>4. j = k + 1
    BY <1>3, <2>3
  <2> HIDE DEF k, n, j
  <2>5. (PExact(j, n, test.null, "greater") * One) \div Raise(test.null.den, n)
          <= (PExact(k, n, test.null, "greater") * One) \div Raise(test.null.den, n)
    BY <2>1, <2>2, <2>4, PValueFalls DEF WellMade
  <2> QED
    BY <2>1, <2>2, <2>5
<1> QED
  BY <1>4, <1>5

(* SetToSeq lists each member of a finite set.                              *)
LEMMA MembersListed ==
  ASSUME NEW S, IsFiniteSet(S)
  PROVE  /\ SetToSeq(S) \in Seq(S) /\ DOMAIN SetToSeq(S) = 1 .. Len(SetToSeq(S))
         /\ \A x \in S : \E i \in DOMAIN SetToSeq(S) : SetToSeq(S)[i] = x
<1> DEFINE n == Cardinality(S)
           s == SetToSeq(S)
<1>1. n \in Nat /\ ExistsBijection(1 .. n, S)
  BY FS_CardinalityType
<1>2. PICK f : f \in Bijection(1 .. n, S)
  BY <1>1 DEF ExistsBijection
<1>3. f \in [1 .. n -> S] /\ IsInjective(f)
  BY <1>2 DEF Bijection, Injection, IsInjective
<1>4. s \in [1 .. n -> S] /\ IsInjective(s)
  BY <1>3 DEF SetToSeq
<1> HIDE DEF s
<1>5. s \in Injection(1 .. n, S)
  BY <1>4 DEF Injection, IsInjective
<1>6. Cardinality(1 .. n) = n
  <2>1. \A z \in Nat : Cardinality(1 .. z) = z
    BY FS_Interval
  <2> QED
    BY <1>1, <2>1
<1>7. s \in Surjection(1 .. n, S)
  BY <1>5, <1>6, FS_Injection
<1>8. \A x \in S : \E i \in 1 .. n : s[i] = x
  BY <1>7 DEF Surjection
<1>9. s \in Seq(S) /\ Len(s) = n
  BY <1>1, <1>4
<1> QED
  BY <1>4, <1>8, <1>9 DEF s

(* A family whose p-values are no larger keeps every result it had.         *)
LEMMA FamilyKeeps ==
  ASSUME NEW record, NEW h \in DOMAIN record.hypotheses, NEW S, NEW T,
         IsFiniteSet(DOMAIN record.hypotheses), record.hypotheses[h].alpha \in 0 .. One - 1,
         \A g \in DOMAIN record.hypotheses :
           /\ PValue(record.hypotheses[g].test, S[g]) \in Nat
           /\ PValue(record.hypotheses[g].test, T[g]) \in Nat
           /\ PValue(record.hypotheses[g].test, T[g]) <= PValue(record.hypotheses[g].test, S[g]),
         LabelOf(record, S, h) = "met"
  PROVE  LabelOf(record, T, h) = "met"
<1> DEFINE own == record.hypotheses[h]
           kin == Members(record, own.family)
           listed == SetToSeq(kin)
           c == record.families[own.family]
           V(X, g) == PValue(record.hypotheses[g].test, X[g])
           P(X) == [i \in DOMAIN listed |-> V(X, listed[i])]
           place == CHOOSE i \in DOMAIN listed : listed[i] = h
<1>1. h \in kin /\ kin \subseteq DOMAIN record.hypotheses /\ IsFiniteSet(kin)
  <2>1. h \in kin /\ kin \subseteq DOMAIN record.hypotheses
    BY DEF Members
  <2> QED
    BY <2>1, FS_Subset
<1>2. /\ listed \in Seq(kin) /\ DOMAIN listed = 1 .. Len(listed)
      /\ \A x \in kin : \E i \in DOMAIN listed : listed[i] = x
  BY <1>1, MembersListed
<1>3. place \in DOMAIN listed
  BY <1>1, <1>2
<1>4. \A X : AdjustedIn(record, X, own.family)[h] = Adjust(c, P(X))[place]
  BY <1>1 DEF AdjustedIn
<1>5. \A X : LabelOf(record, X, h) = "met" <=> Adjust(c, P(X))[place] <= own.alpha
  BY <1>4 DEF LabelOf, Decide
<1>0. \A g \in DOMAIN record.hypotheses : V(S, g) \in Nat /\ V(T, g) \in Nat /\ V(T, g) <= V(S, g)
  OBVIOUS
<1> HIDE DEF place, listed, kin, c, V
<1>6. Len(listed) \in Nat /\ \A i \in 1 .. Len(listed) : listed[i] \in DOMAIN record.hypotheses
  BY <1>1, <1>2
<1>7. P(S) \in Seq(Nat) /\ P(T) \in Seq(Nat) /\ Len(P(S)) = Len(listed) /\ Len(P(T)) = Len(listed)
  <2>1. PICK n \in Nat : n = Len(listed)
    BY <1>6
  <2>2. P(S) \in [1 .. n -> Nat] /\ P(T) \in [1 .. n -> Nat]
    BY <1>0, <1>2, <1>6, <2>1
  <2>3. \A f \in [1 .. n -> Nat] : f \in Seq(Nat) /\ Len(f) = n
    OBVIOUS
  <2> HIDE DEF P
  <2> QED
    BY <2>1, <2>2, <2>3
<1>8. Lower(P(T), P(S))
  <2>1. \A i \in 1 .. Len(listed) : P(T)[i] <= P(S)[i]
    BY <1>0, <1>2, <1>6
  <2> HIDE DEF P
  <2> QED
    BY <1>7, <2>1 DEF Lower
<1>9. place \in 1 .. Len(P(S))
  BY <1>2, <1>3, <1>7
<1>10. One \in Nat
  BY OneAssumption
<1> HIDE DEF P
<1>11. Adjust(c, P(S))[place] <= own.alpha
  BY <1>5
<1>12. Adjust(c, P(T))[place] <= own.alpha
  <2> DEFINE alpha == own.alpha
             ps == P(S)
             qs == P(T)
  <2>1. /\ alpha \in 0 .. One - 1 /\ ps \in Seq(Nat) /\ qs \in Seq(Nat) /\ Lower(qs, ps)
        /\ place \in 1 .. Len(ps) /\ Adjust(c, ps)[place] <= alpha
    BY <1>7, <1>8, <1>9, <1>11
  <2> HIDE DEF alpha, ps, qs, own
  <2>2. Adjust(c, qs)[place] <= alpha
    BY <1>10, <2>1, LowerStillPasses
  <2> QED
    BY <2>2 DEF alpha, qs
<1> QED
  BY <1>5, <1>12

(* A test gives the exact p-value.                                          *)
PValueIsExact == \A test, seen : PValue(test, seen) = ExactP(test, seen)

AllMatch(r, units) == \A k \in DOMAIN units : Matches(r, units[k])

(* Of the units a horizon chose, the outcomes of a hypothesis are a list of *)
(* outcomes its test knows.                                                 *)
LEMMA SeenType ==
  ASSUME NEW r, NEW A, NEW n \in Nat, DOMAIN A = 1 .. n, AllMatch(r, A), NEW g \in DOMAIN r.hypotheses
  PROVE  Seen(A, g) \in Seq(OUTCOMES[r.hypotheses[g].test.name]) /\ Len(Seen(A, g)) = n
<1>1. Seen(A, g) = [k \in 1 .. n |-> A[k].outcomes[g]]
  BY DEF Seen
<1> DEFINE O == OUTCOMES[r.hypotheses[g].test.name]
<1>2. \A k \in 1 .. n : A[k].outcomes[g] \in O
  BY DEF AllMatch, Matches
<1> HIDE DEF O
<1>3. Seen(A, g) \in [1 .. n -> O]
  BY <1>1, <1>2
<1>4. Seen(A, g) \in Seq(O) /\ Len(Seen(A, g)) = n
  BY <1>3
<1> QED
  BY <1>1, <1>4 DEF O

(* What evaluation has made of the units it used.                           *)
LEMMA UnitsUsed ==
  ASSUME NEW r, NEW u, NEW day, Evaluate(r, u, day).kind = "evaluated",
         NEW used, used = Chosen(r.shared, u, day).used
  PROVE  /\ Evaluate(r, u, day).labels = Labels(r, used) /\ Evaluate(r, u, day).used = used
         /\ \A k \in DOMAIN used : Matches(r, used[k])
         /\ \A f \in DOMAIN r.hypotheses : Test(r.hypotheses[f].test, Seen(used, f)) # Empty
<1> DEFINE reply == Evaluate(r, u, day)
<1>1. reply.labels = Labels(r, used) /\ reply.used = used
  BY Answers
<1>2. \A k \in DOMAIN used : Matches(r, used[k])
  BY Answers
<1>3. \A f \in DOMAIN r.hypotheses : Test(r.hypotheses[f].test, Seen(used, f)) # Empty
  BY Answers
<1> QED
  BY <1>1, <1>2, <1>3

(* v records what u does, but for one unit that does better on hypothesis h. *)
DoesBetter(r, u, v, i, h) ==
  /\ SameKeys(u, v) /\ i \in DOMAIN u /\ h \in DOMAIN r.hypotheses
  /\ \A j \in DOMAIN u : j # i => v[j] = u[j]
  /\ \A g \in DOMAIN r.hypotheses : g # h => v[i].outcomes[g] = u[i].outcomes[g]
  /\ Ranked[v[i].outcomes[h]] > Ranked[u[i].outcomes[h]]

AsksForMore(r) == \A g \in DOMAIN r.hypotheses : r.hypotheses[g].test.alternative = "greater"

(* Where one unit does better on one hypothesis, no p-value is larger, and  *)
(* what was met stays met.                                                  *)
LEMMA BetterKeeps ==
  ASSUME PValueIsExact,
         NEW r \in Rules, AsksForMore(r), NEW u \in Seq(Items), NEW v \in Seq(Items), NEW day,
         NEW i, NEW h, DoesBetter(r, u, v, i, h),
         Evaluate(r, u, day).kind = "evaluated", Evaluate(r, v, day).kind = "evaluated",
         NEW g \in DOMAIN r.hypotheses, Evaluate(r, u, day).labels[g] = "met"
  PROVE  Evaluate(r, v, day).labels[g] = "met"
<1>1. ~UnitsRefused(u) /\ Chosen(r.shared, u, day).kind = "used"
  BY Answers
<1>2. PICK n, at : n \in Nat /\ ChosenAt(r.shared, u, day, n, at) /\ ChosenAt(r.shared, v, day, n, at)
  <2>1. SameKeys(u, v)
    BY DEF DoesBetter
  <2> QED
    BY <1>1, <2>1, PlacesChosen, Zenon
<1>3. /\ n \in Nat /\ at \in [1 .. n -> DOMAIN u]
      /\ \A k, l \in 1 .. n : at[k] = at[l] => k = l
      /\ Chosen(r.shared, u, day) = Used([k \in 1 .. n |-> u[at[k]]])
      /\ Chosen(r.shared, v, day) = Used([k \in 1 .. n |-> v[at[k]]])
  BY <1>2 DEF ChosenAt
<1> DEFINE A == [k \in 1 .. n |-> u[at[k]]]
           B == [k \in 1 .. n |-> v[at[k]]]
           S == [f \in DOMAIN r.hypotheses |-> Seen(A, f)]
           T == [f \in DOMAIN r.hypotheses |-> Seen(B, f)]
           test(f) == r.hypotheses[f].test
<1>4. Chosen(r.shared, u, day).used = A /\ Chosen(r.shared, v, day).used = B
  BY <1>3 DEF Used
<1> HIDE DEF A, B, S, T, test
<1>5. /\ Evaluate(r, u, day).labels = Labels(r, A) /\ \A k \in DOMAIN A : Matches(r, A[k])
      /\ \A f \in DOMAIN r.hypotheses : Test(test(f), Seen(A, f)) # Empty
  <2>1. A = Chosen(r.shared, u, day).used
    BY <1>4
  <2>2. /\ Evaluate(r, u, day).labels = Labels(r, A) /\ \A k \in DOMAIN A : Matches(r, A[k])
        /\ \A f \in DOMAIN r.hypotheses : Test(r.hypotheses[f].test, Seen(A, f)) # Empty
    BY <2>1, UnitsUsed
  <2> QED
    BY <2>2 DEF test
<1>6. /\ Evaluate(r, v, day).labels = Labels(r, B) /\ \A k \in DOMAIN B : Matches(r, B[k])
      /\ \A f \in DOMAIN r.hypotheses : Test(test(f), Seen(B, f)) # Empty
  <2>1. B = Chosen(r.shared, v, day).used
    BY <1>4
  <2>2. /\ Evaluate(r, v, day).labels = Labels(r, B) /\ \A k \in DOMAIN B : Matches(r, B[k])
        /\ \A f \in DOMAIN r.hypotheses : Test(r.hypotheses[f].test, Seen(B, f)) # Empty
    BY <2>1, UnitsUsed
  <2> QED
    BY <2>2 DEF test
<1>7. Labels(r, A)[g] = LabelOf(r, S, g) /\ Labels(r, B)[g] = LabelOf(r, T, g)
  BY DEF Labels, S, T
<1>8. \A f \in DOMAIN r.hypotheses : S[f] = Seen(A, f) /\ T[f] = Seen(B, f)
  BY DEF S, T
<1>9. DOMAIN A = 1 .. n /\ DOMAIN B = 1 .. n /\ \A k \in 1 .. n : A[k] = u[at[k]] /\ B[k] = v[at[k]]
  BY DEF A, B
<1>10. \A f \in DOMAIN r.hypotheses : WellMade(test(f))
  BY TestsAssumption DEF WellMade, AsksForMore, test
<1>11. IsFiniteSet(DOMAIN r.hypotheses) /\ r.hypotheses[g].alpha \in 0 .. One - 1
  BY TestsAssumption
<1>12. ASSUME NEW f \in DOMAIN r.hypotheses
       PROVE  /\ ExactP(test(f), Seen(A, f)) \in Nat /\ ExactP(test(f), Seen(B, f)) \in Nat
              /\ ExactP(test(f), Seen(B, f)) <= ExactP(test(f), Seen(A, f))
  <2> DEFINE O == OUTCOMES[test(f).name]
             s == Seen(A, f)
             t == Seen(B, f)
  <2>1. s \in Seq(O) /\ Len(s) = n /\ \A k \in 1 .. n : s[k] = u[at[k]].outcomes[f]
    <3>1. n \in Nat /\ DOMAIN A = 1 .. n /\ AllMatch(r, A)
      BY <1>3, <1>5, <1>9 DEF AllMatch
    <3>2. Seen(A, f) \in Seq(OUTCOMES[r.hypotheses[f].test.name]) /\ Len(Seen(A, f)) = n
      BY <3>1, SeenType, Zenon
    <3>3. \A k \in 1 .. n : Seen(A, f)[k] = A[k].outcomes[f]
      BY <3>1 DEF Seen
    <3> QED
      BY <1>9, <3>2, <3>3 DEF test
  <2>2. t \in Seq(O) /\ Len(t) = n /\ \A k \in 1 .. n : t[k] = v[at[k]].outcomes[f]
    <3>1. n \in Nat /\ DOMAIN B = 1 .. n /\ AllMatch(r, B)
      BY <1>3, <1>6, <1>9 DEF AllMatch
    <3>2. Seen(B, f) \in Seq(OUTCOMES[r.hypotheses[f].test.name]) /\ Len(Seen(B, f)) = n
      BY <3>1, SeenType, Zenon
    <3>3. \A k \in 1 .. n : Seen(B, f)[k] = B[k].outcomes[f]
      BY <3>1 DEF Seen
    <3> QED
      BY <1>9, <3>2, <3>3 DEF test
  <2>3. Test(test(f), s) # Empty /\ Test(test(f), t) # Empty
    BY <1>5, <1>6
  <2> HIDE DEF s, t
  <2>4. ExactP(test(f), s) \in Nat /\ ExactP(test(f), t) \in Nat
    BY <1>10, <2>1, <2>2, <2>3, ExactPIs
  <2>5. CASE \E k \in 1 .. n : at[k] = i /\ f = h
    <3>1. PICK k \in 1 .. n : at[k] = i /\ f = h
      BY <2>5
    <3>2. \A l \in 1 .. n : l # k => t[l] = s[l]
      <4> TAKE l \in 1 .. n
      <4> HAVE l # k
      <4>1. at[l] # i /\ at[l] \in DOMAIN u
        BY <1>3, <3>1
      <4>2. v[at[l]] = u[at[l]]
        BY <4>1 DEF DoesBetter
      <4> QED
        BY <2>1, <2>2, <4>2
    <3>3. Ranked[t[k]] > Ranked[s[k]]
      BY <2>1, <2>2, <3>1 DEF DoesBetter
    <3>4. k \in 1 .. Len(s) /\ \A l \in 1 .. Len(s) : l # k => t[l] = s[l]
      BY <2>1, <3>2
    <3>5. ExactP(test(f), t) <= ExactP(test(f), s)
      BY <1>10, <2>1, <2>2, <2>3, <3>3, <3>4, TestImproves
    <3> QED
      BY <2>4, <3>5 DEF s, t
  <2>6. CASE ~(\E k \in 1 .. n : at[k] = i /\ f = h)
    <3>1. \A k \in 1 .. n : t[k] = s[k]
      <4> TAKE k \in 1 .. n
      <4>1. at[k] \in DOMAIN u /\ s[k] = u[at[k]].outcomes[f] /\ t[k] = v[at[k]].outcomes[f]
        BY <1>3, <2>1, <2>2
      <4>2. CASE at[k] = i
        BY <2>6, <4>1, <4>2 DEF DoesBetter
      <4>3. CASE at[k] # i
        BY <4>1, <4>3 DEF DoesBetter
      <4> QED
        BY <4>2, <4>3
    <3>2. t = s
      BY <2>1, <2>2, <3>1
    <3> QED
      BY <2>4, <3>2 DEF s, t
  <2> QED
    BY <2>5, <2>6
<1>13. \A f \in DOMAIN r.hypotheses :
         /\ PValue(r.hypotheses[f].test, S[f]) \in Nat
         /\ PValue(r.hypotheses[f].test, T[f]) \in Nat
         /\ PValue(r.hypotheses[f].test, T[f]) <= PValue(r.hypotheses[f].test, S[f])
  <2>1. \A f \in DOMAIN r.hypotheses :
          /\ PValue(test(f), S[f]) = ExactP(test(f), Seen(A, f))
          /\ PValue(test(f), T[f]) = ExactP(test(f), Seen(B, f))
    BY <1>8 DEF PValueIsExact
  <2> QED
    BY <1>12, <2>1 DEF test
<1>14. LabelOf(r, S, g) = "met"
  BY <1>5, <1>7
<1>15. LabelOf(r, T, g) = "met"
  BY <1>11, <1>13, <1>14, FamilyKeeps
<1> QED
  BY <1>6, <1>7, <1>15

-----------------------------------------------------------------------------
(* The theorems *)

LEMMA TypesKeep == Spec => []TypeOK
<1>1. Init => TypeOK
  BY DEF Init, TypeOK
<1>2. TypeOK /\ [Next]_vars => TypeOK'
  BY DEF TypeOK, Next, Arrive, Name, vars
<1> QED
  BY <1>1, <1>2, PTL DEF Spec

(* However the caller lists the units, evaluate uses the same ones, hashes  *)
(* them in the same order, and gives them the same labels, for every rule   *)
(* and every test (_evaluate.py:147-148, 155).                              *)
THEOREM ListingIsIrrelevantHolds == Spec => []ListingIsIrrelevant
<1>1. ASSUME TypeOK, NEW order \in Bijection(DOMAIN data, DOMAIN data)
      PROVE  Evaluate(rule, Permuted(data, order), asOf) = Answer
  <2>1. data \in Seq(Items) /\ rule \in Rules
    BY <1>1, UnitsAreItems DEF TypeOK
  <2>2. PICK units \in Seq(Items) : units = data
    BY <2>1
  <2>3. order \in Bijection(DOMAIN units, DOMAIN units)
    BY <2>2
  <2>4. UnitsRefused(Permuted(units, order)) <=> UnitsRefused(units)
    <3>1. /\ DOMAIN Permuted(units, order) = DOMAIN units
          /\ \A i \in DOMAIN units : order[i] \in DOMAIN units /\ Permuted(units, order)[i] = units[order[i]]
          /\ \A i, j \in DOMAIN units : order[i] = order[j] => i = j
          /\ \A j \in DOMAIN units : \E i \in DOMAIN units : order[i] = j
      BY <2>3, PermutedUnits
    <3>2. PICK listed : listed = Permuted(units, order)
      OBVIOUS
    <3>3. Relists(listed, units, order) /\ DOMAIN units = DOMAIN listed
      BY <3>1, <3>2 DEF Relists
    <3>4. \A j \in DOMAIN listed : \E i \in DOMAIN listed : order[i] = j
      BY <3>1, <3>2
    <3> QED
      BY <3>2, <3>3, <3>4, ListedAlike
  <2>5. ~UnitsRefused(units) => Chosen(rule.shared, Permuted(units, order), asOf) = Chosen(rule.shared, units, asOf)
    BY <2>1, <2>3, ChosenAlike
  <2>6. Evaluate(rule, units, asOf) = Evaluate(rule, Permuted(units, order), asOf)
    BY <2>4, <2>5, SameAnswer
  <2> QED
    BY <2>2, <2>6 DEF Answer
<1>2. TypeOK => ListingIsIrrelevant
  BY <1>1 DEF ListingIsIrrelevant
<1> QED
  BY <1>2, TypesKeep, PTL

(* Before a horizon is reached no outcome shows at all, and after it none   *)
(* of a unit that it does not use (_evaluate.py:193-206).                   *)
THEOREM OnlyUsedOutcomesShowHolds == Spec => []OnlyUsedOutcomesShow
<1>1. ASSUME TypeOK, Answer.kind \in {"evaluated", "HorizonNotReachedError"},
             NEW i \in DOMAIN data, NEW other \in {u.outcomes : u \in Units},
             Answer.kind = "evaluated" => data[i] \notin Range(Answer.used)
      PROVE  Evaluate(rule, [data EXCEPT ![i].outcomes = other], asOf) = Answer
  <2>1. data \in Seq(Items) /\ rule \in Rules
    BY <1>1, UnitsAreItems DEF TypeOK
  <2>2. PICK u \in Seq(Items) : u = data
    BY <2>1
  <2>3. PICK v : v = [u EXCEPT ![i] = [u[i] EXCEPT !.outcomes = other]]
    OBVIOUS
  <2>4. DOMAIN u = 1 .. Len(u) /\ Len(u) \in Nat /\ \A j \in DOMAIN u : u[j] \in Items
    BY ItemsHaveKeys
  <2>5. PICK item \in Items : item = [u[i] EXCEPT !.outcomes = other] /\ item.id = u[i].id /\ item.order = u[i].order
    <3>1. PICK w \in Items : w = u[i]
      BY <1>1, <2>2, <2>4
    <3>2. [w EXCEPT !.outcomes = other].id = w.id /\ [w EXCEPT !.outcomes = other].order = w.order
          /\ [w EXCEPT !.outcomes = other] \in Items
      BY <1>1 DEF Items, Recorded
    <3> QED
      BY <3>1, <3>2
  <2>6. v \in Seq(Items) /\ DOMAIN v = DOMAIN u /\ v[i] = item /\ \A j \in DOMAIN u : j # i => v[j] = u[j]
    <3>1. v = [u EXCEPT ![i] = item]
      BY <2>3, <2>5
    <3> QED
      BY <1>1, <2>2, <2>4, <3>1
  <2>7. SameKeys(u, v)
    BY <2>5, <2>6 DEF SameKeys
  <2>8. UnitsRefused(v) <=> UnitsRefused(u)
    BY <2>7, KeysDecide
  <2> DEFINE reply == Evaluate(rule, u, asOf)
             chosen == Chosen(rule.shared, u, asOf)
  <2>9. /\ ~UnitsRefused(u)
        /\ chosen.kind = "used" => reply.kind = "evaluated" /\ reply.used = chosen.used
    BY <1>1, <2>2, Answers DEF Answer
  <2>10. chosen.kind = "used" => \A j \in DOMAIN u : u[j] \in Range(chosen.used) => v[j] = u[j]
    BY <1>1, <2>2, <2>6, <2>9 DEF Answer
  <2>11. Chosen(rule.shared, v, asOf) = chosen
    BY <2>1, <2>6, <2>7, <2>9, <2>10, ChoiceStays
  <2>12. Evaluate(rule, v, asOf) = reply
    BY <2>8, <2>11, SameAnswer
  <2>13. v = [data EXCEPT ![i].outcomes = other]
    BY <2>2, <2>3
  <2> QED
    BY <2>2, <2>12, <2>13 DEF Answer
<1>2. TypeOK => OnlyUsedOutcomesShow
  <2> SUFFICES ASSUME TypeOK, Answer.kind \in {"evaluated", "HorizonNotReachedError"},
                      NEW i \in DOMAIN data, NEW other \in {u.outcomes : u \in Units},
                      data[i] \notin IF Answer.kind = "evaluated" THEN Range(Answer.used) ELSE {}
               PROVE  Evaluate(rule, [data EXCEPT ![i].outcomes = other], asOf) = Answer
    BY Zenon DEF OnlyUsedOutcomesShow
  <2>1. Answer.kind = "evaluated" => data[i] \notin Range(Answer.used)
    OBVIOUS
  <2> QED
    BY <1>1, <2>1
<1> QED
  BY <1>2, TypesKeep, PTL

(* What one more unit can do to a result that was reached.                  *)
LEMMA OneMore ==
  ASSUME TypeOK, NEW unit \in Units
  PROVE  StandsAfter(unit, Evaluate(rule, data, asOf), Evaluate(rule, Append(data, unit), asOf))
<1>1. data \in Seq(Items) /\ rule \in Rules /\ unit \in Items /\ asOf \in Days \cup {NoDay}
  <2>1. \A x \in Units : x \in Items
    BY UnitsAssumption DEF Items, Recorded
  <2> QED
    BY <2>1, UnitsAreItems DEF TypeOK
<1>2. PICK u \in Seq(Items) : u = data
  BY <1>1
<1>3. PICK v : v = Append(u, unit)
  OBVIOUS
<1> DEFINE before  == Evaluate(rule, u, asOf)
           after   == Evaluate(rule, v, asOf)
           horizon == rule.shared
           names   == DOMAIN rule.hypotheses
           chosen  == Chosen(horizon, u, asOf)
<1>4. SUFFICES ASSUME before.kind = "evaluated"
               PROVE  /\ Status(rule, v, asOf) # [h \in names |-> "pending"]
                      /\ \/ Belongs(unit, before.used)
                         \/ after = before
                         \/ after.kind = "PreregError" /\ (UnitsRefused(v) \/ Ambiguous(v))
  BY <1>2, <1>3 DEF StandsAfter
<1>5. /\ ~UnitsRefused(u) /\ chosen.kind = "used" /\ before.used = chosen.used
      /\ \A h \in names : Test(rule.hypotheses[h].test, Seen(chosen.used, h)) # Empty
  BY <1>4, Answers
<1>6. names # {} /\ horizon.kind \in {"count", "days"} /\ horizon.size \in Nat /\ WindowEnd(horizon) \in Int
  BY <1>1, Horizons
<1>7. DOMAIN chosen.used # {}
  BY <1>5, <1>6, NothingToTest
<1>8. PICK n \in Nat : n = Len(u) /\ DOMAIN u = 1 .. n
  BY ItemsHaveKeys
<1>9. v \in Seq(Items) /\ Len(v) = n + 1 /\ DOMAIN v = 1 .. n + 1 /\ v[n + 1] = unit
      /\ \A i \in DOMAIN u : v[i] = u[i]
  BY <1>1, <1>3, <1>8
<1> DEFINE undated == \E i \in DOMAIN u : u[i].order.type # "str"
           P       == InWindow(horizon, u)
           stands  == /\ Chosen(horizon, v, asOf).kind # "HorizonNotReachedError"
                      /\ \/ Belongs(unit, before.used)
                         \/ Chosen(horizon, v, asOf) = chosen
                         \/ Chosen(horizon, v, asOf) = Is("PreregError") /\ Ambiguous(v)
<1>10. ASSUME horizon.kind = "count" PROVE stands
  <2>1. Chosen(horizon, u, asOf) = CountChosen(horizon.size, u)
        /\ Chosen(horizon, v, asOf) = CountChosen(horizon.size, v)
    BY <1>10 DEF Chosen
  <2>2. ~Ambiguous(u) /\ n >= horizon.size /\ chosen = Used(SubSeq(InOrder(u), 1, horizon.size))
    <3>1. chosen = CountChosen(horizon.size, u)
      BY <2>1
    <3>2. Is("PreregError").kind # "used" /\ Is("HorizonNotReachedError").kind # "used"
      BY DEF Is
    <3> HIDE DEF chosen
    <3>3. ~Ambiguous(u) /\ ~(Len(u) < horizon.size)
      BY <1>5, <3>1, <3>2, Zenon DEF CountChosen
    <3>4. chosen = Used(SubSeq(InOrder(u), 1, horizon.size))
      BY <3>1, <3>3, Zenon DEF CountChosen
    <3> QED
      BY <1>6, <1>8, <3>3, <3>4
  <2>3. chosen.used = SubSeq(InOrder(u), 1, horizon.size)
    <3> DEFINE first == SubSeq(InOrder(u), 1, horizon.size)
    <3>1. Used(first).used = first
      BY DEF Used
    <3> HIDE DEF first, chosen
    <3> QED
      BY <2>2, <3>1, Zenon DEF first
  <2>4. Chosen(horizon, v, asOf).kind # "HorizonNotReachedError"
    BY <1>6, <1>8, <1>9, <2>1, <2>2 DEF CountChosen, Is, Used
  <2>5. Ambiguous(v) => Chosen(horizon, v, asOf) = Is("PreregError")
    BY <2>1 DEF CountChosen
  <2>6. ASSUME ~Ambiguous(v), ~Belongs(unit, before.used) PROVE Chosen(horizon, v, asOf) = chosen
    <3>1. \A w \in Range(chosen.used) : ~Earlier(unit, w)
      BY <1>5, <1>10, <2>6 DEF Belongs
    <3>2. InOrder(u) \in Seq(Items) /\ Len(InOrder(u)) = n
      BY <1>8, <2>2, InOrderAt
    <3>3. chosen.used = [k \in 1 .. horizon.size |-> InOrder(u)[k]]
      BY <1>6, <2>2, <2>3, <3>2, FirstOf
    <3>4. ASSUME NEW k \in 1 .. horizon.size PROVE ~Earlier(unit, InOrder(u)[k])
      <4>1. k \in DOMAIN chosen.used /\ chosen.used[k] = InOrder(u)[k]
        BY <3>3
      <4> QED
        BY <3>1, <4>1 DEF Range
    <3>5. SubSeq(InOrder(v), 1, horizon.size) = SubSeq(InOrder(u), 1, horizon.size)
      BY <1>1, <1>3, <1>6, <1>8, <2>2, <2>6, <3>4, LaterCountsFor
    <3> QED
      <4>1. ~(Len(v) < horizon.size)
        BY <1>6, <1>8, <1>9, <2>2
      <4>2. CountChosen(horizon.size, v) = Used(SubSeq(InOrder(v), 1, horizon.size))
        BY <2>6, <4>1, Zenon DEF CountChosen
      <4> QED
        BY <2>1, <2>2, <3>5, <4>2
  <2> QED
    BY <2>4, <2>5, <2>6
<1>11. ASSUME horizon.kind = "days" PROVE stands
  <2>1. Chosen(horizon, u, asOf) = DaysChosen(horizon, u, asOf)
        /\ Chosen(horizon, v, asOf) = DaysChosen(horizon, v, asOf)
    BY <1>11 DEF Chosen
  <2>2. /\ asOf # NoDay /\ asOf >= WindowEnd(horizon) /\ ~undated
        /\ chosen = Used(Sorted(u, P, ByDayThenId(u, P)))
    <3>1. asOf # NoDay => asOf \in Int
      BY <1>1, DaysAssumption
    <3> HIDE DEF undated, P
    <3> QED
      BY <1>5, <1>6, <2>1, <3>1 DEF DaysChosen, Is, Used, undated, P
  <2>3. asOf \in Int /\ ~(asOf < WindowEnd(horizon))
    BY <1>1, <1>6, <2>2, DaysAssumption
  <2>4. chosen.used = Sorted(u, P, ByDayThenId(u, P))
    BY <2>2 DEF Used
  <2>5. PICK i \in DOMAIN u : TRUE
    <3>1. CASE DOMAIN u = {}
      <4>1. P = {}
        BY <3>1 DEF InWindow
      <4>2. Cardinality(P) = 0
        BY <4>1, FS_EmptySet
      <4> HIDE DEF P
      <4>3. DOMAIN chosen.used = 1 .. 0
        BY <2>4, <4>2, SortedAt
      <4> QED
        BY <1>7, <4>3
    <3> QED
      BY <3>1
  <2>6. CASE unit.order.type # "str"
    <3>1. n + 1 \in DOMAIN v /\ v[n + 1].order.type # "str"
      BY <1>8, <1>9, <2>6
    <3>2. Chosen(horizon, v, asOf) = Is("PreregError")
      BY <1>6, <2>1, <2>2, <2>3, <3>1 DEF DaysChosen
    <3>3. i # n + 1 /\ i \in DOMAIN v /\ v[i].order.type = "str"
      BY <1>8, <1>9, <2>2, <2>5
    <3>4. Ambiguous(v)
      BY <3>1, <3>3 DEF Ambiguous
    <3> QED
      BY <3>2, <3>4 DEF Is
  <2>7. CASE unit.order.type = "str"
    <3>1. ~(\E j \in DOMAIN v : v[j].order.type # "str")
      <4>1. \A j \in DOMAIN v : j \in DOMAIN u \/ j = n + 1
        BY <1>8, <1>9
      <4> QED
        BY <1>9, <2>2, <2>7, <4>1
    <3>2. Chosen(horizon, v, asOf)
            = Used(Sorted(v, InWindow(horizon, v), ByDayThenId(v, InWindow(horizon, v))))
      BY <1>6, <2>1, <2>2, <2>3, <3>1 DEF DaysChosen
    <3>3. ASSUME ~Belongs(unit, before.used) PROVE Chosen(horizon, v, asOf) = chosen
      <4>1. unit.order.rank \notin horizon.start .. WindowEnd(horizon) - 1
        BY <1>11, <3>3 DEF Belongs
      <4>2. InWindow(horizon, v) = P /\ Sorted(v, P, ByDayThenId(v, P)) = Sorted(u, P, ByDayThenId(u, P))
        BY <1>1, <1>3, <1>5, <4>1, OutsideCountsForNothing
      <4> HIDE DEF P
      <4> QED
        BY <2>2, <3>2, <4>2
    <3>4. Chosen(horizon, v, asOf).kind = "used"
      BY <3>2 DEF Used
    <3> QED
      BY <3>3, <3>4
  <2> QED
    BY <2>6, <2>7
<1>12. stands
  BY <1>6, <1>10, <1>11
<1> HIDE DEF chosen
<1>13. \/ Belongs(unit, before.used)
       \/ after = before
       \/ after.kind = "PreregError" /\ (UnitsRefused(v) \/ Ambiguous(v))
  <2>1. CASE UnitsRefused(v)
    <3>1. after = Is("PreregError")
      BY <2>1, Answers
    <3> QED
      BY <2>1, <3>1 DEF Is
  <2>2. CASE ~UnitsRefused(v) /\ Chosen(horizon, v, asOf) = chosen
    <3>1. after = before
      BY <1>5, <2>2, SameAnswer DEF chosen
    <3> QED
      BY <3>1
  <2>3. CASE ~UnitsRefused(v) /\ Chosen(horizon, v, asOf) = Is("PreregError") /\ Ambiguous(v)
    <3>1. Is("PreregError").kind = "PreregError"
      BY DEF Is
    <3>2. after = Is("PreregError")
      BY <2>3, <3>1, Answers
    <3> QED
      BY <2>3, <3>1, <3>2
  <2> QED
    BY <1>12, <2>1, <2>2, <2>3
<1>14. after.kind # "HorizonNotReachedError"
  <2>1. Is("PreregError").kind # "HorizonNotReachedError"
    BY DEF Is
  <2> QED
    BY <1>12, <2>1, Answers
<1>15. Status(rule, v, asOf) # [h \in names |-> "pending"]
  <2>1. PICK h \in names : TRUE
    BY <1>6
  <2>2. CASE after.kind = "evaluated"
    <3>1. after.labels = Labels(rule, Chosen(horizon, v, asOf).used)
      BY <2>2, Answers
    <3>2. after.labels[h] \in {"met", "not met"}
      BY <2>1, <3>1 DEF Labels, LabelOf
    <3>3. Status(rule, v, asOf) = after.labels
      BY <2>2 DEF Status
    <3> QED
      BY <2>1, <3>2, <3>3
  <2>3. CASE after.kind # "evaluated"
    <3>1. after \in {Is("PreregError"), Is("EmptySampleError"), Is("HorizonNotReachedError")}
      BY <2>3, Answers
    <3>2. Status(rule, v, asOf) = after
      BY <1>14, <2>3 DEF Status
    <3>3. after.kind \in {"PreregError", "EmptySampleError"} /\ after = [kind |-> after.kind]
      BY <1>14, <3>1 DEF Is
    <3>4. after # [g \in names |-> "pending"]
      <4>1. ASSUME after = [g \in names |-> "pending"] PROVE FALSE
        <5>1. DOMAIN after = {"kind"} /\ DOMAIN after = names
          BY <3>3, <4>1
        <5>2. after["kind"] = "pending"
          BY <4>1, <5>1
        <5> QED
          BY <3>3, <5>2
      <4> QED
        BY <4>1
    <3> QED
      BY <3>2, <3>4
  <2> QED
    BY <2>2, <2>3
<1> QED
  BY <1>13, <1>15

(* A result once reached stands: a unit that comes in later changes it only *)
(* by belonging among those the horizon uses, or by making the data         *)
(* malformed or their order ambiguous, and no unit makes it pending again   *)
(* (_evaluate.py:140-148, 152-157).                                         *)
THEOREM ReachedStandsHolds == Spec => ReachedStands
<1>1. TypeOK => \A unit \in Units : data' = Append(data, unit) =>
        StandsAfter(unit, Evaluate(rule, data, asOf), Evaluate(rule, Append(data, unit), asOf))
  BY OneMore
<1> QED
  BY <1>1, TypesKeep, PTL DEF ReachedStands

(* Where p-values are exact, a better outcome of a unit loses no result, by *)
(* any rule that asks for more, whatever its families' corrections          *)
(* (_evaluate.py:207-233).                                                  *)
THEOREM BetterNeverLosesHolds ==
  ASSUME PValueIsExact
  PROVE  Spec => []BetterNeverLoses
<1>1. ASSUME TypeOK, Answer.kind = "evaluated",
             \A g \in DOMAIN rule.hypotheses : rule.hypotheses[g].test.alternative = "greater",
             NEW i \in DOMAIN data, NEW h \in DOMAIN rule.hypotheses, data[i] \in Range(Answer.used),
             NEW better \in OUTCOMES[rule.hypotheses[h].test.name],
             Ranked[better] > Ranked[data[i].outcomes[h]],
             Evaluate(rule, [data EXCEPT ![i].outcomes[h] = better], asOf).kind = "evaluated",
             NEW g \in DOMAIN rule.hypotheses, Answer.labels[g] = "met"
      PROVE  Evaluate(rule, [data EXCEPT ![i].outcomes[h] = better], asOf).labels[g] = "met"
  <2>1. data \in Seq(Units) /\ data \in Seq(Items) /\ rule \in Rules
    BY <1>1, UnitsAreItems DEF TypeOK
  <2>2. PICK u \in Seq(Items) : u = data
    BY <2>1
  <2>3. PICK w \in Units : w = data[i]
    BY <2>1
  <2>4. h \in DOMAIN w.outcomes
    <3>1. PICK k \in DOMAIN Answer.used : Answer.used[k] = w
      BY <1>1, <2>3 DEF Range
    <3>2. Matches(rule, Answer.used[k])
      BY <1>1, Answers DEF Answer
    <3> QED
      BY <3>1, <3>2 DEF Matches
  <2>5. PICK item : item = [w EXCEPT !.outcomes = [w.outcomes EXCEPT ![h] = better]]
    OBVIOUS
  <2>6. w \in [id : Keys, order : Keys, outcomes : Recorded]
    BY UnitsAssumption DEF Recorded
  <2>7. [w.outcomes EXCEPT ![h] = better] \in Changes
    <3>1. better \in DOMAIN Ranked
      BY <1>1, <2>1, TestsAssumption DEF OUTCOMES, Ranked
    <3>2. h \in UNION {DOMAIN r.hypotheses : r \in Rules}
      BY <2>1
    <3>3. w.outcomes \in Recorded
      BY DEF Recorded
    <3> QED
      BY <3>1, <3>2, <3>3 DEF Changes
  <2> DEFINE changed == [w.outcomes EXCEPT ![h] = better]
  <2>8. /\ changed[h] = better
        /\ \A f : f \in DOMAIN w.outcomes /\ f # h => changed[f] = w.outcomes[f]
        /\ DOMAIN changed = DOMAIN w.outcomes
    BY <2>4
  <2> HIDE DEF changed
  <2>9. item \in Items /\ item.id = w.id /\ item.order = w.order /\ item.outcomes = changed
    BY <2>5, <2>6, <2>7 DEF changed, Items
  <2>10. PICK v : v = [u EXCEPT ![i] = item]
    OBVIOUS
  <2>11. v = [data EXCEPT ![i].outcomes[h] = better]
    BY <2>2, <2>3, <2>5, <2>10
  <2>12. i \in DOMAIN u /\ u[i] = w
    BY <2>2, <2>3
  <2>13. v \in Seq(Items) /\ DOMAIN v = DOMAIN u /\ v[i] = item /\ \A j \in DOMAIN u : j # i => v[j] = u[j]
    <3>1. DOMAIN u = 1 .. Len(u) /\ Len(u) \in Nat /\ \A j \in DOMAIN u : u[j] \in Items
      BY ItemsHaveKeys
    <3> QED
      BY <2>9, <2>10, <2>12, <3>1
  <2>14. SameKeys(u, v)
    BY <2>9, <2>12, <2>13 DEF SameKeys
  <2>15. \A f \in DOMAIN rule.hypotheses : f # h => v[i].outcomes[f] = u[i].outcomes[f]
    <3>1. DOMAIN w.outcomes = DOMAIN rule.hypotheses
      <4>1. PICK k \in DOMAIN Answer.used : Answer.used[k] = w
        BY <1>1, <2>3 DEF Range
      <4>2. Matches(rule, Answer.used[k])
        BY <1>1, Answers DEF Answer
      <4> QED
        BY <4>1, <4>2 DEF Matches
    <3> QED
      BY <2>8, <2>9, <2>12, <2>13, <3>1
  <2>16. Ranked[v[i].outcomes[h]] > Ranked[u[i].outcomes[h]]
    BY <1>1, <2>2, <2>8, <2>9, <2>13
  <2>17. DoesBetter(rule, u, v, i, h)
    BY <1>1, <2>12, <2>13, <2>14, <2>15, <2>16 DEF DoesBetter
  <2>18. Evaluate(rule, u, asOf).kind = "evaluated" /\ Evaluate(rule, u, asOf).labels[g] = "met"
    BY <1>1, <2>2 DEF Answer
  <2>19. Evaluate(rule, v, asOf).kind = "evaluated"
    BY <1>1, <2>11
  <2>20. AsksForMore(rule)
    BY <1>1 DEF AsksForMore
  <2>21. Evaluate(rule, v, asOf).labels[g] = "met"
    <3>1. rule \in Rules /\ v \in Seq(Items) /\ g \in DOMAIN rule.hypotheses
      BY <2>1, <2>13
    <3> QED
      BY <2>17, <2>18, <2>19, <2>20, <3>1, BetterKeeps, Zenon
  <2> QED
    BY <2>11, <2>21
<1>2. TypeOK => BetterNeverLoses
  BY <1>1 DEF BetterNeverLoses
<1> QED
  BY <1>2, TypesKeep, PTL
=============================================================================
