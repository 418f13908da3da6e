----------------------------- MODULE LoadProofs -----------------------------
(***************************************************************************)
(* What load promises, proved for every set of records and amendments,     *)
(* every test, all data, and any number of loads, edits and sign-offs:     *)
(* what an amendment touches is enough, an id fixes its rule, a rule put   *)
(* together is found out, only what was signed is applied, nothing is      *)
(* passed over, and a load that nothing disturbs is right.                 *)
(***************************************************************************)
EXTENDS Load, Extremes, FiniteSetTheorems

-----------------------------------------------------------------------------
(* One amendment *)

(* SetToSeq lists the members of a finite set. *)
LEMMA SeqOfMembers ==
  ASSUME NEW S, IsFiniteSet(S)
  PROVE  SetToSeq(S) \in [1 .. Cardinality(S) -> S]
<1>1. ExistsBijection(1 .. Cardinality(S), S)
  BY FS_CardinalityType
<1>2. PICK f : f \in Bijection(1 .. Cardinality(S), S)
  BY <1>1 DEF ExistsBijection
<1>3. f \in [1 .. Cardinality(S) -> S] /\ IsInjective(f)
  BY <1>2 DEF Bijection, Injection, IsInjective
<1>4. QED
  BY <1>3 DEF SetToSeq

(* A family none of whose members an amendment touches has, after it, the   *)
(* members and the correction it had, and each member its own fields; and   *)
(* the fields every result depends on are as they were.                     *)
LEMMA UntouchedFamily ==
  ASSUME NEW before, NEW after, Sound(after),
         NEW h \in DOMAIN after.hypotheses,
         ~ KinTouched(after, Touches(before, after), h)
  PROVE  LET family == after.hypotheses[h].family
         IN  /\ Shared(before) = Shared(after)
             /\ family \in DOMAIN before.families
             /\ before.families[family] = after.families[family]
             /\ Members(before, family) = Members(after, family)
             /\ \A g \in Members(after, family) :
                  /\ g \in DOMAIN before.hypotheses
                  /\ before.hypotheses[g] = after.hypotheses[g]
<1> DEFINE family == after.hypotheses[h].family
           kin    == Members(after, family)
<1>1. h \in kin /\ kin \subseteq DOMAIN after.hypotheses
  BY DEF Members
<1>2. kin \cap Touches(before, after) = {}
  BY DEF KinTouched
<1>3. Shared(before) = Shared(after)
  BY <1>1, <1>2 DEF Touches
<1>4. /\ kin \cap Changed(before, after) = {}
      /\ \A f \in Regrouped(before, after) : kin \cap Members(after, f) = {}
  BY <1>2, <1>3 DEF Touches
<1>5. \A g \in kin : g \in DOMAIN before.hypotheses /\ before.hypotheses[g] = after.hypotheses[g]
  BY <1>1, <1>4 DEF Changed
<1>6. family \in DOMAIN after.families /\ family \notin Regrouped(before, after)
  BY <1>1, <1>4 DEF Sound
<1>7. /\ family \in DOMAIN before.families
      /\ before.families[family] = after.families[family]
      /\ Members(before, family) = Members(after, family)
  BY <1>6 DEF Regrouped
<1>8. QED
  BY <1>3, <1>5, <1>7

(* The p-values adjusted in a family depend on its correction, its members  *)
(* and their tests alone.                                                   *)
LEMMA SameFamilySameAdjusted ==
  ASSUME NEW before, NEW after, NEW data, NEW family,
         IsFiniteSet(Members(after, family)),
         before.families[family] = after.families[family],
         Members(before, family) = Members(after, family),
         \A g \in Members(after, family) : before.hypotheses[g] = after.hypotheses[g]
  PROVE  AdjustedIn(before, data, family) = AdjustedIn(after, data, family)
<1> DEFINE kin     == Members(after, family)
           members == SetToSeq(kin)
           Ps(record) == [i \in DOMAIN members |->
                            PValue(record.hypotheses[members[i]].test, data[members[i]])]
<1>1. \A i \in DOMAIN members : members[i] \in kin
  BY SeqOfMembers
<1>2. \A i \in DOMAIN members :
        before.hypotheses[members[i]].test = after.hypotheses[members[i]].test
  BY <1>1
<1>3. Ps(before) = Ps(after)
  BY <1>2
<1>4. AdjustedIn(before, data, family) =
        LET out == Adjust(after.families[family], Ps(before))
        IN  [g \in kin |-> out[CHOOSE i \in DOMAIN members : members[i] = g]]
  BY DEF AdjustedIn
<1>5. AdjustedIn(after, data, family) =
        LET out == Adjust(after.families[family], Ps(after))
        IN  [g \in kin |-> out[CHOOSE i \in DOMAIN members : members[i] = g]]
  BY DEF AdjustedIn
<1>6. QED
  BY <1>3, <1>4, <1>5

(* The label an amended record gives data differs from the one the record   *)
(* before it gave the same data only where _touches names the hypothesis or *)
(* a member of its family: _rule.py:460 leaves nothing out.                 *)
THEOREM TouchesAreEnough ==
  ASSUME NEW before, NEW after, NEW data, Sound(after),
         NEW h \in DOMAIN after.hypotheses,
         LabelOf(before, data, h) # LabelOf(after, data, h)
  PROVE  KinTouched(after, Touches(before, after), h)
<1> SUFFICES ASSUME ~ KinTouched(after, Touches(before, after), h)
             PROVE  LabelOf(before, data, h) = LabelOf(after, data, h)
  OBVIOUS
<1> DEFINE family == after.hypotheses[h].family
           kin    == Members(after, family)
<1>1. /\ before.families[family] = after.families[family]
      /\ Members(before, family) = kin
      /\ \A g \in kin : before.hypotheses[g] = after.hypotheses[g]
  BY UntouchedFamily
<1>2. h \in kin /\ kin \subseteq DOMAIN after.hypotheses
  BY DEF Members
<1>3. IsFiniteSet(kin)
  BY <1>2, FS_Subset DEF Sound
<1>4. AdjustedIn(before, data, family) = AdjustedIn(after, data, family)
  BY <1>1, <1>3, SameFamilySameAdjusted
<1>5. before.hypotheses[h] = after.hypotheses[h]
  BY <1>1, <1>2
<1>6. QED
  BY <1>4, <1>5 DEF LabelOf

(* A hypothesis that is new under its name is touched. *)
THEOREM NewIsTouched ==
  ASSUME NEW before, NEW after,
         NEW h \in DOMAIN after.hypotheses, h \notin DOMAIN before.hypotheses
  PROVE  h \in Touches(before, after)
BY DEF Touches, Changed

-----------------------------------------------------------------------------
(* Chains of amendments *)

(* What files can hold. *)
Raws == UNION {ContentsOf[path] : path \in Paths}

(* The applied amendments of a rule. *)
Applied ==
  [name    : Names,
   id      : {IdOf(name, raw) : name \in Names, raw \in Raws},
   raw     : Raws,
   touches : SUBSET UNION {DOMAIN Decoded[raw].record.hypotheses : raw \in Raws}]

(* The rule is what its record and its amendments, one after another, make. *)
Chained(rule) ==
  /\ rule = [id |-> rule.id, raw |-> rule.raw, record |-> rule.record,
             amendments |-> rule.amendments]
  /\ rule.raw \in Raws
  /\ rule.amendments \in Seq(Applied)
  /\ rule.id = IdAt(rule, Len(rule.amendments))
  /\ rule.record = RecordAt(rule, Len(rule.amendments))
  /\ \A k \in 1 .. Len(rule.amendments) :
       /\ rule.amendments[k].id = IdAt(rule, k)
       /\ Decoded[rule.amendments[k].raw].amends = IdAt(rule, k - 1)
       /\ RecordAt(rule, k).registered = RecordAt(rule, k - 1).registered
       /\ rule.amendments[k].touches = Touches(RecordAt(rule, k - 1), RecordAt(rule, k))
  /\ \A k \in 0 .. Len(rule.amendments) : Sound(RecordAt(rule, k))

(* An id fixes the name and the bytes it is of. *)
LEMMA IdFixes ==
  ASSUME NEW name, NEW raw, NEW other, NEW bytes
  PROVE  IdOf(name, raw) = IdOf(other, bytes) => name = other /\ raw = bytes
BY DEF IdOf, Sha

(* Reading two chains of one id from their ends, their ids agree.           *)
LEMMA IdsAgree ==
  ASSUME NEW r, Chained(r), NEW s, Chained(s), r.id = s.id,
         Len(r.amendments) <= Len(s.amendments),
         NEW j \in 0 .. Len(r.amendments)
  PROVE  IdAt(r, Len(r.amendments) - j) = IdAt(s, Len(s.amendments) - j)
<1> DEFINE n == Len(r.amendments)
           m == Len(s.amendments)
           T == {i \in 0 .. n : IdAt(r, n - i) # IdAt(s, m - i)}
<1>1. n \in Nat /\ m \in Nat /\ n <= m
  BY DEF Chained
<1>2. SUFFICES ASSUME T # {} PROVE FALSE
  OBVIOUS
<1>3. T \in SUBSET Nat
  BY <1>1
<1> HIDE DEF T
<1>4. PICK i \in T : \A other \in T : i <= other
  BY <1>2, <1>3, LeastElement
<1> USE DEF T
<1>5. i \in 0 .. n /\ IdAt(r, n - i) # IdAt(s, m - i)
  BY <1>4
<1>6. i # 0
  <2>1. IdAt(r, n) = IdAt(s, m) /\ n - 0 = n /\ m - 0 = m
    BY <1>1 DEF Chained
  <2>2. QED
    BY <1>5, <2>1
<1>7. i - 1 \in 0 .. n /\ i - 1 \notin T
  BY <1>1, <1>4, <1>5, <1>6
<1>8. IdAt(r, n - (i - 1)) = IdAt(s, m - (i - 1))
  BY <1>7
<1>9. n - i + 1 \in 1 .. n /\ m - i + 1 \in 1 .. m
  BY <1>1, <1>5, <1>6
<1>10. n - (i - 1) = n - i + 1 /\ m - (i - 1) = m - i + 1
  BY <1>1, <1>5
<1>11. IdAt(r, n - i + 1) = IdAt(s, m - i + 1)
  BY <1>8, <1>10
<1>12. /\ Decoded[r.amendments[n - i + 1].raw].amends = IdAt(r, (n - i + 1) - 1)
       /\ Decoded[s.amendments[m - i + 1].raw].amends = IdAt(s, (m - i + 1) - 1)
  BY <1>9 DEF Chained
<1>13. (n - i + 1) - 1 = n - i /\ (m - i + 1) - 1 = m - i
  BY <1>1, <1>5
<1>14. r.amendments[n - i + 1].raw = s.amendments[m - i + 1].raw
  <2>1. n - i + 1 # 0 /\ m - i + 1 # 0
    BY <1>1, <1>9
  <2>2. QED
    BY <1>11, <2>1, IdFixes DEF IdAt
<1>15. QED
  BY <1>5, <1>12, <1>13, <1>14

(* Two chains of one id are one chain. *)
LEMMA ChainsAgree ==
  ASSUME NEW r, Chained(r), NEW s, Chained(s), r.id = s.id,
         Len(r.amendments) <= Len(s.amendments)
  PROVE  r = s
<1> DEFINE n == Len(r.amendments)
           m == Len(s.amendments)
<1>1. n \in Nat /\ m \in Nat /\ n <= m
  BY DEF Chained
<1>2. IdAt(r, n - n) = IdAt(s, m - n)
  <2>1. n \in 0 .. n
    BY <1>1
  <2>2. QED
    BY <2>1, IdsAgree
<1>3. IdOf(RecordFile, r.raw) = IdAt(s, m - n)
  BY <1>1, <1>2 DEF IdAt
<1>4. n = m
  <2>1. SUFFICES ASSUME n # m PROVE FALSE
    OBVIOUS
  <2>2. m - n \in 1 .. m /\ m - n # 0
    <3>1. \A a, b \in Nat : a <= b /\ a # b => b - a \in 1 .. b /\ b - a # 0
      OBVIOUS
    <3>2. QED
      BY <1>1, <2>1, <3>1
  <2>3. s.amendments[m - n] \in Applied
    BY <2>2 DEF Chained
  <2>4. s.amendments[m - n].name \in Names
    BY <2>3 DEF Applied
  <2>5. RecordFile = s.amendments[m - n].name
    BY <1>3, <2>2, IdFixes DEF IdAt
  <2>6. QED
    BY <2>4, <2>5, PathsAssumption
<1>5. r.raw = s.raw
  <2>1. IdOf(RecordFile, r.raw) = IdOf(RecordFile, s.raw)
    BY <1>1, <1>3, <1>4 DEF IdAt
  <2>2. QED
    BY <2>1, IdFixes
<1>6. ASSUME NEW k \in 1 .. n
      PROVE  /\ r.amendments[k].name = s.amendments[k].name
             /\ r.amendments[k].raw = s.amendments[k].raw
             /\ r.amendments[k].id = s.amendments[k].id
  <2> DEFINE j == n - k
  <2>1. j \in 0 .. n /\ n - j = k /\ m - j = k /\ k # 0
    BY <1>1, <1>4
  <2> HIDE DEF j
  <2>2. IdAt(r, n - j) = IdAt(s, m - j)
    BY <2>1, IdsAgree
  <2>3. IdAt(r, k) = IdAt(s, k)
    BY <2>1, <2>2
  <2>4. r.amendments[k].id = s.amendments[k].id
    BY <1>1, <1>4, <2>3 DEF Chained
  <2>5. QED
    BY <2>1, <2>3, <2>4, IdFixes DEF IdAt
<1>7. ASSUME NEW k \in 0 .. n PROVE RecordAt(r, k) = RecordAt(s, k)
  <2>1. k = 0 \/ k \in 1 .. n
    BY <1>1
  <2>2. QED
    BY <1>5, <1>6, <2>1 DEF RecordAt
<1>8. r.amendments = s.amendments
  <2>1. ASSUME NEW k \in 1 .. n PROVE r.amendments[k] = s.amendments[k]
    <3>1. k - 1 \in 0 .. n /\ k \in 0 .. n
      BY <1>1
    <3>2. Touches(RecordAt(r, k - 1), RecordAt(r, k))
            = Touches(RecordAt(s, k - 1), RecordAt(s, k))
      BY <1>7, <3>1
    <3>3. r.amendments[k].touches = s.amendments[k].touches
      BY <1>4, <3>2 DEF Chained
    <3>4. r.amendments[k] \in Applied /\ s.amendments[k] \in Applied
      BY <1>1, <1>4 DEF Chained
    <3>5. QED
      BY <1>6, <3>3, <3>4 DEF Applied
  <2>2. QED
    BY <1>4, <2>1 DEF Chained
<1>9. r.record = s.record
  BY <1>1, <1>4, <1>7 DEF Chained
<1>10. QED
  BY <1>5, <1>8, <1>9 DEF Chained

(* A chain that is the beginning of another has the records it has. *)
LEMMA PrefixRecords ==
  ASSUME NEW r, Chained(r), NEW s, Chained(s), r.raw = s.raw,
         IsPrefix(r.amendments, s.amendments)
  PROVE  /\ Len(r.amendments) \in Nat /\ Len(s.amendments) \in Nat
         /\ Len(r.amendments) <= Len(s.amendments)
         /\ r.record = RecordAt(s, Len(r.amendments))
<1> DEFINE n == Len(r.amendments)
<1>1. n \in Nat /\ Len(s.amendments) \in Nat /\ n <= Len(s.amendments)
  BY DEF Chained, IsPrefix
<1>2. \A k \in 1 .. n : r.amendments[k] = s.amendments[k]
  <2>1. r.amendments \in Seq(Applied) /\ s.amendments \in Seq(Applied)
    BY DEF Chained
  <2>2. SubSeq(r.amendments, 1, n) = SubSeq(s.amendments, 1, n)
    BY DEF IsPrefix
  <2>3. ASSUME NEW k \in 1 .. n
        PROVE  /\ SubSeq(r.amendments, 1, n)[k] = r.amendments[k]
               /\ SubSeq(s.amendments, 1, n)[k] = s.amendments[k]
    BY <1>1, <2>1
  <2>4. QED
    BY <2>2, <2>3
<1>3. RecordAt(r, n) = RecordAt(s, n)
  BY <1>1, <1>2 DEF RecordAt
<1>4. QED
  BY <1>1, <1>3 DEF Chained

(* A hypothesis that amendments add, one of them touches. *)
LEMMA AddedIsTouched ==
  ASSUME NEW s, Chained(s), NEW n \in 0 .. Len(s.amendments),
         NEW h \in DOMAIN s.record.hypotheses,
         h \notin DOMAIN RecordAt(s, n).hypotheses
  PROVE  \E k \in n + 1 .. Len(s.amendments) : h \in s.amendments[k].touches
<1> DEFINE m == Len(s.amendments)
           T == {k \in n + 1 .. m : h \notin DOMAIN RecordAt(s, k - 1).hypotheses}
<1>1. m \in Nat /\ n # m
  BY DEF Chained
<1>2. n + 1 \in T /\ T \in SUBSET (0 .. m)
  BY <1>1
<1> HIDE DEF T
<1>3. PICK k \in T : \A other \in T : other <= k
  BY <1>1, <1>2, GreatestElement
<1> USE DEF T
<1>4. k \in n + 1 .. m /\ h \notin DOMAIN RecordAt(s, k - 1).hypotheses
  BY <1>3
<1>5. h \in DOMAIN RecordAt(s, k).hypotheses
  <2>1. CASE k = m
    BY <2>1 DEF Chained
  <2>2. CASE k # m
    <3>1. k + 1 \in n + 1 .. m /\ k + 1 \notin T /\ (k + 1) - 1 = k
      BY <1>1, <1>3, <1>4, <2>2
    <3>2. QED
      BY <3>1
  <2>3. QED
    BY <2>1, <2>2
<1>6. h \in Touches(RecordAt(s, k - 1), RecordAt(s, k))
  BY <1>4, <1>5, NewIsTouched
<1>7. k \in 1 .. m
  BY <1>1, <1>4
<1>8. s.amendments[k].touches = Touches(RecordAt(s, k - 1), RecordAt(s, k))
  BY <1>7 DEF Chained
<1>9. QED
  BY <1>4, <1>6, <1>8

(* The record as amendment k leaves it labels h as the last one does, and   *)
(* the family of h is the same in both.                                     *)
Alike(s, k, data, h) ==
  LET family == s.record.hypotheses[h].family
  IN  /\ h \in DOMAIN RecordAt(s, k).hypotheses
      /\ RecordAt(s, k).hypotheses[h].family = family
      /\ Members(RecordAt(s, k), family) = Members(s.record, family)
      /\ LabelOf(RecordAt(s, k), data, h) = LabelOf(s.record, data, h)

(* An amendment that touches no member of the family keeps them alike.      *)
LEMMA AlikeBefore ==
  ASSUME NEW s, Chained(s), NEW k \in 1 .. Len(s.amendments), NEW data,
         NEW h \in DOMAIN s.record.hypotheses, Alike(s, k, data, h),
         ~ KinTouched(s.record, s.amendments[k].touches, h)
  PROVE  Alike(s, k - 1, data, h)
<1> DEFINE before == RecordAt(s, k - 1)
           after  == RecordAt(s, k)
           family == s.record.hypotheses[h].family
<1>1. /\ h \in DOMAIN after.hypotheses /\ after.hypotheses[h].family = family
      /\ Members(after, family) = Members(s.record, family)
      /\ LabelOf(after, data, h) = LabelOf(s.record, data, h)
  BY DEF Alike
<1>2. s.amendments[k].touches = Touches(before, after)
  BY DEF Chained
<1>3. ~ KinTouched(after, Touches(before, after), h)
  BY <1>1, <1>2 DEF KinTouched
<1>4. Sound(after)
  <2>1. Len(s.amendments) \in Nat
    BY DEF Chained
  <2>2. k \in 0 .. Len(s.amendments)
    BY <2>1
  <2>3. QED
    BY <2>2 DEF Chained
<1> HIDE DEF before, after
<1>5. /\ Members(before, family) = Members(after, family)
      /\ \A g \in Members(after, family) :
           g \in DOMAIN before.hypotheses /\ before.hypotheses[g] = after.hypotheses[g]
  BY <1>1, <1>3, <1>4, UntouchedFamily
<1>6. h \in Members(after, family)
  BY <1>1 DEF Members
<1>7. LabelOf(before, data, h) = LabelOf(after, data, h)
  BY <1>1, <1>3, <1>4, TouchesAreEnough
<1>8. QED
  BY <1>1, <1>5, <1>6, <1>7 DEF Alike, before

(* Where amendments change a label on the same data, one of them touches    *)
(* the hypothesis or a member of its family.                                *)
LEMMA ChangedIsTouched ==
  ASSUME NEW s, Chained(s), NEW n \in 0 .. Len(s.amendments), NEW data,
         NEW h \in DOMAIN s.record.hypotheses,
         \A k \in n + 1 .. Len(s.amendments) :
           ~ KinTouched(s.record, s.amendments[k].touches, h)
  PROVE  Alike(s, n, data, h)
<1> DEFINE m == Len(s.amendments)
           T == {k \in n + 1 .. m : ~ Alike(s, k - 1, data, h)}
<1>1. m \in Nat
  BY DEF Chained
<1>2. Alike(s, m, data, h)
  BY DEF Chained, Alike
<1>3. SUFFICES ASSUME n # m, ~ Alike(s, n, data, h) PROVE FALSE
  BY <1>2
<1>4. n + 1 \in T /\ T \in SUBSET (0 .. m)
  BY <1>1, <1>3
<1> HIDE DEF T
<1>5. PICK k \in T : \A other \in T : other <= k
  BY <1>1, <1>4, GreatestElement
<1> USE DEF T
<1>6. k \in n + 1 .. m /\ k \in 1 .. m /\ ~ Alike(s, k - 1, data, h)
  BY <1>1, <1>5
<1>7. Alike(s, k, data, h)
  <2>1. CASE k = m
    BY <1>2, <2>1
  <2>2. CASE k # m
    <3>1. k + 1 \in n + 1 .. m /\ k + 1 \notin T /\ (k + 1) - 1 = k
      BY <1>1, <1>5, <1>6, <2>2
    <3>2. QED
      BY <3>1
  <2>3. QED
    BY <2>1, <2>2
<1>8. QED
  BY <1>6, <1>7, AlikeBefore

-----------------------------------------------------------------------------
(* load makes chains *)

(* A record's own rule is a chain with no amendment. *)
LEMMA ChainBegins ==
  ASSUME NEW raw \in Raws, Sound(Decoded[raw])
  PROVE  Chained(RuleOf(RecordFile, raw, Decoded[raw]))
<1> DEFINE rule == RuleOf(RecordFile, raw, Decoded[raw])
<1>1. /\ rule = [id |-> rule.id, raw |-> rule.raw, record |-> rule.record,
                 amendments |-> rule.amendments]
      /\ rule.id = IdOf(RecordFile, raw) /\ rule.raw = raw
      /\ rule.record = Decoded[raw] /\ rule.amendments = <<>>
  BY DEF RuleOf
<1> HIDE DEF rule
<1>2. rule.amendments \in Seq(Applied) /\ Len(rule.amendments) = 0
  BY <1>1
<1>3. IdAt(rule, 0) = rule.id /\ RecordAt(rule, 0) = Decoded[raw]
  BY <1>1 DEF IdAt, RecordAt
<1>4. Chained(rule)
  BY <1>1, <1>2, <1>3 DEF Chained
<1>5. QED
  BY <1>4 DEF rule

(* Only hypotheses of the record an amendment leaves are touched. *)
LEMMA TouchesThese ==
  ASSUME NEW before, NEW after PROVE Touches(before, after) \subseteq DOMAIN after.hypotheses
BY DEF Touches, Changed, Members

(* An amendment that _amended lets follow a chain makes a longer one. *)
LEMMA ChainExtends ==
  ASSUME NEW rule, Chained(rule), NEW name \in Names, NEW raw \in Raws,
         Amends(rule, Decoded[raw])
  PROVE  Chained(Amended(rule, name, raw, Decoded[raw]))
<1> DEFINE next  == Amended(rule, name, raw, Decoded[raw])
           n     == Len(rule.amendments)
           after == Decoded[raw].record
           last  == [name |-> name, id |-> IdOf(name, raw), raw |-> raw,
                     touches |-> Touches(rule.record, after)]
<1>1. /\ next = [id |-> next.id, raw |-> next.raw, record |-> next.record,
                 amendments |-> next.amendments]
      /\ next.id = IdOf(name, raw) /\ next.raw = rule.raw /\ next.record = after
      /\ next.amendments = Append(rule.amendments, last)
  BY DEF Amended
<1>2. n \in Nat /\ rule.amendments \in Seq(Applied)
  BY DEF Chained
<1>3. last \in Applied
  <2>1. Touches(rule.record, after) \subseteq DOMAIN after.hypotheses
    BY TouchesThese
  <2>2. IdOf(name, raw) \in {IdOf(each, bytes) : each \in Names, bytes \in Raws}
    OBVIOUS
  <2>3. Touches(rule.record, after)
          \in SUBSET UNION {DOMAIN Decoded[bytes].record.hypotheses : bytes \in Raws}
    BY <2>1
  <2>4. QED
    BY <2>2, <2>3 DEF Applied
<1>4. /\ last.name = name /\ last.id = IdOf(name, raw) /\ last.raw = raw
      /\ last.touches = Touches(rule.record, after)
  OBVIOUS
<1> HIDE DEF next, last, after
<1>5. /\ next.amendments \in Seq(Applied) /\ Len(next.amendments) = n + 1
      /\ next.amendments[n + 1] = last
      /\ \A k \in 1 .. n : next.amendments[k] = rule.amendments[k]
  BY <1>1, <1>2, <1>3
<1>6. \A k \in 0 .. n : IdAt(next, k) = IdAt(rule, k) /\ RecordAt(next, k) = RecordAt(rule, k)
  <2>1. ASSUME NEW k \in 0 .. n, k # 0
        PROVE  next.amendments[k] = rule.amendments[k]
    BY <1>2, <1>5, <2>1
  <2>2. QED
    BY <1>1, <2>1 DEF IdAt, RecordAt
<1>7. IdAt(next, n + 1) = IdOf(name, raw) /\ RecordAt(next, n + 1) = after
  <2>1. n + 1 # 0
    BY <1>2
  <2>2. QED
    BY <1>4, <1>5, <2>1 DEF IdAt, RecordAt, after
<1>8. rule.id = IdAt(rule, n) /\ rule.record = RecordAt(rule, n)
  BY DEF Chained
<1>9. ASSUME NEW k \in 1 .. n + 1
      PROVE  /\ next.amendments[k].id = IdAt(next, k)
             /\ Decoded[next.amendments[k].raw].amends = IdAt(next, k - 1)
             /\ RecordAt(next, k).registered = RecordAt(next, k - 1).registered
             /\ next.amendments[k].touches = Touches(RecordAt(next, k - 1), RecordAt(next, k))
  <2>1. CASE k = n + 1
    <3>1. k - 1 = n /\ n \in 0 .. n
      BY <1>2, <2>1
    <3>2. IdAt(next, k - 1) = rule.id /\ RecordAt(next, k - 1) = rule.record
      BY <1>6, <1>8, <3>1
    <3>3. next.amendments[k] = last
      BY <1>5, <2>1
    <3>4. Decoded[raw].amends = rule.id /\ after.registered = rule.record.registered
      BY DEF Amends, after
    <3>5. QED
      BY <1>4, <1>7, <2>1, <3>2, <3>3, <3>4
  <2>2. CASE k # n + 1
    <3>1. k \in 1 .. n /\ k \in 0 .. n /\ k - 1 \in 0 .. n
      BY <1>2, <2>2
    <3>2. /\ rule.amendments[k].id = IdAt(rule, k)
          /\ Decoded[rule.amendments[k].raw].amends = IdAt(rule, k - 1)
          /\ RecordAt(rule, k).registered = RecordAt(rule, k - 1).registered
          /\ rule.amendments[k].touches = Touches(RecordAt(rule, k - 1), RecordAt(rule, k))
      BY <3>1 DEF Chained
    <3>3. next.amendments[k] = rule.amendments[k]
      BY <1>5, <3>1
    <3>4. QED
      BY <1>6, <3>1, <3>2, <3>3
  <2>3. QED
    BY <2>1, <2>2
<1>10. ASSUME NEW k \in 0 .. n + 1 PROVE Sound(RecordAt(next, k))
  <2>1. CASE k = n + 1
    BY <1>7, <2>1 DEF Amends, after
  <2>2. CASE k # n + 1
    <3>1. k \in 0 .. n
      BY <1>2, <2>2
    <3>2. QED
      BY <1>6, <3>1 DEF Chained
  <2>3. QED
    BY <2>1, <2>2
<1>11. next.raw \in Raws
  BY <1>1 DEF Chained
<1>12. Chained(next)
  BY <1>1, <1>5, <1>7, <1>9, <1>10, <1>11 DEF Chained
<1>13. QED
  BY <1>12 DEF next

(* The oldest of some amendments is one of them. *)
LEMMA OldestIsOne ==
  ASSUME NEW S, S \subseteq Names, S # {} PROVE Oldest(S) \in S
<1> DEFINE T == {k \in 1 .. Len(AmendmentFiles) : AmendmentFiles[k] \in S}
<1>1. AmendmentFiles \in Seq(Names) /\ Len(AmendmentFiles) \in Nat
  BY PathsAssumption
<1>2. T # {} /\ T \in SUBSET Nat
  BY <1>1 DEF Names, ToSet
<1> HIDE DEF T
<1>3. PICK k \in T : \A other \in T : k <= other
  BY <1>2, LeastElement
<1> USE DEF T
<1>4. \A j \in 1 .. k - 1 : AmendmentFiles[j] \notin S
  BY <1>1, <1>3
<1>5. \E name \in S : \E i \in 1 .. Len(AmendmentFiles) :
        AmendmentFiles[i] = name /\ \A j \in 1 .. i - 1 : AmendmentFiles[j] \notin S
  BY <1>3, <1>4
<1>6. QED
  BY <1>5 DEF Oldest

-----------------------------------------------------------------------------
(* The inductive invariant *)

Waiting == {[name |-> name, content |-> raw] : name \in Names, raw \in Raws}

(* What load holds where it is. *)
LoadHolds ==
  /\ load = [pc |-> load.pc, ledger |-> load.ledger, raw |-> load.raw, names |-> load.names,
             content |-> load.content, line |-> load.line, signed |-> load.signed,
             rule |-> load.rule, todo |-> load.todo]
  /\ load.pc \in {"idle", "list", "read", "ledger", "content", "bound", "done", "refused"}
  /\ load.names \subseteq Names
  /\ load.signed \in Seq(Waiting)
  /\ load.pc \in {"list", "read", "ledger", "content"} => load.raw \in Raws
  /\ load.pc \in {"ledger", "content"} => load.names # {} /\ load.content \in Raws
  /\ load.pc \in {"bound", "done"} => Chained(load.rule)

LoadInv ==
  /\ files \in [Paths -> Raws \cup {Missing}]
  /\ LoadHolds
  /\ \A rule \in loaded : Chained(rule)

(* No load is under way at first, and none has returned. *)
LEMMA InitLoad == Init => LoadInv
<1> SUFFICES ASSUME Init PROVE LoadInv
  OBVIOUS
<1>1. files \in [Paths -> Raws \cup {Missing}]
  BY DEF Init, Raws
<1>2. LoadHolds
  BY DEF Init, NoLoad, LoadHolds
<1>3. QED
  BY <1>1, <1>2 DEF Init, LoadInv

(* What a file holds, when it is there, is one of the contents. *)
LEMMA HeldIsRaw ==
  ASSUME LoadInv, NEW path \in Paths, files[path] # Missing PROVE files[path] \in Raws
BY DEF LoadInv

(* A refused load holds nothing but its way in: the ledger it was given. *)
LEMMA RefuseLeaves ==
  Refuse => load' = [pc |-> "refused", ledger |-> load.ledger, raw |-> Null, names |-> {},
                     content |-> Null, line |-> Null, signed |-> <<>>, rule |-> Null,
                     todo |-> {}]
BY DEF Refuse, NoLoad

(* Refusing keeps what load holds. *)
LEMMA RefuseHolds == ASSUME LoadHolds, Refuse PROVE LoadHolds'
<1>1. load' = [pc |-> "refused", ledger |-> load.ledger, raw |-> Null, names |-> {},
               content |-> Null, line |-> Null, signed |-> <<>>, rule |-> Null, todo |-> {}]
  BY RefuseLeaves
<1>2. <<>> \in Seq(Waiting)
  OBVIOUS
<1>3. QED
  BY <1>1, <1>2 DEF LoadHolds

(* Each step of load keeps what it holds, and leaves what it returned.      *)
LEMMA BeginLoad == ASSUME LoadInv, Begin PROVE LoadInv'
<1>1. files[RecordFile] \in Raws
  BY HeldIsRaw DEF Begin, Paths
<1>2. PICK ledger \in BOOLEAN :
        load' = [pc |-> "list", ledger |-> ledger, raw |-> files[RecordFile], names |-> {},
                 content |-> Null, line |-> Null, signed |-> <<>>, rule |-> Null, todo |-> {}]
  BY DEF Begin, NoLoad
<1>3. <<>> \in Seq(Waiting)
  OBVIOUS
<1>4. LoadHolds'
  BY <1>1, <1>2, <1>3 DEF LoadHolds
<1>5. QED
  BY <1>4 DEF LoadInv, Begin

(* Reading, and checking, hold on to what was read and to the chain made. *)
LEMMA ReadingLoad ==
  ASSUME LoadInv, List \/ ReadAmendment \/ CheckLedger \/ CheckContent \/ ReadBound \/ Done
  PROVE  LoadInv'
<1>1. UNCHANGED <<files, loaded>>
  BY DEF List, ReadAmendment, CheckLedger, CheckContent, ReadBound, Done, historyVars
<1>2. LoadHolds
  BY DEF LoadInv
<1>3. SUFFICES LoadHolds'
  BY <1>1 DEF LoadInv
<1>4. CASE Refuse
  BY <1>2, <1>4, RefuseHolds
<1>5. CASE List /\ ~ Refuse
  <2>1. load.pc = "list"
    BY <1>5 DEF List
  <2>2. PICK names \in SUBSET Names : load' = [load EXCEPT !.pc = "read", !.names = names]
    BY <1>5 DEF List
  <2>3. QED
    BY <1>2, <2>1, <2>2 DEF LoadHolds
<1>6. CASE ReadAmendment /\ ~ Refuse
  <2>1. Oldest(load.names) \in Names
    BY <1>2, <1>6, OldestIsOne DEF ReadAmendment, LoadHolds
  <2>2. files[Oldest(load.names)] \in Raws
    BY <1>6, <2>1, HeldIsRaw DEF ReadAmendment, Paths
  <2>3. /\ load.pc = "read" /\ load.names # {}
        /\ load' = [load EXCEPT !.pc = "ledger", !.content = files[Oldest(load.names)]]
    BY <1>6 DEF ReadAmendment
  <2>4. QED
    BY <1>2, <2>2, <2>3 DEF LoadHolds
<1>7. CASE CheckLedger /\ ~ Refuse
  BY <1>2, <1>7 DEF CheckLedger, LoadHolds
<1>8. CASE CheckContent /\ ~ Refuse
  <2> DEFINE next == [name |-> Oldest(load.names), content |-> load.content]
  <2>1. Oldest(load.names) \in Names /\ load.content \in Raws
    BY <1>2, <1>8, OldestIsOne DEF CheckContent, LoadHolds
  <2>2. next \in Waiting
    BY <2>1 DEF Waiting
  <2>3. Take /\ load.pc = "content"
    BY <1>8 DEF CheckContent
  <2> HIDE DEF next
  <2>4. Append(load.signed, next) \in Seq(Waiting)
    BY <1>2, <2>2 DEF LoadHolds
  <2>5. load' = [load EXCEPT !.pc = "read", !.names = load.names \ {Oldest(load.names)},
                             !.content = Null, !.line = Null,
                             !.signed = Append(load.signed, next)]
    BY <2>3 DEF Take, next
  <2>6. QED
    BY <1>2, <2>3, <2>4, <2>5 DEF LoadHolds
<1>9. CASE ReadBound /\ ~ Refuse
  BY <1>2, <1>9 DEF ReadBound, LoadHolds
<1>10. CASE Done /\ ~ Refuse
  BY <1>2, <1>10 DEF Done, LoadHolds
<1>11. QED
  BY <1>4, <1>5, <1>6, <1>7, <1>8, <1>9, <1>10

(* A chain, and what waits to be applied to it, go on to bound files. *)
LEMMA BindHolds ==
  ASSUME LoadHolds, NEW rule, Chained(rule), NEW signed \in Seq(Waiting), Bind(rule, signed)
  PROVE  LoadHolds'
BY DEF LoadHolds, Bind

(* A rule that is built or amended is a chain. *)
LEMMA BuildingLoad == ASSUME LoadInv, BuildRecord \/ Amend PROVE LoadInv'
<1>1. UNCHANGED <<files, loaded>>
  BY DEF BuildRecord, Amend, historyVars
<1>2. LoadHolds
  BY DEF LoadInv
<1>3. SUFFICES LoadHolds'
  BY <1>1 DEF LoadInv
<1>4. CASE Refuse
  BY <1>2, <1>4, RefuseHolds
<1>5. CASE BuildRecord /\ ~ Refuse
  <2>1. load.raw \in Raws /\ load.signed \in Seq(Waiting)
    BY <1>2, <1>5 DEF BuildRecord, LoadHolds
  <2>2. /\ Sound(Decoded[load.raw])
        /\ Bind(RuleOf(RecordFile, load.raw, Decoded[load.raw]), load.signed)
    BY <1>5 DEF BuildRecord
  <2>3. QED
    BY <1>2, <2>1, <2>2, ChainBegins, BindHolds
<1>6. CASE Amend /\ ~ Refuse
  <2> DEFINE next == Head(load.signed)
  <2>1. load.signed \in Seq(Waiting) /\ load.signed # <<>> /\ Chained(load.rule)
    BY <1>2, <1>6 DEF Amend, LoadHolds
  <2>2. next \in Waiting /\ Tail(load.signed) \in Seq(Waiting)
    BY <2>1
  <2>3. next.name \in Names /\ next.content \in Raws
    BY <2>2 DEF Waiting
  <2>4. /\ Amends(load.rule, Decoded[next.content])
        /\ Bind(Amended(load.rule, next.name, next.content, Decoded[next.content]),
                Tail(load.signed))
    BY <1>6 DEF Amend
  <2> HIDE DEF next
  <2>5. Chained(Amended(load.rule, next.name, next.content, Decoded[next.content]))
    BY <2>1, <2>3, <2>4, ChainExtends
  <2>6. QED
    BY <1>2, <2>2, <2>4, <2>5, BindHolds
<1>7. QED
  BY <1>4, <1>5, <1>6

(* What load returns is the chain it made. *)
LEMMA ReturnLoad == ASSUME LoadInv, Return PROVE LoadInv'
<1>1. LoadHolds'
  BY DEF LoadInv, LoadHolds, Return, NoLoad
<1>2. \A rule \in loaded' : Chained(rule)
  BY DEF LoadInv, LoadHolds, Return
<1>3. QED
  BY <1>1, <1>2 DEF LoadInv, Return

(* Edits and sign-offs leave a load under way alone. *)
LEMMA OtherLoad ==
  ASSUME LoadInv, (\E path \in Paths : Edit(path)) \/ (\E name \in Names : SignOff(name))
  PROVE  LoadInv'
<1>1. CASE \E path \in Paths : Edit(path)
  <2>1. PICK path \in Paths : Edit(path)
    BY <1>1
  <2>2. PICK content \in ContentsOf[path] \cup {Missing} :
          files' = [files EXCEPT ![path] = content]
    BY <2>1 DEF Edit
  <2>3. content \in Raws \cup {Missing}
    BY <2>2 DEF Raws
  <2>4. QED
    BY <2>1, <2>2, <2>3 DEF Edit, LoadInv, LoadHolds
<1>2. CASE \E name \in Names : SignOff(name)
  BY <1>2 DEF SignOff, LoadInv, LoadHolds
<1>3. QED
  BY <1>1, <1>2

(* Every step keeps the invariant. *)
LEMMA NextLoad == LoadInv /\ [Next]_vars => LoadInv'
<1> SUFFICES ASSUME LoadInv, [Next]_vars PROVE LoadInv'
  OBVIOUS
<1>1. CASE UNCHANGED vars
  BY <1>1 DEF vars, historyVars, LoadInv, LoadHolds
<1>2. CASE Next
  BY <1>1, <1>2, BeginLoad, ReadingLoad, BuildingLoad, ReturnLoad, OtherLoad
  DEF Next, LoadStep, Rest
<1>3. QED
  BY <1>1, <1>2

(* Every rule that load holds or has returned is what a record and its      *)
(* amendments, one after another, make.                                     *)
THEOREM LoadInvHolds == Spec => []LoadInv
<1>1. Init => LoadInv
  BY InitLoad
<1>2. LoadInv /\ [Next]_vars => LoadInv'
  BY NextLoad
<1>3. QED
  BY <1>1, <1>2, PTL DEF Spec

(* An id names one rule (_rule.py:506): each amendment names the rule it    *)
(* amends, so rules of one id were made of the same bytes all the way down. *)
THEOREM IdFixesRuleHolds == Spec => []IdFixesRule
<1>1. LoadInv => IdFixesRule
  <2>1. SUFFICES ASSUME LoadInv, NEW r \in loaded, NEW s \in loaded, r.id = s.id PROVE r = s
    BY DEF IdFixesRule
  <2>2. Chained(r) /\ Chained(s)
    BY <2>1 DEF LoadInv
  <2>3. Len(r.amendments) \in Nat /\ Len(s.amendments) \in Nat
    BY <2>2 DEF Chained
  <2>4. CASE Len(r.amendments) <= Len(s.amendments)
    BY <2>1, <2>2, <2>4, ChainsAgree
  <2>5. CASE Len(s.amendments) <= Len(r.amendments)
    BY <2>1, <2>2, <2>5, ChainsAgree
  <2>6. QED
    BY <2>3, <2>4, <2>5
<1>2. QED
  BY <1>1, LoadInvHolds, PTL

(* A chain is what check_intact rebuilds it as. *)
LEMMA ChainedIsIntact == ASSUME NEW rule, Chained(rule) PROVE Intact(rule)
<1> DEFINE n == Len(rule.amendments)
<1>1. n \in Nat /\ rule.amendments \in Seq(Applied)
  BY DEF Chained
<1>2. Chains(rule)
  <2>1. 0 \in 0 .. n /\ \A k \in 1 .. n : k \in 0 .. n
    BY <1>1
  <2>2. QED
    BY <2>1 DEF Chained, Chains
<1>3. \A k \in 1 .. n :
        rule.amendments[k] =
          [name |-> rule.amendments[k].name, id |-> IdAt(rule, k), raw |-> rule.amendments[k].raw,
           touches |-> Touches(RecordAt(rule, k - 1), RecordAt(rule, k))]
  <2>1. ASSUME NEW k \in 1 .. n
        PROVE  /\ rule.amendments[k] \in Applied
               /\ rule.amendments[k].id = IdAt(rule, k)
               /\ rule.amendments[k].touches = Touches(RecordAt(rule, k - 1), RecordAt(rule, k))
    BY <1>1 DEF Chained
  <2>2. QED
    BY <2>1 DEF Applied
<1>4. Rebuilt(rule).amendments = rule.amendments
  BY <1>1, <1>3 DEF Rebuilt
<1>5. Rebuilt(rule) = rule
  BY <1>4 DEF Rebuilt, Chained
<1>6. QED
  BY <1>2, <1>5 DEF Intact

(* What is put together keeps the kinds of what it is put together from.    *)
LEMMA AlteredAreApplied ==
  ASSUME NEW amendments \in Seq(Applied), NEW altered \in Altered(amendments)
  PROVE  altered \in Seq(Applied)
<1>1. CASE altered \in {SubSeq(amendments, 1, k) : k \in 0 .. Len(amendments)}
  BY <1>1
<1>2. ASSUME NEW k \in 1 .. Len(amendments), NEW raw \in ContentsOf[amendments[k].name],
             altered = [amendments EXCEPT ![k].raw = raw]
      PROVE  altered \in Seq(Applied)
  <2>1. amendments[k] \in Applied
    OBVIOUS
  <2>2. raw \in Raws
    BY <2>1 DEF Applied, Raws, Paths
  <2>3. [amendments[k] EXCEPT !.raw = raw] \in Applied
    BY <2>1, <2>2 DEF Applied
  <2>4. QED
    BY <1>2, <2>3
<1>3. QED
  BY <1>1, <1>2 DEF Altered

(* What check_intact lets through, whoever put it together, is a chain.     *)
LEMMA IntactIsChained ==
  ASSUME NEW rule, rule.raw \in Raws, rule.amendments \in Seq(Applied), Intact(rule)
  PROVE  Chained(rule)
<1> DEFINE n == Len(rule.amendments)
<1>1. n \in Nat
  OBVIOUS
<1>2. Chains(rule) /\ rule = Rebuilt(rule)
  BY DEF Intact
<1>3. /\ rule.id = IdAt(rule, n) /\ rule.record = RecordAt(rule, n)
      /\ rule.amendments = Rebuilt(rule).amendments
      /\ rule = [id |-> rule.id, raw |-> rule.raw, record |-> rule.record,
                 amendments |-> rule.amendments]
  BY <1>2 DEF Rebuilt
<1>4. ASSUME NEW k \in 1 .. n
      PROVE  /\ rule.amendments[k].id = IdAt(rule, k)
             /\ rule.amendments[k].touches = Touches(RecordAt(rule, k - 1), RecordAt(rule, k))
  BY <1>3 DEF Rebuilt
<1>5. ASSUME NEW k \in 0 .. n PROVE Sound(RecordAt(rule, k))
  <2>1. k = 0 \/ k \in 1 .. n
    BY <1>1
  <2>2. QED
    BY <1>2, <2>1 DEF Chains
<1>6. QED
  BY <1>2, <1>3, <1>4, <1>5 DEF Chained, Chains

(* check_intact (_rule.py:637) lets through a loaded rule, whatever became  *)
(* of its files, and nothing else that is put together under its id.        *)
THEOREM OnlyLoadedAreIntactHolds == Spec => []OnlyLoadedAreIntact
<1>1. LoadInv => OnlyLoadedAreIntact
  <2> SUFFICES ASSUME LoadInv, NEW r \in loaded, NEW rule \in PutTogether(r.id)
               PROVE  Intact(rule) <=> rule = r
    BY DEF OnlyLoadedAreIntact
  <2>1. \A s \in loaded : Chained(s)
    BY DEF LoadInv
  <2>2. rule = r => Intact(rule)
    BY <2>1, ChainedIsIntact
  <2>3. ASSUME Intact(rule) PROVE rule = r
    <3>1. rule.id = r.id /\ rule.raw \in Raws
      BY <2>1 DEF PutTogether, Chained
    <3>2. PICK s \in loaded : rule.amendments \in Altered(s.amendments)
      BY DEF PutTogether
    <3>3. rule.amendments \in Seq(Applied)
      BY <2>1, <3>2, AlteredAreApplied DEF Chained
    <3>4. Chained(rule)
      BY <2>3, <3>1, <3>3, IntactIsChained
    <3>5. Len(r.amendments) \in Nat /\ Len(rule.amendments) \in Nat
      BY <2>1, <3>4 DEF Chained
    <3>6. CASE Len(r.amendments) <= Len(rule.amendments)
      BY <2>1, <3>1, <3>4, <3>6, ChainsAgree
    <3>7. CASE Len(rule.amendments) <= Len(r.amendments)
      BY <2>1, <3>1, <3>4, <3>7, ChainsAgree
    <3>8. QED
      BY <3>5, <3>6, <3>7
  <2>4. QED
    BY <2>2, <2>3
<1>2. QED
  BY <1>1, LoadInvHolds, PTL

(* touches leaves nothing out (_rule.py:460), over any chain of amendments: *)
(* where a rule and the same rule amended further give the same data        *)
(* different labels, those amendments touch the hypothesis or a member of   *)
(* its family; and they touch each hypothesis that they add.                *)
THEOREM TouchesSufficeHolds == Spec => []TouchesSuffice
<1>1. LoadInv => TouchesSuffice
  <2> SUFFICES ASSUME LoadInv, NEW r \in loaded, NEW s \in loaded,
                      r.raw = s.raw, IsPrefix(r.amendments, s.amendments)
               PROVE  LET touched == UNION {s.amendments[k].touches :
                                       k \in Len(r.amendments) + 1 .. Len(s.amendments)}
                      IN  /\ DOMAIN s.record.hypotheses \ DOMAIN r.record.hypotheses
                               \subseteq touched
                          /\ \A data \in Data :
                               Evaluable(r.record, data) /\ Evaluable(s.record, data) =>
                                 \A h \in DOMAIN data :
                                   LabelOf(s.record, data, h) # LabelOf(r.record, data, h) =>
                                     KinTouched(s.record, touched, h)
    BY DEF TouchesSuffice
  <2> DEFINE n == Len(r.amendments)
             m == Len(s.amendments)
             touched == UNION {s.amendments[k].touches : k \in n + 1 .. m}
  <2>1. Chained(r) /\ Chained(s)
    BY DEF LoadInv
  <2>2. n \in Nat /\ m \in Nat /\ n <= m /\ r.record = RecordAt(s, n)
    BY <2>1, PrefixRecords
  <2>3. n \in 0 .. m
    BY <2>2
  <2>4. ASSUME NEW h \in DOMAIN s.record.hypotheses, h \notin DOMAIN r.record.hypotheses
        PROVE  h \in touched
    <3>1. \E k \in n + 1 .. m : h \in s.amendments[k].touches
      BY <2>1, <2>2, <2>3, <2>4, AddedIsTouched
    <3>2. QED
      BY <3>1
  <2>5. ASSUME NEW data, Evaluable(s.record, data), NEW h \in DOMAIN data,
               LabelOf(s.record, data, h) # LabelOf(r.record, data, h),
               ~ KinTouched(s.record, touched, h)
        PROVE  FALSE
    <3>1. h \in DOMAIN s.record.hypotheses
      BY <2>5 DEF Evaluable
    <3>2. ASSUME NEW k \in n + 1 .. m
          PROVE  ~ KinTouched(s.record, s.amendments[k].touches, h)
      <4>1. s.amendments[k].touches \subseteq touched
        OBVIOUS
      <4> HIDE DEF touched
      <4>2. QED
        BY <2>5, <4>1 DEF KinTouched
    <3>3. Alike(s, n, data, h)
      BY <2>1, <2>3, <3>1, <3>2, ChangedIsTouched
    <3>4. QED
      BY <2>2, <2>5, <3>3 DEF Alike
  <2>6. QED
    BY <2>4, <2>5
<1>2. QED
  BY <1>1, LoadInvHolds, PTL

-----------------------------------------------------------------------------
(* Only what is signed is applied *)

Digests    == {Sha(raw) : raw \in Raws} \cup {Null}
LogEntries == [artifact : Names, sha256 : Digests, bound : {Null}]

(* The entry i is the newest of the first n about its artifact. *)
NewestAt(i, n) == \A j \in i + 1 .. n : log[j].artifact # log[i].artifact

(* The ids of what was signed at some moment since the load began. *)
SignedIds ==
  {id \in Names \X Digests :
     \E n \in began .. Len(log) : \E i \in 1 .. n :
       log[i].artifact = id[1] /\ log[i].sha256 = id[2] /\ NewestAt(i, n)}

SignedInv ==
  /\ log \in Seq(LogEntries) /\ began \in 0 .. Len(log)
  /\ load.pc = "content" => <<Oldest(load.names), load.line.sha256>> \in SignedIds
  /\ \A i \in 1 .. Len(load.signed) :
       IdOf(load.signed[i].name, load.signed[i].content) \in SignedIds
  /\ load.pc \in {"bound", "done"} =>
       \A k \in 1 .. Len(load.rule.amendments) : load.rule.amendments[k].id \in SignedIds

(* A log that stays or grows keeps what was signed. *)
LEMMA SignedStay ==
  ASSUME log \in Seq(LogEntries), began' = began, began \in 0 .. Len(log),
         log' = log \/ \E entry \in LogEntries : log' = Append(log, entry)
  PROVE  /\ log' \in Seq(LogEntries) /\ began' \in 0 .. Len(log')
         /\ SignedIds \subseteq SignedIds'
<1>1. /\ log' \in Seq(LogEntries) /\ Len(log') \in Nat /\ Len(log) \in Nat
      /\ Len(log) <= Len(log')
  OBVIOUS
<1>2. ASSUME NEW i \in 1 .. Len(log) PROVE log'[i] = log[i]
  <2>1. CASE log' = log
    BY <2>1
  <2>2. CASE \E entry \in LogEntries : log' = Append(log, entry)
    BY <1>1, <2>2
  <2>3. QED
    BY <2>1, <2>2
<1>3. ASSUME NEW n \in began .. Len(log), NEW i \in 1 .. n, NewestAt(i, n)
      PROVE  NewestAt(i, n)'
  BY <1>1, <1>2, <1>3 DEF NewestAt
<1>4. ASSUME NEW id \in SignedIds PROVE id \in SignedIds'
  <2>0. PICK n \in began .. Len(log) : \E i \in 1 .. n :
          log[i].artifact = id[1] /\ log[i].sha256 = id[2] /\ NewestAt(i, n)
    BY DEF SignedIds
  <2>1. PICK i \in 1 .. n :
          log[i].artifact = id[1] /\ log[i].sha256 = id[2] /\ NewestAt(i, n)
    BY <2>0
  <2>2. n \in began' .. Len(log') /\ i \in 1 .. Len(log)
    BY <1>1
  <2>3. log'[i].artifact = id[1] /\ log'[i].sha256 = id[2] /\ NewestAt(i, n)'
    BY <1>2, <1>3, <2>1, <2>2
  <2>4. id \in Names \X Digests
    BY DEF SignedIds
  <2>5. QED
    BY <2>2, <2>3, <2>4 DEF SignedIds
<1>5. QED
  BY <1>1, <1>4

(* What the ledger says now is signed. *)
LEMMA SignedNow ==
  ASSUME log \in Seq(LogEntries), began \in 0 .. Len(log), NEW name \in Names,
         Log!Deciding(name) # 0
  PROVE  <<name, log[Log!Deciding(name)].sha256>> \in SignedIds
<1> DEFINE I == {i \in 1 .. Len(log) : log[i].artifact = name}
           last == Log!Deciding(name)
<1>1. last = IF I # {} THEN Log!Max(I) ELSE 0
  BY DEF Log!Deciding, Log!SelectLastInSeq
<1>2. I # {} /\ Len(log) \in Nat /\ I \in SUBSET (0 .. Len(log))
  BY <1>1
<1>3. last \in I /\ \A k \in I : k <= last
  <2> HIDE DEF I
  <2>1. \E m \in I : \A k \in I : m >= k
    <3>1. PICK m \in I : \A k \in I : k <= m
      BY <1>2, GreatestElement
    <3>2. QED
      BY <1>2, <3>1
  <2>2. Log!Max(I) \in I /\ \A k \in I : Log!Max(I) >= k
    BY <2>1 DEF Log!Max
  <2>3. QED
    BY <1>1, <1>2, <2>2
<1> HIDE DEF last
<1>4. last \in 1 .. Len(log) /\ log[last].artifact = name
  BY <1>3
<1>5. NewestAt(last, Len(log))
  BY <1>2, <1>3, <1>4 DEF NewestAt
<1>6. log[last].sha256 \in Digests
  <2>1. log[last] \in LogEntries
    BY <1>4
  <2>2. QED
    BY <2>1 DEF LogEntries
<1>7. Len(log) \in began .. Len(log)
  BY <1>2
<1>8. <<name, log[last].sha256>> \in SignedIds
  BY <1>4, <1>5, <1>6, <1>7 DEF SignedIds
<1>9. QED
  BY <1>8 DEF last

(* Only a person's line makes the log longer, and only a load's beginning   *)
(* moves where it begins.                                                   *)
LEMMA LogGrows ==
  ASSUME SignedInv, Next, ~ Begin
  PROVE  /\ log' \in Seq(LogEntries) /\ began' \in 0 .. Len(log')
         /\ SignedIds \subseteq SignedIds'
<1>1. began' = began
  BY DEF Next, LoadStep, List, ReadAmendment, CheckLedger, CheckContent, BuildRecord, ReadBound,
         Amend, Done, Return, Edit, SignOff, Rest, vars, historyVars
<1>2. CASE \E name \in Names : SignOff(name)
  <2>1. PICK name \in Names : SignOff(name)
    BY <1>2
  <2>2. ASSUME NEW content \in ContentsOf[name], Log!Sign(Entry(name, Sha(content)))
        PROVE  \E entry \in LogEntries : log' = Append(log, entry)
    <3>1. Sha(content) \in Digests
      BY DEF Digests, Raws, Paths
    <3>2. Entry(name, Sha(content)) \in LogEntries
      BY <3>1 DEF Entry, LogEntries
    <3>3. QED
      BY <2>2, <3>2 DEF Log!Sign
  <2>3. ASSUME Log!Revoke(Entry(name, Null))
        PROVE  \E entry \in LogEntries : log' = Append(log, entry)
    <3>1. Entry(name, Null) \in LogEntries
      BY DEF Entry, LogEntries, Digests
    <3>2. QED
      BY <2>3, <3>1 DEF Log!Revoke
  <2>4. \E entry \in LogEntries : log' = Append(log, entry)
    BY <2>1, <2>2, <2>3 DEF SignOff
  <2>5. QED
    BY <1>1, <2>4, SignedStay DEF SignedInv
<1>3. CASE ~ \E name \in Names : SignOff(name)
  <2>1. log' = log
    BY <1>3 DEF Next, LoadStep, List, ReadAmendment, CheckLedger, CheckContent, BuildRecord,
                ReadBound, Amend, Done, Return, Edit, Rest, vars, historyVars
  <2>2. QED
    BY <1>1, <2>1, SignedStay DEF SignedInv
<1>4. QED
  BY <1>2, <1>3

(* Nothing that a refused load, or one at rest, holds was to be signed. *)
LEMMA SignedAtRest ==
  ASSUME log' \in Seq(LogEntries), began' \in 0 .. Len(log'),
         load'.pc \in {"idle", "list", "refused"}, load'.signed = <<>>
  PROVE  SignedInv'
BY DEF SignedInv

(* A step that holds what was held, or fewer, keeps it signed. *)
LEMMA SignedKept ==
  ASSUME SignedInv, Next, ~ Begin, load'.signed = load.signed, load'.pc # "content",
         load'.pc \in {"bound", "done"} =>
           load.pc \in {"bound", "done"} /\ load'.rule = load.rule
  PROVE  SignedInv'
BY LogGrows DEF SignedInv

(* Whatever is read, taken or applied was signed when the ledger was read. *)
LEMMA NextSigned == LoadInv /\ SignedInv /\ [Next]_vars => SignedInv'
<1> SUFFICES ASSUME LoadInv, SignedInv, [Next]_vars PROVE SignedInv'
  OBVIOUS
<1>1. LoadHolds
  BY DEF LoadInv
<1>2. CASE UNCHANGED vars
  <2>1. log' = log /\ load' = load /\ began' = began
    BY <1>2 DEF vars, historyVars
  <2>2. SignedIds' = SignedIds
    BY <2>1 DEF SignedIds, NewestAt
  <2>3. QED
    BY <2>1, <2>2 DEF SignedInv
<1>3. CASE Begin
  <2>1. load'.pc = "list" /\ load'.signed = <<>> /\ log' = log /\ began' = Len(log)
    BY <1>3 DEF Begin, NoLoad
  <2>2. log' \in Seq(LogEntries) /\ began' \in 0 .. Len(log')
    BY <2>1 DEF SignedInv
  <2>3. QED
    BY <2>1, <2>2, SignedAtRest
<1>4. ASSUME Next, ~ Begin, Refuse \/ Return PROVE SignedInv'
  <2>1. load'.pc \in {"idle", "refused"} /\ load'.signed = <<>>
    BY <1>4, RefuseLeaves DEF Return, NoLoad
  <2>2. QED
    BY <1>4, <2>1, LogGrows, SignedAtRest
<1>5. ASSUME Next, ~ Begin, ~ Refuse, List \/ ReadAmendment \/ ReadBound \/ Done PROVE SignedInv'
  <2>1. load'.signed = load.signed /\ load'.rule = load.rule /\ load'.pc # "content"
    <3>1. CASE List
      <4>1. PICK names : load' = [load EXCEPT !.pc = "read", !.names = names]
        BY <1>5, <3>1 DEF List
      <4>2. QED
        BY <1>1, <4>1 DEF LoadHolds
    <3>2. CASE ReadAmendment \/ ReadBound \/ Done
      BY <1>1, <1>5, <3>2 DEF ReadAmendment, ReadBound, Done, LoadHolds
    <3>3. QED
      BY <1>5, <3>1, <3>2
  <2>2. load'.pc \in {"bound", "done"} => load.pc \in {"bound", "done"}
    BY <1>1, <1>5 DEF List, ReadAmendment, ReadBound, Done, LoadHolds
  <2>3. QED
    BY <1>5, <2>1, <2>2, SignedKept
<1>6. ASSUME Next, ~ Begin, ~ Refuse, CheckLedger PROVE SignedInv'
  <2> DEFINE n == Log!Deciding(Oldest(load.names))
  <2>1. n # 0 /\ load' = [load EXCEPT !.pc = "content", !.line = log[n]] /\ load.pc = "ledger"
    BY <1>6 DEF CheckLedger
  <2>2. Oldest(load.names) \in Names
    BY <1>1, <2>1, OldestIsOne DEF LoadHolds
  <2>3. <<Oldest(load.names), log[n].sha256>> \in SignedIds
    BY <2>1, <2>2, SignedNow DEF SignedInv
  <2> HIDE DEF n
  <2>4. /\ load'.pc = "content" /\ load'.line = log[n] /\ load'.names = load.names
        /\ load'.signed = load.signed
    BY <1>1, <2>1 DEF LoadHolds
  <2>5. <<Oldest(load'.names), load'.line.sha256>> \in SignedIds'
    BY <1>6, <2>3, <2>4, LogGrows
  <2>6. QED
    BY <1>6, <2>4, <2>5, LogGrows DEF SignedInv
<1>7. ASSUME Next, ~ Begin, ~ Refuse, CheckContent PROVE SignedInv'
  <2> DEFINE next == [name |-> Oldest(load.names), content |-> load.content]
  <2>1. Take /\ load.pc = "content" /\ Sha(load.content) = load.line.sha256
    BY <1>7 DEF CheckContent
  <2>2. IdOf(next.name, next.content) \in SignedIds
    BY <2>1 DEF SignedInv, IdOf
  <2> HIDE DEF next
  <2>3. load'.pc = "read" /\ load'.signed = Append(load.signed, next)
    BY <1>1, <2>1 DEF Take, LoadHolds, next
  <2>4. load.signed \in Seq(Waiting)
    BY <1>1 DEF LoadHolds
  <2>5. next \in Waiting
    BY <1>1, <2>1, OldestIsOne DEF next, Waiting, LoadHolds
  <2>6. ASSUME NEW i \in 1 .. Len(load'.signed)
        PROVE  IdOf(load'.signed[i].name, load'.signed[i].content) \in SignedIds'
    <3>1. CASE i \in 1 .. Len(load.signed)
      <4>1. load'.signed[i] = load.signed[i]
        BY <2>3, <2>4, <2>5, <3>1
      <4>2. IdOf(load.signed[i].name, load.signed[i].content) \in SignedIds
        BY <3>1 DEF SignedInv
      <4>3. QED
        BY <1>7, <4>1, <4>2, LogGrows
    <3>2. CASE i \notin 1 .. Len(load.signed)
      <4>1. load'.signed[i] = next
        BY <2>3, <2>4, <2>5, <3>2
      <4>2. QED
        BY <1>7, <2>2, <4>1, LogGrows
    <3>3. QED
      BY <3>1, <3>2
  <2>7. QED
    BY <1>7, <2>3, <2>6, LogGrows DEF SignedInv
<1>8. ASSUME Next, ~ Begin, ~ Refuse, BuildRecord PROVE SignedInv'
  <2>1. load'.pc = "bound" /\ load'.signed = load.signed /\ load'.rule.amendments = <<>>
    <3>1. Bind(RuleOf(RecordFile, load.raw, Decoded[load.raw]), load.signed)
      BY <1>8 DEF BuildRecord
    <3>2. /\ load'.pc = "bound" /\ load'.signed = load.signed
          /\ load'.rule = RuleOf(RecordFile, load.raw, Decoded[load.raw])
      BY <1>1, <3>1 DEF Bind, LoadHolds
    <3>3. QED
      BY <3>2 DEF RuleOf
  <2>2. QED
    BY <1>8, <2>1, LogGrows DEF SignedInv
<1>9. ASSUME Next, ~ Begin, ~ Refuse, Amend PROVE SignedInv'
  <2> DEFINE next == Head(load.signed)
             last == [name |-> next.name, id |-> IdOf(next.name, next.content), raw |-> next.content,
                      touches |-> Touches(load.rule.record, Decoded[next.content].record)]
  <2>1. load.pc = "bound" /\ load.signed # <<>> /\ load.signed \in Seq(Waiting)
    BY <1>1, <1>9 DEF Amend, LoadHolds
  <2>2. next = load.signed[1] /\ 1 \in 1 .. Len(load.signed)
    BY <2>1
  <2>3. IdOf(next.name, next.content) \in SignedIds
    BY <2>2 DEF SignedInv
  <2>4. /\ load'.pc = "bound" /\ load'.signed = Tail(load.signed)
        /\ load'.rule = Amended(load.rule, next.name, next.content, Decoded[next.content])
    BY <1>1, <1>9 DEF Amend, Bind, LoadHolds
  <2>5. load'.rule.amendments = Append(load.rule.amendments, last)
    BY <2>4 DEF Amended
  <2>6. load.rule.amendments \in Seq(Applied)
    BY <1>1, <2>1 DEF LoadHolds, Chained
  <2>7. last.id = IdOf(next.name, next.content)
    OBVIOUS
  <2> HIDE DEF next, last
  <2>8. ASSUME NEW k \in 1 .. Len(load'.rule.amendments)
        PROVE  load'.rule.amendments[k].id \in SignedIds'
    <3>1. Len(load.rule.amendments) \in Nat
      BY <2>6
    <3>2. CASE k \in 1 .. Len(load.rule.amendments)
      <4>1. load'.rule.amendments[k] = load.rule.amendments[k]
        BY <2>5, <2>6, <3>2
      <4>2. load.rule.amendments[k].id \in SignedIds
        BY <2>1, <3>2 DEF SignedInv
      <4>3. QED
        BY <1>9, <4>1, <4>2, LogGrows
    <3>3. CASE k \notin 1 .. Len(load.rule.amendments)
      <4>1. load'.rule.amendments[k] = last
        BY <2>5, <2>6, <3>1, <3>3
      <4>2. QED
        BY <1>9, <2>3, <2>7, <4>1, LogGrows
    <3>4. QED
      BY <3>2, <3>3
  <2>9. ASSUME NEW i \in 1 .. Len(load'.signed)
        PROVE  IdOf(load'.signed[i].name, load'.signed[i].content) \in SignedIds'
    <3>1. i + 1 \in 1 .. Len(load.signed) /\ load'.signed[i] = load.signed[i + 1]
      BY <2>1, <2>4
    <3>2. IdOf(load.signed[i + 1].name, load.signed[i + 1].content) \in SignedIds
      BY <3>1 DEF SignedInv
    <3>3. QED
      BY <1>9, <3>1, <3>2, LogGrows
  <2>10. QED
    BY <1>9, <2>4, <2>8, <2>9, LogGrows DEF SignedInv
<1>10. ASSUME Next, ~ Begin, UNCHANGED load PROVE SignedInv'
  BY <1>10, LogGrows DEF SignedInv
<1>11. CASE Next /\ ~ Begin
  <2>1. (\E path \in Paths : Edit(path)) \/ (\E name \in Names : SignOff(name)) \/ Rest
          => UNCHANGED load
    BY DEF Edit, SignOff, Rest, vars
  <2>2. QED
    BY <1>4, <1>5, <1>6, <1>7, <1>8, <1>9, <1>10, <1>11, <2>1 DEF Next, LoadStep
<1>12. QED
  BY <1>2, <1>3, <1>11

(* The newest of the first n entries, as SelectLastInSeq finds it. *)
LEMMA NewestFound ==
  ASSUME log \in Seq(LogEntries), NEW n \in 0 .. Len(log), NEW i \in 1 .. n, NewestAt(i, n),
         NEW name, name = log[i].artifact
  PROVE  LET before == SubSeq(log, 1, n)
             I      == {j \in 1 .. Len(before) : before[j].artifact = name}
         IN  I # {} /\ Max(I) = i /\ before[i] = log[i]
<1> DEFINE before  == SubSeq(log, 1, n)
           I       == {j \in 1 .. Len(before) : before[j].artifact = name}
           highest == Max(I)
<1>1. Len(before) = n /\ \A j \in 1 .. n : before[j] = log[j]
  OBVIOUS
<1> HIDE DEF before
<1>2. i \in I /\ I \in SUBSET Nat
  BY <1>1
<1>3. \A j \in I : j <= i
  BY <1>1 DEF NewestAt
<1> HIDE DEF I
<1>4. highest \in I /\ \A j \in I : highest >= j
  <2>1. \E m \in I : \A j \in I : m >= j
    BY <1>2, <1>3
  <2>2. QED
    BY <2>1 DEF Max
<1> HIDE DEF highest
<1>5. highest = i
  BY <1>2, <1>3, <1>4
<1>6. QED
  BY <1>1, <1>2, <1>5 DEF before, I, highest

(* An amendment is applied only once signed (_rule.py:573-576): for each    *)
(* that a rule applies, at some moment of the load the newest line of the   *)
(* ledger about it signed exactly the bytes applied.                        *)
THEOREM AppliedWereSignedHolds == Spec => []AppliedWereSigned
<1>1. Init => SignedInv
  BY DEF Init, NoLoad, SignedInv
<1>2. LoadInv /\ SignedInv /\ [Next]_vars => SignedInv'
  BY NextSigned
<1>3. SignedInv => AppliedWereSigned
  <2> SUFFICES ASSUME SignedInv, load.pc = "done", NEW k \in 1 .. Len(load.rule.amendments)
               PROVE  \E n \in began .. Len(log), name \in Names :
                        LET before == SubSeq(log, 1, n)
                            last   == SelectLastInSeq(before,
                                        LAMBDA entry : entry.artifact = name)
                        IN  /\ last # 0
                            /\ load.rule.amendments[k].id = <<name, before[last].sha256>>
    BY DEF AppliedWereSigned
  <2> DEFINE id == load.rule.amendments[k].id
  <2>1. id \in SignedIds
    BY DEF SignedInv
  <2>2. id \in Names \X Digests
    BY <2>1 DEF SignedIds
  <2>3. PICK n \in began .. Len(log) : \E i \in 1 .. n :
          log[i].artifact = id[1] /\ log[i].sha256 = id[2] /\ NewestAt(i, n)
    BY <2>1 DEF SignedIds
  <2>4. PICK i \in 1 .. n :
          log[i].artifact = id[1] /\ log[i].sha256 = id[2] /\ NewestAt(i, n)
    BY <2>3
  <2> HIDE DEF id
  <2>5. PICK name \in Names : name = id[1] /\ id = <<name, log[i].sha256>>
    BY <2>2, <2>4
  <2>6. n \in 0 .. Len(log) /\ log \in Seq(LogEntries) /\ i # 0
    BY DEF SignedInv
  <2> DEFINE before == SubSeq(log, 1, n)
             I      == {j \in 1 .. Len(before) : before[j].artifact = name}
             last   == SelectLastInSeq(before, LAMBDA entry : entry.artifact = name)
  <2>7. I # {} /\ Max(I) = i /\ before[i] = log[i]
    BY <2>4, <2>5, <2>6, NewestFound
  <2>8. last = IF I # {} THEN Max(I) ELSE 0
    BY DEF SelectLastInSeq
  <2> HIDE DEF before, I
  <2>9. last = i
    BY <2>7, <2>8
  <2>10. last # 0 /\ id = <<name, before[last].sha256>>
    BY <2>5, <2>6, <2>7, <2>9
  <2>11. QED
    BY <2>5, <2>10 DEF id, before
<1>4. QED
  BY <1>1, <1>2, <1>3, LoadInvHolds, PTL DEF Spec

-----------------------------------------------------------------------------
(* None is passed over *)

(* The amendments that wait, or are applied, with what their files hold. *)
WaitingAsIs ==
  {name \in Names : \E i \in 1 .. Len(load.signed) :
     load.signed[i].name = name /\ load.signed[i].content = files[name]}
AppliedAsIs ==
  {name \in Names : \E k \in 1 .. Len(load.rule.amendments) :
     load.rule.amendments[k].id = IdOf(name, files[name])}

PassInv ==
  /\ stood \subseteq {name \in Names : files[name] # Missing}
  /\ load.pc \in {"read", "ledger", "content"} => stood \subseteq load.names \cup WaitingAsIs
  /\ load.pc \in {"ledger", "content"} /\ Oldest(load.names) \in stood =>
       load.content = files[Oldest(load.names)]
  /\ load.pc \in {"bound", "done"} => stood \subseteq WaitingAsIs \cup AppliedAsIs
  /\ load.pc = "done" => load.signed = <<>>

(* A load at rest, or one that has only begun, has passed nothing over. *)
LEMMA PassAtRest ==
  ASSUME load'.pc \in {"idle", "list", "refused"},
         stood' \subseteq {name \in Names : files'[name] # Missing}
  PROVE  PassInv'
BY DEF PassInv

(* An edit takes the file it changes from those that stood.                 *)
LEMMA EditPass ==
  ASSUME LoadInv, PassInv, NEW path \in Paths, Edit(path)
  PROVE  PassInv'
<1>1. PICK content : files' = [files EXCEPT ![path] = content]
  BY DEF Edit
<1>2. stood' = stood \ {path} /\ load' = load
  BY DEF Edit
<1>3. ASSUME NEW name \in stood' PROVE name \in stood /\ name \in Names /\ files'[name] = files[name]
  BY <1>1, <1>2 DEF PassInv, LoadInv, Paths
<1>4. /\ stood' \cap WaitingAsIs \subseteq WaitingAsIs'
      /\ stood' \cap AppliedAsIs \subseteq AppliedAsIs'
  BY <1>2, <1>3 DEF WaitingAsIs, AppliedAsIs
<1>5. stood' \subseteq {name \in Names : files'[name] # Missing}
  BY <1>3 DEF PassInv
<1>6. /\ load'.pc \in {"ledger", "content"} /\ Oldest(load'.names) \in stood'
      => load'.content = files'[Oldest(load'.names)]
  BY <1>2, <1>3 DEF PassInv
<1>7. QED
  BY <1>2, <1>3, <1>4, <1>5, <1>6 DEF PassInv

(* An amendment that is taken waits, as its file still is if that stood.    *)
LEMMA TakePass ==
  ASSUME LoadInv, PassInv, CheckContent, ~ Refuse
  PROVE  PassInv'
<1> DEFINE oldest == Oldest(load.names)
           next   == [name |-> oldest, content |-> load.content]
<1>1. LoadHolds /\ Take /\ load.pc = "content" /\ UNCHANGED <<files, stood>>
  BY DEF LoadInv, CheckContent, historyVars
<1>2. oldest \in Names
  BY <1>1, OldestIsOne DEF LoadHolds
<1>3. next \in Waiting /\ load.signed \in Seq(Waiting)
  BY <1>1, <1>2 DEF Waiting, LoadHolds
<1>4. next.name = oldest /\ next.content = load.content
  OBVIOUS
<1> HIDE DEF next
<1>5. /\ load'.pc = "read" /\ load'.names = load.names \ {oldest}
      /\ load'.signed = Append(load.signed, next)
  BY <1>1 DEF Take, LoadHolds, next
<1> HIDE DEF oldest
<1>6. WaitingAsIs \subseteq WaitingAsIs'
  <2>1. ASSUME NEW i \in 1 .. Len(load.signed)
        PROVE  i \in 1 .. Len(load'.signed) /\ load'.signed[i] = load.signed[i]
    BY <1>3, <1>5
  <2>2. QED
    BY <1>1, <2>1 DEF WaitingAsIs
<1>7. oldest \in stood => oldest \in WaitingAsIs'
  <2>1. /\ Len(load.signed) + 1 \in 1 .. Len(load'.signed)
        /\ load'.signed[Len(load.signed) + 1] = next
    BY <1>3, <1>5
  <2>2. oldest \in stood => load.content = files[oldest]
    BY <1>1 DEF PassInv, oldest
  <2>3. QED
    BY <1>1, <1>2, <1>4, <2>1, <2>2 DEF WaitingAsIs
<1>8. stood \subseteq load.names \cup WaitingAsIs
  BY <1>1 DEF PassInv
<1>9. QED
  BY <1>1, <1>5, <1>6, <1>7, <1>8 DEF PassInv

(* An amendment that is applied goes from those that wait to the rule's.    *)
LEMMA AmendPass ==
  ASSUME LoadInv, PassInv, Amend, ~ Refuse
  PROVE  PassInv'
<1> DEFINE next == Head(load.signed)
           last == [name |-> next.name, id |-> IdOf(next.name, next.content), raw |-> next.content,
                    touches |-> Touches(load.rule.record, Decoded[next.content].record)]
<1>1. /\ LoadHolds /\ load.pc = "bound" /\ UNCHANGED <<files, stood>>
      /\ load.signed # <<>> /\ load.signed \in Seq(Waiting)
  BY DEF LoadInv, LoadHolds, Amend, historyVars
<1>2. /\ load'.pc = "bound" /\ load'.signed = Tail(load.signed)
      /\ load'.rule = Amended(load.rule, next.name, next.content, Decoded[next.content])
  BY <1>1 DEF Amend, Bind, LoadHolds
<1>3. load'.rule.amendments = Append(load.rule.amendments, last)
  BY <1>2 DEF Amended
<1>4. load.rule.amendments \in Seq(Applied)
  BY <1>1 DEF LoadHolds, Chained
<1>5. last.id = IdOf(next.name, next.content) /\ next = load.signed[1]
  BY <1>1
<1> HIDE DEF next, last
<1>6. AppliedAsIs \subseteq AppliedAsIs'
  <2>1. ASSUME NEW k \in 1 .. Len(load.rule.amendments)
        PROVE  /\ k \in 1 .. Len(load'.rule.amendments)
               /\ load'.rule.amendments[k] = load.rule.amendments[k]
    BY <1>3, <1>4
  <2>2. QED
    BY <1>1, <2>1 DEF AppliedAsIs
<1>7. WaitingAsIs \subseteq WaitingAsIs' \cup AppliedAsIs'
  <2>1. SUFFICES ASSUME NEW name \in Names, NEW i \in 1 .. Len(load.signed),
                        load.signed[i].name = name, load.signed[i].content = files[name]
                 PROVE  name \in WaitingAsIs' \cup AppliedAsIs'
    BY DEF WaitingAsIs
  <2>2. CASE i = 1
    <3>1. /\ Len(load.rule.amendments) + 1 \in 1 .. Len(load'.rule.amendments)
          /\ load'.rule.amendments[Len(load.rule.amendments) + 1] = last
      BY <1>3, <1>4
    <3>2. last.id = IdOf(name, files[name])
      BY <1>5, <2>1, <2>2
    <3>3. QED
      BY <1>1, <3>1, <3>2 DEF AppliedAsIs
  <2>3. CASE i # 1
    <3>1. i - 1 \in 1 .. Len(load'.signed) /\ load'.signed[i - 1] = load.signed[i]
      BY <1>1, <1>2, <2>3
    <3>2. QED
      BY <1>1, <2>1, <3>1 DEF WaitingAsIs
  <2>4. QED
    BY <2>2, <2>3
<1>8. stood \subseteq WaitingAsIs \cup AppliedAsIs
  BY <1>1 DEF PassInv
<1>9. stood' \subseteq {name \in Names : files'[name] # Missing}
  BY <1>1 DEF PassInv
<1>10. QED
  BY <1>1, <1>2, <1>6, <1>7, <1>8, <1>9 DEF PassInv

(* The other steps of load. *)
LEMMA StepPass ==
  ASSUME LoadInv, PassInv, ~ Refuse,
         List \/ ReadAmendment \/ CheckLedger \/ BuildRecord \/ ReadBound \/ Done
  PROVE  PassInv'
<1>1. LoadHolds /\ UNCHANGED <<files, stood>>
  BY DEF LoadInv, List, ReadAmendment, CheckLedger, BuildRecord, ReadBound, Done, historyVars
<1>2. stood' \subseteq {name \in Names : files'[name] # Missing}
  BY <1>1 DEF PassInv
<1>3. ASSUME load'.signed = load.signed PROVE WaitingAsIs' = WaitingAsIs
  BY <1>1, <1>3 DEF WaitingAsIs
<1>4. ASSUME load'.rule = load.rule PROVE AppliedAsIs' = AppliedAsIs
  BY <1>1, <1>4 DEF AppliedAsIs
<1>5. CASE List
  <2> DEFINE names == {name \in Names : files[name] # Missing}
  <2>1. stood \subseteq names
    BY DEF PassInv
  <2>2. load' = [load EXCEPT !.pc = "read", !.names = names]
    BY <1>5 DEF List
  <2> HIDE DEF names
  <2>3. load'.pc = "read" /\ load'.names = names
    BY <1>1, <2>2 DEF LoadHolds
  <2>4. QED
    BY <1>1, <1>2, <2>1, <2>3 DEF PassInv
<1>6. CASE ReadAmendment
  <2> DEFINE content == files[Oldest(load.names)]
  <2>1. load' = [load EXCEPT !.pc = "ledger", !.content = content] /\ load.pc = "read"
    BY <1>6 DEF ReadAmendment
  <2> HIDE DEF content
  <2>2. /\ load'.pc = "ledger" /\ load'.names = load.names /\ load'.signed = load.signed
        /\ load'.content = content
    BY <1>1, <2>1 DEF LoadHolds
  <2>3. load'.content = files'[Oldest(load'.names)]
    BY <1>1, <2>2 DEF content
  <2>4. stood \subseteq load.names \cup WaitingAsIs
    BY <2>1 DEF PassInv
  <2>5. QED
    BY <1>1, <1>2, <1>3, <2>2, <2>3, <2>4 DEF PassInv
<1>7. CASE CheckLedger
  <2>1. PICK line : load' = [load EXCEPT !.pc = "content", !.line = line]
    BY <1>7 DEF CheckLedger
  <2>2. /\ load'.pc = "content" /\ load'.names = load.names /\ load'.signed = load.signed
        /\ load'.content = load.content /\ load.pc = "ledger"
    BY <1>1, <1>7, <2>1 DEF LoadHolds, CheckLedger
  <2>3. /\ stood \subseteq load.names \cup WaitingAsIs
        /\ Oldest(load.names) \in stood => load.content = files[Oldest(load.names)]
    BY <2>2 DEF PassInv
  <2>4. QED
    BY <1>1, <1>2, <1>3, <2>2, <2>3 DEF PassInv
<1>8. CASE BuildRecord
  <2>1. PICK rule : Bind(rule, load.signed)
    BY <1>8 DEF BuildRecord
  <2>2. load'.pc = "bound" /\ load'.signed = load.signed
    BY <1>1, <2>1 DEF Bind, LoadHolds
  <2>3. stood \subseteq WaitingAsIs
    BY <1>8 DEF BuildRecord, PassInv
  <2>4. QED
    BY <1>1, <1>2, <1>3, <2>2, <2>3 DEF PassInv
<1>9. CASE ReadBound \/ Done
  <2>1. /\ load.pc = "bound" /\ load'.signed = load.signed /\ load'.rule = load.rule
        /\ load'.pc \in {"bound", "done"} /\ (load'.pc = "done" => load'.signed = <<>>)
    BY <1>1, <1>9 DEF ReadBound, Done, LoadHolds
  <2>2. stood \subseteq WaitingAsIs \cup AppliedAsIs
    BY <2>1 DEF PassInv
  <2>3. QED
    BY <1>1, <1>2, <1>3, <1>4, <2>1, <2>2 DEF PassInv
<1>10. QED
  BY <1>5, <1>6, <1>7, <1>8, <1>9

(* No step passes over an amendment that stood. *)
LEMMA NextPass == LoadInv /\ PassInv /\ [Next]_vars => PassInv'
<1> SUFFICES ASSUME LoadInv, PassInv, [Next]_vars PROVE PassInv'
  OBVIOUS
<1>1. CASE UNCHANGED vars
  BY <1>1 DEF vars, historyVars, PassInv, WaitingAsIs, AppliedAsIs
<1>2. CASE Begin
  <2>1. /\ load'.pc = "list" /\ files' = files
        /\ stood' = {name \in Names : files[name] # Missing}
    BY <1>2 DEF Begin, NoLoad
  <2>2. QED
    BY <2>1, PassAtRest
<1>3. ASSUME LoadStep, Refuse \/ Return PROVE PassInv'
  <2>1. load'.pc \in {"idle", "refused"}
    BY <1>3, RefuseLeaves DEF Return, NoLoad
  <2>2. UNCHANGED <<files, stood>>
    BY <1>3 DEF LoadStep, List, ReadAmendment, CheckLedger, CheckContent, BuildRecord, ReadBound,
                Amend, Done, Return, historyVars
  <2>3. stood' \subseteq {name \in Names : files'[name] # Missing}
    BY <2>2 DEF PassInv
  <2>4. QED
    BY <2>1, <2>3, PassAtRest
<1>4. ASSUME LoadStep, ~ Refuse, ~ Return PROVE PassInv'
  BY <1>4, StepPass, TakePass, AmendPass DEF LoadStep
<1>5. CASE \E path \in Paths : Edit(path)
  BY <1>5, EditPass
<1>6. CASE \E name \in Names : SignOff(name)
  BY <1>6 DEF SignOff, PassInv, WaitingAsIs, AppliedAsIs
<1>7. QED
  BY <1>1, <1>2, <1>3, <1>4, <1>5, <1>6 DEF Next, Rest

(* "an amendment left out unseen would leave the rule unamended"            *)
(* (_rule.py:547): each that lay beside the record, unchanged, from a load's *)
(* beginning to its end is applied, with the bytes it held.                 *)
THEOREM NothingPassedOverHolds == Spec => []NothingPassedOver
<1>1. Init => PassInv
  BY DEF Init, NoLoad, PassInv
<1>2. LoadInv /\ PassInv /\ [Next]_vars => PassInv'
  BY NextPass
<1>3. PassInv => NothingPassedOver
  BY DEF PassInv, NothingPassedOver, WaitingAsIs, AppliedAsIs
<1>4. QED
  BY <1>1, <1>2, <1>3, LoadInvHolds, PTL DEF Spec

-----------------------------------------------------------------------------
(* The amendments beside the record, in order *)

(* How many members of a finite set of naturals are at or below one of them *)
(* is its place, and each place is one member's.                            *)
UpTo(S, k) == Cardinality({j \in S : j <= k})

LEMMA PlacesRise ==
  ASSUME NEW S \in SUBSET Nat, IsFiniteSet(S)
  PROVE  /\ Cardinality(S) \in Nat
         /\ \A k \in S : UpTo(S, k) \in 1 .. Cardinality(S)
         /\ \A k, m \in S : k < m => UpTo(S, k) < UpTo(S, m)
         /\ \A i \in 1 .. Cardinality(S) : \E k \in S : UpTo(S, k) = i
<1> DEFINE Upto(k) == {j \in S : j <= k}
<1>1. Cardinality(S) \in Nat
  BY FS_CardinalityType
<1>2. ASSUME NEW k \in S
      PROVE  IsFiniteSet(Upto(k)) /\ Cardinality(Upto(k)) \in 1 .. Cardinality(S)
  <2>0. Upto(k) \in SUBSET S
    OBVIOUS
  <2> HIDE DEF Upto
  <2>1. IsFiniteSet(Upto(k)) /\ Cardinality(Upto(k)) <= Cardinality(S)
    BY <2>0, FS_Subset
  <2> USE DEF Upto
  <2>2. k \in Upto(k)
    OBVIOUS
  <2>3. Cardinality(Upto(k)) \in Nat /\ Cardinality(Upto(k)) # 0
    BY <2>1, <2>2, FS_CardinalityType, FS_EmptySet
  <2> QED
    BY <1>1, <2>1, <2>3
<1>3. ASSUME NEW k \in S, NEW m \in S, k < m
      PROVE  Cardinality(Upto(k)) < Cardinality(Upto(m))
  <2>1. Upto(k) \in SUBSET Upto(m) /\ m \in Upto(m) /\ m \notin Upto(k)
    <3>1. k \in Nat /\ m \in Nat /\ \A j \in S : j \in Nat
      OBVIOUS
    <3>2. (\A j \in S : j <= k => j <= m) /\ m <= m /\ ~ (m <= k)
      BY <1>3, <3>1
    <3> QED
      BY <3>2
  <2>2. Cardinality(Upto(k)) <= Cardinality(Upto(m)) /\ Cardinality(Upto(k)) # Cardinality(Upto(m))
    BY <1>2, <2>1, FS_Subset
  <2> QED
    BY <1>2, <2>2
<1>4. ASSUME NEW i \in 1 .. Cardinality(S) PROVE \E k \in S : Cardinality(Upto(k)) = i
  <2> DEFINE T == 1 .. Cardinality(S)
             f == [k \in S |-> Cardinality(Upto(k))]
  <2>1. f \in [S -> T]
    BY <1>2
  <2>2. \A k, m \in S : k # m => Cardinality(Upto(k)) # Cardinality(Upto(m))
    <3>1. SUFFICES ASSUME NEW k \in S, NEW m \in S, k < m
                   PROVE  Cardinality(Upto(k)) # Cardinality(Upto(m))
      <4>1. \A k, m \in S : k # m => k < m \/ m < k
        OBVIOUS
      <4> QED
        BY <3>1, <4>1
    <3> QED
      BY <1>2, <1>3, <3>1
  <2>3. f \in Injection(S, T)
    BY <2>1, <2>2 DEF Injection, IsInjective
  <2>4. IsFiniteSet(T) /\ Cardinality(T) = Cardinality(S)
    BY <1>1, FS_Interval
  <2> HIDE DEF f, T
  <2>5. f \in Surjection(S, T)
    BY <2>3, <2>4, FS_Injection
  <2>6. i \in T
    BY DEF T
  <2>7. \E k \in S : f[k] = i
    BY <2>5, <2>6 DEF Surjection
  <2> QED
    BY <2>7 DEF f
<1> QED
  BY <1>1, <1>2, <1>3, <1>4 DEF UpTo

(* Beside lists the amendments there are, in the order of AmendmentFiles. *)
LEMMA BesideRises ==
  /\ Cardinality(Present) \in Nat
  /\ \E at \in [1 .. Cardinality(Present) -> 1 .. Len(AmendmentFiles)] :
       /\ \A i \in 1 .. Cardinality(Present) : Beside[i] = AmendmentFiles[at[i]]
       /\ \A i, j \in 1 .. Cardinality(Present) : i < j => at[i] < at[j]
       /\ \A k : k \in Present <=> \E i \in 1 .. Cardinality(Present) : k = at[i]
<1> DEFINE n  == Cardinality(Present)
           at == [i \in 1 .. n |-> CHOOSE k \in Present : UpTo(Present, k) = i]
<1>1. AmendmentFiles \in Seq(Names) /\ Len(AmendmentFiles) \in Nat
  BY PathsAssumption
<1>2. Present \in SUBSET Nat /\ Present \subseteq 1 .. Len(AmendmentFiles) /\ IsFiniteSet(Present)
  <2>1. Present \in SUBSET (1 .. Len(AmendmentFiles))
    BY DEF Present
  <2>2. IsFiniteSet(1 .. Len(AmendmentFiles))
    BY <1>1, FS_Interval
  <2>3. IsFiniteSet(Present)
    BY <2>1, <2>2, FS_Subset, Zenon
  <2> QED
    BY <1>1, <2>1, <2>3
<1>3. /\ n \in Nat
      /\ \A k \in Present : UpTo(Present, k) \in 1 .. n
      /\ \A k, m \in Present : k < m => UpTo(Present, k) < UpTo(Present, m)
      /\ \A i \in 1 .. n : \E k \in Present : UpTo(Present, k) = i
  BY <1>2, PlacesRise
<1>4. \A i \in 1 .. n : Beside[i] = AmendmentFiles[at[i]]
  BY DEF Beside, UpTo
<1> HIDE DEF n
<1>5. \A i \in 1 .. n : at[i] \in Present /\ UpTo(Present, at[i]) = i
  BY <1>3
<1> HIDE DEF at
<1>6. \A k, m \in Present : k = m \/ k < m \/ m < k
  BY <1>2
<1>7. ASSUME NEW i \in 1 .. n, NEW j \in 1 .. n, i < j PROVE at[i] < at[j]
  <2>1. at[i] \in Present /\ at[j] \in Present /\ UpTo(Present, at[i]) = i /\ UpTo(Present, at[j]) = j
    BY <1>5
  <2>2. CASE at[j] < at[i]
    BY <1>3, <1>7, <2>1, <2>2
  <2>3. CASE at[i] = at[j]
    BY <1>3, <1>7, <2>1, <2>3
  <2> QED
    BY <1>6, <2>1, <2>2, <2>3
<1>8. ASSUME NEW k \in Present PROVE \E i \in 1 .. n : k = at[i]
  <2>1. UpTo(Present, k) \in 1 .. n
    BY <1>3
  <2>2. PICK i \in 1 .. n : UpTo(Present, k) = i
    BY <2>1
  <2>3. at[i] \in Present /\ UpTo(Present, at[i]) = i /\ i \in Int
    BY <1>3, <1>5
  <2>4. k = at[i]
    <3>1. \A m \in Present : k < m => i < UpTo(Present, m)
      BY <1>3, <2>2
    <3>2. \A m \in Present : m < k => UpTo(Present, m) < i
      BY <1>3, <2>2
    <3> QED
      BY <1>6, <2>3, <3>1, <3>2
  <2> QED
    BY <2>4
<1>9. at \in [1 .. n -> 1 .. Len(AmendmentFiles)]
  BY <1>2, <1>5 DEF at
<1>10. \A k : k \in Present <=> \E i \in 1 .. n : k = at[i]
  BY <1>5, <1>8
<1>11. \E to \in [1 .. n -> 1 .. Len(AmendmentFiles)] :
         /\ \A i \in 1 .. n : Beside[i] = AmendmentFiles[to[i]]
         /\ \A i, j \in 1 .. n : i < j => to[i] < to[j]
         /\ \A k : k \in Present <=> \E i \in 1 .. n : k = to[i]
  BY <1>4, <1>7, <1>9, <1>10
<1> QED
  BY <1>3, <1>11 DEF n

(* The rest of Beside from its i-th amendment on. *)
From(i) == {Beside[j] : j \in i .. Len(Beside)}

(* Taking the oldest first takes them in the order of Beside. *)
LEMMA BesideInOrder ==
  /\ Beside \in Seq(Names) /\ From(1) = {name \in Names : files[name] # Missing}
  /\ \A i \in 1 .. Len(Beside) : /\ files[Beside[i]] # Missing /\ Oldest(From(i)) = Beside[i]
                                 /\ From(i) # {} /\ From(i) \ {Beside[i]} = From(i + 1)
  /\ From(Len(Beside) + 1) = {}
<1> DEFINE n == Cardinality(Present)
<1>1. n \in Nat
  BY BesideRises
<1>2. PICK at \in [1 .. n -> 1 .. Len(AmendmentFiles)] :
        /\ \A i \in 1 .. n : Beside[i] = AmendmentFiles[at[i]]
        /\ \A i, j \in 1 .. n : i < j => at[i] < at[j]
        /\ \A k : k \in Present <=> \E i \in 1 .. n : k = at[i]
  BY BesideRises
<1>3. /\ AmendmentFiles \in Seq(Names) /\ Len(AmendmentFiles) \in Nat
      /\ \A i, j \in 1 .. Len(AmendmentFiles) : AmendmentFiles[i] = AmendmentFiles[j] => i = j
  BY PathsAssumption
<1>4. Names = {AmendmentFiles[k] : k \in 1 .. Len(AmendmentFiles)}
  BY <1>3 DEF Names, ToSet
<1>5. ASSUME NEW i \in 1 .. n PROVE Beside[i] \in Names /\ files[Beside[i]] # Missing
  <2>1. Beside[i] = AmendmentFiles[at[i]] /\ at[i] \in 1 .. Len(AmendmentFiles) /\ at[i] \in Present
    BY <1>2
  <2> QED
    BY <1>3, <2>1 DEF Present
<1>6. Beside \in Seq(Names) /\ Len(Beside) = n
  <2>1. Beside \in [1 .. n -> Names]
    BY <1>5 DEF Beside
  <2> HIDE DEF n
  <2> QED
    BY <1>1, <2>1
<1>7. From(1) = {name \in Names : files[name] # Missing}
  <2>1. ASSUME NEW name \in Names, files[name] # Missing PROVE name \in From(1)
    <3>1. PICK k \in 1 .. Len(AmendmentFiles) : AmendmentFiles[k] = name
      BY <1>4
    <3>2. k \in Present
      BY <2>1, <3>1 DEF Present
    <3>3. PICK i \in 1 .. n : k = at[i]
      BY <1>2, <3>2
    <3> QED
      BY <1>2, <1>6, <3>1, <3>3 DEF From
  <2> QED
    BY <1>5, <1>6, <2>1 DEF From
<1> HIDE DEF n
<1>8. \A i, j \in 1 .. n : i # j => Beside[i] # Beside[j]
  <2>1. ASSUME NEW i \in 1 .. n, NEW j \in 1 .. n, i < j PROVE Beside[i] # Beside[j]
    <3>1. at[i] < at[j] /\ at[i] \in 1 .. Len(AmendmentFiles) /\ at[j] \in 1 .. Len(AmendmentFiles)
      BY <1>2, <2>1
    <3>2. at[i] # at[j]
      BY <1>3, <3>1
    <3> QED
      BY <1>2, <1>3, <3>1, <3>2
  <2>2. \A i, j \in 1 .. n : i # j => i < j \/ j < i
    BY <1>1
  <2> QED
    BY <2>1, <2>2
<1>9. ASSUME NEW i \in 1 .. n PROVE Oldest(From(i)) = Beside[i]
  <2> DEFINE First(name) == \E k \in 1 .. Len(AmendmentFiles) :
               /\ AmendmentFiles[k] = name
               /\ \A j \in 1 .. k - 1 : AmendmentFiles[j] \notin From(i)
  <2>1. \A name \in From(i) : \E j \in i .. n : name = AmendmentFiles[at[j]] /\ at[i] <= at[j]
    <3>1. \A j \in i .. n : j \in 1 .. n /\ (j = i \/ i < j)
      BY <1>1
    <3>2. \A j \in i .. n : Beside[j] = AmendmentFiles[at[j]] /\ at[i] <= at[j]
      BY <1>2, <1>3, <3>1
    <3> QED
      BY <1>6, <3>2 DEF From
  <2>2. Beside[i] \in From(i) /\ First(Beside[i])
    <3>1. i \in i .. n
      BY <1>1
    <3>2. \A j \in 1 .. at[i] - 1 : AmendmentFiles[j] \notin From(i)
      <4>1. SUFFICES ASSUME NEW j \in 1 .. at[i] - 1, AmendmentFiles[j] \in From(i) PROVE FALSE
        OBVIOUS
      <4>2. PICK m \in i .. n : AmendmentFiles[j] = AmendmentFiles[at[m]] /\ at[i] <= at[m]
        BY <2>1, <4>1
      <4>3. at[i] \in 1 .. Len(AmendmentFiles) /\ m \in 1 .. n
        BY <1>1, <1>2
      <4>4. at[m] \in 1 .. Len(AmendmentFiles) /\ j \in 1 .. Len(AmendmentFiles)
        BY <1>2, <1>3, <4>3
      <4>5. j = at[m]
        BY <1>3, <4>2, <4>4
      <4> QED
        BY <4>2, <4>3, <4>4, <4>5
    <3> QED
      BY <1>2, <1>6, <3>1, <3>2 DEF From
  <2>3. ASSUME NEW name \in From(i), First(name) PROVE name = Beside[i]
    <3>1. PICK k \in 1 .. Len(AmendmentFiles) :
            AmendmentFiles[k] = name /\ \A j \in 1 .. k - 1 : AmendmentFiles[j] \notin From(i)
      BY <2>3
    <3>2. PICK m \in i .. n : name = AmendmentFiles[at[m]] /\ at[i] <= at[m]
      BY <2>1
    <3>3. m \in 1 .. n /\ at[m] \in 1 .. Len(AmendmentFiles) /\ at[i] \in 1 .. Len(AmendmentFiles)
      BY <1>1, <1>2
    <3>4. k = at[m]
      BY <1>3, <3>1, <3>2, <3>3
    <3>5. AmendmentFiles[at[i]] \in From(i)
      BY <1>2, <2>2
    <3>6. at[i] = k
      BY <3>1, <3>2, <3>3, <3>4, <3>5
    <3> QED
      BY <1>2, <3>1, <3>6
  <2>4. Oldest(From(i)) = CHOOSE name \in From(i) : First(name)
    BY DEF Oldest
  <2> HIDE DEF First
  <2> QED
    BY <2>2, <2>3, <2>4
<1>10. ASSUME NEW i \in 1 .. n PROVE From(i) # {} /\ From(i) \ {Beside[i]} = From(i + 1)
  <2>1. /\ \A j : j \in i .. n <=> j = i \/ j \in i + 1 .. n
        /\ \A j \in i + 1 .. n : j \in 1 .. n /\ j # i
    BY <1>1
  <2> QED
    BY <1>6, <1>8, <2>1 DEF From
<1>11. From(n + 1) = {}
  BY <1>1, <1>6 DEF From
<1> QED
  BY <1>5, <1>6, <1>7, <1>9, <1>10, <1>11

-----------------------------------------------------------------------------
(* A load that nothing disturbs *)

(* What the files make of the record and its first k amendments. *)
RecordTo(k) == IF k = 0 THEN Decoded[files[RecordFile]] ELSE Decoded[files[Beside[k]]].record
IdTo(k) == IF k = 0 THEN IdOf(RecordFile, files[RecordFile]) ELSE IdOf(Beside[k], files[Beside[k]])
StepTo(k) ==
  [name |-> Beside[k], id |-> IdTo(k), raw |-> files[Beside[k]],
   touches |-> Touches(RecordTo(k - 1), RecordTo(k))]
MadeTo(n) ==
  [id |-> IdTo(n), raw |-> files[RecordFile], record |-> RecordTo(n),
   amendments |-> [k \in 1 .. n |-> StepTo(k)]]

(* The k-th amendment is signed as it is, and follows those before it. *)
SignedAsIs(k) ==
  LET n == Log!Deciding(Beside[k]) IN n # 0 /\ log[n].sha256 = Sha(files[Beside[k]])
Follows(k) ==
  /\ Decoded[files[Beside[k]]].amends = IdTo(k - 1)
  /\ Sound(RecordTo(k)) /\ RecordTo(k).registered = RecordTo(0).registered

(* What waits to be applied, after the first a amendments. *)
WaitsAfter(a, waits) ==
  /\ a + Len(waits) <= Len(Beside)
  /\ \A k \in 1 .. Len(waits) : waits[k].name = Beside[a + k] /\ waits[k].content = files[Beside[a + k]]

(* The rule so far is what the files make of the record and its first a     *)
(* amendments, and they are fit for it.                                     *)
MadeSoFar(a) ==
  /\ load.rule = MadeTo(a) /\ Sound(RecordTo(0)) /\ load.todo \subseteq DOMAIN RecordTo(a).bound
  /\ \A k \in 1 .. a : Follows(k)
  /\ \A k \in 0 .. a - 1 : BoundAsIs(RecordTo(k))
  /\ \A path \in DOMAIN RecordTo(a).bound \ load.todo : RecordTo(a).bound[path] = Sha(files[path])

(* What a load that nothing disturbed holds is what the files hold, and it  *)
(* is refused only when they make no rule.                                  *)
CalmInv ==
  calm =>
    /\ load.pc = "list" => load.signed = <<>>
    /\ load.pc \in {"list", "read", "ledger", "content"} => load.raw = files[RecordFile]
    /\ load.pc \in {"read", "ledger", "content"} =>
         /\ load.names = From(Len(load.signed) + 1) /\ WaitsAfter(0, load.signed)
         /\ \A k \in 1 .. Len(load.signed) : SignedAsIs(k)
         /\ Beside # <<>> => load.ledger
    /\ load.pc \in {"ledger", "content"} => load.content = files[Oldest(load.names)]
    /\ load.pc = "content" =>
         LET n == Log!Deciding(Oldest(load.names))
         IN  n # 0 /\ load.line = log[n]
    /\ load.pc \in {"bound", "done"} =>
         LET a == Len(load.rule.amendments)
         IN  /\ MadeSoFar(a) /\ WaitsAfter(a, load.signed) /\ a + Len(load.signed) = Len(Beside)
             /\ \A k \in 1 .. Len(Beside) : SignedAsIs(k)
             /\ Beside # <<>> => load.ledger
    /\ load.pc = "done" => load.signed = <<>> /\ load.todo = {}
    /\ load.pc = "refused" => ~ Loadable \/ (Beside # <<>> /\ ~ load.ledger)

(* While files and ledger stay, so does what they make. *)
LEMMA Steady ==
  ASSUME UNCHANGED <<files, log>>
  PROVE  /\ Beside' = Beside
         /\ \A i : From(i)' = From(i)
         /\ \A k : RecordTo(k)' = RecordTo(k)
         /\ \A n : MadeTo(n)' = MadeTo(n)
         /\ \A k : (SignedAsIs(k)' <=> SignedAsIs(k)) /\ (Follows(k)' <=> Follows(k))
         /\ \A record : BoundAsIs(record)' <=> BoundAsIs(record)
         /\ \A a, waits : WaitsAfter(a, waits)' <=> WaitsAfter(a, waits)
         /\ \A name : Log!Deciding(name)' = Log!Deciding(name)
         /\ Loadable' <=> Loadable
<1>1. Beside' = Beside
  BY DEF Beside, Present
<1>2. \A name : Log!Deciding(name)' = Log!Deciding(name)
  BY DEF Log!Deciding, Log!SelectLastInSeq, Log!Max
<1>3. \A k : RecordTo(k)' = RecordTo(k) /\ IdTo(k)' = IdTo(k)
  BY <1>1 DEF RecordTo, IdTo
<1>4. \A i : From(i)' = From(i)
  BY <1>1 DEF From
<1>5. \A k : StepTo(k)' = StepTo(k)
  BY <1>1, <1>3 DEF StepTo
<1>6. \A n : MadeTo(n)' = MadeTo(n)
  BY <1>3, <1>5 DEF MadeTo
<1>7. \A k : SignedAsIs(k)' <=> SignedAsIs(k)
  BY <1>1, <1>2 DEF SignedAsIs
<1>8. \A k : Follows(k)' <=> Follows(k)
  BY <1>1, <1>3 DEF Follows
<1>9. \A record : BoundAsIs(record)' <=> BoundAsIs(record)
  BY DEF BoundAsIs
<1>10. \A a, waits : WaitsAfter(a, waits)' <=> WaitsAfter(a, waits)
  BY <1>1 DEF WaitsAfter
<1>11. Loadable' <=> Loadable
  BY <1>1, <1>2, <1>9 DEF Loadable
<1> QED
  BY <1>1, <1>2, <1>3, <1>4, <1>6, <1>7, <1>8, <1>9, <1>10, <1>11

(* The files make a rule when each step of the chain fits. *)
LEMMA LoadableByStep ==
  Loadable <=> /\ Sound(RecordTo(0)) /\ BoundAsIs(RecordTo(0))
               /\ \A k \in 1 .. Len(Beside) : SignedAsIs(k) /\ Follows(k) /\ BoundAsIs(RecordTo(k))
<1> DEFINE record == Decoded[files[RecordFile]]
           Id(k)  == IF k = 0 THEN IdOf(RecordFile, files[RecordFile])
                     ELSE IdOf(Beside[k], files[Beside[k]])
           Fits(k) == LET n == Log!Deciding(Beside[k])
                          amendment == Decoded[files[Beside[k]]]
                      IN  /\ n # 0 /\ log[n].sha256 = Sha(files[Beside[k]])
                          /\ amendment.amends = Id(k - 1)
                          /\ Sound(amendment.record) /\ BoundAsIs(amendment.record)
                          /\ amendment.record.registered = record.registered
<1>1. Loadable <=> Sound(record) /\ BoundAsIs(record) /\ \A k \in 1 .. Len(Beside) : Fits(k)
  BY DEF Loadable
<1>2. RecordTo(0) = record
  BY DEF RecordTo
<1>3. ASSUME NEW k \in 1 .. Len(Beside)
      PROVE  Fits(k) <=> SignedAsIs(k) /\ Follows(k) /\ BoundAsIs(RecordTo(k))
  <2>1. k # 0 /\ RecordTo(k) = Decoded[files[Beside[k]]].record
    BY DEF RecordTo
  <2>2. Id(k - 1) = IdTo(k - 1)
    BY DEF IdTo
  <2> QED
    BY <1>2, <2>1, <2>2 DEF SignedAsIs, Follows
<1> HIDE DEF Fits
<1> QED
  BY <1>1, <1>2, <1>3

LEMMA MadeByStep == Made = MadeTo(Len(Beside))
BY DEF Made, MadeTo, StepTo, IdTo, RecordTo

(* A load is refused when its files make no rule. *)
LEMMA RefuseCalm ==
  ASSUME LoadInv, Refuse, UNCHANGED <<files, log>>,
         ~ Loadable \/ (Beside # <<>> /\ ~ load.ledger)
  PROVE  CalmInv'
<1>1. load'.pc = "refused" /\ load'.ledger = load.ledger
  BY RefuseLeaves
<1> QED
  BY <1>1, Steady DEF CalmInv

(* The amendment at hand is the next of those beside the record. *)
LEMMA AtHand ==
  ASSUME LoadInv, CalmInv, calm, load.pc \in {"read", "ledger", "content"}
  PROVE  LET k == Len(load.signed) + 1
         IN  /\ load.signed \in Seq(Waiting) /\ Len(load.signed) \in Nat /\ Len(Beside) \in Nat
             /\ load.names = {} => Len(load.signed) = Len(Beside)
             /\ load.names # {} => /\ k \in 1 .. Len(Beside) /\ Oldest(load.names) = Beside[k]
                                   /\ files[Beside[k]] # Missing
                                   /\ load.names \ {Beside[k]} = From(k + 1)
<1> DEFINE done == Len(load.signed)
           n    == Len(Beside)
<1>1. load.signed \in Seq(Waiting) /\ done \in Nat /\ n \in Nat
  BY BesideInOrder DEF LoadInv, LoadHolds
<1>2. load.names = From(done + 1) /\ done <= n
  <2>1. load.names = From(done + 1) /\ WaitsAfter(0, load.signed)
    BY DEF CalmInv
  <2>2. 0 + Len(load.signed) = done
    BY <1>1
  <2> QED
    BY <2>1, <2>2 DEF WaitsAfter
<1>3. /\ \A i \in 1 .. n : /\ files[Beside[i]] # Missing /\ Oldest(From(i)) = Beside[i]
                           /\ From(i) # {} /\ From(i) \ {Beside[i]} = From(i + 1)
      /\ From(n + 1) = {}
  BY BesideInOrder
<1> HIDE DEF done, n
<1>4. done + 1 \in 1 .. n \/ done = n
  BY <1>1, <1>2
<1>5. load.names = {} => done = n
  BY <1>2, <1>3, <1>4
<1>6. load.names # {} => done + 1 \in 1 .. n
  BY <1>2, <1>3, <1>4
<1>7. load.names # {} => /\ Oldest(load.names) = Beside[done + 1] /\ files[Beside[done + 1]] # Missing
                         /\ load.names \ {Beside[done + 1]} = From(done + 1 + 1)
  BY <1>2, <1>3, <1>6
<1> QED
  BY <1>1, <1>5, <1>6, <1>7 DEF done, n

LEMMA ListCalm == ASSUME LoadInv, CalmInv, calm, List PROVE CalmInv'
<1> DEFINE names == {name \in Names : files[name] # Missing}
<1>1. /\ LoadHolds /\ load.pc = "list" /\ UNCHANGED <<files, log, calm>>
      /\ load.signed = <<>> /\ load.raw = files[RecordFile]
  BY DEF LoadInv, List, CalmInv, historyVars
<1>2. names = From(1) /\ (Beside = <<>> => names = {}) /\ (names = {} => Beside = <<>>)
  <2>1. names = From(1) /\ Beside \in Seq(Names) /\ From(Len(Beside) + 1) = {}
        /\ \A i \in 1 .. Len(Beside) : From(i) # {}
    BY BesideInOrder
  <2>2. Beside = <<>> => Len(Beside) + 1 = 1
    OBVIOUS
  <2>3. Beside # <<>> => 1 \in 1 .. Len(Beside)
    BY <2>1
  <2> QED
    BY <2>1, <2>2, <2>3
<1>3. CASE names # {} /\ ~ load.ledger
  BY <1>1, <1>2, <1>3, RefuseCalm DEF List
<1>4. CASE ~ (names # {} /\ ~ load.ledger)
  <2>1. load' = [load EXCEPT !.pc = "read", !.names = names]
    BY <1>4 DEF List
  <2> HIDE DEF names
  <2>2. /\ load'.pc = "read" /\ load'.names = names /\ load'.signed = <<>> /\ load'.raw = load.raw
        /\ load'.ledger = load.ledger
    BY <1>1, <2>1 DEF LoadHolds
  <2>3. Len(load'.signed) = 0 /\ Len(load'.signed) + 1 = 1
    BY <2>2
  <2>4. WaitsAfter(0, load'.signed)
    <3>1. 0 + 0 = 0 /\ 0 <= Len(Beside)
      BY BesideInOrder
    <3> QED
      BY <2>3, <3>1 DEF WaitsAfter
  <2>5. Beside # <<>> => load'.ledger
    BY <1>2, <1>4, <2>2
  <2>6. /\ load'.names = From(Len(load'.signed) + 1)
        /\ \A k \in 1 .. Len(load'.signed) : SignedAsIs(k)
    BY <1>2, <2>2, <2>3
  <2> QED
    BY <1>1, <2>2, <2>4, <2>5, <2>6, Steady DEF CalmInv
<1> QED
  BY <1>3, <1>4

LEMMA ReadAmendmentCalm == ASSUME LoadInv, CalmInv, calm, ReadAmendment PROVE CalmInv'
<1>1. LoadHolds /\ load.pc = "read" /\ load.names # {} /\ UNCHANGED <<files, log, calm>>
  BY DEF LoadInv, ReadAmendment, historyVars
<1>2. files[Oldest(load.names)] # Missing
  BY <1>1, AtHand
<1>3. load' = [load EXCEPT !.pc = "ledger", !.content = files[Oldest(load.names)]]
  BY <1>2 DEF ReadAmendment
<1>4. /\ load'.pc = "ledger" /\ load'.names = load.names /\ load'.signed = load.signed
      /\ load'.raw = load.raw /\ load'.ledger = load.ledger
      /\ load'.content = files[Oldest(load.names)]
  BY <1>1, <1>3 DEF LoadHolds
<1>5. /\ load.raw = files[RecordFile]
      /\ load.names = From(Len(load.signed) + 1) /\ WaitsAfter(0, load.signed)
      /\ \A k \in 1 .. Len(load.signed) : SignedAsIs(k)
      /\ Beside # <<>> => load.ledger
  BY <1>1 DEF CalmInv
<1> QED
  BY <1>1, <1>4, <1>5, Steady DEF CalmInv

(* UNSIGNED and REVOKED are not signed as is. *)
LEMMA CheckLedgerCalm == ASSUME LoadInv, CalmInv, calm, CheckLedger PROVE CalmInv'
<1> DEFINE n == Log!Deciding(Oldest(load.names))
           k == Len(load.signed) + 1
<1>1. LoadHolds /\ load.pc = "ledger" /\ load.names # {} /\ UNCHANGED <<files, log, calm>>
  BY DEF LoadInv, LoadHolds, CheckLedger, historyVars
<1>2. k \in 1 .. Len(Beside) /\ Oldest(load.names) = Beside[k]
  BY <1>1, AtHand
<1>3. CASE n = 0 \/ log[n].sha256 = Null
  <2>1. Sha(files[Beside[k]]) # Null
    BY DEF Sha, Null
  <2>2. ~ SignedAsIs(k)
    BY <1>2, <1>3, <2>1 DEF SignedAsIs
  <2>3. ~ Loadable
    BY <1>2, <2>2, LoadableByStep
  <2> QED
    BY <1>1, <1>3, <2>3, RefuseCalm DEF CheckLedger
<1>4. CASE ~ (n = 0 \/ log[n].sha256 = Null)
  <2>1. load' = [load EXCEPT !.pc = "content", !.line = log[n]]
    BY <1>4 DEF CheckLedger
  <2> HIDE DEF n
  <2>2. /\ load'.pc = "content" /\ load'.names = load.names /\ load'.signed = load.signed
        /\ load'.raw = load.raw /\ load'.ledger = load.ledger
        /\ load'.content = load.content /\ load'.line = log[n]
    BY <1>1, <2>1 DEF LoadHolds
  <2>3. /\ load.raw = files[RecordFile] /\ load.content = files[Oldest(load.names)]
        /\ load.names = From(Len(load.signed) + 1) /\ WaitsAfter(0, load.signed)
        /\ \A i \in 1 .. Len(load.signed) : SignedAsIs(i)
        /\ Beside # <<>> => load.ledger
    BY <1>1 DEF CalmInv
  <2>4. n = Log!Deciding(Oldest(load.names)) /\ n # 0
    BY <1>4 DEF n
  <2> QED
    BY <1>1, <2>2, <2>3, <2>4, Steady DEF CalmInv
<1> QED
  BY <1>3, <1>4

(* CHANGED is not signed as is, and what load holds is what is there. *)
LEMMA CheckContentCalm == ASSUME LoadInv, CalmInv, calm, CheckContent PROVE CalmInv'
<1> DEFINE n    == Log!Deciding(Oldest(load.names))
           done == Len(load.signed)
           next == [name |-> Oldest(load.names), content |-> load.content]
<1>1. LoadHolds /\ load.pc = "content" /\ load.names # {} /\ UNCHANGED <<files, log, calm>>
  BY DEF LoadInv, LoadHolds, CheckContent, historyVars
<1>2. /\ load.raw = files[RecordFile] /\ load.content = files[Oldest(load.names)]
      /\ n # 0 /\ load.line = log[n] /\ WaitsAfter(0, load.signed)
      /\ \A k \in 1 .. done : SignedAsIs(k)
      /\ Beside # <<>> => load.ledger
  BY <1>1 DEF CalmInv
<1>3. /\ load.signed \in Seq(Waiting) /\ done \in Nat /\ done + 1 \in 1 .. Len(Beside)
      /\ Oldest(load.names) = Beside[done + 1] /\ Len(Beside) \in Nat
      /\ load.names \ {Beside[done + 1]} = From(done + 1 + 1)
  BY <1>1, AtHand
<1>4. SignedAsIs(done + 1) <=> Sha(files[Oldest(load.names)]) = load.line.sha256
  BY <1>2, <1>3 DEF SignedAsIs
<1>5. CASE ~ SignedAsIs(done + 1)
  <2>1. ~ Loadable
    BY <1>3, <1>5, LoadableByStep
  <2>2. Refuse
    BY <1>4, <1>5 DEF CheckContent
  <2> QED
    BY <1>1, <2>1, <2>2, RefuseCalm
<1>6. CASE SignedAsIs(done + 1)
  <2>1. Take
    BY <1>2, <1>4, <1>6 DEF CheckContent
  <2>2. /\ load'.pc = "read" /\ load'.raw = load.raw /\ load'.ledger = load.ledger
        /\ load'.names = load.names \ {Oldest(load.names)}
        /\ load'.signed = Append(load.signed, next)
    BY <1>1, <2>1 DEF Take, LoadHolds
  <2>3. next.name = Beside[done + 1] /\ next.content = files[Beside[done + 1]] /\ next \in Waiting
    <3>1. load.content \in Raws /\ Oldest(load.names) \in Names
      BY <1>1, OldestIsOne DEF LoadHolds
    <3> QED
      BY <1>2, <1>3, <3>1 DEF Waiting
  <2> HIDE DEF next, n
  <2>4. /\ Len(load'.signed) = done + 1 /\ load'.signed[done + 1] = next
        /\ \A k \in 1 .. done : load'.signed[k] = load.signed[k]
    BY <1>3, <2>2, <2>3
  <2>5. /\ done + 1 <= Len(Beside)
        /\ \A k : k \in 1 .. done + 1 <=> k \in 1 .. done \/ k = done + 1
    BY <1>3
  <2>6. \A k \in 1 .. done : load.signed[k].name = Beside[0 + k] /\ load.signed[k].content = files[Beside[0 + k]]
    BY <1>2 DEF WaitsAfter
  <2> HIDE DEF done
  <2>7. \A k \in 1 .. done + 1 :
          load'.signed[k].name = Beside[0 + k] /\ load'.signed[k].content = files[Beside[0 + k]]
    <3>1. 0 + (done + 1) = done + 1
      BY <1>3
    <3> QED
      BY <2>3, <2>4, <2>5, <2>6, <3>1
  <2>8. WaitsAfter(0, load'.signed)
    <3>1. 0 + (done + 1) <= Len(Beside)
      BY <1>3, <2>5
    <3> QED
      BY <2>4, <2>7, <3>1 DEF WaitsAfter
  <2>9. \A k \in 1 .. Len(load'.signed) : SignedAsIs(k)
    BY <1>2, <1>6, <2>4, <2>5
  <2>10. load'.names = From(Len(load'.signed) + 1)
    BY <1>3, <2>2, <2>4
  <2> QED
    BY <1>1, <1>2, <2>2, <2>8, <2>9, <2>10, Steady DEF CalmInv
<1> QED
  BY <1>5, <1>6

(* The record is the beginning of the chain. *)
LEMMA BuildRecordCalm == ASSUME LoadInv, CalmInv, calm, BuildRecord PROVE CalmInv'
<1> DEFINE record == Decoded[load.raw]
           rule   == RuleOf(RecordFile, load.raw, record)
<1>1. LoadHolds /\ load.pc = "read" /\ load.names = {} /\ UNCHANGED <<files, log, calm>>
  BY DEF LoadInv, BuildRecord, historyVars
<1>2. /\ load.raw = files[RecordFile] /\ WaitsAfter(0, load.signed)
      /\ \A k \in 1 .. Len(load.signed) : SignedAsIs(k)
      /\ Beside # <<>> => load.ledger
  BY <1>1 DEF CalmInv
<1>3. Len(load.signed) = Len(Beside) /\ Len(Beside) \in Nat
  BY <1>1, AtHand
<1>4. record = RecordTo(0)
  BY <1>2 DEF RecordTo
<1>5. CASE ~ Sound(record)
  BY <1>1, <1>4, <1>5, LoadableByStep, RefuseCalm DEF BuildRecord
<1>6. CASE Sound(record)
  <2>1. Bind(rule, load.signed)
    BY <1>6 DEF BuildRecord
  <2>2. /\ load'.pc = "bound" /\ load'.rule = rule /\ load'.signed = load.signed
        /\ load'.ledger = load.ledger /\ load'.todo = DOMAIN rule.record.bound
    BY <1>1, <2>1 DEF Bind, LoadHolds
  <2>3. rule = MadeTo(0) /\ rule.record = RecordTo(0) /\ Len(rule.amendments) = 0
    <3>1. [k \in 1 .. 0 |-> StepTo(k)] = <<>>
      OBVIOUS
    <3> QED
      BY <1>2, <1>4, <3>1 DEF MadeTo, IdTo, RuleOf
  <2> HIDE DEF rule, record
  <2>4. /\ \A k \in 1 .. 0 : Follows(k)
        /\ \A k \in 0 .. 0 - 1 : BoundAsIs(RecordTo(k))
        /\ 0 + Len(load.signed) = Len(Beside)
    BY <1>3
  <2>5. Sound(RecordTo(0))
    BY <1>4, <1>6
  <2>6. MadeSoFar(0)'
    BY <1>1, <2>2, <2>3, <2>4, <2>5, Steady DEF MadeSoFar
  <2>7. Len(load'.rule.amendments) = 0
    BY <2>2, <2>3
  <2>8. \A k \in 1 .. Len(Beside) : SignedAsIs(k)
    BY <1>2, <1>3
  <2> QED
    BY <1>1, <1>2, <2>2, <2>4, <2>6, <2>7, <2>8, Steady DEF CalmInv
<1> QED
  BY <1>5, <1>6

(* What is known of the chain so far. *)
LEMMA ChainSoFar ==
  ASSUME LoadInv, CalmInv, calm, load.pc \in {"bound", "done"}
  PROVE  LET a == Len(load.rule.amendments)
         IN  /\ a \in Nat /\ a <= Len(Beside) /\ Len(Beside) \in Nat /\ a \in 0 .. a
             /\ MadeSoFar(a) /\ load.rule.record = RecordTo(a) /\ WaitsAfter(a, load.signed)
             /\ load.signed \in Seq(Waiting) /\ a + Len(load.signed) = Len(Beside)
             /\ \A k \in 1 .. Len(Beside) : SignedAsIs(k)
             /\ Beside # <<>> => load.ledger
             /\ ~ BoundAsIs(RecordTo(a)) => ~ Loadable
<1> DEFINE a == Len(load.rule.amendments)
<1>1. /\ MadeSoFar(a) /\ WaitsAfter(a, load.signed) /\ a + Len(load.signed) = Len(Beside)
      /\ \A k \in 1 .. Len(Beside) : SignedAsIs(k)
      /\ Beside # <<>> => load.ledger
  BY DEF CalmInv
<1>2. /\ a \in Nat /\ Len(load.signed) \in Nat /\ load.signed \in Seq(Waiting)
      /\ Len(Beside) \in Nat
  BY BesideInOrder DEF LoadInv, LoadHolds, Chained
<1>3. load.rule.record = RecordTo(a)
  BY <1>1 DEF MadeSoFar, MadeTo
<1> HIDE DEF a
<1>4. a <= Len(Beside) /\ a \in 0 .. a /\ (a = 0 \/ a \in 1 .. Len(Beside))
  BY <1>1, <1>2
<1>5. ~ BoundAsIs(RecordTo(a)) => ~ Loadable
  BY <1>4, LoadableByStep
<1> QED
  BY <1>1, <1>2, <1>3, <1>4, <1>5 DEF a

LEMMA ReadBoundCalm == ASSUME LoadInv, CalmInv, calm, ReadBound PROVE CalmInv'
<1>0. PICK a : a = Len(load.rule.amendments)
  OBVIOUS
<1>1. LoadHolds /\ load.pc = "bound" /\ UNCHANGED <<files, log, calm>>
  BY DEF LoadInv, ReadBound, historyVars
<1>2. /\ MadeSoFar(a) /\ load.rule.record = RecordTo(a) /\ WaitsAfter(a, load.signed)
      /\ a + Len(load.signed) = Len(Beside)
      /\ \A k \in 1 .. Len(Beside) : SignedAsIs(k)
      /\ Beside # <<>> => load.ledger
      /\ ~ BoundAsIs(RecordTo(a)) => ~ Loadable
  BY <1>0, <1>1, ChainSoFar
<1>3. PICK path \in load.todo :
        IF Sha(files[path]) # load.rule.record.bound[path] THEN Refuse
        ELSE load' = [load EXCEPT !.todo = @ \ {path}]
  BY DEF ReadBound
<1>4. CASE Sha(files[path]) # load.rule.record.bound[path]
  <2>1. ~ BoundAsIs(RecordTo(a))
    BY <1>2, <1>4 DEF BoundAsIs, MadeSoFar
  <2> QED
    BY <1>1, <1>2, <1>3, <1>4, <2>1, RefuseCalm
<1>5. CASE Sha(files[path]) = load.rule.record.bound[path]
  <2>1. load' = [load EXCEPT !.todo = load.todo \ {path}]
    BY <1>3, <1>5
  <2>2. /\ load'.pc = "bound" /\ load'.rule = load.rule /\ load'.signed = load.signed
        /\ load'.ledger = load.ledger /\ load'.todo = load.todo \ {path}
    BY <1>1, <2>1 DEF LoadHolds
  <2>3. Len(load'.rule.amendments) = a
    BY <1>0, <2>2
  <2>4. MadeSoFar(a)'
    BY <1>1, <1>2, <1>5, <2>2, Steady DEF MadeSoFar
  <2> QED
    BY <1>1, <1>2, <2>2, <2>3, <2>4, Steady DEF CalmInv
<1> QED
  BY <1>4, <1>5

(* _amended follows the chain exactly when the files' chain goes on. *)
LEMMA AmendCalm == ASSUME LoadInv, CalmInv, calm, Amend PROVE CalmInv'
<1> DEFINE next      == Head(load.signed)
           amendment == Decoded[next.content]
<1>0. PICK a : a = Len(load.rule.amendments)
  OBVIOUS
<1>1. /\ LoadHolds /\ load.pc = "bound" /\ load.todo = {} /\ load.signed # <<>>
      /\ UNCHANGED <<files, log, calm>>
  BY DEF LoadInv, Amend, historyVars
<1>2. /\ a \in Nat /\ a <= Len(Beside) /\ Len(Beside) \in Nat
      /\ MadeSoFar(a) /\ load.rule.record = RecordTo(a) /\ WaitsAfter(a, load.signed)
      /\ load.signed \in Seq(Waiting) /\ a + Len(load.signed) = Len(Beside)
      /\ \A k \in 1 .. Len(Beside) : SignedAsIs(k)
      /\ Beside # <<>> => load.ledger
  BY <1>0, <1>1, ChainSoFar
<1>3. /\ Len(load.signed) \in Nat /\ Len(load.signed) # 0 /\ next = load.signed[1]
      /\ Tail(load.signed) \in Seq(Waiting) /\ Len(Tail(load.signed)) = Len(load.signed) - 1
      /\ \A k \in 1 .. Len(load.signed) - 1 : Tail(load.signed)[k] = load.signed[k + 1]
  BY <1>1, <1>2
<1>4. a + 1 \in 1 .. Len(Beside) /\ a + 1 # 0 /\ (a + 1) - 1 = a
  BY <1>2, <1>3
<1>5. next.name = Beside[a + 1] /\ next.content = files[Beside[a + 1]]
  <2>1. 1 \in 1 .. Len(load.signed)
    BY <1>3
  <2> QED
    BY <1>2, <1>3, <2>1 DEF WaitsAfter
<1>6. /\ load.rule = MadeTo(a) /\ Sound(RecordTo(0))
      /\ \A k \in 1 .. a : Follows(k)
      /\ \A k \in 0 .. a - 1 : BoundAsIs(RecordTo(k))
      /\ BoundAsIs(RecordTo(a))
  BY <1>1, <1>2 DEF MadeSoFar, BoundAsIs
<1>7. RecordTo(a).registered = RecordTo(0).registered
  <2>1. a = 0 \/ a \in 1 .. a
    BY <1>2
  <2> QED
    BY <1>6, <2>1 DEF Follows
<1>8. amendment.record = RecordTo(a + 1)
  BY <1>4, <1>5 DEF RecordTo
<1>9. Amends(load.rule, amendment) <=> Follows(a + 1)
  <2>1. load.rule.id = IdTo(a)
    BY <1>6 DEF MadeTo
  <2> HIDE DEF next
  <2> QED
    BY <1>2, <1>4, <1>5, <1>7, <1>8, <2>1 DEF Amends, Follows
<1>10. CASE ~ Follows(a + 1)
  <2>1. ~ Loadable
    BY <1>4, <1>10, LoadableByStep
  <2>2. Refuse
    BY <1>9, <1>10 DEF Amend
  <2> QED
    BY <1>1, <2>1, <2>2, RefuseCalm
<1>11. CASE Follows(a + 1)
  <2> DEFINE rule == Amended(load.rule, next.name, next.content, amendment)
  <2>1. Bind(rule, Tail(load.signed))
    BY <1>9, <1>11 DEF Amend
  <2>2. /\ load'.pc = "bound" /\ load'.rule = rule /\ load'.signed = Tail(load.signed)
        /\ load'.ledger = load.ledger /\ load'.todo = DOMAIN rule.record.bound
    BY <1>1, <2>1 DEF Bind, LoadHolds
  <2>3. rule = MadeTo(a + 1)
    <3> DEFINE steps == [k \in 1 .. a |-> StepTo(k)]
               last  == [name |-> next.name, id |-> IdOf(next.name, next.content),
                         raw |-> next.content, touches |-> Touches(load.rule.record, amendment.record)]
    <3>1. load.rule.amendments = steps /\ load.rule.raw = files[RecordFile]
      BY <1>6 DEF MadeTo
    <3>2. IdOf(next.name, next.content) = IdTo(a + 1)
      BY <1>4, <1>5 DEF IdTo
    <3>3. last = StepTo(a + 1)
      BY <1>2, <1>4, <1>5, <1>8, <3>2 DEF StepTo
    <3>4. Append(steps, StepTo(a + 1)) = [k \in 1 .. a + 1 |-> StepTo(k)]
      BY <1>2
    <3>5. rule = [id |-> IdOf(next.name, next.content), raw |-> load.rule.raw,
                  record |-> amendment.record, amendments |-> Append(load.rule.amendments, last)]
      BY DEF Amended
    <3> HIDE DEF next, last, steps, rule, amendment
    <3> QED
      BY <1>8, <3>1, <3>2, <3>3, <3>4, <3>5 DEF MadeTo
  <2>4. rule.record = RecordTo(a + 1) /\ Len(rule.amendments) = a + 1
    <3>1. Len([k \in 1 .. a + 1 |-> StepTo(k)]) = a + 1
      BY <1>2
    <3> HIDE DEF rule
    <3> QED
      BY <2>3, <3>1 DEF MadeTo
  <2> HIDE DEF rule, next
  <2>5. /\ \A k \in 1 .. a + 1 : Follows(k)
        /\ \A k \in 0 .. (a + 1) - 1 : BoundAsIs(RecordTo(k))
    <3>1. /\ \A k \in 1 .. a + 1 : k \in 1 .. a \/ k = a + 1
          /\ \A k \in 0 .. (a + 1) - 1 : k \in 0 .. a - 1 \/ k = a
      BY <1>2
    <3> QED
      BY <1>6, <1>11, <3>1
  <2>6. MadeSoFar(a + 1)'
    BY <1>1, <1>6, <2>2, <2>3, <2>4, <2>5, Steady DEF MadeSoFar
  <2>7. Len(load'.rule.amendments) = a + 1
    BY <2>2, <2>4
  <2>8. (a + 1) + Len(load'.signed) = Len(Beside)
    <3>1. Len(load'.signed) = Len(load.signed) - 1
      BY <1>3, <2>2
    <3>2. PICK left \in Nat : left = Len(load.signed) /\ left # 0
      BY <1>3
    <3>3. a \in Nat /\ a + left = Len(Beside) /\ Len(load'.signed) = left - 1
      BY <1>2, <3>1, <3>2
    <3>4. (a + 1) + (left - 1) = a + left
      BY <3>3
    <3> QED
      BY <3>3, <3>4
  <2>9. WaitsAfter(a + 1, load'.signed)
    <3>1. ASSUME NEW k \in 1 .. Len(load'.signed)
          PROVE  /\ load'.signed[k] = load.signed[k + 1] /\ k + 1 \in 1 .. Len(load.signed)
                 /\ a + (k + 1) = (a + 1) + k
      BY <1>2, <1>3, <2>2
    <3>2. \A k \in 1 .. Len(load.signed) :
            load.signed[k].name = Beside[a + k] /\ load.signed[k].content = files[Beside[a + k]]
      BY <1>2 DEF WaitsAfter
    <3>3. \A k \in 1 .. Len(load'.signed) :
            load'.signed[k].name = Beside[(a + 1) + k] /\ load'.signed[k].content = files[Beside[(a + 1) + k]]
      BY <3>1, <3>2
    <3> QED
      BY <1>2, <2>8, <3>3 DEF WaitsAfter
  <2> QED
    BY <1>1, <1>2, <2>2, <2>6, <2>7, <2>8, <2>9, Steady DEF CalmInv
<1> QED
  BY <1>10, <1>11

LEMMA DoneCalm == ASSUME LoadInv, CalmInv, calm, Done PROVE CalmInv'
<1>0. PICK a : a = Len(load.rule.amendments)
  OBVIOUS
<1>1. /\ LoadHolds /\ load.pc = "bound" /\ load.todo = {} /\ load.signed = <<>>
      /\ UNCHANGED <<files, log, calm>> /\ load' = [load EXCEPT !.pc = "done"]
  BY DEF LoadInv, Done, historyVars
<1>2. /\ load'.pc = "done" /\ load'.rule = load.rule /\ load'.signed = <<>>
      /\ load'.ledger = load.ledger /\ load'.todo = {}
  BY <1>1 DEF LoadHolds
<1>3. /\ MadeSoFar(a) /\ WaitsAfter(a, load.signed) /\ a + Len(load.signed) = Len(Beside)
      /\ \A k \in 1 .. Len(Beside) : SignedAsIs(k)
      /\ Beside # <<>> => load.ledger
  BY <1>0, <1>1, ChainSoFar
<1>4. MadeSoFar(a)'
  BY <1>1, <1>2, <1>3, Steady DEF MadeSoFar
<1> QED
  BY <1>0, <1>1, <1>2, <1>3, <1>4, Steady DEF CalmInv

(* A load begins calm, and only its own steps are. *)
LEMMA NextCalm == LoadInv /\ CalmInv /\ [Next]_vars => CalmInv'
<1> SUFFICES ASSUME LoadInv, CalmInv, [Next]_vars PROVE CalmInv'
  OBVIOUS
<1>1. CASE UNCHANGED vars
  <2>1. UNCHANGED <<files, log, load, calm>>
    BY <1>1 DEF vars, historyVars
  <2>2. \A a : MadeSoFar(a)' <=> MadeSoFar(a)
    BY <2>1, Steady DEF MadeSoFar
  <2> QED
    BY <2>1, <2>2, Steady DEF CalmInv
<1>2. CASE Begin
  <2>1. /\ load'.pc = "list" /\ load'.signed = <<>> /\ load'.raw = files[RecordFile] /\ files' = files
    BY <1>2 DEF Begin, NoLoad
  <2> QED
    BY <2>1 DEF CalmInv
<1>3. CASE Return
  BY <1>3 DEF Return, NoLoad, CalmInv
<1>4. CASE (\E path \in Paths : Edit(path)) \/ (\E name \in Names : SignOff(name))
  <2>1. ~ calm'
    BY <1>4 DEF Edit, SignOff
  <2> QED
    BY <2>1 DEF CalmInv
<1>5. CASE LoadStep /\ ~ Return
  <2>1. calm' = calm
    BY <1>5 DEF LoadStep, List, ReadAmendment, CheckLedger, CheckContent, BuildRecord, ReadBound,
                Amend, Done, historyVars
  <2>2. CASE ~ calm
    BY <2>1, <2>2 DEF CalmInv
  <2>3. CASE calm
    BY <1>5, <2>3, ListCalm, ReadAmendmentCalm, CheckLedgerCalm, CheckContentCalm, BuildRecordCalm,
       ReadBoundCalm, AmendCalm, DoneCalm DEF LoadStep
  <2> QED
    BY <2>2, <2>3
<1> QED
  BY <1>1, <1>2, <1>3, <1>4, <1>5 DEF Next, Rest

(* Though it reads them one after another, holding no lock, a load that     *)
(* nothing disturbs returns what the files and the ledger make, or refuses  *)
(* because they make no rule.                                               *)
THEOREM CalmLoadIsRightHolds == Spec => []CalmLoadIsRight
<1>1. Init => CalmInv
  BY DEF Init, NoLoad, CalmInv
<1>2. LoadInv /\ CalmInv /\ [Next]_vars => CalmInv'
  BY NextCalm
<1>3. LoadInv /\ CalmInv => CalmLoadIsRight
  <2> SUFFICES ASSUME LoadInv, CalmInv, calm, load.pc = "done"
               PROVE  Loadable /\ load.rule = Made
    BY DEF CalmInv, CalmLoadIsRight
  <2>0. PICK a : a = Len(load.rule.amendments)
    OBVIOUS
  <2>1. /\ a \in Nat /\ Len(Beside) \in Nat /\ MadeSoFar(a)
        /\ a + Len(load.signed) = Len(Beside)
        /\ \A k \in 1 .. Len(Beside) : SignedAsIs(k)
    BY <2>0, ChainSoFar
  <2>2. load.signed = <<>> /\ load.todo = {}
    BY DEF CalmInv
  <2>3. a = Len(Beside)
    BY <2>1, <2>2
  <2>4. /\ load.rule = MadeTo(a) /\ Sound(RecordTo(0)) /\ \A k \in 1 .. a : Follows(k)
        /\ \A k \in 0 .. a - 1 : BoundAsIs(RecordTo(k))
        /\ BoundAsIs(RecordTo(a))
    BY <2>1, <2>2 DEF MadeSoFar, BoundAsIs
  <2>5. \A k \in 0 .. a : k \in 0 .. a - 1 \/ k = a
    BY <2>1
  <2>6. \A k \in 0 .. a : BoundAsIs(RecordTo(k))
    BY <2>4, <2>5
  <2>7. 0 \in 0 .. a /\ \A k \in 1 .. a : k \in 0 .. a
    BY <2>1
  <2>8. Loadable
    BY <2>1, <2>3, <2>4, <2>6, <2>7, LoadableByStep
  <2> QED
    BY <2>3, <2>4, <2>8, MadeByStep
<1> QED
  BY <1>1, <1>2, <1>3, LoadInvHolds, PTL DEF Spec
=============================================================================
