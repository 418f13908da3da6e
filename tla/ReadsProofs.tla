---------------------------- MODULE ReadsProofs -----------------------------
(***************************************************************************)
(* What the reads file promises, proved for every set of rules, evaluations *)
(* and readers, every clock, and any number of kills and power losses.     *)
(*                                                                         *)
(* A file is honest when each of its lines is the one record_read writes   *)
(* after the lines before it.  Readers, behind one lock, keep it honest;   *)
(* and the seal, the post hoc labels and what sentences say follow from    *)
(* that, whatever rules and data were read in whatever order.              *)
(*                                                                         *)
(* And what a document quotes of rendered sentences (Quotes), documents    *)
(* and sentences of any length: a scan is followed from place to place,    *)
(* and a text and the same text with one space between its words are shown *)
(* to have one list of words.                                              *)
(*                                                                         *)
(* And what the paths scrubber makes of a text (Paths), for every mapping  *)
(* it takes and texts of any length: at each place, what has been replaced *)
(* is what the stretches before it come to.                                *)
(***************************************************************************)
EXTENDS Reads, Quotes, Paths, Extremes

-----------------------------------------------------------------------------
(* Honest files *)

(* The line at place n is one that record_read writes there. *)
HonestAt(file, n) ==
  \E id \in PreregIds, at \in Nat : \E used \in DOMAIN Labels[id] :
    /\ Seals(Earlier(file, n), id, used, file[n].supersedes)
    /\ file[n] = ReadLine(Earlier(file, n), id, used, file[n].supersedes, at)

Honest(file) ==
  /\ file \in Seq(ToSet(file))
  /\ \A n \in 1 .. Len(file) : HonestAt(file, n)

(* Digests are collision free, and none is null. *)
LEMMA ShaIsInjective == \A x, y : Sha(x) = Sha(y) => x = y
BY DEF Sha

(* No digest is null. *)
LEMMA ShaIsNotNull == \A x : Sha(x) # Null
BY DEF Sha, Null

(* A sequence is one over the set of its own elements. *)
LEMMA SeqOfItself ==
  ASSUME NEW S, NEW s \in Seq(S) PROVE s \in Seq(ToSet(s))
BY DEF ToSet

(* The lines before a place are the file's. *)
LEMMA EarlierLines ==
  ASSUME NEW S, NEW file \in Seq(S), NEW n \in 1 .. Len(file)
  PROVE  /\ Len(Earlier(file, n)) = n - 1
         /\ \A m \in 1 .. n - 1 : Earlier(file, n)[m] = file[m]
BY DEF Earlier

(* What the line at an honest place holds. *)
LEMMA HonestLine ==
  ASSUME NEW file, NEW n, HonestAt(file, n)
  PROVE  \E id \in PreregIds, at \in Nat : \E used \in DOMAIN Labels[id] :
           /\ Seals(Earlier(file, n), id, used, file[n].supersedes)
           /\ file[n].prereg = id /\ file[n].experiment = Rules[id].experiment
           /\ file[n].data_sha256 = Sha(used) /\ file[n].labels = Labels[id][used]
           /\ file[n].at = at /\ file[n].early = ReadEarly(Rules[id].end, at)
           /\ file[n].amendments = Rules[id].amendments
           /\ file[n].post_hoc = PostHoc(Earlier(file, n), id)
BY DEF HonestAt, ReadLine

(* The first read is the first of the related ones. *)
LEMMA FirstIsFirst ==
  ASSUME NEW S, NEW file \in Seq(S), NEW id
  PROVE  /\ RelatedReads(file, id) \subseteq 1 .. Len(file)
         /\ FirstRead(file, id) \in Nat
         /\ FirstRead(file, id) = 0 <=> RelatedReads(file, id) = {}
         /\ RelatedReads(file, id) # {} => FirstRead(file, id) \in RelatedReads(file, id)
         /\ \A m \in RelatedReads(file, id) : FirstRead(file, id) <= m
<1> DEFINE I == RelatedReads(file, id)
<1>1. FirstRead(file, id) = IF I # {} THEN Min(I) ELSE 0
  BY DEF FirstRead, RelatedReads, SelectInSeq
<1>2. I \subseteq 1 .. Len(file) /\ I \in SUBSET Nat
  BY DEF RelatedReads
<1> HIDE DEF I
<1>3. CASE I = {}
  BY <1>1, <1>2, <1>3 DEF I
<1>4. CASE I # {}
  <2>1. PICK m \in I : \A k \in I : m <= k
    BY <1>2, <1>4, LeastElement
  <2>2. Min(I) \in I /\ \A k \in I : Min(I) <= k
    BY <2>1 DEF Min
  <2>3. QED
    BY <1>1, <1>2, <1>4, <2>2 DEF I
<1>5. QED
  BY <1>3, <1>4

(* The seal, as the property states it, is the one record_read was held to. *)
LEMMA SealAt ==
  ASSUME NEW file, Honest(file), NEW n \in 1 .. Len(file)
  PROVE  LET line    == file[n]
             related == RelatedReads(Earlier(file, n), line.prereg)
             differ  == {m \in related : \/ file[m].data_sha256 # line.data_sha256
                                         \/ file[m].labels # line.labels}
         IN  /\ differ = {} => line.supersedes = Null
             /\ differ # {} =>
                  /\ FirstRead(Earlier(file, n), line.prereg) \in related
                  /\ line.supersedes = Sha(file[FirstRead(Earlier(file, n), line.prereg)])
                  /\ \A other \in related : FirstRead(Earlier(file, n), line.prereg) <= other
<1> DEFINE earlier == Earlier(file, n)
           line    == file[n]
           related == RelatedReads(earlier, line.prereg)
           first   == FirstRead(earlier, line.prereg)
           differ  == {m \in related : \/ file[m].data_sha256 # line.data_sha256
                                       \/ file[m].labels # line.labels}
<1>1. PICK id \in PreregIds : \E used \in DOMAIN Labels[id] :
        /\ Seals(earlier, id, used, line.supersedes)
        /\ line.prereg = id /\ line.data_sha256 = Sha(used) /\ line.labels = Labels[id][used]
  BY HonestLine DEF Honest
<1>2. PICK used \in DOMAIN Labels[id] :
        /\ Seals(earlier, id, used, line.supersedes)
        /\ line.prereg = id /\ line.data_sha256 = Sha(used) /\ line.labels = Labels[id][used]
  BY <1>1
<1>3. Len(earlier) = n - 1 /\ \A m \in 1 .. n - 1 : earlier[m] = file[m]
  BY EarlierLines DEF Honest
<1>4. earlier \in Seq(ToSet(file))
  <2>1. n \in Nat /\ n - 1 <= Len(file)
    BY DEF Honest
  <2>2. QED
    BY <2>1 DEF Honest, Earlier
<1> HIDE DEF earlier, line
<1>5. related \subseteq 1 .. n - 1
  BY <1>3, <1>4, FirstIsFirst
<1>6. related # {} => first \in related /\ \A m \in related : first <= m
  BY <1>4, FirstIsFirst
<1>7. differ # {} <=> \E m \in related : Differs(earlier[m], id, used)
  BY <1>2, <1>3, <1>5 DEF Differs
<1>8. line.supersedes = IF differ # {} THEN Sha(earlier[first]) ELSE Null
  BY <1>2, <1>7 DEF Seals
<1>9. differ # {} => first \in related /\ earlier[first] = file[first]
  BY <1>3, <1>5, <1>6
<1>10. QED
  BY <1>6, <1>8, <1>9 DEF line, earlier

-----------------------------------------------------------------------------
(* What honest files show *)

(* Two names for one set of related reads: a rule's and a line's. *)
LEMMA RelatedByLine ==
  ASSUME NEW file, Honest(file), NEW n \in 1 .. Len(file)
  PROVE  LET earlier == Earlier(file, n)
         IN  {m \in 1 .. Len(earlier) :
                Relates(earlier[m], file[n].experiment, Rules[file[n].prereg].stem)}
               = RelatedReads(earlier, file[n].prereg)
<1>1. PICK id \in PreregIds : file[n].prereg = id /\ file[n].experiment = Rules[id].experiment
  BY HonestLine DEF Honest
<1>2. QED
  BY <1>1 DEF RelatedReads

(* What a re-read differs in is told by the reads it is related to. *)
LEMMA ReReadTells ==
  ASSUME NEW file, Honest(file), NEW n \in 1 .. Len(file)
  PROVE  LET related == RelatedReads(Earlier(file, n), file[n].prereg)
             data    == \E m \in related : file[m].data_sha256 # file[n].data_sha256
             record  == \E m \in related : file[m].prereg # file[n].prereg
         IN  ReReadKind(file[n], Earlier(file, n))
               = IF file[n].supersedes = Null THEN "none"
                 ELSE IF data THEN "data" ELSE IF record THEN "record" ELSE "unknown"
<1> DEFINE earlier == Earlier(file, n)
           related == RelatedReads(earlier, file[n].prereg)
<1>1. Len(earlier) = n - 1 /\ \A m \in 1 .. n - 1 : earlier[m] = file[m]
  BY EarlierLines DEF Honest
<1>2. related \subseteq 1 .. n - 1
  BY <1>1 DEF RelatedReads
<1>3. related = {m \in 1 .. Len(earlier) :
                   Relates(earlier[m], file[n].experiment, Rules[file[n].prereg].stem)}
  BY RelatedByLine
<1>4. \A m \in related : earlier[m] = file[m]
  BY <1>1, <1>2
<1> HIDE DEF earlier, related
<1>5. ReReadKind(file[n], earlier)
        = IF file[n].supersedes = Null THEN "none"
          ELSE IF \E m \in related : earlier[m].data_sha256 # file[n].data_sha256 THEN "data"
          ELSE IF \E m \in related : earlier[m].prereg # file[n].prereg THEN "record"
          ELSE "unknown"
  BY <1>3 DEF ReReadKind
<1>6. QED
  BY <1>4, <1>5 DEF earlier, related

(* The seal over the whole file (_evaluate.py:306). *)
LEMMA HonestSealed == Honest(lines) => SealHolds
<1> SUFFICES ASSUME Honest(lines), NEW n \in 1 .. Len(lines)
             PROVE  LET line    == lines[n]
                        related == RelatedReads(Earlier(lines, n), line.prereg)
                        differ  == {m \in related : \/ lines[m].data_sha256 # line.data_sha256
                                                    \/ lines[m].labels # line.labels}
                    IN  IF differ = {} THEN line.supersedes = Null
                        ELSE \E m \in related : /\ \A other \in related : m <= other
                                                /\ line.supersedes = Sha(lines[m])
  BY DEF SealHolds
<1> QED
  BY SealAt

(* A re-read is explained: labels differ on the same data only between      *)
(* different rules (_receipts.py:38).                                       *)
LEMMA HonestExplained == Honest(lines) => Explained
<1> SUFFICES ASSUME Honest(lines), NEW n \in 1 .. Len(lines)
             PROVE  ReReadKind(lines[n], Earlier(lines, n)) # "unknown"
  BY DEF Explained
<1> DEFINE line    == lines[n]
           related == RelatedReads(Earlier(lines, n), line.prereg)
<1>1. SUFFICES ASSUME line.supersedes # Null,
                      \A m \in related : lines[m].data_sha256 = line.data_sha256,
                      \A m \in related : lines[m].prereg = line.prereg
               PROVE  FALSE
  BY ReReadTells
<1>2. \E m \in related : \/ lines[m].data_sha256 # line.data_sha256
                         \/ lines[m].labels # line.labels
  BY <1>1, SealAt
<1>3. PICK m \in related : lines[m].labels # line.labels
  BY <1>1, <1>2
<1>4. m \in 1 .. n - 1 /\ m \in 1 .. Len(lines)
  <2>1. related \subseteq 1 .. n - 1
    BY EarlierLines DEF Honest, RelatedReads
  <2>2. n \in Nat /\ n <= Len(lines) /\ Len(lines) \in Nat
    BY DEF Honest
  <2>3. QED
    BY <2>1, <2>2
<1>5. PICK id \in PreregIds : \E used \in DOMAIN Labels[id] :
        line.prereg = id /\ line.data_sha256 = Sha(used) /\ line.labels = Labels[id][used]
  BY HonestLine DEF Honest
<1>6. PICK other \in PreregIds : \E used \in DOMAIN Labels[other] :
        /\ lines[m].prereg = other /\ lines[m].data_sha256 = Sha(used)
        /\ lines[m].labels = Labels[other][used]
  BY <1>4, HonestLine DEF Honest
<1>7. lines[m].prereg = line.prereg /\ lines[m].data_sha256 = line.data_sha256
  BY <1>1
<1>8. QED
  BY <1>3, <1>5, <1>6, <1>7, ShaIsInjective

(* An early read's sentence depends on the data of the reads before it.     *)
LEMMA HonestEarly == Honest(lines) => EarlySaysNothing
<1> SUFFICES ASSUME Honest(lines), NEW n \in 1 .. Len(lines), lines[n].early,
                    NEW h \in DOMAIN lines[n].labels
             PROVE  LET sentence == Sentence(lines, n, h)
                    IN  /\ sentence.verdict = "read early"
                        /\ sentence.re_read =
                             IF \E m \in RelatedReads(Earlier(lines, n), lines[n].prereg) :
                                  lines[m].data_sha256 # lines[n].data_sha256
                             THEN "data" ELSE "none"
  BY DEF EarlySaysNothing
<1> DEFINE related == RelatedReads(Earlier(lines, n), lines[n].prereg)
           data    == \E m \in related : lines[m].data_sha256 # lines[n].data_sha256
           kind    == ReReadKind(lines[n], Earlier(lines, n))
<1>1. /\ Sentence(lines, n, h).verdict = "read early"
      /\ Sentence(lines, n, h).re_read = ReRead(kind, lines[n].early)
  BY DEF Sentence
<1>2. data => lines[n].supersedes # Null
  <2>1. SUFFICES ASSUME data PROVE lines[n].supersedes # Null
    OBVIOUS
  <2>2. \E m \in related : \/ lines[m].data_sha256 # lines[n].data_sha256
                           \/ lines[m].labels # lines[n].labels
    BY <2>1
  <2>3. lines[n].supersedes = Sha(lines[FirstRead(Earlier(lines, n), lines[n].prereg)])
    BY <2>2, SealAt
  <2>4. QED
    BY <2>3, ShaIsNotNull
<1>3. /\ data => kind = "data"
      /\ ~ data => kind # "data"
  BY <1>2, ReReadTells
<1> HIDE DEF kind, data
<1>4. ReRead(kind, lines[n].early) = IF data THEN "data" ELSE "none"
  BY <1>3 DEF ReRead
<1>5. QED
  BY <1>1, <1>4 DEF data

(* No amendment is in a chain twice. *)
LEMMA ChainDistinct ==
  ASSUME NEW id \in PreregIds,
         NEW i \in 1 .. Len(Rules[id].amendments), NEW j \in 1 .. Len(Rules[id].amendments),
         Rules[id].amendments[i] = Rules[id].amendments[j]
  PROVE  i = j
<1> DEFINE chain == Rules[id].amendments
<1>1. chain \in Seq(PreregIds)
  BY RulesAssumption
<1>2. Rules[chain[i]].amendments = SubSeq(chain, 1, i) /\ Rules[chain[j]].amendments = SubSeq(chain, 1, j)
  BY ChainsAssumption
<1> HIDE DEF chain
<1>3. i \in 1 .. Len(chain) /\ j \in 1 .. Len(chain) /\ chain[i] = chain[j]
  BY DEF chain
<1>4. SubSeq(chain, 1, i) = SubSeq(chain, 1, j)
  BY <1>2, <1>3
<1>5. Len(SubSeq(chain, 1, i)) = i /\ Len(SubSeq(chain, 1, j)) = j
  BY <1>1, <1>3
<1>6. QED
  BY <1>4, <1>5

(* What the amendments since the first read touch is post hoc. *)
LEMMA TouchedIsLate ==
  ASSUME NEW S, NEW file \in Seq(S), NEW s \in PreregIds, NEW r \in PreregIds,
         FirstRead(file, s) # 0,
         file[FirstRead(file, s)].amendments = Rules[r].amendments,
         Extends(s, r), NEW h \in HypothesesOf(s), TouchedSince(s, r, h)
  PROVE  h \in PostHoc(file, s)
<1> DEFINE chain == Rules[s].amendments
           n     == Len(Rules[r].amendments)
<1>1. PICK k \in n + 1 .. Len(chain) : h \in Rules[chain[k]].touches
  BY DEF TouchedSince
<1>2. /\ Rules[r].amendments \in Seq(PreregIds) /\ chain \in Seq(PreregIds)
      /\ n \in Nat /\ Len(chain) \in Nat /\ n <= Len(chain)
      /\ Rules[r].amendments = SubSeq(chain, 1, n)
  <2>1. Rules[r].amendments \in Seq(PreregIds) /\ chain \in Seq(PreregIds)
    BY RulesAssumption
  <2>2. SubSeq(Rules[r].amendments, 1, n) = Rules[r].amendments
    BY <2>1
  <2>3. QED
    BY <2>1, <2>2 DEF Extends, IsPrefix
<1>3. k \in 1 .. Len(chain)
  BY <1>2
<1>4. chain[k] \notin ToSet(Rules[r].amendments)
  <2>1. DOMAIN Rules[r].amendments = 1 .. n
    BY <1>2
  <2> HIDE DEF chain
  <2>2. SUFFICES ASSUME NEW i \in 1 .. n, chain[k] = Rules[r].amendments[i] PROVE FALSE
    BY <2>1 DEF ToSet
  <2> USE DEF chain
  <2>3. Rules[r].amendments[i] = chain[i] /\ i \in 1 .. Len(chain)
    BY <1>2
  <2>4. i = k
    BY <1>3, <2>2, <2>3, ChainDistinct
  <2>5. QED
    BY <1>2, <2>4
<1>5. k \in Late(file, s, h)
  BY <1>1, <1>3, <1>4 DEF Late
<1>6. QED
  BY <1>5 DEF PostHoc

(* What an honest line labels are its rule's hypotheses. *)
LEMMA LabelledAreTheRules ==
  ASSUME NEW file, Honest(file), NEW n \in 1 .. Len(file)
  PROVE  \E id \in PreregIds : \E used \in DOMAIN Labels[id] :
           /\ file[n].prereg = id /\ file[n].amendments = Rules[id].amendments
           /\ file[n].data_sha256 = Sha(used) /\ file[n].labels = Labels[id][used]
           /\ DOMAIN file[n].labels = HypothesesOf(id)
           /\ file[n].post_hoc = PostHoc(Earlier(file, n), id)
<1>1. PICK id \in PreregIds : \E used \in DOMAIN Labels[id] :
        /\ file[n].prereg = id /\ file[n].amendments = Rules[id].amendments
        /\ file[n].data_sha256 = Sha(used) /\ file[n].labels = Labels[id][used]
        /\ file[n].post_hoc = PostHoc(Earlier(file, n), id)
  BY HonestLine DEF Honest
<1>2. \A used \in DOMAIN Labels[id] : DOMAIN Labels[id][used] = HypothesesOf(id)
  BY LabelsAssumption
<1>3. QED
  BY <1>1, <1>2

(* A label that an amendment changed after the first read is marked         *)
(* (_evaluate.py:294).                                                      *)
LEMMA HonestShown == Honest(lines) => LabelChangesShow
<1> SUFFICES ASSUME Honest(lines), NEW n \in 1 .. Len(lines),
                    FirstRead(Earlier(lines, n), lines[n].prereg) # 0,
                    Extends(lines[n].prereg,
                            lines[FirstRead(Earlier(lines, n), lines[n].prereg)].prereg),
                    NEW h \in DOMAIN lines[n].labels
             PROVE  LET line   == lines[n]
                        m      == FirstRead(Earlier(lines, n), line.prereg)
                        kin(x) == {g \in DOMAIN line.labels :
                                     Rules[line.prereg].family[g] = Rules[line.prereg].family[x]}
                    IN  /\ h \notin DOMAIN lines[m].labels => h \in line.post_hoc
                        /\ /\ lines[m].data_sha256 = line.data_sha256
                           /\ lines[m].labels[h] # line.labels[h]
                           => kin(h) \cap line.post_hoc # {}
  BY DEF LabelChangesShow
<1> DEFINE line    == lines[n]
           earlier == Earlier(lines, n)
           m       == FirstRead(earlier, line.prereg)
<1>1. Len(earlier) = n - 1 /\ \A k \in 1 .. n - 1 : earlier[k] = lines[k]
  BY EarlierLines DEF Honest
<1>2. earlier \in Seq(ToSet(lines))
  <2>1. n \in Nat /\ n - 1 <= Len(lines)
    BY DEF Honest
  <2>2. QED
    BY <2>1 DEF Honest, Earlier
<1>3. m \in 1 .. n - 1 /\ earlier[m] = lines[m]
  <2>1. m # 0
    OBVIOUS
  <2> HIDE DEF earlier
  <2>2. /\ m \in RelatedReads(earlier, line.prereg)
        /\ RelatedReads(earlier, line.prereg) \subseteq 1 .. Len(earlier)
    BY <1>2, <2>1, FirstIsFirst
  <2>3. QED
    BY <1>1, <2>2
<1>4. m \in 1 .. Len(lines)
  <2>1. n \in Nat /\ n <= Len(lines) /\ Len(lines) \in Nat
    BY DEF Honest
  <2> HIDE DEF m
  <2>2. QED
    BY <1>3, <2>1
<1>5. PICK s \in PreregIds : \E used \in DOMAIN Labels[s] :
        /\ line.prereg = s /\ line.amendments = Rules[s].amendments
        /\ line.data_sha256 = Sha(used) /\ line.labels = Labels[s][used]
        /\ DOMAIN line.labels = HypothesesOf(s) /\ line.post_hoc = PostHoc(earlier, s)
  BY LabelledAreTheRules
<1>6. PICK r \in PreregIds : \E used \in DOMAIN Labels[r] :
        /\ lines[m].prereg = r /\ lines[m].amendments = Rules[r].amendments
        /\ lines[m].data_sha256 = Sha(used) /\ lines[m].labels = Labels[r][used]
        /\ DOMAIN lines[m].labels = HypothesesOf(r)
  BY <1>4, LabelledAreTheRules
<1>7. Extends(s, r) /\ FirstRead(earlier, s) = m /\ m # 0
  BY <1>5, <1>6
<1>8. earlier[FirstRead(earlier, s)].amendments = Rules[r].amendments
  BY <1>3, <1>6, <1>7
<1> HIDE DEF earlier, m, line
<1>9. ASSUME NEW g \in HypothesesOf(s), TouchedSince(s, r, g) PROVE g \in line.post_hoc
  BY <1>2, <1>5, <1>7, <1>8, <1>9, TouchedIsLate
<1>10. h \in HypothesesOf(s)
  BY <1>5 DEF line
<1>11. ASSUME h \notin DOMAIN lines[m].labels PROVE h \in line.post_hoc
  BY <1>6, <1>7, <1>9, <1>10, <1>11, TouchesAssumption
<1>12. ASSUME lines[m].data_sha256 = line.data_sha256, lines[m].labels[h] # line.labels[h]
       PROVE  \E g \in line.post_hoc : /\ g \in DOMAIN line.labels
                                       /\ Rules[line.prereg].family[g] = Rules[line.prereg].family[h]
  <2>1. PICK used \in DOMAIN Labels[s] :
          line.data_sha256 = Sha(used) /\ line.labels = Labels[s][used]
    BY <1>5
  <2>2. used \in DOMAIN Labels[r] /\ lines[m].labels = Labels[r][used]
    BY <1>6, <1>12, <2>1, ShaIsInjective
  <2>3. Labels[s][used][h] # Labels[r][used][h]
    BY <1>12, <2>1, <2>2
  <2>4. PICK g \in HypothesesOf(s) :
          Rules[s].family[g] = Rules[s].family[h] /\ TouchedSince(s, r, g)
    BY <1>7, <1>10, <2>1, <2>2, <2>3, TouchesAssumption
  <2>5. QED
    BY <1>5, <1>9, <2>4
<1>13. QED
  BY <1>11, <1>12 DEF line, m, earlier

-----------------------------------------------------------------------------
(* Readers keep the file honest *)

Inside == {"read", "write", "writing", "sync"}

(* What reader p holds where it is. *)
ReaderInv(p) ==
  /\ pc[p] \in PCs
  /\ pc[p] \in Inside <=> holder = p
  /\ pc[p] # "idle" => /\ call[p].rule \in PreregIds
                       /\ call[p].used \in DOMAIN Labels[call[p].rule]
  /\ pc[p] \in {"idle", "wait", "read"} => building[p] = <<>>
  /\ pc[p] \in {"write", "writing"} =>
       \E at \in Nat :
         /\ Seals(lines, call[p].rule, call[p].used, call[p].supersedes)
         /\ building[p] = <<ReadLine(lines, call[p].rule, call[p].used, call[p].supersedes, at)>>
  /\ pc[p] = "write" => ~ torn
  /\ pc[p] = "writing" => torn
  /\ pc[p] = "sync" => lines # <<>> /\ building[p] = <<lines[Len(lines)]>>

FileInv ==
  /\ Honest(lines)
  /\ synced \in 0 .. Len(lines)
  /\ torn \in BOOLEAN
  /\ \A line \in returned : \E n \in 1 .. synced : lines[n] = line

KindInv ==
  /\ holder \in Readers \cup {NoOne}
  /\ pc \in [Readers -> PCs] /\ DOMAIN call = Readers /\ DOMAIN building = Readers
  /\ spent \in [{"calls", "kills", "losses"} -> Nat]

Inv == KindInv /\ FileInv /\ \A p \in Readers : ReaderInv(p)

(* The line a reader has built follows an honest file. *)
LEMMA HonestGrows ==
  ASSUME NEW file, Honest(file), NEW id \in PreregIds, NEW used \in DOMAIN Labels[id],
         NEW supersedes, NEW at \in Nat, Seals(file, id, used, supersedes)
  PROVE  LET line == ReadLine(file, id, used, supersedes, at)
         IN  Honest(file \o <<line>>) /\ (file \o <<line>>)[Len(file) + 1] = line
<1> DEFINE line   == ReadLine(file, id, used, supersedes, at)
           longer == file \o <<line>>
<1>1. line.supersedes = supersedes
  BY DEF ReadLine
<1>2. file \in Seq(ToSet(file)) /\ Len(file) \in Nat
  BY DEF Honest
<1> DEFINE both == ToSet(file) \cup {line}
<1> HIDE DEF line
<1>3. file \in Seq(both) /\ longer \in Seq(both)
  BY <1>2
<1>4. /\ Len(longer) = Len(file) + 1 /\ longer[Len(file) + 1] = line
      /\ \A k \in 1 .. Len(file) : longer[k] = file[k]
  BY <1>2, <1>3
<1>5. longer \in Seq(ToSet(longer))
  BY <1>3, SeqOfItself
<1> HIDE DEF longer, both
<1>6. ASSUME NEW n \in 1 .. Len(file) + 1 PROVE Earlier(longer, n) = Earlier(file, n)
  <2> DEFINE m == n - 1
  <2>1. m \in Nat /\ m <= Len(file) /\ m <= Len(longer)
    BY <1>2, <1>4
  <2> HIDE DEF m
  <2>2. Len(SubSeq(longer, 1, m)) = m /\ Len(SubSeq(file, 1, m)) = m
    BY <1>3, <2>1
  <2>3. \A k \in 1 .. m : SubSeq(longer, 1, m)[k] = longer[k] /\ SubSeq(file, 1, m)[k] = file[k]
    BY <1>3, <2>1
  <2>4. \A k \in 1 .. m : SubSeq(longer, 1, m)[k] = SubSeq(file, 1, m)[k]
    BY <1>2, <1>4, <2>1, <2>3
  <2>5. SubSeq(longer, 1, m) \in Seq(both) /\ SubSeq(file, 1, m) \in Seq(both)
    BY <1>3, <2>1
  <2>6. SubSeq(longer, 1, m) = SubSeq(file, 1, m)
    BY <2>2, <2>4, <2>5
  <2>7. QED
    BY <2>6 DEF Earlier, m
<1>7. Earlier(longer, Len(file) + 1) = file
  <2>1. Earlier(longer, Len(file) + 1) = Earlier(file, Len(file) + 1)
    BY <1>2, <1>6
  <2>2. SubSeq(file, 1, (Len(file) + 1) - 1) = file
    BY <1>2
  <2>3. QED
    BY <2>1, <2>2 DEF Earlier
<1>8. ASSUME NEW n \in 1 .. Len(longer) PROVE HonestAt(longer, n)
  <2>1. CASE n = Len(file) + 1
    BY <1>1, <1>4, <1>7, <2>1 DEF HonestAt, line
  <2>2. CASE n # Len(file) + 1
    <3>1. n \in 1 .. Len(file)
      BY <1>2, <1>4, <2>2
    <3>2. HonestAt(file, n) /\ longer[n] = file[n] /\ Earlier(longer, n) = Earlier(file, n)
      BY <1>2, <1>4, <1>6, <3>1 DEF Honest
    <3>3. QED
      BY <3>2 DEF HonestAt
  <2>3. QED
    BY <2>1, <2>2
<1>9. QED
  BY <1>4, <1>5, <1>8 DEF Honest, longer, line

(* What a power loss leaves of an honest file is honest. *)
LEMMA HonestPrefix ==
  ASSUME NEW file, Honest(file), NEW n \in 0 .. Len(file)
  PROVE  /\ Honest(SubSeq(file, 1, n)) /\ Len(SubSeq(file, 1, n)) = n
         /\ \A k \in 1 .. n : /\ SubSeq(file, 1, n)[k] = file[k]
                              /\ Earlier(SubSeq(file, 1, n), k) = Earlier(file, k)
<1> DEFINE prefix == SubSeq(file, 1, n)
<1>1. file \in Seq(ToSet(file)) /\ Len(file) \in Nat
  BY DEF Honest
<1>2. /\ prefix \in Seq(ToSet(file)) /\ Len(prefix) = n
      /\ \A k \in 1 .. n : prefix[k] = file[k]
  BY <1>1
<1> HIDE DEF prefix
<1>3. prefix \in Seq(ToSet(prefix))
  BY <1>2, SeqOfItself
<1>4. ASSUME NEW k \in 1 .. n PROVE Earlier(prefix, k) = Earlier(file, k)
  <2>1. Len(SubSeq(prefix, 1, k - 1)) = k - 1 /\ Len(SubSeq(file, 1, k - 1)) = k - 1
    BY <1>1, <1>2
  <2>2. \A i \in 1 .. k - 1 : SubSeq(prefix, 1, k - 1)[i] = SubSeq(file, 1, k - 1)[i]
    BY <1>1, <1>2
  <2>3. SubSeq(prefix, 1, k - 1) \in Seq(ToSet(file)) /\ SubSeq(file, 1, k - 1) \in Seq(ToSet(file))
    BY <1>1, <1>2
  <2>4. QED
    BY <2>1, <2>2, <2>3 DEF Earlier
<1>5. ASSUME NEW k \in 1 .. n PROVE HonestAt(prefix, k)
  <2>1. HonestAt(file, k)
    BY <1>1 DEF Honest
  <2>2. QED
    BY <1>2, <1>4, <2>1 DEF HonestAt
<1>6. QED
  BY <1>2, <1>3, <1>4, <1>5 DEF Honest, prefix

(* A step of another reader leaves what q holds, unless q was at the file. *)
LEMMA OthersKeep ==
  ASSUME NEW q \in Readers, ReaderInv(q),
         pc'[q] = pc[q], call'[q] = call[q], building'[q] = building[q],
         holder' = q <=> holder = q,
         UNCHANGED <<lines, torn>> \/ holder # q
  PROVE  ReaderInv(q)'
<1>1. CASE holder = q
  BY <1>1 DEF ReaderInv
<1>2. CASE holder # q
  <2>1. pc[q] \notin Inside
    BY <1>2 DEF ReaderInv
  <2>2. pc[q] \in {"idle", "wait"}
    BY <2>1 DEF ReaderInv, PCs, Inside
  <2>3. QED
    BY <1>2, <2>2 DEF ReaderInv, PCs, Inside
<1>3. QED
  BY <1>1, <1>2

(* A reader that leaves holds nothing. *)
LEMMA LeaveKeeps ==
  ASSUME Inv, NEW p \in Readers, Leave(p), UNCHANGED <<lines, torn>>
  PROVE  /\ \A q \in Readers : ReaderInv(q)'
         /\ holder' \in Readers \cup {NoOne}
         /\ pc' \in [Readers -> PCs] /\ DOMAIN call' = Readers /\ DOMAIN building' = Readers
<1>1. /\ holder' \in Readers \cup {NoOne} /\ holder' # p
      /\ pc' \in [Readers -> PCs] /\ DOMAIN call' = Readers /\ DOMAIN building' = Readers
  BY NoOneAssumption DEF Inv, KindInv, Leave, Goto, PCs
<1>2. pc'[p] = "idle" /\ building'[p] = <<>>
  BY DEF Inv, KindInv, Leave, Goto
<1>3. ReaderInv(p)'
  BY <1>1, <1>2 DEF ReaderInv, PCs, Inside
<1>4. ASSUME NEW q \in Readers, q # p PROVE ReaderInv(q)'
  <2>1. pc'[q] = pc[q] /\ call'[q] = call[q] /\ building'[q] = building[q]
    BY <1>4 DEF Inv, KindInv, Leave, Goto
  <2>2. holder' = q <=> holder = q
    BY <1>4, NoOneAssumption DEF Leave
  <2>3. ReaderInv(q)
    BY DEF Inv
  <2>4. QED
    BY <2>1, <2>2, <2>3, OthersKeep
<1>5. QED
  BY <1>1, <1>3, <1>4

(* The counters stay counters. *)
LEMMA SpendCounts ==
  ASSUME KindInv, NEW counter \in {"calls", "kills", "losses"}, Spend(counter)
  PROVE  spent' \in [{"calls", "kills", "losses"} -> Nat]
BY DEF KindInv, Spend

(* A refused call leaves everything but the count. *)
LEMMA RefuseUnreadyInv == ASSUME Inv, NEW p \in Readers, RefuseUnready(p) PROVE Inv'
<1>1. spent' \in [{"calls", "kills", "losses"} -> Nat]
  BY SpendCounts DEF Inv, RefuseUnready
<1>2. QED
  BY <1>1 DEF Inv, KindInv, FileInv, ReaderInv, RefuseUnready, fileVars, readerVars

(* A call begins with a rule and an evaluation of it. *)
LEMMA BeginInv == ASSUME Inv, NEW p \in Readers, Begin(p) PROVE Inv'
<1>1. PICK id \in PreregIds, supersedes \in {Null} \cup {Sha(line) : line \in ToSet(lines)} :
        \E used \in DOMAIN Labels[id] :
          call' = [call EXCEPT ![p] = [rule |-> id, used |-> used, supersedes |-> supersedes]]
  BY DEF Begin
<1>2. /\ pc' = [pc EXCEPT ![p] = "wait"] /\ pc[p] = "idle"
      /\ UNCHANGED <<lines, torn, synced, holder, building, returned>>
  BY DEF Begin, Goto, fileVars
<1>3. KindInv'
  <2>1. spent' \in [{"calls", "kills", "losses"} -> Nat]
    BY SpendCounts DEF Inv, Begin
  <2>2. QED
    BY <1>1, <1>2, <2>1 DEF Inv, KindInv, PCs
<1>4. ReaderInv(p)'
  BY <1>1, <1>2 DEF Inv, KindInv, ReaderInv, PCs, Inside
<1>5. ASSUME NEW q \in Readers, q # p PROVE ReaderInv(q)'
  BY <1>1, <1>2, <1>5, OthersKeep DEF Inv, KindInv
<1>6. QED
  BY <1>2, <1>3, <1>4, <1>5 DEF Inv, FileInv

(* One reader at a time has the lock. *)
LEMMA LockInv == ASSUME Inv, NEW p \in Readers, Lock(p) PROVE Inv'
<1>1. /\ pc' = [pc EXCEPT ![p] = "read"] /\ pc[p] = "wait" /\ holder = NoOne /\ holder' = p
      /\ UNCHANGED <<lines, torn, synced, call, building, returned, spent>>
  BY DEF Lock, Goto, fileVars
<1>2. KindInv'
  BY <1>1 DEF Inv, KindInv, PCs
<1>3. ReaderInv(p)'
  BY <1>1 DEF Inv, KindInv, ReaderInv, PCs, Inside
<1>4. ASSUME NEW q \in Readers, q # p PROVE ReaderInv(q)'
  BY <1>1, <1>4, NoOneAssumption, OthersKeep DEF Inv, KindInv
<1>5. QED
  BY <1>1, <1>2, <1>3, <1>4 DEF Inv, FileInv

(* The line that is built is one the seal lets through. *)
LEMMA ReadReadsInv == ASSUME Inv, NEW p \in Readers, ReadReads(p) PROVE Inv'
<1>1. pc[p] = "read" /\ UNCHANGED <<lines, torn, synced, returned, spent>>
  BY DEF ReadReads, fileVars
<1>2. CASE Leave(p)
  BY <1>1, <1>2, LeaveKeeps DEF Inv, KindInv, FileInv
<1>3. CASE ~ Leave(p)
  <2>1. PICK at \in Times :
          building' = [building EXCEPT ![p] =
             <<ReadLine(lines, call[p].rule, call[p].used, call[p].supersedes, at)>>]
    BY <1>3 DEF ReadReads
  <2>2. /\ pc' = [pc EXCEPT ![p] = "write"] /\ UNCHANGED <<holder, call>> /\ ~ torn
        /\ Seals(lines, call[p].rule, call[p].used, call[p].supersedes)
    BY <1>3 DEF ReadReads, Goto, Inv, FileInv
  <2>3. at \in Nat
    BY TimesAssumption
  <2>4. KindInv'
    BY <1>1, <2>1, <2>2 DEF Inv, KindInv, PCs
  <2>5. pc'[p] = "write" /\ building'[p] =
          <<ReadLine(lines, call[p].rule, call[p].used, call[p].supersedes, at)>>
    BY <2>1, <2>2 DEF Inv, KindInv
  <2>6. ReaderInv(p)
    BY DEF Inv
  <2>7. ReaderInv(p)'
    BY <1>1, <2>2, <2>3, <2>5, <2>6 DEF ReaderInv, PCs, Inside
  <2>8. ASSUME NEW q \in Readers, q # p PROVE ReaderInv(q)'
    BY <1>1, <2>1, <2>2, <2>8, OthersKeep DEF Inv, KindInv
  <2>9. QED
    BY <1>1, <2>4, <2>7, <2>8 DEF Inv, FileInv
<1>4. QED
  BY <1>2, <1>3

(* While a line is being written, only its reader is at the file. *)
LEMMA BeginWriteInv == ASSUME Inv, NEW p \in Readers, BeginWrite(p) PROVE Inv'
<1>1. /\ pc' = [pc EXCEPT ![p] = "writing"] /\ pc[p] = "write" /\ torn' = TRUE
      /\ UNCHANGED <<lines, synced, holder, call, building, returned, spent>>
  BY DEF BeginWrite, Goto
<1>2. ReaderInv(p) /\ holder = p
  BY <1>1 DEF Inv, ReaderInv, Inside
<1>3. KindInv'
  BY <1>1 DEF Inv, KindInv, PCs
<1>4. pc'[p] = "writing"
  BY <1>1 DEF Inv, KindInv
<1>5. ReaderInv(p)'
  BY <1>1, <1>2, <1>4 DEF ReaderInv, PCs, Inside
<1>6. ASSUME NEW q \in Readers, q # p PROVE ReaderInv(q)'
  BY <1>1, <1>2, <1>6, OthersKeep DEF Inv, KindInv
<1>7. QED
  BY <1>1, <1>3, <1>5, <1>6 DEF Inv, FileInv

(* The whole line is in the file, and the file is honest with it. *)
LEMMA EndWriteInv == ASSUME Inv, NEW p \in Readers, EndWrite(p) PROVE Inv'
<1>1. /\ pc' = [pc EXCEPT ![p] = "sync"] /\ pc[p] = "writing" /\ torn' = FALSE
      /\ lines' = lines \o building[p]
      /\ UNCHANGED <<synced, holder, call, building, returned, spent>>
  BY DEF EndWrite, Goto
<1>2. ReaderInv(p) /\ holder = p
  BY <1>1 DEF Inv, ReaderInv, Inside
<1>3. call[p].rule \in PreregIds /\ call[p].used \in DOMAIN Labels[call[p].rule]
  BY <1>1, <1>2 DEF ReaderInv
<1>4. PICK at \in Nat :
        /\ Seals(lines, call[p].rule, call[p].used, call[p].supersedes)
        /\ building[p] = <<ReadLine(lines, call[p].rule, call[p].used, call[p].supersedes, at)>>
  BY <1>1, <1>2 DEF ReaderInv
<1> DEFINE line == ReadLine(lines, call[p].rule, call[p].used, call[p].supersedes, at)
<1>5. Honest(lines \o <<line>>) /\ (lines \o <<line>>)[Len(lines) + 1] = line
  BY <1>3, <1>4, HonestGrows DEF Inv, FileInv
<1>6. lines \in Seq(ToSet(lines))
  BY DEF Inv, FileInv, Honest
<1> HIDE DEF line
<1>7. /\ lines' = lines \o <<line>> /\ building'[p] = <<line>>
      /\ Honest(lines') /\ lines'[Len(lines) + 1] = line
  BY <1>1, <1>4, <1>5 DEF line
<1>8. /\ Len(lines') = Len(lines) + 1 /\ Len(lines) \in Nat
      /\ \A n \in 1 .. Len(lines) : lines'[n] = lines[n]
  <2>1. lines \in Seq(ToSet(lines) \cup {line}) /\ <<line>> \in Seq(ToSet(lines) \cup {line})
    BY <1>6
  <2>2. QED
    BY <1>7, <2>1
<1>9. KindInv'
  BY <1>1 DEF Inv, KindInv, PCs
<1>10. FileInv'
  <2>1. synced \in 0 .. Len(lines) /\ \A old \in returned : \E n \in 1 .. synced : lines[n] = old
    BY DEF Inv, FileInv
  <2>2. \A old \in returned' : \E n \in 1 .. synced' : lines'[n] = old
    <3>1. SUFFICES ASSUME NEW old \in returned PROVE \E n \in 1 .. synced : lines'[n] = old
      BY <1>1
    <3>2. PICK n \in 1 .. synced : lines[n] = old
      BY <2>1
    <3>3. n \in 1 .. Len(lines)
      BY <1>8, <2>1
    <3>4. QED
      BY <1>8, <3>2, <3>3
  <2>3. synced' \in 0 .. Len(lines')
    BY <1>1, <1>8, <2>1
  <2>4. QED
    BY <1>1, <1>7, <2>2, <2>3 DEF FileInv
<1>11. ReaderInv(p)'
  <2>1. pc'[p] = "sync" /\ call'[p] = call[p]
    BY <1>1 DEF Inv, KindInv
  <2>2. lines' # <<>> /\ building'[p] = <<lines'[Len(lines')]>>
    BY <1>7, <1>8
  <2>3. QED
    BY <1>1, <1>2, <1>3, <2>1, <2>2 DEF ReaderInv, PCs, Inside
<1>12. ASSUME NEW q \in Readers, q # p PROVE ReaderInv(q)'
  BY <1>1, <1>2, <1>12, OthersKeep DEF Inv, KindInv
<1>13. QED
  BY <1>9, <1>10, <1>11, <1>12 DEF Inv

(* A receipt is returned for a line on disk. *)
LEMMA SyncInv == ASSUME Inv, NEW p \in Readers, Sync(p) PROVE Inv'
<1>1. /\ pc[p] = "sync" /\ Leave(p) /\ synced' = Len(lines)
      /\ returned' = returned \cup ToSet(building[p])
      /\ UNCHANGED <<lines, torn, spent>>
  BY DEF Sync
<1>2. lines # <<>> /\ building[p] = <<lines[Len(lines)]>>
  BY <1>1 DEF Inv, ReaderInv
<1>3. ToSet(building[p]) = {lines[Len(lines)]}
  BY <1>2 DEF ToSet
<1>4. Len(lines) \in Nat \ {0} /\ synced <= Len(lines) /\ synced \in Nat
  BY <1>2 DEF Inv, FileInv, Honest
<1>5. \A line \in returned' : \E n \in 1 .. synced' : lines'[n] = line
  <2>1. SUFFICES ASSUME NEW line \in returned' PROVE \E n \in 1 .. Len(lines) : lines[n] = line
    BY <1>1
  <2>2. CASE line = lines[Len(lines)]
    BY <1>4, <2>2
  <2>3. CASE line \in returned
    <3>1. PICK n \in 1 .. synced : lines[n] = line
      BY <2>3 DEF Inv, FileInv
    <3>2. QED
      BY <1>4, <3>1
  <2>4. QED
    BY <1>1, <1>3, <2>2, <2>3
<1>6. FileInv'
  BY <1>1, <1>4, <1>5 DEF Inv, FileInv
<1>7. QED
  BY <1>1, <1>6, LeaveKeeps DEF Inv, KindInv

(* A reader that is killed leaves the file as it is. *)
LEMMA KillInv == ASSUME Inv, NEW p \in Readers, Kill(p) PROVE Inv'
<1>1. Leave(p) /\ UNCHANGED <<lines, torn, synced, returned>>
  BY DEF Kill, fileVars
<1>2. spent' \in [{"calls", "kills", "losses"} -> Nat]
  BY SpendCounts DEF Inv, Kill
<1>3. QED
  BY <1>1, <1>2, LeaveKeeps DEF Inv, KindInv, FileInv

(* A power loss takes no line that a receipt was returned for. *)
LEMMA LosePowerInv == ASSUME Inv, LosePower PROVE Inv'
<1>1. PICK n \in synced .. Len(lines) :
        /\ lines' = SubSeq(lines, 1, n) /\ synced' = n
        /\ torn' \in IF n < Len(lines) \/ torn THEN BOOLEAN ELSE {FALSE}
  BY DEF LosePower
<1>2. Honest(lines) /\ synced \in 0 .. Len(lines) /\ Len(lines) \in Nat
  BY DEF Inv, FileInv, Honest
<1>3. n \in 0 .. Len(lines) /\ synced <= n /\ torn' \in BOOLEAN
  <2>1. n \in 0 .. Len(lines) /\ synced <= n
    BY <1>1, <1>2
  <2>2. torn' \in BOOLEAN
    BY <1>1, Zenon
  <2>3. QED
    BY <2>1, <2>2
<1>4. Honest(lines') /\ Len(lines') = n /\ \A k \in 1 .. n : lines'[k] = lines[k]
  BY <1>1, <1>2, <1>3, HonestPrefix
<1>5. \A line \in returned : \E k \in 1 .. n : lines'[k] = line
  <2>1. SUFFICES ASSUME NEW line \in returned PROVE \E k \in 1 .. n : lines'[k] = line
    OBVIOUS
  <2>2. PICK k \in 1 .. synced : lines[k] = line
    BY DEF Inv, FileInv
  <2>3. QED
    BY <1>2, <1>3, <1>4, <2>2
<1>6. FileInv'
  BY <1>1, <1>3, <1>4, <1>5 DEF FileInv, LosePower
<1>7. KindInv'
  <2>1. spent' \in [{"calls", "kills", "losses"} -> Nat]
    BY SpendCounts DEF Inv, LosePower
  <2>2. QED
    BY <2>1 DEF KindInv, LosePower, PCs
<1>8. ASSUME NEW q \in Readers PROVE ReaderInv(q)'
  BY NoOneAssumption DEF LosePower, ReaderInv, PCs, Inside
<1>9. QED
  BY <1>6, <1>7, <1>8 DEF Inv

(* A file is repaired while nobody writes it. *)
LEMMA RepairInv == ASSUME Inv, Repair PROVE Inv'
<1>1. holder = NoOne /\ torn' = FALSE
      /\ UNCHANGED <<lines, synced, holder, pc, call, building, returned, spent>>
  BY DEF Repair, readerVars
<1>2. ASSUME NEW q \in Readers PROVE ReaderInv(q)'
  <2>1. ReaderInv(q) /\ holder # q
    BY <1>1, NoOneAssumption DEF Inv
  <2>2. pc[q] \in {"idle", "wait"}
    BY <2>1 DEF ReaderInv, PCs, Inside
  <2>3. QED
    BY <1>1, <2>1, <2>2 DEF ReaderInv, PCs, Inside
<1>3. QED
  BY <1>1, <1>2 DEF Inv, KindInv, FileInv

(* At first there is no read, and nobody reads. *)
LEMMA InitInv == Init => Inv
<1> SUFFICES ASSUME Init PROVE Inv
  OBVIOUS
<1>1. lines = <<>> /\ Len(lines) = 0 /\ synced = 0
  BY DEF Init
<1>2. Honest(lines)
  <2>1. lines \in Seq(ToSet(lines))
    BY <1>1
  <2>2. QED
    BY <1>1, <2>1 DEF Honest
<1>3. FileInv
  <2>1. torn \in BOOLEAN /\ returned = {}
    BY DEF Init
  <2>2. synced \in 0 .. Len(lines)
    BY <1>1
  <2>3. QED
    BY <1>2, <2>1, <2>2, Zenon DEF FileInv
<1>4. KindInv
  <2>1. spent = [calls |-> 0, kills |-> 0, losses |-> 0]
    BY DEF Init
  <2>2. spent \in [{"calls", "kills", "losses"} -> Nat]
    BY <2>1
  <2>3. QED
    BY <2>2 DEF Init, KindInv, PCs
<1>5. ASSUME NEW q \in Readers PROVE ReaderInv(q)
  BY NoOneAssumption DEF Init, ReaderInv, PCs, Inside
<1>6. QED
  BY <1>3, <1>4, <1>5 DEF Inv

(* Nothing changes, nothing breaks. *)
LEMMA StutterInv == ASSUME Inv, UNCHANGED vars PROVE Inv'
BY DEF Inv, KindInv, FileInv, ReaderInv, vars, fileVars, readerVars

(* Every step keeps the file honest and its readers in order. *)
LEMMA NextInv == ASSUME Inv, [Next]_vars PROVE Inv'
<1>1. CASE \E p \in Readers : RefuseUnready(p) \/ Begin(p) \/ ReaderStep(p) \/ Kill(p)
  <2>1. PICK p \in Readers : RefuseUnready(p) \/ Begin(p) \/ ReaderStep(p) \/ Kill(p)
    BY <1>1
  <2>2. CASE ReaderStep(p)
    BY <2>2, LockInv, ReadReadsInv, BeginWriteInv, EndWriteInv, SyncInv DEF ReaderStep
  <2>3. QED
    BY <2>1, <2>2, RefuseUnreadyInv, BeginInv, KillInv
<1>2. CASE LosePower
  BY <1>2, LosePowerInv
<1>3. CASE Repair
  BY <1>3, RepairInv
<1>4. CASE Rest \/ UNCHANGED vars
  BY <1>4, StutterInv DEF Rest
<1>5. QED
  BY <1>1, <1>2, <1>3, <1>4 DEF Next

(* The file is honest, and every reader in order, always. *)
THEOREM InvHolds == Spec => []Inv
<1>1. Init => Inv
  BY InitInv
<1>2. Inv /\ [Next]_vars => Inv'
  BY NextInv
<1>3. QED
  BY <1>1, <1>2, PTL DEF Spec

-----------------------------------------------------------------------------
(* What follows *)

(* What a digest names is the first line that has it, in every file that    *)
(* begins with these lines; and its sentence is the same in all of them.    *)
LEMMA FoundAmong ==
  ASSUME NEW S, NEW file \in Seq(S), NEW m \in 0 .. Len(file), NEW line,
         \E k \in 1 .. m : file[k] = line
  PROVE  /\ FindLine(file, Sha(line)) \in 1 .. m
         /\ file[FindLine(file, Sha(line))] = line
         /\ \A k \in 1 .. m : file[k] = line => FindLine(file, Sha(line)) <= k
<1> DEFINE I == {k \in 1 .. Len(file) : Sha(file[k]) = Sha(line)}
<1>1. FindLine(file, Sha(line)) = IF I # {} THEN Min(I) ELSE 0
  BY DEF FindLine, SelectInSeq
<1>2. Len(file) \in Nat /\ m \in Nat /\ m <= Len(file)
  OBVIOUS
<1>3. I = {k \in 1 .. Len(file) : file[k] = line}
  BY ShaIsInjective
<1>4. PICK k \in 1 .. m : file[k] = line
  OBVIOUS
<1>5. k \in I /\ I \subseteq Nat
  BY <1>2, <1>3, <1>4
<1> HIDE DEF I
<1>6. PICK least \in I : \A other \in I : least <= other
  BY <1>5, LeastElement
<1>7. Min(I) \in I /\ \A other \in I : Min(I) <= other
  BY <1>6 DEF Min
<1>8. FindLine(file, Sha(line)) = Min(I)
  BY <1>1, <1>5
<1>9. Min(I) \in 1 .. m
  BY <1>2, <1>3, <1>4, <1>5, <1>7
<1>10. QED
  BY <1>2, <1>3, <1>7, <1>8, <1>9

(* A sentence depends on the lines up to its read. *)
LEMMA SameSentence ==
  ASSUME NEW S, NEW file \in Seq(S), NEW T, NEW other \in Seq(T),
         NEW m \in Nat, m <= Len(file), m <= Len(other),
         \A k \in 1 .. m : other[k] = file[k],
         NEW line, \E k \in 1 .. m : file[k] = line, NEW h
  PROVE  Sentence(other, FindLine(other, Sha(line)), h)
           = Sentence(file, FindLine(file, Sha(line)), h)
<1> DEFINE n == FindLine(file, Sha(line))
           o == FindLine(other, Sha(line))
<1>1. n \in 1 .. m /\ file[n] = line /\ \A k \in 1 .. m : file[k] = line => n <= k
  BY FoundAmong
<1>2. o \in 1 .. m /\ other[o] = line /\ \A k \in 1 .. m : other[k] = line => o <= k
  <2>1. \E k \in 1 .. m : other[k] = line
    OBVIOUS
  <2>2. QED
    BY <2>1, FoundAmong
<1> HIDE DEF n, o
<1>3. n = o
  <2>1. n <= o /\ o <= n
    BY <1>1, <1>2
  <2>2. QED
    BY <1>1, <1>2, <2>1
<1>4. Earlier(other, n) = Earlier(file, n)
  <2>1. Len(SubSeq(other, 1, n - 1)) = n - 1 /\ Len(SubSeq(file, 1, n - 1)) = n - 1
    BY <1>1
  <2>2. \A k \in 1 .. n - 1 : SubSeq(other, 1, n - 1)[k] = SubSeq(file, 1, n - 1)[k]
    BY <1>1
  <2>3. SubSeq(other, 1, n - 1) \in Seq(T) /\ SubSeq(file, 1, n - 1) \in Seq(S)
    BY <1>1
  <2>4. QED
    BY <2>1, <2>2, <2>3 DEF Earlier
<1>5. other[n] = file[n]
  BY <1>1
<1>6. Sentence(other, n, h) = Sentence(file, n, h)
  BY <1>4, <1>5 DEF Sentence
<1>7. QED
  BY <1>3, <1>6 DEF n, o

(* Every step leaves the lines that are on disk where they are. *)
LEMMA DiskKept ==
  ASSUME Inv, [Next]_vars
  PROVE  \E m \in Nat : /\ synced <= m /\ m <= Len(lines) /\ m <= Len(lines')
                        /\ \A k \in 1 .. m : lines'[k] = lines[k]
<1>1. Len(lines) \in Nat /\ synced \in 0 .. Len(lines) /\ lines \in Seq(ToSet(lines))
  BY DEF Inv, FileInv, Honest
<1>2. CASE UNCHANGED lines
  BY <1>1, <1>2
<1>3. ASSUME NEW p \in Readers, EndWrite(p)
      PROVE  Len(lines) <= Len(lines') /\ \A k \in 1 .. Len(lines) : lines'[k] = lines[k]
  <2>1. lines' = lines \o building[p] /\ pc[p] = "writing"
    BY <1>3 DEF EndWrite
  <2>2. \E x : building[p] = <<x>>
    BY <2>1 DEF Inv, ReaderInv
  <2>3. PICK x : building[p] = <<x>>
    BY <2>2
  <2>4. lines \in Seq(ToSet(lines) \cup {x}) /\ <<x>> \in Seq(ToSet(lines) \cup {x})
    BY <1>1
  <2>5. QED
    BY <1>1, <2>1, <2>3, <2>4
<1>4. CASE LosePower
  <2>1. PICK n \in synced .. Len(lines) : lines' = SubSeq(lines, 1, n)
    BY <1>4 DEF LosePower
  <2>2. n \in Nat /\ Len(lines') = n /\ \A k \in 1 .. n : lines'[k] = lines[k]
    BY <1>1, <2>1
  <2>3. QED
    BY <1>1, <2>1, <2>2
<1>5. UNCHANGED lines \/ LosePower \/ \E p \in Readers : EndWrite(p)
  BY DEF Next, RefuseUnready, Begin, ReaderStep, Lock, ReadReads, BeginWrite, Sync, Kill,
         Repair, Rest, vars, fileVars
<1>6. QED
  BY <1>1, <1>2, <1>3, <1>4, <1>5

(* What a sentence says of a returned read is said for good (_render.py).   *)
THEOREM SentencesStandHolds == Spec => SentencesStand
<1> DEFINE Stands ==
      ~ torn /\ ~ torn' =>
        \A line \in returned : \A h \in DOMAIN line.labels :
          Sentence(lines', FindLine(lines', Sha(line)), h)
            = Sentence(lines, FindLine(lines, Sha(line)), h)
<1>1. Inv /\ [Next]_vars => Stands
  <2>1. SUFFICES ASSUME Inv, [Next]_vars, NEW line \in returned, NEW h
                 PROVE  Sentence(lines', FindLine(lines', Sha(line)), h)
                          = Sentence(lines, FindLine(lines, Sha(line)), h)
    OBVIOUS
  <2>2. PICK m \in Nat : /\ synced <= m /\ m <= Len(lines) /\ m <= Len(lines')
                         /\ \A k \in 1 .. m : lines'[k] = lines[k]
    BY <2>1, DiskKept
  <2>3. Inv'
    BY <2>1, NextInv
  <2>4. lines \in Seq(ToSet(lines)) /\ lines' \in Seq(ToSet(lines'))
    BY <2>1, <2>3 DEF Inv, FileInv, Honest
  <2>5. \E k \in 1 .. m : lines[k] = line
    <3>1. PICK k \in 1 .. synced : lines[k] = line
      BY <2>1 DEF Inv, FileInv
    <3>2. synced \in Int
      BY <2>1 DEF Inv, FileInv
    <3>3. QED
      BY <2>2, <3>1, <3>2
  <2>6. QED
    BY <2>2, <2>4, <2>5, SameSentence
<1>2. Inv /\ [Next]_vars => [Stands]_vars
  BY <1>1
<1>3. QED
  BY <1>2, InvHolds, PTL DEF Spec, SentencesStand

(* A receipt that record_read returned can be rendered for good             *)
(* (_receipts.py).                                                          *)
THEOREM ReceiptsRenderHolds == Spec => []ReceiptsRender
<1>1. Inv => ReceiptsRender
  <2>1. SUFFICES ASSUME Inv, NEW line \in returned
                 PROVE  \E used \in DOMAIN Labels[line.prereg] :
                          Binds(lines, line.prereg, used, ReceiptOf(line))
    BY DEF ReceiptsRender
  <2>2. lines \in Seq(ToSet(lines)) /\ Len(lines) \in Nat /\ synced \in 0 .. Len(lines)
    BY <2>1 DEF Inv, FileInv, Honest
  <2>3. \E k \in 1 .. Len(lines) : lines[k] = line
    <3>1. PICK k \in 1 .. synced : lines[k] = line
      BY <2>1 DEF Inv, FileInv
    <3>2. QED
      BY <2>2, <3>1
  <2> DEFINE n == FindLine(lines, Sha(line))
  <2>4. n \in 1 .. Len(lines) /\ lines[n] = line
    BY <2>2, <2>3, FoundAmong
  <2>5. HonestAt(lines, n)
    BY <2>1, <2>4 DEF Inv, FileInv, Honest
  <2> HIDE DEF n
  <2>6. PICK id \in PreregIds, at \in Nat : \E used \in DOMAIN Labels[id] :
           /\ line.prereg = id /\ line.experiment = Rules[id].experiment
           /\ line.data_sha256 = Sha(used) /\ line.labels = Labels[id][used]
           /\ line.at = at /\ line.early = ReadEarly(Rules[id].end, at)
           /\ line.amendments = Rules[id].amendments
           /\ line.post_hoc = PostHoc(Earlier(lines, n), id)
    BY <2>4, <2>5, HonestLine
  <2>7. PICK used \in DOMAIN Labels[id] :
           /\ line.prereg = id /\ line.experiment = Rules[id].experiment
           /\ line.data_sha256 = Sha(used) /\ line.labels = Labels[id][used]
           /\ line.at = at /\ line.early = ReadEarly(Rules[id].end, at)
           /\ line.amendments = Rules[id].amendments
           /\ line.post_hoc = PostHoc(Earlier(lines, n), id)
    BY <2>6
  <2>8. Binds(lines, id, used, ReceiptOf(line))
    BY <2>4, <2>7 DEF Binds, ReceiptOf, n
  <2>9. QED
    BY <2>7, <2>8
<1>2. QED
  BY <1>1, InvHolds, PTL

(* The seal holds over the whole file (_evaluate.py:306). *)
THEOREM SealHoldsAlways == Spec => []SealHolds
<1>1. Inv => SealHolds
  BY HonestSealed DEF Inv, FileInv
<1>2. QED
  BY <1>1, InvHolds, PTL

(* Nothing an amendment changed after the first read passes unmarked        *)
(* (_evaluate.py:294).                                                      *)
THEOREM LabelChangesShowHolds == Spec => []LabelChangesShow
<1>1. Inv => LabelChangesShow
  BY HonestShown DEF Inv, FileInv
<1>2. QED
  BY <1>1, InvHolds, PTL

(* No re-read is of an unknown kind (_receipts.py:38). *)
THEOREM ExplainedHolds == Spec => []Explained
<1>1. Inv => Explained
  BY HonestExplained DEF Inv, FileInv
<1>2. QED
  BY <1>1, InvHolds, PTL

(* An early read's sentence says nothing of labels (_render.py). *)
THEOREM EarlySaysNothingHolds == Spec => []EarlySaysNothing
<1>1. Inv => EarlySaysNothing
  BY HonestEarly DEF Inv, FileInv
<1>2. QED
  BY <1>1, InvHolds, PTL

(* A line that record_read writes is one that parse_line reads. *)
LEMMA WrittenIsWellFormed ==
  ASSUME NEW file, NEW id \in PreregIds, NEW used \in DOMAIN Labels[id],
         NEW supersedes, NEW at \in Nat
  PROVE  WellFormed(ReadLine(file, id, used, supersedes, at))
<1> DEFINE line == ReadLine(file, id, used, supersedes, at)
<1>1. DOMAIN line = {"prereg", "experiment", "data_sha256", "labels", "at", "early",
                     "supersedes", "amendments", "post_hoc"}
  BY DEF ReadLine
<1>2. /\ line.prereg = id /\ line.data_sha256 = Sha(used) /\ line.labels = Labels[id][used]
      /\ line.early = ReadEarly(Rules[id].end, at) /\ line.post_hoc = PostHoc(file, id)
  BY DEF ReadLine
<1> HIDE DEF line
<1>3. used \in Used /\ Labels[id][used] \in [HypothesesOf(id) -> {"met", "not met"}]
  BY LabelsAssumption
<1>4. line.early \in BOOLEAN
  BY <1>2, Zenon DEF ReadEarly
<1>5. line.post_hoc \subseteq DOMAIN line.labels
  BY <1>2, <1>3 DEF PostHoc
<1>6. \A h \in DOMAIN line.labels : line.labels[h] \in {"met", "not met"}
  BY <1>2, <1>3
<1>7. WellFormed(line)
  BY <1>1, <1>2, <1>3, <1>4, <1>5, <1>6 DEF WellFormed
<1>8. QED
  BY <1>7 DEF line

(* Every variable holds a value of its kind (_reads.py). *)
THEOREM TypeOKHolds == Spec => []TypeOK
<1>1. Inv => TypeOK
  <2> SUFFICES ASSUME Inv PROVE TypeOK
    OBVIOUS
  <2>1. lines \in Seq(ToSet(lines)) /\ synced \in 0 .. Len(lines) /\ torn \in BOOLEAN
    BY DEF Inv, FileInv, Honest
  <2>2. ASSUME NEW n \in 1 .. Len(lines) PROVE WellFormed(lines[n])
    BY WrittenIsWellFormed DEF Inv, FileInv, Honest, HonestAt
  <2>3. ASSUME NEW p \in Readers
        PROVE  /\ building[p] \in Seq(ToSet(building[p])) /\ Len(building[p]) <= 1
               /\ \A n \in 1 .. Len(building[p]) : WellFormed(building[p][n])
               /\ pc[p] \in {"write", "writing", "sync"} <=> building[p] # <<>>
    <3>1. ReaderInv(p) /\ pc[p] \in PCs
      BY DEF Inv, KindInv
    <3>2. CASE pc[p] \in {"idle", "wait", "read"}
      <4>1. building[p] = <<>>
        BY <3>1, <3>2 DEF ReaderInv
      <4>2. QED
        BY <3>2, <4>1
    <3>3. ASSUME pc[p] \in {"write", "writing", "sync"}
          PROVE  \E x : building[p] = <<x>> /\ WellFormed(x)
      <4>1. CASE pc[p] = "sync"
        <5>1. lines # <<>> /\ building[p] = <<lines[Len(lines)]>>
          BY <3>1, <4>1 DEF ReaderInv
        <5>2. Len(lines) \in 1 .. Len(lines)
          BY <2>1, <5>1
        <5>3. QED
          BY <2>2, <5>1, <5>2
      <4>2. CASE pc[p] \in {"write", "writing"}
        <5>1. call[p].rule \in PreregIds /\ call[p].used \in DOMAIN Labels[call[p].rule]
          BY <3>1, <4>2 DEF ReaderInv
        <5>2. PICK at \in Nat :
                building[p] = <<ReadLine(lines, call[p].rule, call[p].used, call[p].supersedes, at)>>
          BY <3>1, <4>2 DEF ReaderInv
        <5>3. WellFormed(ReadLine(lines, call[p].rule, call[p].used, call[p].supersedes, at))
          BY <5>1, WrittenIsWellFormed
        <5>4. QED
          BY <5>2, <5>3
      <4>3. QED
        BY <3>3, <4>1, <4>2
    <3>4. CASE pc[p] \in {"write", "writing", "sync"}
      <4>1. PICK x : building[p] = <<x>> /\ WellFormed(x)
        BY <3>3, <3>4
      <4>2. ToSet(<<x>>) = {x} /\ <<x>> \in Seq({x}) /\ Len(<<x>>) = 1 /\ <<x>>[1] = x
        BY DEF ToSet
      <4>3. QED
        BY <3>4, <4>1, <4>2
    <3>5. QED
      BY <3>1, <3>2, <3>4 DEF PCs
  <2>4. QED
    BY <2>1, <2>2, <2>3 DEF TypeOK, Inv, KindInv
<1>2. QED
  BY <1>1, InvHolds, PTL

-----------------------------------------------------------------------------
(* Checked quotes (Quotes): what a scan has found by each place *)

(* What a scan of a document can be. *)
Scans == [opened : Nat, spans : Seq(Seq(Tokens)), error : BOOLEAN]

(* h is what scanning each set of places comes to.                          *)
ScansBy(h, tokens) ==
  h = [S \in SUBSET DOMAIN [at \in DOMAIN tokens |-> at] |->
         IF S = {} THEN Unscanned
         ELSE Scanned(tokens, h[S \ {Max(S)}], [at \in DOMAIN tokens |-> at][Max(S)])]

(* The spans are what scanning every place comes to. *)
LEMMA SpansAre ==
  ASSUME NEW tokens
  PROVE  Spans(tokens) = (CHOOSE h : ScansBy(h, tokens))[DOMAIN [at \in DOMAIN tokens |-> at]]
BY Zenon DEF Spans, ScansBy, FoldLeft, MapThenFoldSet

(* One mention more leaves a scan. *)
LEMMA ScannedType ==
  ASSUME NEW n \in Nat, NEW tokens \in Seq(Tokens), n = Len(tokens), NEW scan \in Scans, NEW at \in 1 .. n
  PROVE  Scanned(tokens, scan, at) \in Scans
<1>1. SubSeq(tokens, scan.opened + 1, at - 1) \in Seq(Tokens)
  <2>1. scan.opened + 1 \in Nat /\ scan.opened + 1 >= 1 /\ at - 1 \in Nat /\ at - 1 <= Len(tokens)
    BY DEF Scans
  <2> DEFINE a == scan.opened + 1
             b == at - 1
  <2> HIDE DEF a, b
  <2>2. a \in Nat /\ a >= 1 /\ b \in Nat /\ b <= Len(tokens)
    BY <2>1 DEF a, b
  <2>3. SubSeq(tokens, a, b) \in Seq(Tokens)
    BY <2>2
  <2> QED
    BY <2>3 DEF a, b
<1> DEFINE span == SubSeq(tokens, scan.opened + 1, at - 1)
<1>2. [scan EXCEPT !.opened = at] \in Scans
  BY DEF Scans
<1>3. [scan EXCEPT !.error = TRUE] \in Scans
  BY DEF Scans
<1>4. [scan EXCEPT !.opened = 0, !.spans = Append(@, span)] \in Scans
  <2>1. Append(scan.spans, span) \in Seq(Seq(Tokens))
    <3>1. span \in Seq(Tokens) /\ scan.spans \in Seq(Seq(Tokens))
      BY <1>1 DEF Scans
    <3> HIDE DEF span
    <3> QED
      BY <3>1
  <2> HIDE DEF span
  <2> QED
    BY <2>1 DEF Scans
<1> DEFINE opens == [scan EXCEPT !.opened = at]
           fails == [scan EXCEPT !.error = TRUE]
           closes == [scan EXCEPT !.opened = 0, !.spans = Append(@, span)]
<1>5. Scanned(tokens, scan, at) \in {scan, opens, closes, fails}
  BY Zenon DEF Scanned
<1> HIDE DEF opens, closes, fails
<1>6. opens \in Scans /\ closes \in Scans /\ fails \in Scans
  BY <1>2, <1>3, <1>4 DEF opens, closes, fails
<1> QED
  BY <1>5, <1>6

(* A document is scanned from its first place to its last.                  *)
LEMMA SpansStages ==
  ASSUME NEW n \in Nat, NEW tokens \in Seq(Tokens), n = Len(tokens)
  PROVE  \E stage \in [0 .. n -> Scans] :
           /\ stage[0] = Unscanned /\ stage[n] = Spans(tokens)
           /\ \A k \in 1 .. n : stage[k] = Scanned(tokens, stage[k - 1], k)
<1> DEFINE step == [k \in 1 .. n |-> [scan \in Scans |-> Scanned(tokens, scan, k)]]
           idx == [at \in DOMAIN tokens |-> at]
<1>1. step \in [1 .. n -> [Scans -> Scans]]
  BY ScannedType
<1>2. Unscanned \in Scans
  <2>1. <<>> \in Seq(Seq(Tokens))
    OBVIOUS
  <2> QED
    BY <2>1 DEF Unscanned, Scans
<1>3. \A k \in 1 .. n : \A scan \in Scans : step[k][scan] = Scanned(tokens, scan, k)
  OBVIOUS
<1>4. DOMAIN idx = 1 .. n /\ \A k \in 1 .. n : idx[k] = k
  OBVIOUS
<1>5. DOMAIN tokens = 1 .. n
  OBVIOUS
<1> HIDE DEF step, idx
<1>6. \A h : ScansBy(h, tokens) <=>
        h = [S \in SUBSET (1 .. n) |-> IF S = {} THEN Unscanned ELSE Scanned(tokens, h[S \ {Max(S)}], idx[Max(S)])]
  BY <1>4 DEF ScansBy, idx
<1>7. \A S \in SUBSET (1 .. n) : S # {} => Max(S) \in S /\ Max(S) \in 1 .. n /\ S \ {Max(S)} \in SUBSET (1 .. n)
  <2> SUFFICES ASSUME NEW S \in SUBSET (1 .. n), S # {} PROVE Max(S) \in S
    OBVIOUS
  <2> QED
    BY GreatestPlace
<1>8. PICK h \in [SUBSET (1 .. n) -> Scans] : Makes(h, Unscanned, step, n)
  BY <1>1, <1>2, MakesExists
<1>9. ScansBy(h, tokens)
  <2>1. \A S \in SUBSET (1 .. n) :
          h[S] = IF S = {} THEN Unscanned ELSE Scanned(tokens, h[S \ {Max(S)}], idx[Max(S)])
    <3> SUFFICES ASSUME NEW S \in SUBSET (1 .. n), S # {}
                 PROVE  h[S] = Scanned(tokens, h[S \ {Max(S)}], idx[Max(S)])
      BY <1>8 DEF Makes
    <3>1. /\ h[S] = step[Max(S)][h[S \ {Max(S)}]] /\ h[S \ {Max(S)}] \in Scans
          /\ Max(S) \in 1 .. n /\ idx[Max(S)] = Max(S)
      BY <1>4, <1>7, <1>8 DEF Makes
    <3> QED
      BY <1>3, <3>1
  <2>2. h = [S \in SUBSET (1 .. n) |-> h[S]]
    OBVIOUS
  <2>3. h = [S \in SUBSET (1 .. n) |->
               IF S = {} THEN Unscanned ELSE Scanned(tokens, h[S \ {Max(S)}], idx[Max(S)])]
    BY <2>1, <2>2
  <2> QED
    BY <1>6, <2>3
<1> DEFINE g == CHOOSE f : ScansBy(f, tokens)
<1>10. ScansBy(g, tokens)
  BY <1>9, Zenon
<1> HIDE DEF g
<1>11. \A S \in SUBSET (1 .. n) :
         g[S] = IF S = {} THEN Unscanned ELSE Scanned(tokens, g[S \ {Max(S)}], idx[Max(S)])
  BY <1>6, <1>10
<1>12. \A S \in SUBSET (1 .. n) : g[S] \in Scans
  <2>1. g[{}] \in Scans
    BY <1>2, <1>11
  <2>2. ASSUME NEW S \in SUBSET (1 .. n), S # {}, g[S \ {Max(S)}] \in Scans PROVE g[S] \in Scans
    <3>1. Max(S) \in 1 .. n /\ idx[Max(S)] = Max(S) /\ g[S] = Scanned(tokens, g[S \ {Max(S)}], idx[Max(S)])
      BY <1>4, <1>7, <1>11, <2>2
    <3> QED
      BY <2>2, <3>1, ScannedType
  <2> QED
    BY <2>1, <2>2, MadeIn
<1>13. g \in [SUBSET (1 .. n) -> Scans] /\ Makes(g, Unscanned, step, n)
  <2>1. g \in [SUBSET (1 .. n) -> Scans]
    BY <1>6, <1>10, <1>12
  <2>2. ASSUME NEW S \in SUBSET (1 .. n), S # {} PROVE g[S] = step[Max(S)][g[S \ {Max(S)}]]
    <3>1. /\ Max(S) \in 1 .. n /\ idx[Max(S)] = Max(S) /\ S \ {Max(S)} \in SUBSET (1 .. n)
          /\ g[S] = Scanned(tokens, g[S \ {Max(S)}], idx[Max(S)])
      BY <1>4, <1>7, <1>11, <2>2
    <3>2. g[S \ {Max(S)}] \in Scans
      BY <1>12, <3>1
    <3> QED
      BY <1>3, <3>1, <3>2
  <2>3. {} \in SUBSET (1 .. n) /\ g[{}] = Unscanned
    BY <1>11
  <2> QED
    BY <2>1, <2>2, <2>3 DEF Makes
<1>14. PICK stage : ByStages(stage, g, Scans, Unscanned, step, n)
  BY <1>13, MakesStages
<1>15. stage[n] = Spans(tokens)
  <2>1. Spans(tokens) = (CHOOSE f : ScansBy(f, tokens))[DOMAIN [at \in DOMAIN tokens |-> at]]
    BY SpansAre
  <2> QED
    BY <1>4, <1>14, <2>1 DEF g, idx, ByStages
<1>16. \A k \in 1 .. n : stage[k] = Scanned(tokens, stage[k - 1], k)
  <2> SUFFICES ASSUME NEW k \in 1 .. n PROVE stage[k] = Scanned(tokens, stage[k - 1], k)
    OBVIOUS
  <2>1. stage[k - 1] \in Scans /\ stage[k] = step[k][stage[k - 1]]
    BY <1>14 DEF StepsFrom, ByStages
  <2> QED
    BY <1>3, <2>1
<1> QED
  BY <1>14, <1>15, <1>16 DEF StepsFrom, ByStages

(* Place i opens or closes a pair. *)
Paired(i) == \E p \in Pairs : i \in {p[1], p[2]}

(* The pairs that end at place k or before. *)
PairsTo(k) == {p \in Pairs : p[2] <= k}

(* What a scan holds once it has come to place k.                           *)
ScanIs(scan, k) ==
  /\ scan.error => \E i \in 1 .. k : doc[i] = "mention" \/ (i \in Marks /\ ~Paired(i))
  /\ ~scan.error =>
       /\ \A i \in 1 .. k : doc[i] # "mention"
       /\ scan.opened \in 0 .. k
       /\ scan.opened # 0 => scan.opened \in Places("open")
       /\ scan.opened # 0 => \A m \in scan.opened + 1 .. k : m \notin Marks
       /\ \A i \in 1 .. k : i \in Marks /\ i # scan.opened => \E p \in PairsTo(k) : i \in {p[1], p[2]}
       /\ Range(scan.spans) = {Quote(p) : p \in PairsTo(k)}

(* What a pair is.                                                          *)
LEMMA PairFacts ==
  ASSUME doc \in Seq(Tokens), NEW p \in Pairs
  PROVE  /\ p[1] \in Nat /\ p[2] \in Nat /\ p[1] < p[2] /\ p = <<p[1], p[2]>>
         /\ p[1] \in Marks /\ doc[p[1]] = "open" /\ p[2] \in Marks /\ doc[p[2]] = "close"
         /\ \A k \in p[1] + 1 .. p[2] - 1 : k \notin Marks
BY DEF Pairs, Places, Marks

(* A marker that opens while a span is open leaves that one without a pair. *)
LEMMA OpenedTwice ==
  ASSUME doc \in Seq(Tokens), NEW k \in DOMAIN doc, doc[k] = "open", NEW o \in Places("open"), o < k,
         \A m \in o + 1 .. k - 1 : m \notin Marks
  PROVE  ~Paired(o)
<1> SUFFICES ASSUME NEW p \in Pairs, o \in {p[1], p[2]} PROVE FALSE
  BY DEF Paired
<1>1. o \in Nat /\ k \in Nat /\ doc[o] = "open" /\ k \in Marks
  BY DEF Places, Marks
<1>2. p[1] = o
  BY <1>1, PairFacts
<1>3. p[2] # k
  BY <1>1, PairFacts
<1>4. CASE p[2] < k
  BY <1>1, <1>2, <1>4, PairFacts
<1>5. CASE p[2] > k
  BY <1>1, <1>2, <1>5, PairFacts
<1> QED
  BY <1>1, <1>3, <1>4, <1>5, PairFacts

(* One that closes when each before it has a pair has none.                 *)
LEMMA ClosedTwice ==
  ASSUME doc \in Seq(Tokens), NEW k \in DOMAIN doc, doc[k] = "close",
         \A i \in 1 .. k - 1 : i \in Marks => \E p \in PairsTo(k - 1) : i \in {p[1], p[2]}
  PROVE  ~Paired(k)
<1> SUFFICES ASSUME NEW p \in Pairs, k \in {p[1], p[2]} PROVE FALSE
  BY DEF Paired
<1>1. p[2] = k /\ p[1] \in 1 .. k - 1 /\ p[1] \in Marks /\ doc[p[1]] = "open"
  <2>1. p[1] \in DOMAIN doc
    BY DEF Pairs, Places
  <2> QED
    BY <2>1, PairFacts
<1>2. PICK q \in PairsTo(k - 1) : p[1] \in {q[1], q[2]}
  BY <1>1
<1>3. q \in Pairs /\ q[2] <= k - 1
  BY <1>2 DEF PairsTo
<1>4. q[1] = p[1]
  BY <1>1, <1>2, <1>3, PairFacts
<1>5. q[2] \in Marks /\ q[2] \in p[1] + 1 .. p[2] - 1
  BY <1>1, <1>3, <1>4, PairFacts
<1> QED
  BY <1>5, PairFacts

(* The pairs up to a place: one more if it closes the open span, else none. *)
LEMMA PairCloses ==
  ASSUME doc \in Seq(Tokens), NEW k \in DOMAIN doc, doc[k] = "close", NEW o \in Places("open"), o < k,
         \A m \in o + 1 .. k - 1 : m \notin Marks
  PROVE  PairsTo(k) = PairsTo(k - 1) \cup {<<o, k>>}
<1>1. o \in Nat /\ k \in Nat /\ o \in Marks /\ doc[o] = "open" /\ k \in Places("close")
  BY DEF Places, Marks
<1>2. <<o, k>> \in Pairs
  BY <1>1 DEF Pairs
<1>3. ASSUME NEW p \in Pairs, p[2] = k PROVE p = <<o, k>>
  <2>1. p[1] \in Nat /\ p[1] < k /\ p[1] \in Marks /\ p = <<p[1], p[2]>>
    BY <1>3, PairFacts
  <2>2. CASE p[1] < o
    <3>1. o \in p[1] + 1 .. p[2] - 1
      BY <1>1, <1>3, <2>1, <2>2
    <3> QED
      BY <1>1, <3>1, PairFacts
  <2>3. CASE p[1] > o
    BY <1>1, <2>1, <2>3
  <2> QED
    BY <1>1, <1>3, <2>1, <2>2, <2>3
<1>4. \A p \in Pairs : p[2] \in Nat /\ (p[2] <= k <=> p[2] <= k - 1 \/ p[2] = k)
  BY <1>1, PairFacts
<1> QED
  BY <1>1, <1>2, <1>3, <1>4 DEF PairsTo

(* And no pair ends where no marker closes. *)
LEMMA NoPairCloses ==
  ASSUME doc \in Seq(Tokens), NEW k \in DOMAIN doc, doc[k] # "close"
  PROVE  PairsTo(k) = PairsTo(k - 1)
<1>1. \A p \in Pairs : p[2] # k /\ p[2] \in Nat
  BY PairFacts
<1>2. k \in Nat
  OBVIOUS
<1>3. \A p \in Pairs : p[2] <= k <=> p[2] <= k - 1
  BY <1>1, <1>2
<1> QED
  BY <1>3 DEF PairsTo

(* One place more.                                                          *)
LEMMA ScanGoesOn ==
  ASSUME doc \in Seq(Tokens), NEW k \in DOMAIN doc, NEW scan \in Scans, ScanIs(scan, k - 1)
  PROVE  ScanIs(Scanned(doc, scan, k), k)
<1>1. k \in Nat /\ k >= 1 /\ \A i \in 1 .. k : i \in 1 .. k - 1 \/ i = k
  OBVIOUS
<1>2. doc[k] \notin Markers => k \notin Marks
  BY DEF Marks, Places, Markers
<1>3. PairsTo(k - 1) \subseteq PairsTo(k)
  BY <1>1, PairFacts DEF PairsTo
<1>4. ASSUME scan.error PROVE ScanIs(Scanned(doc, scan, k), k)
  <2>1. Scanned(doc, scan, k) = scan
    BY <1>4 DEF Scanned
  <2> QED
    BY <1>1, <1>4, <2>1 DEF ScanIs
<1> USE <1>1
<1>5. ASSUME ~scan.error
      PROVE  /\ \A i \in 1 .. k - 1 : doc[i] # "mention"
             /\ scan.opened \in 0 .. k - 1
             /\ scan.opened # 0 => scan.opened \in Places("open")
             /\ scan.opened # 0 => \A m \in scan.opened + 1 .. k - 1 : m \notin Marks
             /\ \A i \in 1 .. k - 1 : i \in Marks /\ i # scan.opened => \E p \in PairsTo(k - 1) : i \in {p[1], p[2]}
             /\ Range(scan.spans) = {Quote(p) : p \in PairsTo(k - 1)}
  BY <1>5 DEF ScanIs
<1>6. CASE ~scan.error /\ doc[k] \notin Markers
  <2>1. Scanned(doc, scan, k) = scan
    BY <1>6 DEF Scanned, Markers
  <2>2. PairsTo(k) = PairsTo(k - 1) /\ doc[k] # "mention"
    BY <1>6, NoPairCloses DEF Markers
  <2>3. scan.opened # 0 => \A m \in scan.opened + 1 .. k : m \notin Marks
    <3> SUFFICES ASSUME scan.opened # 0, NEW m \in scan.opened + 1 .. k PROVE m \notin Marks
      OBVIOUS
    <3>1. m = k \/ m \in scan.opened + 1 .. k - 1
      BY <1>5, <1>6
    <3> QED
      BY <1>2, <1>5, <1>6, <3>1
  <2> QED
    BY <1>2, <1>5, <1>6, <2>1, <2>2, <2>3 DEF ScanIs
<1>7. CASE ~scan.error /\ doc[k] = "open" /\ scan.opened = 0
  <2>1. Scanned(doc, scan, k) = [scan EXCEPT !.opened = k]
    BY <1>7 DEF Scanned, Markers
  <2> DEFINE next == [scan EXCEPT !.opened = k]
  <2>2. next.opened = k /\ next.spans = scan.spans /\ next.error = FALSE
    BY <1>7 DEF Scans
  <2> HIDE DEF next
  <2>3. PairsTo(k) = PairsTo(k - 1) /\ k \in Places("open")
    BY <1>7, NoPairCloses DEF Places
  <2>4. ScanIs(next, k)
    BY <1>5, <1>7, <2>2, <2>3 DEF ScanIs
  <2> QED
    BY <2>1, <2>4 DEF next
<1>8. CASE ~scan.error /\ doc[k] = "close" /\ scan.opened # 0
  <2> DEFINE o == scan.opened
             span == SubSeq(doc, o + 1, k - 1)
             next == [scan EXCEPT !.opened = 0, !.spans = Append(@, span)]
  <2>1. Scanned(doc, scan, k) = next
    BY <1>8 DEF Scanned, Markers
  <2>2. next.opened = 0 /\ next.spans = Append(scan.spans, span) /\ next.error = FALSE
    BY <1>8 DEF Scans
  <2>3. o \in Nat /\ o \in Places("open") /\ o < k /\ \A m \in o + 1 .. k - 1 : m \notin Marks
    BY <1>5, <1>8
  <2>4. PairsTo(k) = PairsTo(k - 1) \cup {<<o, k>>}
    <3> HIDE DEF o
    <3> QED
      BY <1>8, <2>3, PairCloses
  <2>5. Range(next.spans) = Range(scan.spans) \cup {span}
    <3>1. scan.spans \in Seq(Seq(Tokens))
      BY DEF Scans
    <3> HIDE DEF span, next
    <3>2. Range(Append(scan.spans, span)) = Range(scan.spans) \cup {span}
      <4> DEFINE spans == scan.spans
                 len == Len(spans)
      <4>1. /\ len \in Nat /\ DOMAIN spans = 1 .. len /\ DOMAIN Append(spans, span) = 1 .. len + 1
            /\ Append(spans, span)[len + 1] = span
            /\ \A i \in 1 .. len : Append(spans, span)[i] = spans[i]
        BY <3>1
      <4>2. \A i \in 1 .. len + 1 : i \in 1 .. len \/ i = len + 1
        BY <4>1
      <4>3. 1 .. len \subseteq 1 .. len + 1 /\ len + 1 \in 1 .. len + 1
        BY <4>1
      <4> HIDE DEF spans, len
      <4> QED
        BY <4>1, <4>2, <4>3 DEF Range, spans
    <3> QED
      BY <2>2, <3>2
  <2>6. Quote(<<o, k>>) = span
    BY DEF Quote
  <2>7. Range(next.spans) = {Quote(p) : p \in PairsTo(k)}
    <3> HIDE DEF o, span, next
    <3> QED
      BY <1>5, <1>8, <2>4, <2>5, <2>6
  <2> HIDE DEF span, next
  <2>8. \A i \in 1 .. k : i \in Marks => \E p \in PairsTo(k) : i \in {p[1], p[2]}
    <3> SUFFICES ASSUME NEW i \in 1 .. k, i \in Marks PROVE \E p \in PairsTo(k) : i \in {p[1], p[2]}
      OBVIOUS
    <3>1. CASE i = k \/ i = o
      <4>1. <<o, k>> \in PairsTo(k) /\ <<o, k>>[1] = o /\ <<o, k>>[2] = k
        BY <2>4
      <4> QED
        BY <3>1, <4>1
    <3>2. CASE i \in 1 .. k - 1 /\ i # o
      BY <1>3, <1>5, <1>8, <3>2
    <3> QED
      BY <3>1, <3>2
  <2>9. \A i \in 1 .. k : doc[i] # "mention"
    BY <1>5, <1>8
  <2>10. ScanIs(next, k)
    BY <2>2, <2>7, <2>8, <2>9 DEF ScanIs
  <2> QED
    BY <2>1, <2>10
<1>9. CASE /\ ~scan.error /\ doc[k] \in Markers
           /\ ~(doc[k] = "open" /\ scan.opened = 0) /\ ~(doc[k] = "close" /\ scan.opened # 0)
  <2> DEFINE next == [scan EXCEPT !.error = TRUE]
  <2>1. Scanned(doc, scan, k) = next
    BY <1>9 DEF Scanned
  <2>2. next.error = TRUE
    BY DEF Scans
  <2> HIDE DEF next
  <2>3. ASSUME NEW i \in 1 .. k, doc[i] = "mention" \/ (i \in Marks /\ ~Paired(i))
        PROVE  ScanIs(next, k)
    BY <2>2, <2>3 DEF ScanIs
  <2>4. k \in 1 .. k
    OBVIOUS
  <2>5. CASE doc[k] = "mention"
    BY <2>1, <2>3, <2>4, <2>5
  <2>6. CASE doc[k] = "open"
    <3>1. scan.opened \in Places("open") /\ scan.opened < k /\ \A m \in scan.opened + 1 .. k - 1 : m \notin Marks
      BY <1>5, <1>9, <2>6
    <3>2. ~Paired(scan.opened)
      BY <2>6, <3>1, OpenedTwice
    <3>3. scan.opened \in 1 .. k /\ scan.opened \in Marks
      BY <1>5, <1>9, <2>6, <3>1 DEF Marks
    <3> QED
      BY <2>1, <2>3, <3>2, <3>3
  <2>7. CASE doc[k] = "close"
    <3>1. \A i \in 1 .. k - 1 : i \in Marks => \E p \in PairsTo(k - 1) : i \in {p[1], p[2]}
      BY <1>5, <1>9, <2>7
    <3>2. ~Paired(k) /\ k \in Marks
      BY <2>7, <3>1, ClosedTwice DEF Marks, Places
    <3> QED
      BY <2>1, <2>3, <2>4, <3>2
  <2> QED
    BY <1>9, <2>5, <2>6, <2>7 DEF Markers
<1>10. scan.error \in BOOLEAN
  BY DEF Scans
<1> QED
  BY <1>4, <1>6, <1>7, <1>8, <1>9, <1>10

(* A document has no error and no open span at its end exactly if nothing   *)
(* else mentions markers and each of them has a pair; the spans are then    *)
(* what the pairs hold (_quote.py:38-61).                                   *)
LEMMA SpansTell ==
  ASSUME doc \in Seq(Tokens)
  PROVE  /\ ~Spans(doc).error /\ Spans(doc).opened = 0
              <=> Places("mention") = {} /\ \A i \in Marks : \E p \in Pairs : i \in {p[1], p[2]}
         /\ ~Spans(doc).error => Range(Spans(doc).spans) = {Quote(p) : p \in Pairs}
         /\ Spans(doc) \in Scans
<1>1. PICK n \in Nat : n = Len(doc)
  OBVIOUS
<1>2. PICK stage \in [0 .. n -> Scans] :
        /\ stage[0] = Unscanned /\ stage[n] = Spans(doc)
        /\ \A k \in 1 .. n : stage[k] = Scanned(doc, stage[k - 1], k)
  BY <1>1, SpansStages
<1>3. DOMAIN doc = 1 .. n
  BY <1>1
<1>4. ScanIs(stage[0], 0)
  <2>1. ~Unscanned.error /\ Unscanned.opened = 0 /\ Range(Unscanned.spans) = {}
    BY DEF Unscanned, Range
  <2>2. PairsTo(0) = {}
    BY PairFacts DEF PairsTo
  <2> QED
    BY <1>2, <2>1, <2>2 DEF ScanIs
<1>5. \A k \in 0 .. n : ScanIs(stage[k], k)
  <2> DEFINE G == {k \in 0 .. n : ScanIs(stage[k], k)}
  <2>1. 0 \in G
    BY <1>4
  <2>2. ASSUME NEW k \in 0 .. n - 1, k \in G PROVE k + 1 \in G
    <3>1. k + 1 \in DOMAIN doc /\ stage[k] \in Scans /\ ScanIs(stage[k], (k + 1) - 1)
      BY <1>3, <2>2
    <3>2. stage[k + 1] = Scanned(doc, stage[(k + 1) - 1], k + 1) /\ (k + 1) - 1 = k
      BY <1>2
    <3>3. ScanIs(stage[k + 1], k + 1)
      BY <3>1, <3>2, ScanGoesOn
    <3> QED
      BY <3>3
  <2> HIDE DEF G
  <2>3. 0 .. n \subseteq G
    BY <2>1, <2>2, InductionTo
  <2> QED
    BY <2>3 DEF G
<1> DEFINE scan == Spans(doc)
<1>6. scan \in Scans /\ ScanIs(scan, n)
  BY <1>2, <1>5
<1> HIDE DEF scan
<1>7. PairsTo(n) = Pairs
  <2>1. \A p \in Pairs : p[2] \in 1 .. n
    BY <1>3 DEF Pairs, Places
  <2> QED
    BY <2>1 DEF PairsTo
<1>8. Marks \subseteq 1 .. n /\ \A i \in 1 .. n : doc[i] = "mention" <=> i \in Places("mention")
  BY <1>3 DEF Marks, Places
<1>9. Places("mention") \subseteq 1 .. n
  BY <1>3 DEF Places
<1>10. CASE scan.error
  BY <1>6, <1>8, <1>10 DEF ScanIs, Paired, scan
<1>11. CASE ~scan.error /\ scan.opened = 0
  <2>1. \A i \in Marks : \E p \in Pairs : i \in {p[1], p[2]}
    <3>1. \A i \in 1 .. n : i # 0
      OBVIOUS
    <3> QED
      BY <1>6, <1>7, <1>8, <1>11, <3>1 DEF ScanIs
  <2>2. Places("mention") = {}
    BY <1>6, <1>8, <1>9, <1>11 DEF ScanIs
  <2> QED
    BY <1>6, <1>7, <1>11, <2>1, <2>2 DEF ScanIs, scan
<1>12. CASE ~scan.error /\ scan.opened # 0
  <2> DEFINE o == scan.opened
  <2>1. o \in Places("open") /\ o \in Marks /\ o \in 1 .. n /\ \A m \in o + 1 .. n : m \notin Marks
    BY <1>6, <1>12 DEF ScanIs, Marks
  <2> HIDE DEF o
  <2>2. ~ \E p \in Pairs : o \in {p[1], p[2]}
    <3> SUFFICES ASSUME NEW p \in Pairs, o \in {p[1], p[2]} PROVE FALSE
      OBVIOUS
    <3>1. p[1] = o
      BY <2>1, PairFacts DEF Places
    <3>2. p[2] \in 1 .. n /\ p[2] \in Marks /\ o < p[2]
      BY <1>8, <3>1, PairFacts
    <3> QED
      BY <2>1, <3>2
  <2> QED
    BY <1>6, <1>7, <1>12, <2>1, <2>2 DEF ScanIs, scan
<1> QED
  BY <1>6, <1>10, <1>11, <1>12 DEF Scans, scan

-----------------------------------------------------------------------------
(* Words *)

(* ws lists what f says of each element of S, in the order they start in.   *)
Ahead(S, w) == Cardinality({v \in S : v[1] < w[1]})

Listed(ws, S, f) ==
  /\ ws \in Seq(Seq(Tokens)) /\ IsFiniteSet(S) /\ Cardinality(S) = Len(ws)
  /\ \A w \in S : Ahead(S, w) \in 0 .. Len(ws) - 1 /\ ws[Ahead(S, w) + 1] = f[w]
  /\ \A r \in 1 .. Len(ws) : \E w \in S : Ahead(S, w) + 1 = r

(* One that starts after all others is the last.                            *)
LEMMA LastIsLast ==
  ASSUME NEW ws, NEW S \in SUBSET (Nat \X Nat), NEW f, Listed(ws, S, f), NEW e \in S,
         \A w \in S \ {e} : w[1] < e[1]
  PROVE  /\ Len(ws) > 0 /\ ws[Len(ws)] = f[e]
         /\ Listed(Front(ws), S \ {e}, f)
<1> DEFINE R == S \ {e}
           len == Len(ws)
<1>1. /\ ws \in Seq(Seq(Tokens)) /\ IsFiniteSet(S) /\ Cardinality(S) = len /\ len \in Nat
      /\ \A w \in S : Ahead(S, w) \in 0 .. len - 1 /\ ws[Ahead(S, w) + 1] = f[w]
      /\ \A r \in 1 .. len : \E w \in S : Ahead(S, w) + 1 = r
  BY DEF Listed
<1>2. IsFiniteSet(R) /\ Cardinality(R) = len - 1
  BY <1>1, FS_RemoveElement
<1>3. Cardinality(R) \in Nat
  BY <1>2, FS_CardinalityType
<1>4. {v \in S : v[1] < e[1]} = R
  <2>1. ~ (e[1] < e[1])
    OBVIOUS
  <2> QED
    BY <2>1
<1> HIDE DEF len
<1>5. Ahead(S, e) = len - 1 /\ len > 0
  <2>1. Ahead(S, e) = Cardinality(R)
    BY <1>4 DEF Ahead
  <2> HIDE DEF R
  <2> QED
    BY <1>1, <1>2, <1>3, <2>1
<1>6. ASSUME NEW w \in R
      PROVE  Ahead(R, w) = Ahead(S, w) /\ Ahead(R, w) \in 0 .. len - 2
  <2> DEFINE T == {v \in R : v[1] < w[1]}
  <2>1. {v \in S : v[1] < w[1]} = T
    <3>1. w[1] < e[1] /\ w[1] \in Nat /\ e[1] \in Nat
      OBVIOUS
    <3>2. ~ (e[1] < w[1])
      BY <3>1
    <3> QED
      BY <3>2
  <2>2. T \subseteq R /\ w \notin T
    OBVIOUS
  <2>3. T # R
    BY <2>2
  <2>4. Cardinality(T) < Cardinality(R) /\ Cardinality(T) \in Nat
    <3> HIDE DEF T, R
    <3> QED
      BY <1>2, <2>2, <2>3, FS_Subset, FS_CardinalityType
  <2>5. Ahead(S, w) = Cardinality(T) /\ Ahead(R, w) = Cardinality(T)
    BY <2>1 DEF Ahead
  <2> HIDE DEF T, R
  <2> QED
    BY <1>1, <1>2, <2>4, <2>5
<1> DEFINE short == Front(ws)
<1>7. /\ short \in Seq(Seq(Tokens)) /\ Len(short) = len - 1
      /\ \A r \in 1 .. len - 1 : short[r] = ws[r]
  <2>1. ws \in Seq(Seq(Tokens)) /\ len > 0 /\ len = Len(ws)
    BY <1>1, <1>5 DEF len
  <2>2. short = SubSeq(ws, 1, len - 1)
    BY DEF Front, len
  <2> HIDE DEF short
  <2>3. len \in Nat /\ \A r \in 1 .. len - 1 : r \in 1 .. len
    BY <1>1
  <2> QED
    BY <2>1, <2>2, <2>3
<1>10. R \subseteq S /\ e \notin R
  OBVIOUS
<1>11. \A w \in S : w # e => w \in R
  OBVIOUS
<1> HIDE DEF short, R
<1>8. \A w \in R : Ahead(R, w) \in 0 .. Len(short) - 1 /\ short[Ahead(R, w) + 1] = f[w]
  <2> SUFFICES ASSUME NEW w \in R PROVE Ahead(R, w) \in 0 .. Len(short) - 1 /\ short[Ahead(R, w) + 1] = f[w]
    OBVIOUS
  <2>1. w \in S /\ ws[Ahead(S, w) + 1] = f[w]
    BY <1>1, <1>6, <1>10
  <2> DEFINE i == Ahead(R, w)
  <2>2. i = Ahead(S, w) /\ i \in 0 .. len - 2
    BY <1>6
  <2> HIDE DEF i
  <2>3. len \in Nat
    BY <1>1
  <2>4. i + 1 \in 1 .. len - 1 /\ i \in 0 .. (len - 1) - 1
    BY <2>2, <2>3
  <2>5. short[i + 1] = ws[i + 1] /\ Len(short) = len - 1
    BY <1>7, <2>4
  <2>6. ws[i + 1] = f[w]
    BY <2>1, <2>2
  <2>7. i \in 0 .. Len(short) - 1 /\ short[i + 1] = f[w]
    BY <2>4, <2>5, <2>6
  <2> QED
    BY <2>7 DEF i
<1>9. \A r \in 1 .. Len(short) : \E w \in R : Ahead(R, w) + 1 = r
  <2> SUFFICES ASSUME NEW r \in 1 .. len - 1 PROVE \E w \in R : Ahead(R, w) + 1 = r
    BY <1>7
  <2>0. r \in 1 .. len
    BY <1>1
  <2>1. PICK w \in S : Ahead(S, w) + 1 = r
    BY <1>1, <2>0
  <2>2. w # e
    BY <1>1, <1>5, <2>1
  <2> QED
    BY <1>6, <1>11, <2>1, <2>2
<1>12. Len(ws) > 0 /\ ws[Len(ws)] = f[e]
  <2>1. ws[Ahead(S, e) + 1] = f[e] /\ Ahead(S, e) + 1 = len
    BY <1>1, <1>5
  <2> QED
    BY <1>5, <2>1 DEF len
<1>13. Listed(short, R, f)
  BY <1>2, <1>7, <1>8, <1>9 DEF Listed
<1> QED
  BY <1>12, <1>13 DEF R, short

(* And one that is to start after all others is listed after them.          *)
LEMMA ListedLast ==
  ASSUME NEW ws, NEW S \in SUBSET (Nat \X Nat), NEW f, Listed(ws, S, f),
         NEW e \in Nat \X Nat, \A w \in S : w[1] < e[1],
         NEW x \in Seq(Tokens), NEW g, g[e] = x, \A w \in S : g[w] = f[w]
  PROVE  Listed(Append(ws, x), S \cup {e}, g)
<1> DEFINE T == S \cup {e}
           len == Len(ws)
           more == Append(ws, x)
<1>1. /\ ws \in Seq(Seq(Tokens)) /\ IsFiniteSet(S) /\ Cardinality(S) = len /\ len \in Nat
      /\ \A w \in S : Ahead(S, w) \in 0 .. len - 1 /\ ws[Ahead(S, w) + 1] = f[w]
      /\ \A r \in 1 .. len : \E w \in S : Ahead(S, w) + 1 = r
  BY DEF Listed
<1>2. e \notin S /\ e[1] \in Nat
  OBVIOUS
<1>3. IsFiniteSet(T) /\ Cardinality(T) = len + 1
  BY <1>1, <1>2, FS_AddElement
<1>4. \A w \in S : Ahead(T, w) = Ahead(S, w)
  <2> SUFFICES ASSUME NEW w \in S PROVE Ahead(T, w) = Ahead(S, w)
    OBVIOUS
  <2>1. w[1] < e[1] /\ w[1] \in Nat
    OBVIOUS
  <2>2. ~ (e[1] < w[1])
    BY <1>2, <2>1
  <2>3. {v \in T : v[1] < w[1]} = {v \in S : v[1] < w[1]}
    BY <2>2
  <2> QED
    BY <2>3 DEF Ahead
<1>5. Ahead(T, e) = len
  <2>1. ~ (e[1] < e[1])
    BY <1>2
  <2>2. {v \in T : v[1] < e[1]} = S
    BY <2>1
  <2> QED
    BY <1>1, <2>2 DEF Ahead
<1>6. /\ more \in Seq(Seq(Tokens)) /\ Len(more) = len + 1 /\ more[len + 1] = x
      /\ \A r \in 1 .. len : more[r] = ws[r]
  <2>1. ws \in Seq(Seq(Tokens)) /\ x \in Seq(Tokens)
    BY <1>1
  <2> QED
    BY <2>1
<1> HIDE DEF len, more
<1>7. \A w \in T : Ahead(T, w) \in 0 .. Len(more) - 1 /\ more[Ahead(T, w) + 1] = g[w]
  <2> SUFFICES ASSUME NEW w \in T PROVE Ahead(T, w) \in 0 .. Len(more) - 1 /\ more[Ahead(T, w) + 1] = g[w]
    OBVIOUS
  <2>1. CASE w = e
    BY <1>1, <1>5, <1>6, <2>1
  <2>2. CASE w \in S
    <3>1. Ahead(T, w) \in 0 .. len - 1 /\ ws[Ahead(T, w) + 1] = g[w]
      BY <1>1, <1>4, <2>2
    <3> HIDE DEF T
    <3> DEFINE i == Ahead(T, w)
    <3> HIDE DEF i
    <3>2. i \in 0 .. len - 1 /\ ws[i + 1] = g[w]
      BY <3>1 DEF i
    <3>3. i + 1 \in 1 .. len /\ i \in 0 .. len
      BY <1>1, <3>2
    <3>4. more[i + 1] = g[w] /\ i \in 0 .. Len(more) - 1
      BY <1>1, <1>6, <3>2, <3>3
    <3> QED
      BY <3>4 DEF i
  <2> QED
    BY <2>1, <2>2
<1>8. \A r \in 1 .. Len(more) : \E w \in T : Ahead(T, w) + 1 = r
  <2> SUFFICES ASSUME NEW r \in 1 .. len + 1 PROVE \E w \in T : Ahead(T, w) + 1 = r
    BY <1>6
  <2>1. CASE r = len + 1
    BY <1>5, <2>1
  <2>2. CASE r \in 1 .. len
    BY <1>1, <1>4, <2>2
  <2>3. r = len + 1 \/ r \in 1 .. len
    BY <1>1
  <2> QED
    BY <2>1, <2>2, <2>3
<1> QED
  BY <1>3, <1>6, <1>7, <1>8 DEF Listed, more, T

(* ws lists the words of a text.                                            *)
WordsAre(ws, t) == Listed(ws, Words(t), [w \in Words(t) |-> Between(t, w)])

(* Two texts have the same words in the same order exactly if one list      *)
(* lists them.                                                              *)
LEMMA SameLists ==
  ASSUME NEW s, NEW t, NEW ws, NEW vs, WordsAre(ws, s), WordsAre(vs, t)
  PROVE  SameWords(s, t) <=> ws = vs
<1>1. /\ ws \in Seq(Seq(Tokens)) /\ Cardinality(Words(s)) = Len(ws) /\ Len(ws) \in Nat
      /\ \A w \in Words(s) : Before(s, w) \in 0 .. Len(ws) - 1 /\ ws[Before(s, w) + 1] = Between(s, w)
      /\ \A r \in 1 .. Len(ws) : \E w \in Words(s) : Before(s, w) + 1 = r
  <2>1. \A w : Before(s, w) = Ahead(Words(s), w)
    BY DEF Before, Ahead
  <2> QED
    BY <2>1 DEF WordsAre, Listed
<1>2. /\ vs \in Seq(Seq(Tokens)) /\ Cardinality(Words(t)) = Len(vs) /\ Len(vs) \in Nat
      /\ \A w \in Words(t) : Before(t, w) \in 0 .. Len(vs) - 1 /\ vs[Before(t, w) + 1] = Between(t, w)
      /\ \A r \in 1 .. Len(vs) : \E w \in Words(t) : Before(t, w) + 1 = r
  <2>1. \A w : Before(t, w) = Ahead(Words(t), w)
    BY DEF Before, Ahead
  <2> QED
    BY <2>1 DEF WordsAre, Listed
<1>3. ASSUME SameWords(s, t) PROVE ws = vs
  <2>1. Len(ws) = Len(vs)
    BY <1>1, <1>2, <1>3 DEF SameWords
  <2>2. ASSUME NEW r \in 1 .. Len(ws) PROVE ws[r] = vs[r]
    <3>1. PICK w \in Words(s) : Before(s, w) + 1 = r
      BY <1>1
    <3>2. PICK v \in Words(t) : Between(s, w) = Between(t, v) /\ Before(s, w) = Before(t, v)
      BY <1>3 DEF SameWords
    <3> QED
      BY <1>1, <1>2, <3>1, <3>2
  <2> QED
    BY <1>1, <1>2, <2>1, <2>2
<1>4. ASSUME ws = vs PROVE SameWords(s, t)
  <2>1. ASSUME NEW w \in Words(s)
        PROVE  \E v \in Words(t) : Between(s, w) = Between(t, v) /\ Before(s, w) = Before(t, v)
    <3>1. Before(s, w) \in 0 .. Len(ws) - 1 /\ ws[Before(s, w) + 1] = Between(s, w)
      BY <1>1
    <3>2. Before(s, w) + 1 \in 1 .. Len(vs)
      BY <1>1, <1>4, <3>1
    <3>3. PICK v \in Words(t) : Before(t, v) + 1 = Before(s, w) + 1
      BY <1>2, <3>2
    <3>4. Before(t, v) = Before(s, w) /\ vs[Before(t, v) + 1] = Between(t, v)
      BY <1>2, <3>1, <3>3
    <3> QED
      BY <1>4, <3>1, <3>4
  <2>2. Cardinality(Words(s)) = Cardinality(Words(t))
    BY <1>1, <1>2, <1>4
  <2> QED
    BY <2>1, <2>2 DEF SameWords
<1> QED
  BY <1>3, <1>4

(* Places i .. j of t, which has n, are a word. *)
IsWord(t, n, i, j) ==
  /\ 1 <= i /\ i <= j /\ j <= n /\ \A k \in i .. j : t[k] # Space
  /\ i > 1 => t[i - 1] = Space
  /\ j < n => t[j + 1] = Space

(* A pair of places is a word exactly if it is one by its letters. *)
LEMMA WordIs ==
  ASSUME NEW n \in Nat, NEW t, DOMAIN t = 1 .. n
  PROVE  /\ Words(t) \in SUBSET (Nat \X Nat)
         /\ \A i, j \in Nat : <<i, j>> \in Words(t) <=> IsWord(t, n, i, j)
<1>1. Words(t) \in SUBSET (Nat \X Nat)
  BY DEF Words
<1>2. ASSUME NEW i \in Nat, NEW j \in Nat
      PROVE  <<i, j>> \in Words(t) <=> IsWord(t, n, i, j)
  <2>1. <<i, j>>[1] = i /\ <<i, j>>[2] = j
    OBVIOUS
  <2>2. <<i, j>> \in Words(t) <=>
          /\ i \in 1 .. n /\ j \in 1 .. n /\ i <= j /\ \A k \in i .. j : t[k] # Space
          /\ i - 1 \in 1 .. n => t[i - 1] = Space
          /\ j + 1 \in 1 .. n => t[j + 1] = Space
    BY <2>1 DEF Words
  <2>3. CASE i \in 1 .. n /\ j \in 1 .. n
    <3>1. (i - 1 \in 1 .. n <=> i > 1) /\ (j + 1 \in 1 .. n <=> j < n)
      BY <2>3
    <3> QED
      BY <2>2, <2>3, <3>1 DEF IsWord
  <2>4. CASE ~(i \in 1 .. n /\ j \in 1 .. n)
    <3>1. ~(1 <= i /\ i <= j /\ j <= n)
      BY <2>4
    <3> QED
      BY <2>2, <2>4, <3>1 DEF IsWord
  <2> QED
    BY <2>3, <2>4
<1> QED
  BY <1>1, <1>2

(* Two words that start, or end, at one place are one.                      *)
LEMMA WordsApart ==
  ASSUME NEW n \in Nat, NEW t, NEW i \in Nat, NEW j \in Nat, NEW k \in Nat, NEW l \in Nat,
         IsWord(t, n, i, j), IsWord(t, n, k, l)
  PROVE  (i = k \/ j = l => i = k /\ j = l) /\ (i < k => j < k)
<1>1. ASSUME NEW a \in Nat, NEW b \in Nat, NEW c \in Nat, NEW d \in Nat,
             IsWord(t, n, a, b), IsWord(t, n, c, d), b < d
      PROVE  b < c
  <2>1. t[b + 1] = Space
    BY <1>1 DEF IsWord
  <2>2. ~(b + 1 \in c .. d)
    BY <1>1, <2>1 DEF IsWord
  <2> QED
    BY <1>1, <2>2
<1>2. ASSUME NEW a \in Nat, NEW b \in Nat, NEW c \in Nat, NEW d \in Nat,
             IsWord(t, n, a, b), IsWord(t, n, c, d), a < c
      PROVE  b < c
  <2>1. t[c - 1] = Space
    BY <1>2 DEF IsWord
  <2>2. ~(c - 1 \in a .. b)
    BY <1>2, <2>1 DEF IsWord
  <2> QED
    BY <1>2, <2>2
<1>3. i <= j /\ k <= l
  BY DEF IsWord
<1>4. i < k => j < k
  BY <1>2
<1>5. k < i => l < i
  BY <1>2
<1>6. j < l => j < k
  BY <1>1
<1>7. l < j => l < i
  BY <1>1
<1> QED
  BY <1>3, <1>4, <1>5, <1>6, <1>7

(* A letter is in a word.                                                   *)
LEMMA SomeWord ==
  ASSUME NEW n \in Nat, NEW t, n > 0, t[n] # Space
  PROVE  \E i \in 1 .. n : IsWord(t, n, i, n)
<1> DEFINE T == {i \in 1 .. n : \A k \in i .. n : t[k] # Space}
<1>1. T \in SUBSET Nat /\ n \in T
  <2>1. \A k \in n .. n : k = n
    OBVIOUS
  <2> QED
    BY <2>1
<1>2. PICK i \in T : \A k \in T : i <= k
  <2> HIDE DEF T
  <2> QED
    BY <1>1, LeastElement
<1>3. i \in 1 .. n /\ \A k \in i .. n : t[k] # Space
  OBVIOUS
<1>4. i > 1 => t[i - 1] = Space
  <2> SUFFICES ASSUME i > 1, t[i - 1] # Space PROVE FALSE
    OBVIOUS
  <2>1. i - 1 \in 1 .. n /\ \A k \in i - 1 .. n : k = i - 1 \/ k \in i .. n
    BY <1>3
  <2>2. i - 1 \in T
    BY <1>3, <2>1
  <2> QED
    BY <1>2, <1>3, <2>2
<1> HIDE DEF T
<1> QED
  BY <1>3, <1>4 DEF IsWord

-----------------------------------------------------------------------------
(* A text that has one token more. *)

(* The text ends inside a word. *)
EndsInWord(t) == t # <<>> /\ Last(t) # Space

(* A text that has one token more: its places, and how it ends. *)
LEMMA Longer ==
  ASSUME NEW n \in Nat, NEW t \in Seq(Tokens), n = Len(t), NEW c \in Tokens
  PROVE  /\ Append(t, c) \in Seq(Tokens) /\ Len(Append(t, c)) = n + 1
         /\ DOMAIN t = 1 .. n /\ DOMAIN Append(t, c) = 1 .. n + 1
         /\ Append(t, c)[n + 1] = c /\ \A k \in 1 .. n : Append(t, c)[k] = t[k]
         /\ EndsInWord(t) <=> n > 0 /\ t[n] # Space
         /\ EndsInWord(Append(t, c)) <=> c # Space
<1>1. /\ Append(t, c) \in Seq(Tokens) /\ Len(Append(t, c)) = n + 1
      /\ DOMAIN t = 1 .. n /\ DOMAIN Append(t, c) = 1 .. n + 1
      /\ Append(t, c)[n + 1] = c /\ \A k \in 1 .. n : Append(t, c)[k] = t[k]
  OBVIOUS
<1>2. t # <<>> <=> n > 0
  OBVIOUS
<1>3. EndsInWord(t) <=> n > 0 /\ t[n] # Space
  BY <1>2 DEF EndsInWord, Last
<1>4. Append(t, c) # <<>>
  BY <1>1
<1>5. EndsInWord(Append(t, c)) <=> c # Space
  BY <1>1, <1>4 DEF EndsInWord, Last
<1> QED
  BY <1>1, <1>3, <1>5

(* What stands between two places stays.                                    *)
LEMMA BetweenKept ==
  ASSUME NEW n \in Nat, NEW t \in Seq(Tokens), n = Len(t), NEW c \in Tokens, NEW w \in Nat \X Nat,
         1 <= w[1], w[2] <= n, w[1] <= w[2]
  PROVE  /\ Between(Append(t, c), w) = Between(t, w) /\ Between(t, w) \in Seq(Tokens)
         /\ w[2] = n => Between(Append(t, c), <<w[1], n + 1>>) = Append(Between(t, w), c)
<1> DEFINE u == Append(t, c)
           i == w[1]
           j == w[2]
<1>1. /\ u \in Seq(Tokens) /\ Len(u) = n + 1 /\ u[n + 1] = c /\ \A k \in 1 .. n : u[k] = t[k]
  BY Longer
<1>2. i \in Nat /\ j \in Nat /\ 1 <= i /\ i <= j /\ j <= n
  OBVIOUS
<1>3. Between(u, w) = SubSeq(u, i, j) /\ Between(t, w) = SubSeq(t, i, j)
  BY DEF Between
<1>4. Between(u, <<i, n + 1>>) = SubSeq(u, i, n + 1)
  BY DEF Between
<1> HIDE DEF u, i, j
<1>5. /\ SubSeq(t, i, j) \in Seq(Tokens) /\ Len(SubSeq(t, i, j)) = j - i + 1
      /\ \A k \in 1 .. j - i + 1 : SubSeq(t, i, j)[k] = t[i + k - 1]
  BY <1>2
<1>6. /\ SubSeq(u, i, j) \in Seq(Tokens) /\ Len(SubSeq(u, i, j)) = j - i + 1
      /\ \A k \in 1 .. j - i + 1 : SubSeq(u, i, j)[k] = u[i + k - 1]
  BY <1>1, <1>2
<1>7. SubSeq(u, i, j) = SubSeq(t, i, j)
  <2>1. \A k \in 1 .. j - i + 1 : i + k - 1 \in 1 .. n
    BY <1>2
  <2> QED
    BY <1>1, <1>2, <1>5, <1>6, <2>1
<1>8. ASSUME j = n PROVE SubSeq(u, i, n + 1) = Append(SubSeq(t, i, j), c)
  <2>1. /\ SubSeq(u, i, n + 1) \in Seq(Tokens) /\ Len(SubSeq(u, i, n + 1)) = n - i + 2
        /\ \A k \in 1 .. n - i + 2 : SubSeq(u, i, n + 1)[k] = u[i + k - 1]
    BY <1>1, <1>2, <1>8
  <2> DEFINE v == SubSeq(t, i, j)
             x == SubSeq(u, i, n + 1)
  <2>2. /\ v \in Seq(Tokens) /\ Len(v) = n - i + 1
        /\ \A k \in 1 .. n - i + 1 : v[k] = t[i + k - 1]
    BY <1>5, <1>8
  <2> HIDE DEF v, x
  <2>3. /\ Append(v, c) \in Seq(Tokens) /\ Len(Append(v, c)) = n - i + 2
        /\ Append(v, c)[n - i + 2] = c /\ \A k \in 1 .. n - i + 1 : Append(v, c)[k] = v[k]
    BY <1>2, <1>8, <2>2
  <2>4. ASSUME NEW k \in 1 .. n - i + 2 PROVE x[k] = Append(v, c)[k]
    <3>1. CASE k = n - i + 2
      <4>1. i + k - 1 = n + 1
        BY <1>2, <3>1
      <4> QED
        BY <1>1, <2>1, <2>3, <3>1, <4>1 DEF x
    <3>2. CASE k \in 1 .. n - i + 1
      <4>1. i + k - 1 \in 1 .. n
        BY <1>2, <3>2
      <4> QED
        BY <1>1, <2>1, <2>2, <2>3, <3>2, <4>1 DEF x
    <3>3. k = n - i + 2 \/ k \in 1 .. n - i + 1
      <4> DEFINE m == n - i + 1
      <4>1. m \in Int /\ k \in 1 .. m + 1
        BY <1>2, <2>4
      <4> HIDE DEF m
      <4>2. k = m + 1 \/ k \in 1 .. m
        BY <4>1
      <4>3. m + 1 = n - i + 2
        BY <1>2 DEF m
      <4> QED
        BY <4>2, <4>3 DEF m
    <3> QED
      BY <3>1, <3>2, <3>3
  <2>5. x \in Seq(Tokens) /\ Len(x) = n - i + 2
    BY <2>1 DEF x
  <2>6. x = Append(v, c)
    <3> DEFINE y == Append(v, c)
               m == n - i + 2
    <3>1. y \in Seq(Tokens) /\ x \in Seq(Tokens) /\ Len(x) = m /\ Len(y) = m /\ \A k \in 1 .. m : x[k] = y[k]
      BY <2>3, <2>4, <2>5
    <3> HIDE DEF y, m
    <3>2. x = y
      BY <3>1
    <3> QED
      BY <3>2 DEF y
  <2> QED
    BY <2>6 DEF x, v
<1> QED
  BY <1>2, <1>3, <1>4, <1>5, <1>7, <1>8 DEF u, i, j

(* The words of a text that has one token more, where the text ended in a   *)
(* word or not.                                                             *)
Grown(ws, inWord, c) ==
  IF c = Space THEN ws
  ELSE IF inWord THEN Append(Front(ws), Append(Last(ws), c)) ELSE Append(ws, <<c>>)

(* A space more leaves the words as they were. *)
LEMMA GrowSpace ==
  ASSUME NEW n \in Nat, NEW t \in Seq(Tokens), n = Len(t), NEW ws, WordsAre(ws, t)
  PROVE  WordsAre(ws, Append(t, Space))
<1> DEFINE u == Append(t, Space)
<1>1. /\ DOMAIN t = 1 .. n /\ DOMAIN u = 1 .. n + 1 /\ u[n + 1] = Space
      /\ \A k \in 1 .. n : u[k] = t[k]
  BY Longer DEF Tokens
<1> HIDE DEF u
<1>2. ASSUME NEW i \in Nat, NEW j \in Nat
      PROVE  IsWord(u, n + 1, i, j) <=> IsWord(t, n, i, j)
  <2>1. ASSUME IsWord(u, n + 1, i, j) PROVE IsWord(t, n, i, j)
    <3>1. j # n + 1
      <4>1. \A k \in i .. j : u[k] # Space
        BY <2>1 DEF IsWord
      <4> QED
        BY <1>1, <2>1, <4>1 DEF IsWord
    <3>2. 1 <= i /\ i <= j /\ j <= n
      BY <2>1, <3>1 DEF IsWord
    <3>3. \A k \in i .. j : k \in 1 .. n
      BY <3>2
    <3>4. (i > 1 => i - 1 \in 1 .. n) /\ (j < n => j + 1 \in 1 .. n)
      BY <3>2
    <3> QED
      BY <1>1, <2>1, <3>2, <3>3, <3>4 DEF IsWord
  <2>2. ASSUME IsWord(t, n, i, j) PROVE IsWord(u, n + 1, i, j)
    <3>1. 1 <= i /\ i <= j /\ j <= n
      BY <2>2 DEF IsWord
    <3>2. \A k \in i .. j : k \in 1 .. n
      BY <3>1
    <3>3. (i > 1 => i - 1 \in 1 .. n) /\ (j < n => j + 1 \in 1 .. n) /\ (j < n \/ j = n)
      BY <3>1
    <3> QED
      BY <1>1, <2>2, <3>1, <3>2, <3>3 DEF IsWord
  <2> QED
    BY <2>1, <2>2
<1>3. Words(u) = Words(t)
  <2>1. Words(t) \in SUBSET (Nat \X Nat) /\ \A i, j \in Nat : <<i, j>> \in Words(t) <=> IsWord(t, n, i, j)
    BY <1>1, WordIs
  <2>2. Words(u) \in SUBSET (Nat \X Nat) /\ \A i, j \in Nat : <<i, j>> \in Words(u) <=> IsWord(u, n + 1, i, j)
    BY <1>1, WordIs
  <2>3. \A w \in Nat \X Nat : w \in Words(u) <=> w \in Words(t)
    BY <1>2, <2>1, <2>2
  <2> QED
    BY <2>1, <2>2, <2>3
<1>4. \A w \in Words(t) : Between(u, w) = Between(t, w)
  <2> SUFFICES ASSUME NEW w \in Words(t) PROVE Between(u, w) = Between(t, w)
    OBVIOUS
  <2>1. w \in Nat \X Nat /\ 1 <= w[1] /\ w[2] <= n /\ w[1] <= w[2]
    BY <1>1 DEF Words
  <2>2. Space \in Tokens
    BY DEF Tokens
  <2> QED
    BY <2>1, <2>2, BetweenKept DEF u
<1>5. [w \in Words(u) |-> Between(u, w)] = [w \in Words(t) |-> Between(t, w)]
  BY <1>3, <1>4
<1>6. WordsAre(ws, u)
  BY <1>3, <1>5 DEF WordsAre
<1> QED
  BY <1>6 DEF u

(* A letter after a space is a word more. *)
LEMMA GrowWord ==
  ASSUME NEW n \in Nat, NEW t \in Seq(Tokens), n = Len(t), NEW ws, WordsAre(ws, t),
         NEW c \in Tokens, c # Space, ~EndsInWord(t)
  PROVE  WordsAre(Append(ws, <<c>>), Append(t, c))
<1> DEFINE u == Append(t, c)
           e == <<n + 1, n + 1>>
<1>1. /\ DOMAIN t = 1 .. n /\ DOMAIN u = 1 .. n + 1 /\ u[n + 1] = c /\ Len(u) = n + 1
      /\ \A k \in 1 .. n : u[k] = t[k]
      /\ n > 0 => t[n] = Space
  BY Longer
<1> HIDE DEF u
<1>2. ASSUME NEW i \in Nat, NEW j \in Nat
      PROVE  IsWord(u, n + 1, i, j) <=> IsWord(t, n, i, j) \/ (i = n + 1 /\ j = n + 1)
  <2>1. ASSUME IsWord(u, n + 1, i, j), j = n + 1 PROVE i = n + 1
    <3>1. ~(n \in i .. j /\ n > 0)
      BY <1>1, <2>1 DEF IsWord
    <3> QED
      BY <2>1, <3>1 DEF IsWord
  <2>2. ASSUME IsWord(u, n + 1, i, j), j # n + 1 PROVE IsWord(t, n, i, j)
    <3>1. 1 <= i /\ i <= j /\ j <= n
      BY <2>2 DEF IsWord
    <3>2. \A k \in i .. j : k \in 1 .. n
      BY <3>1
    <3>3. (i > 1 => i - 1 \in 1 .. n) /\ (j < n => j + 1 \in 1 .. n)
      BY <3>1
    <3> QED
      BY <1>1, <2>2, <3>1, <3>2, <3>3 DEF IsWord
  <2>3. ASSUME IsWord(t, n, i, j) PROVE IsWord(u, n + 1, i, j)
    <3>1. 1 <= i /\ i <= j /\ j <= n /\ j # n
      BY <1>1, <2>3 DEF IsWord
    <3>2. \A k \in i .. j : k \in 1 .. n
      BY <3>1
    <3>3. (i > 1 => i - 1 \in 1 .. n) /\ j < n /\ j + 1 \in 1 .. n
      BY <3>1
    <3> QED
      BY <1>1, <2>3, <3>1, <3>2, <3>3 DEF IsWord
  <2>4. IsWord(u, n + 1, n + 1, n + 1)
    <3>1. \A k \in n + 1 .. n + 1 : k = n + 1
      OBVIOUS
    <3>2. n + 1 > 1 => n > 0 /\ n \in 1 .. n /\ (n + 1) - 1 = n
      OBVIOUS
    <3> QED
      BY <1>1, <3>1, <3>2 DEF IsWord
  <2> QED
    BY <2>1, <2>2, <2>3, <2>4
<1>3. e \in Nat \X Nat /\ e[1] = n + 1 /\ e[2] = n + 1
  OBVIOUS
<1>4. Words(t) \in SUBSET (Nat \X Nat) /\ \A i, j \in Nat : <<i, j>> \in Words(t) <=> IsWord(t, n, i, j)
  BY <1>1, WordIs
<1>5. Words(u) = Words(t) \cup {e}
  <2>1. Words(u) \in SUBSET (Nat \X Nat) /\ \A i, j \in Nat : <<i, j>> \in Words(u) <=> IsWord(u, n + 1, i, j)
    BY <1>1, WordIs
  <2>2. \A i, j \in Nat : <<i, j>> = e <=> i = n + 1 /\ j = n + 1
    OBVIOUS
  <2>3. \A w \in Nat \X Nat : w = <<w[1], w[2]>> /\ w[1] \in Nat /\ w[2] \in Nat
    OBVIOUS
  <2> HIDE DEF e
  <2>4. \A i, j \in Nat : <<i, j>> \in Words(u) <=> <<i, j>> \in Words(t) \/ <<i, j>> = e
    BY <1>2, <1>4, <2>1, <2>2
  <2>5. \A w \in Nat \X Nat : w \in Words(u) <=> w \in Words(t) \/ w = e
    BY <2>3, <2>4
  <2> QED
    BY <1>3, <1>4, <2>1, <2>5
<1> DEFINE f == [w \in Words(t) |-> Between(t, w)]
           g == [w \in Words(u) |-> Between(u, w)]
<1>6. \A w \in Words(t) : w[1] < e[1] /\ 1 <= w[1] /\ w[2] <= n /\ w[1] <= w[2]
  BY <1>1, <1>3 DEF Words
<1>7. \A w \in Words(t) : g[w] = f[w]
  <2> SUFFICES ASSUME NEW w \in Words(t) PROVE Between(u, w) = Between(t, w)
    BY <1>5
  <2>1. w \in Nat \X Nat
    BY <1>4
  <2> QED
    BY <1>6, <2>1, BetweenKept DEF u
<1>8. g[e] = <<c>>
  <2>1. SubSeq(u, n + 1, n + 1) = <<c>>
    <3>1. u \in Seq(Tokens)
      BY Longer DEF u
    <3>2. SubSeq(u, n + 1, n + 1) \in Seq(Tokens) /\ Len(SubSeq(u, n + 1, n + 1)) = 1
          /\ SubSeq(u, n + 1, n + 1)[1] = u[n + 1]
      BY <1>1, <3>1
    <3> DEFINE x == SubSeq(u, n + 1, n + 1)
    <3>3. x \in Seq(Tokens) /\ Len(x) = 1 /\ x[1] = c
      BY <1>1, <3>2
    <3> HIDE DEF x
    <3>4. x = <<c>>
      BY <3>3
    <3> QED
      BY <3>4 DEF x
  <2> QED
    BY <1>3, <1>5, <2>1 DEF Between
<1>9. <<c>> \in Seq(Tokens) /\ Listed(ws, Words(t), f)
  BY DEF WordsAre
<1> HIDE DEF e, f, g
<1>10. Listed(Append(ws, <<c>>), Words(t) \cup {e}, g)
  BY <1>3, <1>4, <1>6, <1>7, <1>8, <1>9, ListedLast
<1> QED
  BY <1>5, <1>10 DEF WordsAre, u, g

(* A letter after a letter is the last word a letter longer. *)
LEMMA GrowLetter ==
  ASSUME NEW n \in Nat, NEW t \in Seq(Tokens), n = Len(t), NEW ws, WordsAre(ws, t),
         NEW c \in Tokens, c # Space, EndsInWord(t)
  PROVE  WordsAre(Append(Front(ws), Append(Last(ws), c)), Append(t, c))
<1> DEFINE u == Append(t, c)
<1>1. /\ DOMAIN t = 1 .. n /\ DOMAIN u = 1 .. n + 1 /\ u[n + 1] = c /\ Len(u) = n + 1
      /\ \A k \in 1 .. n : u[k] = t[k]
      /\ n > 0 /\ t[n] # Space
  BY Longer
<1> HIDE DEF u
<1>2. PICK a \in 1 .. n : IsWord(t, n, a, n)
  BY <1>1, SomeWord
<1> DEFINE d == <<a, n>>
           e == <<a, n + 1>>
<1>3. /\ d \in Nat \X Nat /\ d[1] = a /\ d[2] = n
      /\ e \in Nat \X Nat /\ e[1] = a /\ e[2] = n + 1 /\ d # e
  OBVIOUS
<1>4. ASSUME NEW i \in Nat, NEW j \in Nat
      PROVE  IsWord(u, n + 1, i, j) <=> (IsWord(t, n, i, j) /\ ~(i = a /\ j = n)) \/ (i = a /\ j = n + 1)
  <2>1. IsWord(u, n + 1, a, n + 1)
    <3>1. \A k \in a .. n + 1 : k = n + 1 \/ (k \in a .. n /\ k \in 1 .. n)
      OBVIOUS
    <3>2. a > 1 => a - 1 \in 1 .. n
      OBVIOUS
    <3> QED
      BY <1>1, <1>2, <3>1, <3>2 DEF IsWord
  <2>2. ASSUME IsWord(u, n + 1, i, j), j = n + 1 PROVE i = a
    BY <2>1, <2>2, WordsApart
  <2>3. ASSUME IsWord(u, n + 1, i, j), j # n + 1 PROVE IsWord(t, n, i, j) /\ j # n
    <3>1. 1 <= i /\ i <= j /\ j <= n /\ j # n
      BY <1>1, <2>3 DEF IsWord
    <3>2. \A k \in i .. j : k \in 1 .. n
      BY <3>1
    <3>3. (i > 1 => i - 1 \in 1 .. n) /\ (j < n => j + 1 \in 1 .. n)
      BY <3>1
    <3> QED
      BY <1>1, <2>3, <3>1, <3>2, <3>3 DEF IsWord
  <2>4. ASSUME IsWord(t, n, i, j), ~(i = a /\ j = n) PROVE IsWord(u, n + 1, i, j)
    <3>1. 1 <= i /\ i <= j /\ j <= n /\ j # n
      BY <1>2, <2>4, WordsApart DEF IsWord
    <3>2. \A k \in i .. j : k \in 1 .. n
      BY <3>1
    <3>3. (i > 1 => i - 1 \in 1 .. n) /\ j < n /\ j + 1 \in 1 .. n
      BY <3>1
    <3> QED
      BY <1>1, <2>4, <3>1, <3>2, <3>3 DEF IsWord
  <2> QED
    BY <2>1, <2>2, <2>3, <2>4
<1>5. Words(t) \in SUBSET (Nat \X Nat) /\ \A i, j \in Nat : <<i, j>> \in Words(t) <=> IsWord(t, n, i, j)
  BY <1>1, WordIs
<1> DEFINE S == Words(t) \ {d}
<1>6. Words(u) = S \cup {e}
  <2>1. Words(u) \in SUBSET (Nat \X Nat) /\ \A i, j \in Nat : <<i, j>> \in Words(u) <=> IsWord(u, n + 1, i, j)
    BY <1>1, WordIs
  <2>2. \A i, j \in Nat : (<<i, j>> = e <=> i = a /\ j = n + 1) /\ (<<i, j>> = d <=> i = a /\ j = n)
    OBVIOUS
  <2>3. \A w \in Nat \X Nat : w = <<w[1], w[2]>> /\ w[1] \in Nat /\ w[2] \in Nat
    OBVIOUS
  <2> HIDE DEF e, d
  <2>4. \A i, j \in Nat : <<i, j>> \in Words(u) <=> (<<i, j>> \in Words(t) /\ <<i, j>> # d) \/ <<i, j>> = e
    BY <1>4, <1>5, <2>1, <2>2
  <2>5. \A w \in Nat \X Nat : w \in Words(u) <=> (w \in Words(t) /\ w # d) \/ w = e
    BY <2>3, <2>4
  <2> QED
    BY <1>3, <1>5, <2>1, <2>5
<1>7. d \in Words(t)
  BY <1>2, <1>5
<1>8. \A w \in S : w[1] < a
  <2> SUFFICES ASSUME NEW w \in Words(t), w # d PROVE w[1] < a
    OBVIOUS
  <2>1. w[1] \in Nat /\ w[2] \in Nat /\ w = <<w[1], w[2]>>
    BY <1>5
  <2>2. IsWord(t, n, w[1], w[2])
    BY <1>5, <2>1
  <2>3. ~(w[1] = a /\ w[2] = n)
    BY <2>1
  <2>4. w[1] # a /\ w[2] # n
    BY <1>2, <2>1, <2>2, <2>3, WordsApart
  <2>5. w[2] <= n /\ w[1] <= w[2]
    BY <2>2 DEF IsWord
  <2>6. a < w[1] => n < w[1]
    BY <1>2, <2>1, <2>2, WordsApart
  <2> QED
    BY <2>1, <2>4, <2>5, <2>6
<1> DEFINE f == [w \in Words(t) |-> Between(t, w)]
           g == [w \in Words(u) |-> Between(u, w)]
<1>9. \A w \in Words(t) : 1 <= w[1] /\ w[2] <= n /\ w[1] <= w[2]
  BY <1>1 DEF Words
<1>10. \A w \in S : g[w] = f[w]
  <2> SUFFICES ASSUME NEW w \in Words(t), w # d PROVE Between(u, w) = Between(t, w)
    BY <1>6
  <2>1. w \in Nat \X Nat
    BY <1>5
  <2> QED
    BY <1>9, <2>1, BetweenKept DEF u
<1>11. f[d] \in Seq(Tokens) /\ g[e] = Append(f[d], c)
  <2>1. f[d] = Between(t, d) /\ g[e] = Between(u, e)
    BY <1>6, <1>7
  <2>2. 1 <= d[1] /\ d[2] <= n /\ d[1] <= d[2]
    BY <1>7, <1>9
  <2>3. Between(t, d) \in Seq(Tokens) /\ Between(u, <<d[1], n + 1>>) = Append(Between(t, d), c)
    <3> HIDE DEF d, e, f, g
    <3> QED
      BY <1>3, <2>2, BetweenKept DEF u
  <2> QED
    BY <1>3, <2>1, <2>3
<1>12. Listed(ws, Words(t), f)
  BY DEF WordsAre
<1>13. \A w \in S : w[1] < e[1] /\ w[1] < d[1]
  BY <1>3, <1>8
<1>14. S \in SUBSET (Nat \X Nat)
  BY <1>5
<1> HIDE DEF f, g, d, e
<1>15. Len(ws) > 0 /\ ws[Len(ws)] = f[d] /\ Listed(Front(ws), S, f)
  BY <1>5, <1>7, <1>12, <1>13, LastIsLast
<1>16. Append(Last(ws), c) = g[e] /\ g[e] \in Seq(Tokens)
  <2>1. Last(ws) = f[d]
    BY <1>15 DEF Last
  <2>2. f[d] \in Seq(Tokens) /\ g[e] = Append(f[d], c)
    BY <1>11
  <2> QED
    BY <2>1, <2>2
<1> HIDE DEF S
<1>17. Listed(Append(Front(ws), g[e]), S \cup {e}, g)
  BY <1>3, <1>10, <1>13, <1>14, <1>15, <1>16, ListedLast
<1> QED
  BY <1>6, <1>16, <1>17 DEF WordsAre, u, g

(* So the words of a text that has one token more are the grown ones. *)
LEMMA WordsGrow ==
  ASSUME NEW t \in Seq(Tokens), NEW ws, WordsAre(ws, t), NEW c \in Tokens
  PROVE  WordsAre(Grown(ws, EndsInWord(t), c), Append(t, c))
<1>1. PICK n \in Nat : n = Len(t)
  OBVIOUS
<1> QED
  BY <1>1, GrowSpace, GrowWord, GrowLetter DEF Grown

-----------------------------------------------------------------------------
(* Texts spelt from their words. *)

(* What stands before the word after those of vs, which are spelt y.        *)
Lead(y, vs) == IF vs = <<>> THEN <<>> ELSE Append(y, Space)

(* f is the empty text, ws[1], ws[1] and ws[2] with a space between, ... *)
SpeltBy(f, ws) ==
  /\ f \in [0 .. Len(ws) -> Seq(Tokens)] /\ f[0] = <<>>
  /\ \A r \in 1 .. Len(ws) : f[r] = (IF r = 1 THEN <<>> ELSE Append(f[r - 1], Space)) \o ws[r]

(* x is the words ws with one space between two of them. *)
Spelt(x, ws) == \E f : SpeltBy(f, ws) /\ x = f[Len(ws)]

(* There is only one spelling.                                              *)
LEMMA SpeltOnce ==
  ASSUME NEW ws \in Seq(Seq(Tokens)), NEW x, NEW y, Spelt(x, ws), Spelt(y, ws)
  PROVE  x = y
<1>1. PICK n \in Nat : n = Len(ws)
  OBVIOUS
<1>2. PICK f : SpeltBy(f, ws) /\ x = f[n]
  BY <1>1 DEF Spelt
<1>3. PICK g : SpeltBy(g, ws) /\ y = g[n]
  BY <1>1 DEF Spelt
<1> DEFINE G == {r \in 0 .. n : f[r] = g[r]}
<1>4. 0 \in G
  BY <1>2, <1>3 DEF SpeltBy
<1>5. ASSUME NEW r \in 0 .. n - 1, r \in G PROVE r + 1 \in G
  <2>1. r + 1 \in 1 .. n /\ (r + 1) - 1 = r /\ f[r] = g[r]
    BY <1>5
  <2>2. \A q \in 1 .. n : f[q] = (IF q = 1 THEN <<>> ELSE Append(f[q - 1], Space)) \o ws[q]
    BY <1>1, <1>2 DEF SpeltBy
  <2>3. \A q \in 1 .. n : g[q] = (IF q = 1 THEN <<>> ELSE Append(g[q - 1], Space)) \o ws[q]
    BY <1>1, <1>3 DEF SpeltBy
  <2> DEFINE q == r + 1
  <2>4. q \in 1 .. n /\ q - 1 = r
    BY <2>1
  <2> HIDE DEF q
  <2>5. f[q] = g[q]
    <3>1. f[q] = (IF q = 1 THEN <<>> ELSE Append(f[q - 1], Space)) \o ws[q]
      BY ONLY <2>2, <2>4
    <3>2. g[q] = (IF q = 1 THEN <<>> ELSE Append(g[q - 1], Space)) \o ws[q]
      BY ONLY <2>3, <2>4
    <3>3. f[q - 1] = g[q - 1]
      BY ONLY <2>1, <2>4
    <3> QED
      BY ONLY <3>1, <3>2, <3>3, Zenon
  <2>6. q \in 0 .. n
    BY <2>4
  <2> QED
    BY <2>5, <2>6 DEF q
<1> HIDE DEF G
<1>6. 0 .. n \subseteq G
  BY <1>4, <1>5, InductionTo
<1> QED
  BY <1>2, <1>3, <1>6 DEF G

(* No words spell the empty text. *)
LEMMA SpeltNone == Spelt(<<>>, <<>>) /\ \A x : Spelt(x, <<>>) => x = <<>>
<1> DEFINE f == [r \in 0 .. 0 |-> <<>>]
<1>1. SpeltBy(f, <<>>) /\ f[0] = <<>>
  BY DEF SpeltBy
<1>2. Len(<<>>) = 0
  OBVIOUS
<1> HIDE DEF f
<1> QED
  BY <1>1, <1>2 DEF Spelt, SpeltBy

(* A word more.                                                             *)
LEMMA SpeltMore ==
  ASSUME NEW ws \in Seq(Seq(Tokens)), NEW x, Spelt(x, ws), NEW w \in Seq(Tokens)
  PROVE  /\ Spelt(Lead(x, ws) \o w, Append(ws, w)) /\ x \in Seq(Tokens)
         /\ Lead(x, ws) \in Seq(Tokens)
<1>1. PICK n \in Nat : n = Len(ws)
  OBVIOUS
<1>2. PICK f : SpeltBy(f, ws) /\ x = f[n]
  BY <1>1 DEF Spelt
<1> DEFINE vs == Append(ws, w)
           y == Lead(x, ws) \o w
           g == [r \in 0 .. n + 1 |-> IF r = n + 1 THEN y ELSE f[r]]
<1>3. /\ f \in [0 .. n -> Seq(Tokens)] /\ f[0] = <<>>
      /\ \A r \in 1 .. n : f[r] = (IF r = 1 THEN <<>> ELSE Append(f[r - 1], Space)) \o ws[r]
  BY <1>1, <1>2 DEF SpeltBy
<1>4. x \in Seq(Tokens) /\ Space \in Tokens
  BY <1>2, <1>3 DEF Tokens
<1>5. Lead(x, ws) \in Seq(Tokens)
  BY <1>4 DEF Lead
<1>6. y \in Seq(Tokens)
  <2> DEFINE a == Lead(x, ws)
  <2>1. a \in Seq(Tokens)
    BY <1>5
  <2> HIDE DEF a
  <2>2. a \o w \in Seq(Tokens)
    BY <2>1
  <2> QED
    BY <2>2 DEF a
<1>7. /\ Len(vs) = n + 1 /\ vs[n + 1] = w /\ \A r \in 1 .. n : vs[r] = ws[r]
  BY <1>1
<1>8. ws = <<>> <=> n = 0
  BY <1>1
<1>9. y = (IF n + 1 = 1 THEN <<>> ELSE Append(f[n], Space)) \o w
  <2>1. n + 1 = 1 <=> n = 0
    OBVIOUS
  <2> QED
    BY <1>2, <1>8, <2>1 DEF Lead
<1> HIDE DEF y, vs
<1>10. g \in [0 .. n + 1 -> Seq(Tokens)] /\ g[n + 1] = y /\ \A r \in 0 .. n : g[r] = f[r]
  BY <1>3, <1>6
<1> HIDE DEF g
<1>11. ASSUME NEW r \in 1 .. n + 1
       PROVE  g[r] = (IF r = 1 THEN <<>> ELSE Append(g[r - 1], Space)) \o vs[r]
  <2>1. CASE r = n + 1
    <3>1. g[n] = f[n] /\ r - 1 = n
      BY <1>10, <2>1
    <3> QED
      BY <1>7, <1>9, <1>10, <2>1, <3>1
  <2>2. CASE r \in 1 .. n
    <3>1. r \in 0 .. n /\ r - 1 \in 0 .. n
      BY <2>2
    <3> QED
      BY <1>3, <1>7, <1>10, <2>2, <3>1
  <2>3. r = n + 1 \/ r \in 1 .. n
    OBVIOUS
  <2> QED
    BY <2>1, <2>2, <2>3
<1>12. SpeltBy(g, vs)
  <2>1. g[0] = <<>>
    BY <1>3, <1>10
  <2> QED
    BY <1>7, <1>10, <1>11, <2>1 DEF SpeltBy
<1>13. Spelt(y, vs)
  BY <1>7, <1>10, <1>12 DEF Spelt
<1> QED
  BY <1>4, <1>5, <1>13 DEF y, vs

(* A word less.                                                             *)
LEMMA SpeltLess ==
  ASSUME NEW ws \in Seq(Seq(Tokens)), ws # <<>>, NEW x, Spelt(x, ws)
  PROVE  \E y : Spelt(y, Front(ws)) /\ x = Lead(y, Front(ws)) \o Last(ws)
<1>1. PICK n \in Nat : n = Len(ws)
  OBVIOUS
<1>2. n > 0
  BY <1>1
<1>3. PICK f : SpeltBy(f, ws) /\ x = f[n]
  BY <1>1 DEF Spelt
<1> DEFINE vs == Front(ws)
           g == [r \in 0 .. n - 1 |-> f[r]]
<1>4. /\ vs \in Seq(Seq(Tokens)) /\ Len(vs) = n - 1 /\ \A r \in 1 .. n - 1 : vs[r] = ws[r]
  <2>1. vs = SubSeq(ws, 1, n - 1)
    BY <1>1 DEF Front
  <2> HIDE DEF vs
  <2> QED
    BY <1>1, <1>2, <2>1
<1>5. Last(ws) = ws[n]
  BY <1>1 DEF Last
<1> HIDE DEF vs
<1>6. /\ f \in [0 .. n -> Seq(Tokens)] /\ f[0] = <<>>
      /\ \A r \in 1 .. n : f[r] = (IF r = 1 THEN <<>> ELSE Append(f[r - 1], Space)) \o ws[r]
  BY <1>1, <1>3 DEF SpeltBy
<1>7. g \in [0 .. n - 1 -> Seq(Tokens)] /\ \A r \in 0 .. n - 1 : g[r] = f[r]
  BY <1>6
<1> HIDE DEF g
<1>8. SpeltBy(g, vs)
  <2>1. \A r \in 1 .. n - 1 : r \in 1 .. n /\ r \in 0 .. n - 1 /\ r - 1 \in 0 .. n - 1
    OBVIOUS
  <2>2. 0 \in 0 .. n - 1
    BY <1>2
  <2> QED
    BY <1>4, <1>6, <1>7, <2>1, <2>2 DEF SpeltBy
<1>9. Spelt(g[n - 1], vs)
  BY <1>4, <1>8 DEF Spelt
<1>10. vs = <<>> <=> n = 1
  BY <1>4
<1>11. x = Lead(g[n - 1], vs) \o ws[n]
  <2>1. n \in 1 .. n /\ n - 1 \in 0 .. n - 1
    BY <1>2
  <2>2. x = (IF n = 1 THEN <<>> ELSE Append(f[n - 1], Space)) \o ws[n] /\ g[n - 1] = f[n - 1]
    BY <1>3, <1>6, <1>7, <2>1
  <2> QED
    BY <1>10, <2>2 DEF Lead
<1> QED
  BY <1>5, <1>9, <1>11 DEF vs

(* The last word a letter longer.                                           *)
LEMMA SpeltLonger ==
  ASSUME NEW ws \in Seq(Seq(Tokens)), ws # <<>>, NEW x, Spelt(x, ws), NEW c \in Tokens
  PROVE  Spelt(Append(x, c), Append(Front(ws), Append(Last(ws), c)))
<1>1. PICK y : Spelt(y, Front(ws)) /\ x = Lead(y, Front(ws)) \o Last(ws)
  BY SpeltLess
<1> DEFINE vs == Front(ws)
           w == Last(ws)
<1>2. vs \in Seq(Seq(Tokens)) /\ w \in Seq(Tokens)
  <2>1. Len(ws) > 0 /\ Len(ws) \in Nat
    OBVIOUS
  <2> QED
    BY <2>1 DEF Front, Last
<1>3. Append(w, c) \in Seq(Tokens)
  <2> HIDE DEF w
  <2> QED
    BY <1>2
<1>4. Spelt(Lead(y, vs) \o Append(w, c), Append(vs, Append(w, c))) /\ Lead(y, vs) \in Seq(Tokens)
  <2> HIDE DEF vs, w
  <2>1. Spelt(y, vs)
    BY <1>1 DEF vs
  <2> QED
    BY <1>2, <1>3, <2>1, SpeltMore
<1> DEFINE a == Lead(y, vs)
<1>5. a \o Append(w, c) = Append(a \o w, c)
  <2>1. a \in Seq(Tokens) /\ w \in Seq(Tokens)
    BY <1>2, <1>4
  <2> HIDE DEF a, w
  <2> QED
    BY <2>1
<1>6. x = a \o w
  BY <1>1
<1> HIDE DEF vs, w, a
<1> QED
  BY <1>4, <1>5, <1>6 DEF vs, w, a

-----------------------------------------------------------------------------
(* Texts with one space between two words. *)

(* h is what joining the tokens at each set of places comes to.             *)
JoinsBy(h, tokens) ==
  h = [S \in SUBSET DOMAIN tokens |-> IF S = {} THEN <<>> ELSE Spaced(h[S \ {Max(S)}], tokens[Max(S)])]

(* A joined text is what joining every place comes to. *)
LEMMA JoinedIs ==
  ASSUME NEW tokens
  PROVE  Joined(tokens) = (CHOOSE h : JoinsBy(h, tokens))[DOMAIN tokens]
BY Zenon DEF Joined, JoinsBy, FoldLeft, MapThenFoldSet

(* One token more leaves a text. *)
LEMMA SpacedType ==
  ASSUME NEW done \in Seq(Tokens), NEW token \in Tokens
  PROVE  Spaced(done, token) \in Seq(Tokens)
BY DEF Spaced

(* A text is joined from its first token to its last (_quote.py:16-18). *)
LEMMA JoinedStages ==
  ASSUME NEW n \in Nat, NEW tokens \in Seq(Tokens), n = Len(tokens)
  PROVE  \E stage \in [0 .. n -> Seq(Tokens)] :
           /\ stage[0] = <<>> /\ stage[n] = Joined(tokens)
           /\ \A k \in 1 .. n : stage[k] = Spaced(stage[k - 1], tokens[k])
<1> DEFINE D == Seq(Tokens)
           step == [k \in 1 .. n |-> [done \in D |-> Spaced(done, tokens[k])]]
<1>1. DOMAIN tokens = 1 .. n /\ \A k \in 1 .. n : tokens[k] \in Tokens
  OBVIOUS
<1>2. step \in [1 .. n -> [D -> D]]
  BY <1>1, SpacedType
<1>3. <<>> \in D
  OBVIOUS
<1>4. \A k \in 1 .. n : \A done \in D : step[k][done] = Spaced(done, tokens[k])
  OBVIOUS
<1>5. \A k \in 1 .. n : \A done \in D : Spaced(done, tokens[k]) \in D
  BY <1>1, SpacedType
<1> HIDE DEF step, D
<1>6. \A h : JoinsBy(h, tokens) <=>
        h = [S \in SUBSET (1 .. n) |-> IF S = {} THEN <<>> ELSE Spaced(h[S \ {Max(S)}], tokens[Max(S)])]
  BY <1>1 DEF JoinsBy
<1>7. \A S \in SUBSET (1 .. n) : S # {} => Max(S) \in S /\ Max(S) \in 1 .. n /\ S \ {Max(S)} \in SUBSET (1 .. n)
  <2> SUFFICES ASSUME NEW S \in SUBSET (1 .. n), S # {} PROVE Max(S) \in S
    OBVIOUS
  <2> QED
    BY GreatestPlace
<1>8. PICK h \in [SUBSET (1 .. n) -> D] : Makes(h, <<>>, step, n)
  BY <1>2, <1>3, MakesExists
<1>9. JoinsBy(h, tokens)
  <2>1. \A S \in SUBSET (1 .. n) :
          h[S] = IF S = {} THEN <<>> ELSE Spaced(h[S \ {Max(S)}], tokens[Max(S)])
    <3> SUFFICES ASSUME NEW S \in SUBSET (1 .. n), S # {}
                 PROVE  h[S] = Spaced(h[S \ {Max(S)}], tokens[Max(S)])
      BY <1>8 DEF Makes
    <3>1. /\ h[S] = step[Max(S)][h[S \ {Max(S)}]] /\ h[S \ {Max(S)}] \in D /\ Max(S) \in 1 .. n
      BY <1>7, <1>8 DEF Makes
    <3> QED
      BY <1>4, <3>1
  <2>2. h = [S \in SUBSET (1 .. n) |-> h[S]]
    OBVIOUS
  <2>3. h = [S \in SUBSET (1 .. n) |-> IF S = {} THEN <<>> ELSE Spaced(h[S \ {Max(S)}], tokens[Max(S)])]
    BY <2>1, <2>2
  <2> QED
    BY <1>6, <2>3
<1> DEFINE g == CHOOSE f : JoinsBy(f, tokens)
<1>10. JoinsBy(g, tokens)
  BY <1>9, Zenon
<1> HIDE DEF g
<1>11. \A S \in SUBSET (1 .. n) :
         g[S] = IF S = {} THEN <<>> ELSE Spaced(g[S \ {Max(S)}], tokens[Max(S)])
  BY <1>6, <1>10
<1>12. \A S \in SUBSET (1 .. n) : g[S] \in D
  <2>1. g[{}] \in D
    BY <1>3, <1>11
  <2>2. ASSUME NEW S \in SUBSET (1 .. n), S # {}, g[S \ {Max(S)}] \in D PROVE g[S] \in D
    <3>1. Max(S) \in 1 .. n /\ g[S] = Spaced(g[S \ {Max(S)}], tokens[Max(S)])
      BY <1>7, <1>11, <2>2
    <3> QED
      BY <1>5, <2>2, <3>1
  <2> QED
    BY <2>1, <2>2, MadeIn
<1>13. g \in [SUBSET (1 .. n) -> D] /\ Makes(g, <<>>, step, n)
  <2>1. g \in [SUBSET (1 .. n) -> D]
    BY <1>6, <1>10, <1>12
  <2>2. ASSUME NEW S \in SUBSET (1 .. n), S # {} PROVE g[S] = step[Max(S)][g[S \ {Max(S)}]]
    <3>1. /\ Max(S) \in 1 .. n /\ S \ {Max(S)} \in SUBSET (1 .. n)
          /\ g[S] = Spaced(g[S \ {Max(S)}], tokens[Max(S)])
      BY <1>7, <1>11, <2>2
    <3>2. g[S \ {Max(S)}] \in D
      BY <1>12, <3>1
    <3> QED
      BY <1>4, <3>1, <3>2
  <2>3. {} \in SUBSET (1 .. n) /\ g[{}] = <<>>
    BY <1>11
  <2> QED
    BY <2>1, <2>2, <2>3 DEF Makes
<1>14. PICK stage : ByStages(stage, g, D, <<>>, step, n)
  BY <1>13, MakesStages
<1>15. stage[n] = Joined(tokens)
  BY <1>1, <1>14, JoinedIs DEF g, ByStages
<1>16. \A k \in 1 .. n : stage[k] = Spaced(stage[k - 1], tokens[k])
  <2> SUFFICES ASSUME NEW k \in 1 .. n PROVE stage[k] = Spaced(stage[k - 1], tokens[k])
    OBVIOUS
  <2>1. stage[k - 1] \in D /\ stage[k] = step[k][stage[k - 1]]
    BY <1>14 DEF StepsFrom, ByStages
  <2> QED
    BY <1>4, <2>1
<1> QED
  BY <1>14, <1>15, <1>16 DEF StepsFrom, ByStages, D

(* ws lists the words of p, and j is p with one space between them, and one *)
(* at the end unless p ends in a word.                                      *)
Told(ws, p, j) ==
  /\ ws \in Seq(Seq(Tokens)) /\ p \in Seq(Tokens) /\ WordsAre(ws, p) /\ (EndsInWord(p) => ws # <<>>)
  /\ \E x \in Seq(Tokens) :
       /\ Spelt(x, ws) /\ WordsAre(ws, x) /\ (EndsInWord(x) <=> ws # <<>>)
       /\ j = IF EndsInWord(p) THEN x ELSE Lead(x, ws)

(* The empty text and what it is joined to have no words. *)
LEMMA ToldNone == Told(<<>>, <<>>, <<>>)
<1>1. <<>> \in Seq(Seq(Tokens)) /\ <<>> \in Seq(Tokens) /\ Len(<<>>) = 0 /\ ~EndsInWord(<<>>)
  BY DEF EndsInWord
<1>2. Words(<<>>) = {}
  BY DEF Words
<1>3. WordsAre(<<>>, <<>>)
  <2> DEFINE f == [w \in Words(<<>>) |-> Between(<<>>, w)]
  <2>1. IsFiniteSet({}) /\ Cardinality({}) = 0
    BY FS_EmptySet
  <2> HIDE DEF f
  <2>2. Listed(<<>>, {}, f)
    BY <1>1, <2>1 DEF Listed
  <2> QED
    BY <1>2, <2>2, Zenon DEF WordsAre, f
<1>4. Lead(<<>>, <<>>) = <<>>
  BY DEF Lead
<1> QED
  BY <1>1, <1>3, <1>4, SpeltNone DEF Told

(* One token more keeps them telling the same words. *)
LEMMA ToldMore ==
  ASSUME NEW ws, NEW p, NEW j, Told(ws, p, j), NEW c \in Tokens
  PROVE  Told(Grown(ws, EndsInWord(p), c), Append(p, c), Spaced(j, c))
<1>1. /\ ws \in Seq(Seq(Tokens)) /\ p \in Seq(Tokens) /\ WordsAre(ws, p) /\ (EndsInWord(p) => ws # <<>>)
  BY DEF Told
<1>2. PICK x \in Seq(Tokens) :
       /\ Spelt(x, ws) /\ WordsAre(ws, x) /\ (EndsInWord(x) <=> ws # <<>>)
       /\ j = IF EndsInWord(p) THEN x ELSE Lead(x, ws)
  BY DEF Told
<1> DEFINE vs == Grown(ws, EndsInWord(p), c)
           q == Append(p, c)
           k == Spaced(j, c)
<1>3. q \in Seq(Tokens) /\ (EndsInWord(q) <=> c # Space)
  BY <1>1, Longer
<1>4. WordsAre(vs, q)
  BY <1>1, WordsGrow
<1>5. Space \in Tokens
  BY DEF Tokens
<1>6. ws = <<>> => x = <<>>
  BY <1>2, SpeltNone
<1>7. CASE c = Space
  <2>1. vs = ws /\ ~EndsInWord(q)
    BY <1>3, <1>7 DEF Grown
  <2>2. k = Lead(x, ws)
    <3>1. CASE EndsInWord(p)
      <4>1. j = x /\ ws # <<>> /\ x # <<>> /\ Last(x) # Space
        BY <1>1, <1>2, <3>1 DEF EndsInWord
      <4> QED
        BY <1>7, <4>1 DEF Spaced, Lead
    <3>2. CASE ~EndsInWord(p)
      <4>1. j = Lead(x, ws)
        BY <1>2, <3>2
      <4>2. CASE ws = <<>>
        BY <1>7, <4>1, <4>2 DEF Spaced, Lead
      <4>3. CASE ws # <<>>
        <5>1. j = Append(x, Space) /\ Last(j) = Space
          BY <1>5, <4>1, <4>3 DEF Lead, Last
        <5> QED
          BY <1>7, <4>1, <5>1 DEF Spaced
      <4> QED
        BY <4>2, <4>3
    <3> QED
      BY <3>1, <3>2
  <2> HIDE DEF vs, q, k
  <2>3. Told(vs, q, k)
    BY <1>1, <1>2, <1>3, <1>4, <2>1, <2>2 DEF Told
  <2> QED
    BY <2>3 DEF vs, q, k
<1>8. CASE c # Space
  <2>1. EndsInWord(q)
    BY <1>3, <1>8
  <2>2. k = Append(j, c)
    BY <1>8 DEF Spaced
  <2>3. /\ j \in Seq(Tokens) /\ WordsAre(ws, j) /\ (EndsInWord(j) <=> EndsInWord(p))
    <3>1. CASE EndsInWord(p)
      BY <1>1, <1>2, <3>1
    <3>2. CASE ~EndsInWord(p)
      <4>1. CASE ws = <<>>
        <5>1. j = x
          BY <1>2, <1>6, <3>2, <4>1 DEF Lead
        <5> QED
          BY <1>2, <3>2, <4>1, <5>1
      <4>2. CASE ws # <<>>
        <5>1. j = Append(x, Space)
          BY <1>2, <3>2, <4>2 DEF Lead
        <5>2. Append(x, Space) \in Seq(Tokens) /\ ~EndsInWord(Append(x, Space))
          BY <1>5, Longer
        <5>3. WordsAre(ws, Append(x, Space))
          BY <1>2, GrowSpace
        <5> QED
          BY <3>2, <5>1, <5>2, <5>3
      <4> QED
        BY <4>1, <4>2
    <3> QED
      BY <3>1, <3>2
  <2>4. k \in Seq(Tokens) /\ EndsInWord(k)
    BY <1>8, <2>2, <2>3, Longer
  <2>5. WordsAre(vs, k)
    <3>1. WordsAre(Grown(ws, EndsInWord(j), c), Append(j, c))
      BY <2>3, WordsGrow
    <3>2. Grown(ws, EndsInWord(j), c) = vs
      BY <2>3 DEF Grown
    <3> QED
      BY <2>2, <3>1, <3>2
  <2>6. vs # <<>> /\ vs \in Seq(Seq(Tokens)) /\ Spelt(k, vs)
    <3>1. vs \in Seq(Seq(Tokens))
      BY <1>4 DEF WordsAre, Listed
    <3>2. CASE EndsInWord(p)
      <4>1. vs = Append(Front(ws), Append(Last(ws), c))
        BY <1>8, <3>2 DEF Grown
      <4>2. ws # <<>> /\ k = Append(x, c)
        BY <1>1, <1>2, <2>2, <3>2
      <4>3. vs # <<>>
        <5>1. Front(ws) \in Seq(Seq(Tokens))
          <6>1. Len(ws) > 0 /\ Len(ws) \in Nat
            BY <1>1, <4>2
          <6> QED
            BY <1>1, <6>1 DEF Front
        <5> DEFINE a == Front(ws)
                   b == Append(Last(ws), c)
        <5>2. a \in Seq(Seq(Tokens))
          BY <5>1
        <5> HIDE DEF a, b
        <5>3. Append(a, b) # <<>>
          BY <5>2
        <5> HIDE DEF vs
        <5> QED
          BY <4>1, <5>3 DEF a, b
      <4>4. Spelt(Append(x, c), Append(Front(ws), Append(Last(ws), c)))
        BY <1>1, <1>2, <4>2, SpeltLonger
      <4> QED
        BY <3>1, <4>1, <4>2, <4>3, <4>4
    <3>3. CASE ~EndsInWord(p)
      <4>1. vs = Append(ws, <<c>>) /\ j = Lead(x, ws)
        BY <1>2, <1>8, <3>3 DEF Grown
      <4>2. <<c>> \in Seq(Tokens)
        OBVIOUS
      <4>3. Spelt(Lead(x, ws) \o <<c>>, Append(ws, <<c>>))
        BY <1>1, <1>2, <4>2, SpeltMore
      <4>4. k = j \o <<c>>
        BY <2>2, <2>3
      <4>5. vs # <<>>
        BY <1>1, <4>1
      <4> QED
        BY <3>1, <4>1, <4>3, <4>4, <4>5
    <3> QED
      BY <3>2, <3>3
  <2> HIDE DEF vs, q, k
  <2>7. Told(vs, q, k)
    BY <1>3, <1>4, <2>1, <2>4, <2>5, <2>6 DEF Told
  <2> QED
    BY <2>7 DEF vs, q, k
<1> QED
  BY <1>7, <1>8

(* So what a text is joined to tells its words. *)
LEMMA ToldAll ==
  ASSUME NEW tokens \in Seq(Tokens)
  PROVE  \E ws : Told(ws, tokens, Joined(tokens))
<1>1. PICK n \in Nat : n = Len(tokens)
  OBVIOUS
<1>2. PICK stage \in [0 .. n -> Seq(Tokens)] :
           /\ stage[0] = <<>> /\ stage[n] = Joined(tokens)
           /\ \A k \in 1 .. n : stage[k] = Spaced(stage[k - 1], tokens[k])
  BY <1>1, JoinedStages
<1> DEFINE Tells(k) == \E ws : Told(ws, SubSeq(tokens, 1, k), stage[k])
           G == {k \in 0 .. n : Tells(k)}
<1>3. 0 \in G
  <2>1. SubSeq(tokens, 1, 0) = <<>>
    BY <1>1
  <2>2. Told(<<>>, SubSeq(tokens, 1, 0), stage[0])
    BY <1>2, <2>1, ToldNone, Zenon
  <2>3. 0 \in 0 .. n
    OBVIOUS
  <2> QED
    BY <2>2, <2>3
<1>4. ASSUME NEW k \in 0 .. n - 1, Tells(k) PROVE Tells(k + 1)
  <2>1. PICK ws : Told(ws, SubSeq(tokens, 1, k), stage[k])
    BY <1>4
  <2>2. tokens[k + 1] \in Tokens
    BY <1>1
  <2>3. SubSeq(tokens, 1, k + 1) = Append(SubSeq(tokens, 1, k), tokens[k + 1])
    BY <1>1
  <2>4. stage[k + 1] = Spaced(stage[k], tokens[k + 1])
    <3>1. k + 1 \in 1 .. n /\ (k + 1) - 1 = k
      OBVIOUS
    <3> QED
      BY <1>2, <3>1
  <2> QED
    BY <2>1, <2>2, <2>3, <2>4, ToldMore
<1> HIDE DEF Tells
<1>5. \A k \in 0 .. n - 1 : k \in G => k + 1 \in G
  BY <1>4
<1> HIDE DEF G
<1>6. 0 .. n \subseteq G
  BY <1>3, <1>5, InductionTo
<1>7. Tells(n)
  BY <1>6 DEF G
<1>8. SubSeq(tokens, 1, n) = tokens
  BY <1>1
<1> QED
  BY <1>2, <1>7, <1>8 DEF Tells

(* ws lists the words of a text and of the text with its spaces made one.   *)
OneSpaces(ws, tokens) ==
  /\ ws \in Seq(Seq(Tokens)) /\ WordsAre(ws, tokens)
  /\ WordsAre(ws, OneSpaced(tokens)) /\ Spelt(OneSpaced(tokens), ws)
  /\ (OneSpaced(tokens) = <<>> <=> ws = <<>>)

(* A text with its spaces made one is spelt by the words of the text. *)
LEMMA OneSpacedIs ==
  ASSUME NEW tokens \in Seq(Tokens)
  PROVE  \E ws : OneSpaces(ws, tokens)
<1>1. PICK ws : Told(ws, tokens, Joined(tokens))
  BY ToldAll
<1> DEFINE j == Joined(tokens)
<1>2. PICK x \in Seq(Tokens) :
       /\ Spelt(x, ws) /\ WordsAre(ws, x) /\ (EndsInWord(x) <=> ws # <<>>)
       /\ j = IF EndsInWord(tokens) THEN x ELSE Lead(x, ws)
  BY <1>1 DEF Told
<1>3. ws \in Seq(Seq(Tokens)) /\ WordsAre(ws, tokens) /\ (EndsInWord(tokens) => ws # <<>>)
  BY <1>1 DEF Told
<1>4. ws = <<>> => x = <<>>
  BY <1>2, SpeltNone
<1>5. OneSpaced(tokens) = IF j # <<>> /\ Last(j) = Space THEN Front(j) ELSE j
  BY DEF OneSpaced
<1> HIDE DEF j
<1>6. OneSpaced(tokens) = x
  <2>1. CASE EndsInWord(tokens)
    BY <1>2, <1>3, <1>5, <2>1 DEF EndsInWord
  <2>2. CASE ~EndsInWord(tokens) /\ ws = <<>>
    BY <1>2, <1>4, <1>5, <2>2 DEF Lead
  <2>3. CASE ~EndsInWord(tokens) /\ ws # <<>>
    <3>1. j = Append(x, Space) /\ Space \in Tokens
      BY <1>2, <2>3 DEF Lead, Tokens
    <3>2. /\ Append(x, Space) # <<>> /\ Last(Append(x, Space)) = Space
          /\ Front(Append(x, Space)) = x
      <4>1. Space \in Tokens
        BY <3>1
      <4> DEFINE y == Append(x, Space)
      <4>2. PICK n \in Nat : n = Len(x)
        OBVIOUS
      <4>3. y \in Seq(Tokens) /\ Len(y) = n + 1 /\ y[n + 1] = Space /\ \A k \in 1 .. n : y[k] = x[k]
        BY <4>1, <4>2
      <4> HIDE DEF y
      <4>4. SubSeq(y, 1, n) = x
        BY <4>2, <4>3
      <4>5. y # <<>> /\ Last(y) = Space /\ Front(y) = x
        BY <4>3, <4>4 DEF Last, Front
      <4> QED
        BY <4>5 DEF y
    <3> QED
      BY <1>5, <3>1, <3>2
  <2> QED
    BY <2>1, <2>2, <2>3
<1>7. x = <<>> <=> ws = <<>>
  BY <1>2, <1>4 DEF EndsInWord
<1> QED
  BY <1>2, <1>3, <1>6, <1>7 DEF OneSpaces

(* Making the spaces one tells texts apart exactly by their words.          *)
LEMMA OneSpacedTells ==
  ASSUME NEW s \in Seq(Tokens), NEW t \in Seq(Tokens)
  PROVE  OneSpaced(s) = OneSpaced(t) <=> SameWords(s, t)
<1>1. PICK ws : OneSpaces(ws, s)
  BY OneSpacedIs
<1>2. PICK vs : OneSpaces(vs, t)
  BY OneSpacedIs
<1>3. SameWords(s, t) <=> ws = vs
  BY <1>1, <1>2, SameLists DEF OneSpaces
<1>4. ASSUME OneSpaced(s) = OneSpaced(t) PROVE ws = vs
  <2> DEFINE o == OneSpaced(s)
  <2>1. WordsAre(ws, o) /\ WordsAre(vs, o)
    BY <1>1, <1>2, <1>4 DEF OneSpaces
  <2> HIDE DEF o
  <2>2. WordsAre(ws, o)
    BY <2>1
  <2>3. SameWords(o, o) <=> ws = ws
    BY <2>2, SameLists
  <2>4. SameWords(o, o) <=> ws = vs
    BY <2>1, SameLists
  <2> QED
    BY <2>3, <2>4
<1>5. ASSUME ws = vs PROVE OneSpaced(s) = OneSpaced(t)
  BY <1>1, <1>2, <1>5, SpeltOnce DEF OneSpaces
<1> QED
  BY <1>3, <1>4, <1>5

(* Only a text with no words comes to the empty one. *)
LEMMA OneSpacedNone ==
  ASSUME NEW s \in Seq(Tokens)
  PROVE  OneSpaced(s) = <<>> <=> Words(s) = {}
<1>1. PICK ws : OneSpaces(ws, s)
  BY OneSpacedIs
<1>2. IsFiniteSet(Words(s)) /\ Cardinality(Words(s)) = Len(ws) /\ ws \in Seq(Seq(Tokens))
  BY <1>1 DEF OneSpaces, WordsAre, Listed
<1>3. Cardinality(Words(s)) = 0 <=> Words(s) = {}
  BY <1>2, FS_EmptySet
<1>4. Len(ws) = 0 <=> ws = <<>>
  BY <1>2
<1> QED
  BY <1>1, <1>2, <1>3, <1>4 DEF OneSpaces

-----------------------------------------------------------------------------
(* The sentences and the document are texts. *)
QuoteInv == sentences \in Seq(Seq(Tokens)) /\ doc \in Seq(Tokens)

(* What stands between two markers is a text. *)
LEMMA QuoteTells ==
  ASSUME QuoteInv, NEW p \in Pairs
  PROVE  Quote(p) \in Seq(Tokens)
<1>1. PICK n \in Nat : n = Len(doc) /\ DOMAIN doc = 1 .. n
  BY DEF QuoteInv
<1>2. p[1] \in 1 .. n /\ p[2] \in 1 .. n
  BY <1>1 DEF Pairs, Places
<1> DEFINE a == p[1] + 1
           b == p[2] - 1
<1>3. a \in Nat /\ a >= 1 /\ b \in Nat /\ b <= n
  BY <1>2
<1> HIDE DEF a, b
<1>4. SubSeq(doc, a, b) \in Seq(Tokens)
  BY <1>1, <1>3 DEF QuoteInv
<1> QED
  BY <1>4 DEF Quote, a, b

(* A sentence can be quoted exactly if it has words and no marker
   (_quote.py:100-104). *)
LEMMA QuotableTells ==
  ASSUME NEW s \in Seq(Tokens)
  PROVE  Quotable(s) <=> Words(s) # {} /\ Range(s) \cap Markers = {}
BY OneSpacedNone DEF Quotable

(* A document passes exactly when it is quoted as it should be. *)
LEMMA QuotedTells ==
  ASSUME QuoteInv
  PROVE  PassesExactlyWhenQuoted
<1> DEFINE list == sentences
           scan == Spans(doc)
           wanted == {OneSpaced(s) : s \in Range(list)}
           found == {OneSpaced(s) : s \in Range(scan.spans)}
           quotes == {Quote(p) : p \in Pairs}
           Fits == list # <<>> /\ \A s \in Range(list) : Quotable(s)
           Closed == ~scan.error /\ scan.opened = 0
           TurnByTurn == Places("mention") = {} /\ \A i \in Marks : \E p \in Pairs : i \in {p[1], p[2]}
           Matched == /\ \A p \in Pairs : \E s \in Range(list) : SameWords(s, Quote(p))
                      /\ \A s \in Range(list) : \E p \in Pairs : SameWords(s, Quote(p))
<1>1. \A s \in Range(list) : s \in Seq(Tokens)
  BY DEF QuoteInv, Range
<1>2. AssertQuoted(doc, list) = "pass" <=> Fits /\ Closed /\ found = wanted
  <2>1. AssertQuoted(doc, list) =
          CASE list = <<>> \/ (\E s \in Range(list) : ~Quotable(s)) -> "ValueError"
            [] list # <<>> /\ (\A s \in Range(list) : Quotable(s))
                 /\ (scan.error \/ scan.opened # 0 \/ found # wanted) -> "AssertionError"
            [] OTHER -> "pass"
    BY Zenon DEF AssertQuoted
  <2>2. "ValueError" # "pass" /\ "AssertionError" # "pass"
    OBVIOUS
  <2>3. (list = <<>> \/ (\E s \in Range(list) : ~Quotable(s))) <=> ~Fits
    OBVIOUS
  <2>4. (list # <<>> /\ (\A s \in Range(list) : Quotable(s))
           /\ (scan.error \/ scan.opened # 0 \/ found # wanted)) <=> Fits /\ ~(Closed /\ found = wanted)
    <3>1. scan \in Scans
      BY SpansTell DEF QuoteInv
    <3> HIDE DEF scan
    <3> QED
      BY <3>1
  <2> HIDE DEF scan, found, wanted, Fits, Closed
  <2> QED
    BY <2>1, <2>2, <2>3, <2>4
<1>3. Fits <=> list # <<>> /\ \A s \in Range(list) : Words(s) # {} /\ Range(s) \cap Markers = {}
  BY <1>1, QuotableTells
<1>4. /\ Closed <=> TurnByTurn
      /\ ~scan.error => Range(scan.spans) = quotes
  BY SpansTell DEF QuoteInv
<1>5. ASSUME Closed PROVE found = wanted <=> Matched
  <2>1. found = {OneSpaced(q) : q \in quotes}
    BY <1>4, <1>5
  <2>2. \A p \in Pairs : Quote(p) \in Seq(Tokens)
    BY QuoteTells
  <2>3. \A p \in Pairs : \A s \in Range(list) : OneSpaced(s) = OneSpaced(Quote(p)) <=> SameWords(s, Quote(p))
    BY <1>1, <2>2, OneSpacedTells
  <2> HIDE DEF found
  <2>4. found \subseteq wanted <=> \A p \in Pairs : \E s \in Range(list) : SameWords(s, Quote(p))
    <3>1. found \subseteq wanted <=>
            \A p \in Pairs : \E s \in Range(list) : OneSpaced(s) = OneSpaced(Quote(p))
      BY <2>1
    <3> QED
      BY <2>3, <3>1
  <2>5. wanted \subseteq found <=> \A s \in Range(list) : \E p \in Pairs : SameWords(s, Quote(p))
    <3>1. wanted \subseteq found <=>
            \A s \in Range(list) : \E p \in Pairs : OneSpaced(s) = OneSpaced(Quote(p))
      BY <2>1
    <3> QED
      BY <2>3, <3>1
  <2>6. found = wanted <=> found \subseteq wanted /\ wanted \subseteq found
    OBVIOUS
  <2> QED
    BY <2>4, <2>5, <2>6
<1>6. PassesExactlyWhenQuoted <=>
        (AssertQuoted(doc, list) = "pass" <=> Fits /\ TurnByTurn /\ Matched)
  <2> HIDE DEF Fits
  <2> QED
    BY <1>3 DEF PassesExactlyWhenQuoted
<1> HIDE DEF Fits, Closed, TurnByTurn, Matched, found, wanted
<1> QED
  BY <1>2, <1>4, <1>5, <1>6

(* Sentences and document stay texts, whatever is written. *)
LEMMA QuoteInvInductive ==
  /\ QuoteInit => QuoteInv
  /\ QuoteInv /\ [QuoteNext]_quoteVars => QuoteInv'
<1>1. QuoteInit => QuoteInv
  BY SentencesAssumption DEF QuoteInit, QuoteInv
<1>2. ASSUME QuoteInv, [QuoteNext]_quoteVars PROVE QuoteInv'
  <2>1. CASE WriteDoc
    BY <1>2, <2>1 DEF WriteDoc, QuoteInv
  <2>2. CASE QuoteRest
    BY <1>2, <2>2 DEF QuoteRest, QuoteInv, quoteVars
  <2>3. CASE UNCHANGED quoteVars
    BY <1>2, <2>3 DEF QuoteInv, quoteVars
  <2> QED
    BY <1>2, <2>1, <2>2, <2>3 DEF QuoteNext
<1> QED
  BY <1>1, <1>2

(* A document passes assert_quoted exactly if its markers pair off in turn, *)
(* nothing else mentions them, each pair holds a sentence but for its       *)
(* wrapping, and each sentence stands in some pair: for documents and       *)
(* sentences of any length over any letters (_quote.py:63-117, 27-60).       *)
THEOREM PassesExactlyWhenQuotedHolds == QuoteSpec => []PassesExactlyWhenQuoted
<1>1. QuoteInit => QuoteInv
  BY QuoteInvInductive
<1>2. QuoteInv /\ [QuoteNext]_quoteVars => QuoteInv'
  BY QuoteInvInductive
<1>3. QuoteInv => PassesExactlyWhenQuoted
  BY QuotedTells
<1> QED
  BY <1>1, <1>2, <1>3, PTL DEF QuoteSpec

-----------------------------------------------------------------------------
(* Paths: a text is followed place by place. *)

(* Two sequences with the same elements at the same places are one.         *)
LEMMA SameSeq ==
  ASSUME NEW D, NEW x \in Seq(D), NEW y \in Seq(D), Len(x) = Len(y),
         \A k \in 1 .. Len(x) : x[k] = y[k]
  PROVE  x = y
OBVIOUS

(* At k, past the l symbols of x, x and y is y.                             *)
IsSecond(x, y, l, k) == (x \o y)[k] = y[k - l]

LEMMA JoinAt ==
  ASSUME NEW D, NEW x \in Seq(D), NEW y \in Seq(D), NEW l \in Nat, l = Len(x),
         NEW k \in l + 1 .. l + Len(y)
  PROVE  IsSecond(x, y, l, k)
BY DEF IsSecond

(* What stands from c to e is what stands up to a and what stands after it. *)
LEMMA JoinCut ==
  ASSUME NEW D, NEW s \in Seq(D), NEW c \in Nat, NEW a \in Nat, NEW e \in Nat,
         1 <= c, c <= a, a <= e + 1, e <= Len(s)
  PROVE  SubSeq(s, c, a - 1) \o SubSeq(s, a, e) = SubSeq(s, c, e)
<1> DEFINE x == SubSeq(s, c, a - 1)
           y == SubSeq(s, a, e)
           z == SubSeq(s, c, e)
<1>1. x \in Seq(D) /\ Len(x) = a - c /\ \A k \in 1 .. a - c : x[k] = s[c + k - 1]
  <2>1. CASE c = a
    BY <2>1
  <2>2. CASE c < a
    BY <2>2
  <2> QED
    BY <2>1, <2>2
<1>2. y \in Seq(D) /\ Len(y) = e - a + 1 /\ \A k \in 1 .. e - a + 1 : y[k] = s[a + k - 1]
  <2>1. CASE a = e + 1
    BY <2>1
  <2>2. CASE a <= e
    BY <2>2
  <2> QED
    BY <2>1, <2>2
<1>3. z \in Seq(D) /\ Len(z) = e - c + 1 /\ \A k \in 1 .. e - c + 1 : z[k] = s[c + k - 1]
  <2>1. CASE c = e + 1
    BY <2>1
  <2>2. CASE c <= e
    BY <2>2
  <2> QED
    BY <2>1, <2>2
<1> HIDE DEF x, y, z
<1>4. x \o y \in Seq(D) /\ Len(x \o y) = e - c + 1
  BY <1>1, <1>2
<1>5. ASSUME NEW k \in 1 .. e - c + 1 PROVE (x \o y)[k] = z[k]
  <2>1. CASE k <= a - c
    BY <1>1, <1>2, <1>3, <2>1
  <2>2. CASE k > a - c
    <3>1. k - (a - c) \in 1 .. e - a + 1 /\ a - c \in Nat
      BY <2>2
    <3>2. (x \o y)[k] = y[k - (a - c)]
      <4> DEFINE l == a - c
      <4>1. l \in Nat /\ l = Len(x) /\ k \in l + 1 .. l + Len(y)
        BY <1>1, <1>2, <2>2, <3>1
      <4> HIDE DEF l
      <4>2. x \in Seq(D) /\ y \in Seq(D)
        BY <1>1, <1>2
      <4>3. IsSecond(x, y, l, k)
        BY <4>1, <4>2, JoinAt
      <4> QED
        BY <4>3 DEF IsSecond, l
    <3>3. a + (k - (a - c)) - 1 = c + k - 1
      OBVIOUS
    <3> QED
      BY <1>2, <1>3, <3>1, <3>2, <3>3
  <2>3. k <= a - c \/ k > a - c
    OBVIOUS
  <2> QED
    BY <2>1, <2>2, <2>3
<1> DEFINE xy == x \o y
<1>6. xy \in Seq(D) /\ Len(xy) = Len(z) /\ \A k \in 1 .. Len(xy) : xy[k] = z[k]
  BY <1>3, <1>4, <1>5
<1> HIDE DEF xy
<1>7. xy = z
  BY <1>3, <1>6, SameSeq
<1> QED
  BY <1>7 DEF xy, x, y, z

(* Where a run of symbols ends.                                             *)
LEMMA RunEndIs ==
  ASSUME NEW n \in Nat, NEW t, n = Len(t), NEW at \in 1 .. n + 1, NEW X
  PROVE  /\ RunEnd(t, at, X) \in at .. n + 1
         /\ \A k \in at .. RunEnd(t, at, X) - 1 : t[k] \in X
         /\ RunEnd(t, at, X) = n + 1 \/ t[RunEnd(t, at, X)] \notin X
<1> DEFINE T == {i \in at .. n + 1 : i = n + 1 \/ t[i] \notin X}
<1>1. T \in SUBSET Nat /\ T # {}
  <2>1. n + 1 \in T
    OBVIOUS
  <2> QED
    BY <2>1
<1>2. \E m \in T : \A k \in T : m <= k
  BY <1>1, LeastElement
<1>3. Min(T) \in T /\ \A k \in T : Min(T) <= k
  BY <1>2 DEF Min
<1>4. RunEnd(t, at, X) = Min(T)
  BY Zenon DEF RunEnd
<1> DEFINE e == Min(T)
<1>5. e \in at .. n + 1 /\ (e = n + 1 \/ t[e] \notin X)
  BY <1>3
<1>6. ASSUME NEW k \in at .. e - 1 PROVE t[k] \in X
  <2>1. k \in at .. n + 1 /\ k < e
    BY <1>5
  <2>2. k \notin T
    <3> HIDE DEF T
    <3> QED
      BY <1>3, <1>5, <2>1
  <2> QED
    BY <2>1, <2>2
<1> QED
  BY <1>4, <1>5, <1>6

(* What a path is spelt with.                                               *)
Signs == InAName \cup {Slash, "private"}

IsPath(p) ==
  /\ p \in Seq(Signs) /\ Len(p) > 0
  /\ p[1] = Slash /\ p[Len(p)] \in InAName

(* However a path is spelt, it is a path (_scrub.py:226-233).               *)
LEMMA SpellingsArePaths ==
  ASSUME NEW path \in Seq(InAName \cup {Slash}), IsPath(path), NEW p \in Spellings(path)
  PROVE  IsPath(p)
<1>1. path \in Seq(Signs) /\ Slash \in Signs /\ "private" \in Signs
  BY DEF IsPath, Signs
<1>2. CASE p = path
  BY <1>2
<1>3. CASE p = <<Slash, "private">> \o path
  <2>1. PICK n \in Nat : n = Len(path)
    BY <1>1
  <2>2. p \in Seq(Signs) /\ Len(p) = n + 2 /\ p[1] = Slash /\ \A k \in 1 .. n : p[k + 2] = path[k]
    BY <1>1, <1>3, <2>1
  <2>3. n > 0 /\ path[n] \in InAName
    BY <2>1 DEF IsPath
  <2> QED
    BY <2>2, <2>3 DEF IsPath
<1>4. CASE p = SubSeq(path, 3, Len(path)) /\ \E twin \in Twins : StartsAt(path, 1, <<Slash, "private", Slash, twin>>)
  <2>1. PICK twin \in Twins : StartsAt(path, 1, <<Slash, "private", Slash, twin>>)
    BY <1>4
  <2>2. PICK n \in Nat : n = Len(path)
    BY <1>1
  <2> DEFINE q == <<Slash, "private", Slash, twin>>
  <2>3. Len(q) = 4 /\ q[3] = Slash
    OBVIOUS
  <2> HIDE DEF q
  <2>4. n >= 4 /\ SubSeq(path, 1, 4) = q
    BY <2>1, <2>2, <2>3 DEF StartsAt, q
  <2>5. path[3] = Slash
    <3>1. SubSeq(path, 1, 4)[3] = path[3]
      BY <1>1, <2>2, <2>4
    <3> QED
      BY <2>3, <2>4, <3>1
  <2>6. /\ SubSeq(path, 3, n) \in Seq(Signs) /\ Len(SubSeq(path, 3, n)) = n - 2
        /\ SubSeq(path, 3, n)[1] = path[3] /\ SubSeq(path, 3, n)[n - 2] = path[n]
    BY <1>1, <2>2, <2>4
  <2>7. path[n] \in InAName
    BY <2>2 DEF IsPath
  <2>8. p = SubSeq(path, 3, n)
    BY <1>4, <2>2
  <2> HIDE DEF q
  <2> QED
    BY <2>4, <2>5, <2>6, <2>7, <2>8 DEF IsPath
<1> QED
  BY <1>2, <1>3, <1>4 DEF Spellings

(* A path stays one without the slashes at its end. *)
LEMMA StrippedIsPath ==
  ASSUME NEW path \in Seq(InAName \cup {Slash}), Stripped(path) # <<>>, path[1] = Slash
  PROVE  Stripped(path) \in Seq(InAName \cup {Slash}) /\ IsPath(Stripped(path))
<1>1. PICK n \in Nat : n = Len(path) /\ DOMAIN path = 1 .. n
  OBVIOUS
<1> DEFINE kept == {i \in DOMAIN path : path[i] # Slash}
<1>2. kept \in SUBSET (1 .. n)
  BY <1>1
<1>3. Stripped(path) = IF kept = {} THEN <<>> ELSE SubSeq(path, 1, Max(kept))
  BY Zenon DEF Stripped
<1>4. kept # {}
  BY <1>3
<1>5. Max(kept) \in kept /\ Max(kept) \in 1 .. n
  <2> HIDE DEF kept
  <2> QED
    BY <1>2, <1>4, GreatestPlace
<1> DEFINE q == Max(kept)
<1>6. path[q] # Slash /\ q \in 1 .. n
  BY <1>5
<1> HIDE DEF q
<1>7. path[q] \in InAName
  BY <1>1, <1>6
<1>8. /\ SubSeq(path, 1, q) \in Seq(InAName \cup {Slash}) /\ Len(SubSeq(path, 1, q)) = q
      /\ SubSeq(path, 1, q)[1] = path[1] /\ SubSeq(path, 1, q)[q] = path[q]
  BY <1>1, <1>6
<1>9. Stripped(path) = SubSeq(path, 1, q)
  BY <1>3, <1>4 DEF q
<1> DEFINE s == Stripped(path)
<1>10. s \in Seq(InAName \cup {Slash}) /\ Len(s) = q /\ s[1] = Slash /\ s[q] \in InAName
  BY <1>7, <1>8, <1>9
<1> HIDE DEF s
<1>11. s \in Seq(Signs)
  BY <1>10 DEF Signs
<1>12. IsPath(s)
  BY <1>6, <1>10, <1>11 DEF IsPath
<1> QED
  BY <1>10, <1>12 DEF s

(* Whatever a mapping that is not refused names is a path.                  *)
LEMMA NamesArePaths ==
  ASSUME NEW m \in Mappings, ~Refused(m), NEW name \in Names(m)
  PROVE  IsPath(name[1])
<1>1. PICK pair \in m : \E p \in Spellings(Stripped(pair[1])) : name = <<p, pair[2]>>
  BY DEF Names
<1>2. PICK p \in Spellings(Stripped(pair[1])) : name = <<p, pair[2]>>
  BY <1>1
<1>3. pair[1] \in Seq(InAName \cup {Slash})
  BY MappingsAssumption
<1>4. Stripped(pair[1]) # <<>> /\ pair[1][1] = Slash
  BY DEF Refused
<1> DEFINE path == Stripped(pair[1])
<1>5. path \in Seq(InAName \cup {Slash}) /\ IsPath(path)
  BY <1>3, <1>4, StrippedIsPath
<1>6. IsPath(p)
  <2> HIDE DEF path
  <2>1. p \in Spellings(path)
    BY DEF path
  <2> QED
    BY <1>5, <2>1, SpellingsArePaths
<1> QED
  BY <1>2, <1>6

(* The special symbols differ from each other, and none is in a name but    *)
(* the full stop.                                                           *)
LEMMA SignsApart ==
  /\ Blank \notin Signs /\ Slash \notin InAName /\ Token \notin InAName /\ Blank \notin InAName
  /\ Slash # Token /\ Slash # Blank /\ Token # Blank /\ Dot \in InAName
  /\ \A x \in Symbols : x \in InAName \/ x \in {Slash, Blank, Token}
BY FoldersAssumption DEF Signs, InAName, Symbols, Slash, Dot, Blank, Token

(* The longest of some names is one of them. *)
LEMMA LongestIn ==
  ASSUME NEW found, found # {}, NEW L \in Nat, \A x \in found : Len(x[1]) \in 0 .. L
  PROVE  Longest(found) \in found
<1> DEFINE T == {Len(x[1]) : x \in found}
<1>1. T \in SUBSET (0 .. L) /\ T # {}
  OBVIOUS
<1>2. PICK l \in T : \A k \in T : k <= l
  BY <1>1, GreatestElement
<1>3. PICK x \in found : l = Len(x[1])
  BY <1>2
<1>4. \A other \in found : Len(other[1]) <= Len(x[1])
  BY <1>2, <1>3
<1> QED
  BY <1>4, Zenon DEF Longest

(* The path stands at the place, symbol for symbol.                         *)
StandsAt(t, n, at, p, l) == at + l - 1 <= n /\ \A k \in 1 .. l : t[at + k - 1] = p[k]

(* StartsAt compares symbol by symbol. *)
LEMMA StartsAtIs ==
  ASSUME NEW D, NEW E, NEW t \in Seq(D), NEW n \in Nat, n = Len(t), NEW at \in 1 .. n,
         NEW p \in Seq(E), NEW l \in Nat, l = Len(p), l > 0
  PROVE  StartsAt(t, at, p) <=> StandsAt(t, n, at, p, l)
<1>1. CASE at + l - 1 <= n
  <2> DEFINE e == at + l - 1
             s == SubSeq(t, at, e)
  <2>1. e \in Nat /\ at <= e /\ e <= n
    BY <1>1
  <2> HIDE DEF e
  <2>2. s \in Seq(D) /\ Len(s) = e - at + 1 /\ \A k \in 1 .. e - at + 1 : s[k] = t[at + k - 1]
    BY <2>1
  <2>3. e - at + 1 = l
    BY DEF e
  <2> HIDE DEF s
  <2>4. s \in Seq(D \cup E) /\ p \in Seq(D \cup E)
    BY <2>2
  <2>5. s = p <=> \A k \in 1 .. l : s[k] = p[k]
    BY <2>2, <2>3, <2>4, SameSeq
  <2>6. StartsAt(t, at, p) <=> s = p
    BY <1>1, Zenon DEF StartsAt, s, e
  <2> QED
    BY <1>1, <2>2, <2>3, <2>5, <2>6 DEF StandsAt
<1>2. CASE ~(at + l - 1 <= n)
  BY <1>2 DEF StartsAt, StandsAt
<1> QED
  BY <1>1, <1>2

(* What stands where a path matches.                                        *)
MatchAt(t, n, at, p, l) ==
  /\ l \in Nat /\ l > 0 /\ l = Len(p) /\ at + l - 1 <= n /\ t[at] = Slash
  /\ \A k \in at .. at + l - 1 : t[k] # Blank
  /\ t[at + l - 1] \in InAName /\ Starts(t, at)

(* A match begins with a slash, after no name, and ends with a name.        *)
LEMMA MatchFacts ==
  ASSUME NEW t \in Seq(Symbols), NEW n \in Nat, n = Len(t), NEW at \in 1 .. n,
         NEW m \in Mappings, ~Refused(m), NEW name \in Matches(m, t, at)
  PROVE  MatchAt(t, n, at, name[1], Len(name[1]))
<1> DEFINE p == name[1]
           l == Len(p)
<1>1. name \in Names(m) /\ StartsAt(t, at, p) /\ Starts(t, at)
  BY DEF Matches
<1>2. IsPath(p)
  BY <1>1, NamesArePaths
<1> HIDE DEF p
<1>3. p \in Seq(Signs) /\ l \in Nat /\ l > 0 /\ p[1] = Slash /\ p[l] \in InAName
  BY <1>2 DEF IsPath
<1> HIDE DEF l
<1>4. at + l - 1 <= n /\ \A k \in 1 .. l : t[at + k - 1] = p[k]
  BY <1>1, <1>3, StartsAtIs DEF l, StandsAt
<1>5. t[at] = Slash
  <2>1. 1 \in 1 .. l /\ at + 1 - 1 = at
    BY <1>3
  <2> QED
    BY <1>3, <1>4, <2>1
<1>6. t[at + l - 1] \in InAName
  <2>1. l \in 1 .. l
    BY <1>3
  <2> QED
    BY <1>3, <1>4, <2>1
<1>7. ASSUME NEW k \in at .. at + l - 1 PROVE t[k] # Blank
  <2> DEFINE r == k - at + 1
  <2>1. r \in 1 .. l /\ at + r - 1 = k
    BY <1>3
  <2> HIDE DEF r
  <2>2. t[k] = p[r] /\ p[r] \in Signs
    BY <1>3, <1>4, <2>1 DEF l
  <2> QED
    BY <2>2, SignsApart
<1> QED
  BY <1>1, <1>3, <1>4, <1>5, <1>6, <1>7 DEF MatchAt, l, p

(* A stretch from i to j.                                                   *)
StretchAt(t, n, i, j) ==
  /\ i \in 1 .. n /\ j \in i .. n /\ (i = 1 \/ t[i - 1] = Blank) /\ (j = n \/ t[j + 1] = Blank)
  /\ \A q \in i .. j : t[q] # Blank

(* After l symbols and the full stops there, the stretch ends or a folder   *)
(* begins.                                                                  *)
Below(s, l) == RunEnd(s, l + 1, {Dot}) > Len(s) \/ s[RunEnd(s, l + 1, {Dot})] = Slash

(* What follows a path lets it stand for itself or a folder above.          *)
LEMMA EndsAlike ==
  ASSUME NEW t \in Seq(Symbols), NEW n \in Nat, n = Len(t), NEW i \in Nat, NEW j \in Nat,
         StretchAt(t, n, i, j), NEW l \in Nat, l > 0, i + l - 1 <= j,
         NEW s, s = SubSeq(t, i, j), NEW below, below = i + l
  PROVE  Ends(t, below) <=> Below(s, l)
<1> DEFINE stops == RunEnd(s, l + 1, {Dot})
<1>1. /\ i >= 1 /\ i <= j /\ j <= n /\ (j = n \/ t[j + 1] = Blank) /\ \A q \in i .. j : t[q] # Blank
  BY DEF StretchAt
<1> DEFINE len == j - i + 1
<1>2. s \in Seq(Symbols) /\ Len(s) = len /\ \A k \in 1 .. len : s[k] = t[i + k - 1]
  BY <1>1
<1>3. len \in Nat /\ l + 1 \in 1 .. len + 1 /\ i + l \in 1 .. n + 1
  BY <1>1
<1>4. /\ stops \in l + 1 .. len + 1 /\ \A k \in l + 1 .. stops - 1 : s[k] \in {Dot}
      /\ (stops = len + 1 \/ s[stops] \notin {Dot})
  <2> HIDE DEF len
  <2> QED
    BY <1>2, <1>3, RunEndIs
<1> HIDE DEF stops
<1> DEFINE e == RunEnd(t, i + l, InAName)
<1>5. /\ e \in i + l .. n + 1 /\ \A k \in i + l .. e - 1 : t[k] \in InAName
      /\ (e = n + 1 \/ t[e] \notin InAName)
  BY <1>3, RunEndIs
<1>6. Ends(t, i + l) <=> (\A k \in i + l .. e - 1 : t[k] = Dot) /\ ~(e <= n /\ t[e] = Token)
  BY DEF Ends
<1> HIDE DEF e
<1> DEFINE d == stops + i - 1
<1>7. /\ d \in i + l .. j + 1 /\ (d = j + 1 <=> stops > len) /\ (d <= j => s[stops] = t[d])
  <2>1. d <= j => stops \in 1 .. len /\ i + stops - 1 = d
    BY <1>3, <1>4
  <2>2. d <= j => s[stops] = t[d]
    BY <1>2, <2>1
  <2>3. d \in i + l .. j + 1 /\ (d = j + 1 <=> stops > len)
    BY <1>3, <1>4
  <2> QED
    BY <2>2, <2>3
<1>8. ASSUME NEW k \in i + l .. d - 1 PROVE t[k] = Dot
  <2> DEFINE r == k - i + 1
  <2>1. r \in l + 1 .. stops - 1 /\ r \in 1 .. len /\ i + r - 1 = k
    BY <1>3, <1>4, <1>7
  <2> HIDE DEF r, len, d
  <2> QED
    BY <1>2, <1>4, <2>1
<1>9. d = j + 1 \/ t[d] # Dot
  BY <1>4, <1>7
<1> HIDE DEF d, len
<1>10. e <= j + 1
  BY <1>1, <1>5, SignsApart
<1>11. d <= j => t[d] # Blank /\ t[d] \in Symbols /\ d \in Nat
  <2>1. d <= j => d \in i .. j /\ d \in 1 .. n
    BY <1>1, <1>7
  <2> QED
    BY <1>1, <2>1
<1>12. e >= d
  <2> SUFFICES ASSUME e < d PROVE FALSE
    BY <1>5, <1>7
  <2>1. e \in i + l .. d - 1 /\ e # n + 1
    BY <1>1, <1>5, <1>7
  <2> QED
    BY <1>5, <1>8, <2>1, SignsApart
<1>13. ASSUME Ends(t, i + l) PROVE stops > len \/ s[stops] = Slash
  <2>1. (\A k \in i + l .. e - 1 : t[k] = Dot) /\ ~(e <= n /\ t[e] = Token)
    BY <1>6, <1>13
  <2>2. CASE d = j + 1
    BY <1>7, <2>2
  <2>3. CASE d <= j
    <3>1. d = e
      <4> SUFFICES ASSUME d < e PROVE FALSE
        BY <1>5, <1>7, <1>12
      <4>1. d \in i + l .. e - 1 /\ d # j + 1
        BY <1>5, <1>7, <2>3
      <4> QED
        BY <1>9, <2>1, <4>1
    <3>2. t[d] \notin InAName /\ t[d] # Token
      BY <1>1, <1>5, <2>1, <2>3, <3>1
    <3> QED
      BY <1>7, <1>11, <2>3, <3>2, SignsApart
  <2>4. d = j + 1 \/ d <= j
    BY <1>7
  <2> QED
    BY <2>2, <2>3, <2>4
<1>14. ASSUME stops > len \/ s[stops] = Slash PROVE Ends(t, i + l)
  <2>1. d = e
    <3> SUFFICES ASSUME d < e PROVE FALSE
      BY <1>5, <1>7, <1>12
    <3>1. d \in i + l .. e - 1 /\ d <= j
      BY <1>5, <1>7, <1>10
    <3>2. t[d] = Slash
      <4>1. d # j + 1
        BY <1>1, <3>1
      <4> QED
        BY <1>7, <1>14, <3>1, <4>1
    <3> QED
      BY <1>5, <3>1, <3>2, SignsApart
  <2>2. ~(e <= n /\ t[e] = Token)
    <3> SUFFICES ASSUME e <= n, t[e] = Token PROVE FALSE
      OBVIOUS
    <3>1. CASE d = j + 1
      <4>1. j # n /\ t[j + 1] = Blank
        BY <1>1, <2>1, <3>1
      <4> QED
        BY <2>1, <3>1, <4>1, SignsApart
    <3>2. CASE d <= j
      <4>1. t[d] = Slash
        <5>1. d # j + 1
          BY <1>1, <3>2
        <5> QED
          BY <1>7, <1>14, <3>2, <5>1
      <4> QED
        BY <2>1, <4>1, SignsApart
    <3>3. d = j + 1 \/ d <= j
      BY <1>7
    <3> QED
      BY <3>1, <3>2, <3>3
  <2> QED
    BY <1>6, <1>8, <2>1, <2>2
<1>15. Below(s, l) <=> stops > len \/ s[stops] = Slash
  BY <1>2 DEF Below, stops
<1> QED
  BY <1>13, <1>14, <1>15

(* Where a stretch begins, what matches is what the stretch is or is below. *)
LEMMA StretchMatches ==
  ASSUME NEW t \in Seq(Symbols), NEW n \in Nat, n = Len(t), NEW i \in Nat, NEW j \in Nat,
         StretchAt(t, n, i, j), NEW m \in Mappings, ~Refused(m)
  PROVE  Matches(m, t, i) = {x \in Names(m) : IsOrBelow(SubSeq(t, i, j), x[1])}
<1>1. /\ i >= 1 /\ i <= j /\ j <= n /\ (j = n \/ t[j + 1] = Blank) /\ (i = 1 \/ t[i - 1] = Blank)
  BY DEF StretchAt
<1> DEFINE s == SubSeq(t, i, j)
           len == j - i + 1
<1>2. s \in Seq(Symbols) /\ Len(s) = len /\ \A k \in 1 .. len : s[k] = t[i + k - 1]
  BY <1>1
<1>3. Starts(t, i)
  BY <1>1, SignsApart DEF Starts
<1> HIDE DEF s
<1> SUFFICES ASSUME NEW x \in Names(m)
             PROVE  StartsAt(t, i, x[1]) /\ Ends(t, i + Len(x[1])) <=> IsOrBelow(s, x[1])
  BY <1>3 DEF Matches, s
<1> DEFINE p == x[1]
           l == Len(p)
<1>4. IsPath(p)
  BY NamesArePaths
<1> HIDE DEF p
<1>5. p \in Seq(Signs) /\ l \in Nat /\ l > 0 /\ l = Len(p)
  BY <1>4 DEF IsPath
<1> HIDE DEF l
<1>6. StartsAt(t, i, p) <=> i + l - 1 <= n /\ \A k \in 1 .. l : t[i + k - 1] = p[k]
  <2>1. i \in 1 .. n
    BY <1>1
  <2>2. StartsAt(t, i, p) <=> StandsAt(t, n, i, p, l)
    BY <1>5, <2>1, StartsAtIs
  <2> QED
    BY <2>2 DEF StandsAt
<1>7. StartsAt(s, 1, p) <=> 1 + l - 1 <= len /\ \A k \in 1 .. l : s[1 + k - 1] = p[k]
  <2>1. len \in Nat /\ 1 \in 1 .. len
    BY <1>1
  <2> HIDE DEF len
  <2>2. s \in Seq(Symbols) /\ Len(s) = len
    BY <1>2
  <2>3. StartsAt(s, 1, p) <=> StandsAt(s, len, 1, p, l)
    BY <1>5, <2>1, <2>2, StartsAtIs
  <2> QED
    BY <2>3 DEF StandsAt
<1>8. StartsAt(t, i, p) => i + l - 1 <= j
  <2> SUFFICES ASSUME StartsAt(t, i, p), i + l - 1 > j PROVE FALSE
    BY <1>1, <1>5
  <2> DEFINE r == j - i + 2
  <2>1. r \in 1 .. l /\ i + r - 1 = j + 1 /\ j # n
    BY <1>1, <1>5, <1>6
  <2> HIDE DEF r
  <2>2. p[r] \in Signs
    BY <1>5, <2>1
  <2>3. p[r] = Blank
    BY <1>1, <1>6, <2>1
  <2> QED
    BY <2>2, <2>3, SignsApart
<1>9. StartsAt(t, i, p) <=> StartsAt(s, 1, p)
  <2>1. ASSUME i + l - 1 <= j, NEW k \in 1 .. l PROVE s[1 + k - 1] = t[i + k - 1]
    <3>1. k \in 1 .. len /\ 1 + k - 1 = k
      BY <1>1, <1>5, <2>1
    <3> HIDE DEF len
    <3> QED
      BY <1>2, <3>1
  <2>2. 1 + l - 1 <= len <=> i + l - 1 <= j
    BY <1>1, <1>5
  <2>3. i + l - 1 <= j => i + l - 1 <= n
    BY <1>1, <1>5
  <2> QED
    BY <1>6, <1>7, <1>8, <2>1, <2>2, <2>3
<1>10. IsOrBelow(s, p) <=> StartsAt(s, 1, p) /\ Below(s, l)
  BY DEF IsOrBelow, Below, l
<1>11. ASSUME i + l - 1 <= j PROVE Ends(t, i + l) <=> Below(s, l)
  <2>1. s = SubSeq(t, i, j)
    BY DEF s
  <2> QED
    BY <1>5, <1>11, <2>1, EndsAlike
<1>12. StartsAt(t, i, p) /\ Ends(t, i + l) <=> IsOrBelow(s, p)
  BY <1>8, <1>9, <1>10, <1>11
<1> QED
  BY <1>12 DEF p, l

(* Where the stretch of a place begins.                                     *)
BeginsAt(t, i, k) ==
  i \in 1 .. k /\ (i = 1 \/ t[i - 1] = Blank) /\ \A q \in i .. k : t[q] # Blank

(* A stretch begins where From says. *)
LEMMA FromIs ==
  ASSUME NEW t, NEW k \in Nat, NEW i \in Nat, BeginsAt(t, i, k)
  PROVE  From(t, k) = i
<1> DEFINE T == {h \in 1 .. k : h = 1 \/ t[h - 1] = Blank}
<1>1. i \in T /\ T \in SUBSET (1 .. k)
  BY DEF BeginsAt
<1>2. Max(T) \in T /\ \A h \in T : h <= Max(T)
  <2> HIDE DEF T
  <2> QED
    BY <1>1, GreatestPlace
<1>3. From(t, k) = Max(T)
  BY Zenon DEF From
<1> DEFINE f == Max(T)
<1>4. f \in 1 .. k /\ (f = 1 \/ t[f - 1] = Blank) /\ i <= f
  BY <1>1, <1>2
<1> HIDE DEF f
<1>5. ~(i < f)
  <2> SUFFICES ASSUME i < f PROVE FALSE
    OBVIOUS
  <2>1. f - 1 \in i .. k /\ f # 1
    BY <1>4 DEF BeginsAt
  <2> QED
    BY <1>4, <2>1 DEF BeginsAt
<1>6. i = f
  BY <1>4, <1>5 DEF BeginsAt
<1> QED
  BY <1>3, <1>6 DEF f

(* What a text may hold once it is replaced, and how far a replacing is.    *)
Given(m) == Symbols \cup {x[2] : x \in Names(m)}
Reached(m) == [next : Nat, out : Seq(Given(m))]

(* The longest match is one.                                                *)
LEMMA LongestMatch ==
  ASSUME NEW t \in Seq(Symbols), NEW n \in Nat, n = Len(t), NEW at \in 1 .. n,
         NEW m \in Mappings, ~Refused(m), Matches(m, t, at) # {}
  PROVE  Longest(Matches(m, t, at)) \in Matches(m, t, at)
<1> DEFINE found == Matches(m, t, at)
<1>1. \A x \in found : Len(x[1]) \in 0 .. n
  <2> SUFFICES ASSUME NEW x \in found PROVE Len(x[1]) \in 0 .. n
    OBVIOUS
  <2>1. MatchAt(t, n, at, x[1], Len(x[1]))
    BY MatchFacts
  <2> QED
    BY <2>1 DEF MatchAt
<1> HIDE DEF found
<1>2. found # {}
  BY DEF found
<1>3. Longest(found) \in found
  BY <1>1, <1>2, LongestIn
<1> QED
  BY <1>3 DEF found

(* One place more leaves a replacing. *)
LEMMA ReplacedType ==
  ASSUME NEW t \in Seq(Symbols), NEW n \in Nat, n = Len(t), NEW at \in 1 .. n,
         NEW m \in Mappings, ~Refused(m), NEW done \in Reached(m)
  PROVE  Replaced(m, t, done, at) \in Reached(m)
<1>1. done.next \in Nat /\ done.out \in Seq(Given(m))
  BY DEF Reached
<1> DEFINE e == RunEnd(t, at + 1, InAName \cup {Slash})
<1>2. e \in at + 1 .. n + 1
  <2>1. at + 1 \in 1 .. n + 1
    OBVIOUS
  <2> QED
    BY <2>1, RunEndIs
<1> HIDE DEF e
<1>3. [next |-> e, out |-> done.out \o SubSeq(t, at, e - 1)] \in Reached(m)
  <2>1. SubSeq(t, at, e - 1) \in Seq(Symbols)
    BY <1>2
  <2>2. SubSeq(t, at, e - 1) \in Seq(Given(m))
    BY <2>1 DEF Given
  <2> DEFINE tail == SubSeq(t, at, e - 1)
  <2>3. tail \in Seq(Given(m)) /\ e \in Nat
    BY <1>2, <2>2
  <2> HIDE DEF tail
  <2>4. done.out \o tail \in Seq(Given(m))
    BY <1>1, <2>3
  <2> DEFINE joined == done.out \o tail
  <2>5. joined \in Seq(Given(m))
    BY <2>4
  <2> HIDE DEF joined
  <2>6. [next |-> e, out |-> joined] \in Reached(m)
    BY <2>3, <2>5 DEF Reached
  <2> QED
    BY <2>6 DEF joined, tail
<1> DEFINE found == Matches(m, t, at)
           x == Longest(found)
<1>4. found # {} => x \in Names(m) /\ Len(x[1]) \in Nat
  <2> SUFFICES ASSUME found # {} PROVE x \in Names(m) /\ Len(x[1]) \in Nat
    OBVIOUS
  <2>1. x \in found
    BY LongestMatch
  <2>2. MatchAt(t, n, at, x[1], Len(x[1]))
    <3> HIDE DEF x
    <3> QED
      BY <2>1, MatchFacts
  <2>3. x \in Names(m)
    <3> HIDE DEF x
    <3> QED
      BY <2>1 DEF Matches
  <2> QED
    BY <2>2, <2>3 DEF MatchAt
<1> HIDE DEF x
<1>5. found # {} => [next |-> at + Len(x[1]), out |-> Append(done.out, x[2])] \in Reached(m)
  <2> SUFFICES ASSUME found # {} PROVE [next |-> at + Len(x[1]), out |-> Append(done.out, x[2])] \in Reached(m)
    OBVIOUS
  <2>1. x[2] \in Given(m)
    BY <1>4 DEF Given
  <2> DEFINE joined == Append(done.out, x[2])
             next == at + Len(x[1])
  <2>2. joined \in Seq(Given(m)) /\ next \in Nat
    BY <1>1, <1>4, <2>1
  <2> HIDE DEF joined, next
  <2>3. [next |-> next, out |-> joined] \in Reached(m)
    BY <2>2 DEF Reached
  <2> QED
    BY <2>3 DEF joined, next
<1>6. [next |-> at + 1, out |-> Append(done.out, t[at])] \in Reached(m)
  <2>1. t[at] \in Given(m)
    BY DEF Given
  <2> DEFINE joined == Append(done.out, t[at])
  <2>2. joined \in Seq(Given(m)) /\ at + 1 \in Nat
    BY <1>1, <2>1
  <2> HIDE DEF joined
  <2>3. [next |-> at + 1, out |-> joined] \in Reached(m)
    BY <2>2 DEF Reached
  <2> QED
    BY <2>3 DEF joined
<1> DEFINE tokened == [next |-> e, out |-> done.out \o SubSeq(t, at, e - 1)]
           matched == [next |-> at + Len(x[1]), out |-> Append(done.out, x[2])]
           plain   == [next |-> at + 1, out |-> Append(done.out, t[at])]
<1>7. Replaced(m, t, done, at)
        = IF at < done.next THEN done
          ELSE IF t[at] = Token THEN tokened ELSE IF found = {} THEN plain ELSE matched
  BY Zenon DEF Replaced, e, x
<1> HIDE DEF tokened, matched, plain, found
<1>8. tokened \in Reached(m) /\ plain \in Reached(m) /\ (found # {} => matched \in Reached(m))
  BY <1>3, <1>5, <1>6 DEF tokened, matched, plain, found
<1> QED
  BY <1>7, <1>8

(* h is what replacing at each set of places comes to.                      *)
ReplacesBy(h, m, t) ==
  h = [S \in SUBSET DOMAIN [at \in DOMAIN t |-> at] |->
         IF S = {} THEN Unreplaced
         ELSE Replaced(m, t, h[S \ {Max(S)}], [at \in DOMAIN t |-> at][Max(S)])]

(* A text replaced is what replacing at every place comes to.               *)
LEMMA ReplaceIs ==
  ASSUME NEW m, NEW t
  PROVE  Replace(m, t) = (CHOOSE h : ReplacesBy(h, m, t))[DOMAIN [at \in DOMAIN t |-> at]].out
BY Zenon DEF Replace, ReplacesBy, FoldLeft, MapThenFoldSet

(* stage is where replacing is after no place, one, ..., all places.        *)
ReplacesTo(stage, m, t, n) ==
  /\ stage \in [0 .. n -> Reached(m)]
  /\ stage[0] = Unreplaced /\ stage[n].out = Replace(m, t)
  /\ \A k \in 1 .. n : stage[k] = Replaced(m, t, stage[k - 1], k)

(* A text is replaced from its first place to its last.                     *)
LEMMA ReplaceStages ==
  ASSUME NEW n \in Nat, NEW t \in Seq(Symbols), n = Len(t), NEW m \in Mappings, ~Refused(m)
  PROVE  \E stage : ReplacesTo(stage, m, t, n)
<1> DEFINE step == [k \in 1 .. n |-> [done \in Reached(m) |-> Replaced(m, t, done, k)]]
           idx == [at \in DOMAIN t |-> at]
<1>1. step \in [1 .. n -> [Reached(m) -> Reached(m)]]
  BY ReplacedType
<1>2. Unreplaced \in Reached(m)
  <2>1. <<>> \in Seq(Given(m))
    OBVIOUS
  <2> QED
    BY <2>1 DEF Unreplaced, Reached
<1>3. \A k \in 1 .. n : \A done \in Reached(m) : step[k][done] = Replaced(m, t, done, k)
  OBVIOUS
<1>4. DOMAIN idx = 1 .. n /\ \A k \in 1 .. n : idx[k] = k
  OBVIOUS
<1>5. DOMAIN t = 1 .. n
  OBVIOUS
<1> HIDE DEF step, idx
<1>6. \A h : ReplacesBy(h, m, t) <=>
        h = [S \in SUBSET (1 .. n) |-> IF S = {} THEN Unreplaced ELSE Replaced(m, t, h[S \ {Max(S)}], idx[Max(S)])]
  BY <1>4 DEF ReplacesBy, idx
<1>7. \A S \in SUBSET (1 .. n) : S # {} => Max(S) \in S /\ Max(S) \in 1 .. n /\ S \ {Max(S)} \in SUBSET (1 .. n)
  <2> SUFFICES ASSUME NEW S \in SUBSET (1 .. n), S # {} PROVE Max(S) \in S
    OBVIOUS
  <2> QED
    BY GreatestPlace
<1>8. PICK h \in [SUBSET (1 .. n) -> Reached(m)] : Makes(h, Unreplaced, step, n)
  BY <1>1, <1>2, MakesExists
<1>9. ReplacesBy(h, m, t)
  <2>1. \A S \in SUBSET (1 .. n) :
          h[S] = IF S = {} THEN Unreplaced ELSE Replaced(m, t, h[S \ {Max(S)}], idx[Max(S)])
    <3> SUFFICES ASSUME NEW S \in SUBSET (1 .. n), S # {}
                 PROVE  h[S] = Replaced(m, t, h[S \ {Max(S)}], idx[Max(S)])
      BY <1>8 DEF Makes
    <3>1. /\ h[S] = step[Max(S)][h[S \ {Max(S)}]] /\ h[S \ {Max(S)}] \in Reached(m)
          /\ Max(S) \in 1 .. n /\ idx[Max(S)] = Max(S)
      BY <1>4, <1>7, <1>8 DEF Makes
    <3> QED
      BY <1>3, <3>1
  <2>2. h = [S \in SUBSET (1 .. n) |-> h[S]]
    OBVIOUS
  <2>3. h = [S \in SUBSET (1 .. n) |->
               IF S = {} THEN Unreplaced ELSE Replaced(m, t, h[S \ {Max(S)}], idx[Max(S)])]
    BY <2>1, <2>2
  <2> QED
    BY <1>6, <2>3
<1> DEFINE g == CHOOSE f : ReplacesBy(f, m, t)
<1>10. ReplacesBy(g, m, t)
  BY <1>9, Zenon
<1> HIDE DEF g
<1>11. \A S \in SUBSET (1 .. n) :
         g[S] = IF S = {} THEN Unreplaced ELSE Replaced(m, t, g[S \ {Max(S)}], idx[Max(S)])
  BY <1>6, <1>10
<1>12. \A S \in SUBSET (1 .. n) : g[S] \in Reached(m)
  <2>1. g[{}] \in Reached(m)
    BY <1>2, <1>11
  <2>2. ASSUME NEW S \in SUBSET (1 .. n), S # {}, g[S \ {Max(S)}] \in Reached(m) PROVE g[S] \in Reached(m)
    <3>1. Max(S) \in 1 .. n /\ idx[Max(S)] = Max(S) /\ g[S] = Replaced(m, t, g[S \ {Max(S)}], idx[Max(S)])
      BY <1>4, <1>7, <1>11, <2>2
    <3> QED
      BY <2>2, <3>1, ReplacedType
  <2> QED
    BY <2>1, <2>2, MadeIn
<1>13. g \in [SUBSET (1 .. n) -> Reached(m)] /\ Makes(g, Unreplaced, step, n)
  <2>1. g \in [SUBSET (1 .. n) -> Reached(m)]
    BY <1>6, <1>10, <1>12
  <2>2. ASSUME NEW S \in SUBSET (1 .. n), S # {} PROVE g[S] = step[Max(S)][g[S \ {Max(S)}]]
    <3>1. /\ Max(S) \in 1 .. n /\ idx[Max(S)] = Max(S) /\ S \ {Max(S)} \in SUBSET (1 .. n)
          /\ g[S] = Replaced(m, t, g[S \ {Max(S)}], idx[Max(S)])
      BY <1>4, <1>7, <1>11, <2>2
    <3>2. g[S \ {Max(S)}] \in Reached(m)
      BY <1>12, <3>1
    <3> QED
      BY <1>3, <3>1, <3>2
  <2>3. {} \in SUBSET (1 .. n) /\ g[{}] = Unreplaced
    BY <1>11
  <2> QED
    BY <2>1, <2>2, <2>3 DEF Makes
<1>14. PICK stage : ByStages(stage, g, Reached(m), Unreplaced, step, n)
  BY <1>13, MakesStages
<1>15. stage[n].out = Replace(m, t)
  <2>1. Replace(m, t) = (CHOOSE f : ReplacesBy(f, m, t))[DOMAIN [at \in DOMAIN t |-> at]].out
    BY ReplaceIs
  <2> QED
    BY <1>4, <1>14, <2>1 DEF g, idx, ByStages
<1>16. \A k \in 1 .. n : stage[k] = Replaced(m, t, stage[k - 1], k)
  <2> SUFFICES ASSUME NEW k \in 1 .. n PROVE stage[k] = Replaced(m, t, stage[k - 1], k)
    OBVIOUS
  <2>1. stage[k - 1] \in Reached(m) /\ stage[k] = step[k][stage[k - 1]]
    BY <1>14 DEF StepsFrom, ByStages
  <2> QED
    BY <1>3, <2>1
<1> QED
  BY <1>14, <1>15, <1>16 DEF StepsFrom, ByStages, ReplacesTo

(* f is what the sequences come to, up to each of them. *)
FlattensTo(f, seqs) ==
  f = [i \in 1 .. Len(seqs) |-> IF i = 1 THEN seqs[i] ELSE f[i - 1] \o seqs[i]]

Flat(seqs) == IF Len(seqs) = 0 THEN seqs ELSE (CHOOSE f : FlattensTo(f, seqs))[Len(seqs)]

(* Flattening goes from the first sequence to the last. *)
LEMMA FlattenIsFlat ==
  ASSUME NEW seqs
  PROVE  FlattenSeq(seqs) = Flat(seqs)
BY Zenon DEF FlattenSeq, Flat, FlattensTo

(* stage is what none, one, ..., all of some sequences come to end to end.  *)
JoinsTo(stage, D, seqs, n) ==
  /\ stage \in [0 .. n -> Seq(D)]
  /\ stage[0] = <<>> /\ stage[n] = FlattenSeq(seqs)
  /\ \A k \in 1 .. n : stage[k] = stage[k - 1] \o seqs[k]

(* Sequences are joined one after the other. *)
LEMMA FlattenStages ==
  ASSUME NEW D, NEW n \in Nat, NEW seqs \in [1 .. n -> Seq(D)]
  PROVE  \E stage : JoinsTo(stage, D, seqs, n)
<1>1. seqs \in Seq(Seq(D)) /\ Len(seqs) = n
  OBVIOUS
<1> DEFINE turn == [k \in Nat \ {0} |-> [x \in Seq(D) |-> IF k <= n THEN x \o seqs[k] ELSE x]]
<1>2. turn \in [Nat \ {0} -> [Seq(D) -> Seq(D)]]
  <2>1. ASSUME NEW k \in Nat \ {0}, NEW x \in Seq(D) PROVE (IF k <= n THEN x \o seqs[k] ELSE x) \in Seq(D)
    <3>1. CASE k <= n
      <4>1. k \in 1 .. n
        BY <3>1
      <4>2. seqs[k] \in Seq(D)
        BY <4>1
      <4> QED
        BY <4>2, <3>1
    <3>2. CASE ~(k <= n)
      BY <3>2
    <3> QED
      BY <3>1, <3>2
  <2> QED
    BY <2>1
<1>3. \A k \in 1 .. n : \A x \in Seq(D) : turn[k][x] = x \o seqs[k]
  OBVIOUS
<1>4. <<>> \in Seq(D)
  OBVIOUS
<1> HIDE DEF turn
<1>5. PICK F \in [0 .. n -> Seq(D)] : StepsFrom(F, <<>>, turn, n)
  BY <1>2, <1>4, Recursion
<1>6. F[0] = <<>> /\ \A k \in 1 .. n : F[k] = F[k - 1] \o seqs[k]
  <2>1. \A k \in 1 .. n : F[k - 1] \in Seq(D)
    BY <1>5
  <2> QED
    BY <1>3, <1>5, <2>1 DEF StepsFrom
<1>7. n > 0 => F[1] = <<>> \o seqs[1] /\ seqs[1] \in Seq(D)
  <2> SUFFICES ASSUME n > 0 PROVE F[1] = <<>> \o seqs[1] /\ seqs[1] \in Seq(D)
    OBVIOUS
  <2>1. 1 \in 1 .. n /\ 1 - 1 = 0
    OBVIOUS
  <2>2. F[1] = F[1 - 1] \o seqs[1]
    BY <1>6, <2>1, Zenon
  <2> QED
    BY <1>6, <2>1, <2>2
<1>8. CASE n = 0
  <2>1. FlattenSeq(seqs) = <<>>
    BY <1>1, <1>8, FlattenIsFlat DEF Flat
  <2>2. JoinsTo(F, D, seqs, n)
    BY <1>5, <1>6, <1>8, <2>1 DEF JoinsTo
  <2> QED
    BY <2>2
<1>9. CASE n > 0
  <2> DEFINE f == [i \in 1 .. n |-> F[i]]
  <2>1. \A i \in 1 .. n : f[i] = IF i = 1 THEN seqs[i] ELSE f[i - 1] \o seqs[i]
    <3> SUFFICES ASSUME NEW i \in 1 .. n PROVE f[i] = IF i = 1 THEN seqs[i] ELSE f[i - 1] \o seqs[i]
      OBVIOUS
    <3>1. CASE i = 1
      <4>1. F[1] = <<>> \o seqs[1] /\ seqs[1] \in Seq(D)
        BY <1>7, <1>9
      <4> QED
        BY <3>1, <4>1
    <3>2. CASE i # 1
      <4>1. i - 1 \in 1 .. n
        BY <3>2
      <4>3. F[i] = F[i - 1] \o seqs[i]
        BY <1>6, Zenon
      <4>2. f[i - 1] = F[i - 1]
        BY <4>1
      <4> QED
        BY <3>2, <4>2, <4>3
    <3> QED
      BY <3>1, <3>2
  <2>2. f = [i \in 1 .. n |-> f[i]]
    OBVIOUS
  <2> HIDE DEF f
  <2>3. FlattensTo(f, seqs)
    <3>1. f = [i \in 1 .. n |-> IF i = 1 THEN seqs[i] ELSE f[i - 1] \o seqs[i]]
      BY <2>1, <2>2
    <3> QED
      BY <1>1, <3>1 DEF FlattensTo
  <2> DEFINE g == CHOOSE h : FlattensTo(h, seqs)
  <2>4. FlattensTo(g, seqs)
    BY <2>3, Zenon
  <2>5. FlattenSeq(seqs) = g[n]
    BY <1>1, <1>9, FlattenIsFlat DEF Flat
  <2> HIDE DEF g
  <2>6. \A i \in 1 .. n : g[i] = IF i = 1 THEN seqs[i] ELSE g[i - 1] \o seqs[i]
    BY <1>1, <2>4 DEF FlattensTo
  <2> DEFINE Same(k) == k \in 1 .. n => g[k] = F[k]
             S == {k \in Nat : Same(k)}
  <2>7. 0 \in S
    OBVIOUS
  <2>8. ASSUME NEW k \in S PROVE k + 1 \in S
    <3> SUFFICES ASSUME k + 1 \in 1 .. n PROVE g[k + 1] = F[k + 1]
      OBVIOUS
    <3>1. CASE k = 0
      <4>1. F[1] = <<>> \o seqs[1] /\ seqs[1] \in Seq(D)
        BY <1>7, <1>9
      <4>2. g[1] = seqs[1]
        BY <1>9, <2>6
      <4> QED
        BY <3>1, <4>1, <4>2
    <3>2. CASE k # 0
      <4>1. k \in 1 .. n /\ g[k] = F[k]
        BY <3>2
      <4> DEFINE l == k + 1
      <4>2. l \in 1 .. n /\ l - 1 = k /\ l # 1
        BY <4>1
      <4> HIDE DEF l
      <4>3. g[l] = g[k] \o seqs[l] /\ F[l] = F[k] \o seqs[l]
        BY <1>6, <2>6, <4>2
      <4>4. g[l] = F[l]
        BY <4>1, <4>3
      <4> QED
        BY <4>4 DEF l
    <3> QED
      BY <3>1, <3>2
  <2>9. S = Nat
    <3>1. S \in SUBSET Nat
      OBVIOUS
    <3> HIDE DEF S
    <3> QED
      BY <2>7, <2>8, <3>1, Induction
  <2>10. g[n] = F[n]
    <3>1. n \in S
      BY <2>9
    <3> QED
      BY <1>9, <3>1
  <2>11. JoinsTo(F, D, seqs, n)
    BY <1>5, <1>6, <2>5, <2>10 DEF JoinsTo
  <2> QED
    BY <2>11
<1> QED
  BY <1>8, <1>9

(* What stands from a place up to another.                                  *)
Cut(seq, from, upto) == SubSeq(seq, from, upto - 1)

(* x is the cut of s from c up to e. *)
IsCut(x, D, s, c, e) == x \in Seq(D) /\ Len(x) = e - c /\ \A k \in 1 .. e - c : x[k] = s[c + k - 1]

(* A cut has the symbols that stand there. *)
LEMMA CutType ==
  ASSUME NEW D, NEW s \in Seq(D), NEW n \in Nat, n = Len(s), NEW c \in Nat, NEW e \in Nat,
         1 <= c, c <= e, e <= n + 1
  PROVE  IsCut(Cut(s, c, e), D, s, c, e)
<1>1. CASE c = e
  BY <1>1 DEF Cut, IsCut
<1>2. CASE c < e
  BY <1>2 DEF Cut, IsCut
<1> QED
  BY <1>1, <1>2

(* Three sequences can be joined in either order. *)
LEMMA JoinAssoc ==
  ASSUME NEW D, NEW x \in Seq(D), NEW y \in Seq(D), NEW z \in Seq(D)
  PROVE  (x \o y) \o z = x \o (y \o z)
OBVIOUS

(* c, a and e are in order in a sequence. *)
InOrder(D, s, n, c, a, e) ==
  /\ s \in Seq(D) /\ n \in Nat /\ n = Len(s) /\ c \in Nat /\ a \in Nat /\ e \in Nat
  /\ 1 <= c /\ c <= a /\ a <= e /\ e <= n + 1

(* After x, the cut up to a and the cut from there to e are one.            *)
OneCut(x, s, c, a, e) == (x \o Cut(s, c, a)) \o Cut(s, a, e) = x \o Cut(s, c, e)

(* Two cuts, one of which follows the other, make one.                      *)
LEMMA CutOn ==
  ASSUME NEW D, NEW x \in Seq(D), NEW s, NEW n, NEW c, NEW a, NEW e, InOrder(D, s, n, c, a, e)
  PROVE  OneCut(x, s, c, a, e)
<1>4. /\ s \in Seq(D) /\ n \in Nat /\ n = Len(s) /\ c \in Nat /\ a \in Nat /\ e \in Nat
      /\ 1 <= c /\ c <= a /\ a <= e /\ e <= n + 1
  BY DEF InOrder
<1> DEFINE y == Cut(s, c, a)
           z == Cut(s, a, e)
<1>1. y \in Seq(D) /\ z \in Seq(D)
  <2>1. IsCut(Cut(s, c, a), D, s, c, a) /\ IsCut(Cut(s, a, e), D, s, a, e)
    BY <1>4, CutType
  <2> QED
    BY <2>1 DEF IsCut
<1>2. y \o z = Cut(s, c, e)
  <2> DEFINE f == e - 1
  <2>1. f \in Int /\ a <= f + 1 /\ f <= Len(s) /\ f \in Nat
    BY <1>4
  <2> HIDE DEF f
  <2>2. SubSeq(s, c, a - 1) \o SubSeq(s, a, f) = SubSeq(s, c, f)
    BY <1>4, <2>1, JoinCut
  <2> QED
    BY <2>2 DEF Cut, y, z, f
<1>3. (x \o y) \o z = x \o (y \o z)
  <2> HIDE DEF y, z
  <2> QED
    BY <1>1, JoinAssoc
<1> QED
  BY <1>2, <1>3 DEF OneCut

(* A cut of one symbol is that symbol. *)
LEMMA CutOne ==
  ASSUME NEW D, NEW x \in Seq(D), NEW s \in Seq(D), NEW n \in Nat, n = Len(s), NEW c \in 1 .. n
  PROVE  x \o Cut(s, c, c + 1) = Append(x, s[c])
<1>1. Cut(s, c, c + 1) = <<s[c]>>
  <2> DEFINE y == Cut(s, c, c + 1)
  <2>1. IsCut(y, D, s, c, c + 1)
    BY CutType
  <2> HIDE DEF y
  <2>2. y \in Seq(D) /\ Len(y) = 1 /\ y[1] = s[c]
    BY <2>1 DEF IsCut
  <2>3. y = <<s[c]>>
    BY <2>2
  <2> QED
    BY <2>3 DEF y
<1>2. s[c] \in D
  OBVIOUS
<1>3. x \o <<s[c]>> = Append(x, s[c])
  BY <1>2
<1> QED
  BY <1>1, <1>3

(* A cut of none is nothing. *)
LEMMA CutNone ==
  ASSUME NEW D, NEW x \in Seq(D), NEW s \in Seq(D), NEW n \in Nat, n = Len(s), NEW c \in 1 .. n + 1
  PROVE  x \o Cut(s, c, c) = x
<1> DEFINE y == Cut(s, c, c)
<1>1. y \in Seq(D) /\ Len(y) = 0
  <2>1. IsCut(Cut(s, c, c), D, s, c, c)
    BY CutType
  <2> QED
    BY <2>1 DEF IsCut
<1> HIDE DEF y
<1>2. x \o y = x
  BY <1>1
<1> QED
  BY <1>2 DEF y

(* Where a stretch stands once its first symbols are taken: at a mapped     *)
(* path's end, or at its own beginning.                                     *)
Taken(m, t, i, before) ==
  IF Matches(m, t, i) = {} THEN [next |-> i, out |-> before]
  ELSE [next |-> i + Len(Longest(Matches(m, t, i))[1]),
        out  |-> Append(before, Longest(Matches(m, t, i))[2])]

(* Where replacing is inside a stretch.                                     *)
InStretch(m, t, n, k, i, done, before) ==
  /\ done.next \in k + 1 .. n + 1 /\ Taken(m, t, i, before).next <= done.next
  /\ \A q \in i .. done.next - 1 : t[q] # Blank
  /\ done.out = Taken(m, t, i, before).out \o Cut(t, Taken(m, t, i, before).next, done.next)
  /\ done.next <= n => t[done.next] \in {Token, Blank} \/ t[done.next - 1] \in InAName \cup {Slash}

(* What has been taken is of the text's symbols and the mapping's names.    *)
LEMMA TakenType ==
  ASSUME NEW t \in Seq(Symbols), NEW n \in Nat, n = Len(t), NEW i \in 1 .. n,
         NEW m \in Mappings, ~Refused(m), NEW before \in Seq(Given(m))
  PROVE  Taken(m, t, i, before).next \in i .. n + 1 /\ Taken(m, t, i, before).out \in Seq(Given(m))
<1> DEFINE found == Matches(m, t, i)
           x == Longest(found)
<1>1. CASE found = {}
  BY <1>1 DEF Taken
<1>2. CASE found # {}
  <2>1. x \in found
    BY <1>2, LongestMatch
  <2> HIDE DEF x
  <2>2. MatchAt(t, n, i, x[1], Len(x[1]))
    BY <2>1, MatchFacts
  <2>3. x[2] \in Given(m)
    BY <2>1 DEF Matches, Given
  <2>4. Append(before, x[2]) \in Seq(Given(m))
    BY <2>3
  <2>5. Taken(m, t, i, before) = [next |-> i + Len(x[1]), out |-> Append(before, x[2])]
    BY <1>2, Zenon DEF Taken, x
  <2>6. i + Len(x[1]) \in i .. n + 1
    BY <2>2 DEF MatchAt
  <2> QED
    BY <2>4, <2>5, <2>6
<1> QED
  BY <1>1, <1>2

(* Nothing matches but at a slash that begins a path.                       *)
LEMMA NoMatch ==
  ASSUME NEW t \in Seq(Symbols), NEW n \in Nat, n = Len(t), NEW at \in 1 .. n,
         NEW m \in Mappings, ~Refused(m), t[at] # Slash \/ ~Starts(t, at)
  PROVE  Matches(m, t, at) = {}
<1> SUFFICES ASSUME NEW x \in Matches(m, t, at) PROVE FALSE
  OBVIOUS
<1>1. MatchAt(t, n, at, x[1], Len(x[1]))
  BY MatchFacts
<1> QED
  BY <1>1 DEF MatchAt

(* From at, the token there ran on to e.                                    *)
RunsTo(to, t, n, out, at, e) ==
  /\ e \in at + 1 .. n + 1 /\ to = [next |-> e, out |-> out \o Cut(t, at, e)]
  /\ \A k \in at .. e - 1 : t[k] # Blank
  /\ e <= n => t[e] \in {Token, Blank}

(* A token runs to the end of the name it is in.                            *)
LEMMA TokenRun ==
  ASSUME NEW t \in Seq(Symbols), NEW n \in Nat, n = Len(t), NEW at \in 1 .. n,
         NEW m, NEW done, done.next = at, t[at] = Token
  PROVE  \E e : RunsTo(Replaced(m, t, done, at), t, n, done.out, at, e)
<1> DEFINE e == RunEnd(t, at + 1, InAName \cup {Slash})
<1>1. /\ e \in at + 1 .. n + 1 /\ \A k \in at + 1 .. e - 1 : t[k] \in InAName \cup {Slash}
      /\ (e = n + 1 \/ t[e] \notin InAName \cup {Slash})
  <2>1. at + 1 \in 1 .. n + 1
    OBVIOUS
  <2> QED
    BY <2>1, RunEndIs
<1>2. Replaced(m, t, done, at) = [next |-> e, out |-> done.out \o Cut(t, at, e)]
  <2>1. ~(at < done.next)
    OBVIOUS
  <2> QED
    BY <2>1, Zenon DEF Replaced, e, Cut
<1> HIDE DEF e
<1>3. \A k \in at .. e - 1 : t[k] # Blank
  BY <1>1, SignsApart
<1>4. e <= n => t[e] \in {Token, Blank}
  <2> SUFFICES ASSUME e <= n PROVE t[e] \in {Token, Blank}
    OBVIOUS
  <2>1. t[e] \in Symbols
    BY <1>1
  <2> QED
    BY <1>1, <2>1, SignsApart
<1>5. RunsTo(Replaced(m, t, done, at), t, n, done.out, at, e)
  BY <1>1, <1>2, <1>3, <1>4 DEF RunsTo
<1> QED
  BY <1>5

(* Everything in a text may be given. *)
LEMMA TextGiven ==
  ASSUME NEW t \in Seq(Symbols), NEW m
  PROVE  t \in Seq(Given(m))
<1>1. Symbols \subseteq Given(m)
  BY DEF Given
<1> QED
  BY <1>1

(* The first symbol of a stretch. *)
LEMMA StretchBegins ==
  ASSUME NEW t \in Seq(Symbols), NEW n \in Nat, n = Len(t), NEW i \in 1 .. n,
         NEW m \in Mappings, ~Refused(m), NEW done \in Reached(m),
         done.next = i, t[i] # Blank
  PROVE  InStretch(m, t, n, i, i, Replaced(m, t, done, i), done.out)
<1> DEFINE before == done.out
           to     == Replaced(m, t, done, i)
           taken  == Taken(m, t, i, before)
           found  == Matches(m, t, i)
           x      == Longest(found)
<1>1. before \in Seq(Given(m)) /\ t \in Seq(Given(m))
  BY TextGiven DEF Reached
<1>2. ~(i < done.next)
  OBVIOUS
<1>3. found = {} => taken = [next |-> i, out |-> before]
  BY DEF Taken
<1>4. t[i] \in Symbols
  OBVIOUS
<1>5. CASE t[i] = Token
  <2>1. found = {}
    BY <1>5, NoMatch, SignsApart
  <2>4. PICK e : RunsTo(to, t, n, before, i, e)
    BY <1>5, TokenRun
  <2> HIDE DEF to, taken, before, found
  <2>3. taken.next = i /\ taken.out = before /\ to.next = e /\ to.out = before \o Cut(t, i, e)
    BY <1>3, <2>1, <2>4 DEF RunsTo
  <2>2. e \in i + 1 .. n + 1 /\ (\A k \in i .. e - 1 : t[k] # Blank) /\ (e <= n => t[e] \in {Token, Blank})
    BY <2>4 DEF RunsTo
  <2>5. InStretch(m, t, n, i, i, to, before)
    BY <2>2, <2>3 DEF InStretch, taken
  <2> QED
    BY <2>5 DEF to, before
<1>6. CASE t[i] # Token /\ found = {}
  <2>1. to = [next |-> i + 1, out |-> Append(before, t[i])]
    BY <1>2, <1>6, Zenon DEF Replaced
  <2>2. before \o Cut(t, i, i + 1) = Append(before, t[i])
    BY <1>1, CutOne
  <2>3. t[i] \in InAName \cup {Slash}
    BY <1>4, <1>6, SignsApart
  <2> HIDE DEF to, taken, before, found
  <2>4. taken.next = i /\ taken.out = before /\ to.next = i + 1 /\ to.out = before \o Cut(t, i, i + 1)
    BY <1>3, <1>6, <2>1, <2>2
  <2>5. i + 1 \in i + 1 .. n + 1 /\ i <= i + 1 /\ i + 1 - 1 = i /\ \A q \in i .. i + 1 - 1 : q = i
    OBVIOUS
  <2>6. InStretch(m, t, n, i, i, to, before)
    BY <2>3, <2>4, <2>5 DEF InStretch, taken
  <2> QED
    BY <2>6 DEF to, before
<1>7. CASE t[i] # Token /\ found # {}
  <2>1. to = [next |-> i + Len(x[1]), out |-> Append(before, x[2])]
    BY <1>2, <1>7, Zenon DEF Replaced
  <2>2. taken = [next |-> i + Len(x[1]), out |-> Append(before, x[2])]
    BY <1>7, Zenon DEF Taken
  <2>3. MatchAt(t, n, i, x[1], Len(x[1]))
    <3>1. x \in found
      BY <1>7, LongestMatch
    <3> HIDE DEF x
    <3> QED
      BY <3>1, MatchFacts
  <2>4. taken.out \in Seq(Given(m)) /\ taken.next \in i .. n + 1
    BY <1>1, TakenType
  <2> DEFINE c == i + Len(x[1])
  <2>5. /\ c \in i + 1 .. n + 1 /\ \A q \in i .. c - 1 : t[q] # Blank
        /\ t[c - 1] \in InAName
    BY <2>3 DEF MatchAt
  <2>6. taken.next = c /\ to.next = c /\ to.out = taken.out
    BY <2>1, <2>2
  <2> HIDE DEF to, taken, before, found, c, x
  <2>7. c \in 1 .. n + 1
    BY <2>5
  <2>8. taken.out \o Cut(t, c, c) = taken.out
    BY <1>1, <2>4, <2>7, CutNone
  <2>9. InStretch(m, t, n, i, i, to, before)
    BY <2>5, <2>6, <2>8 DEF InStretch, taken
  <2> QED
    BY <2>9 DEF to, before
<1> QED
  BY <1>5, <1>6, <1>7

(* The others: nothing more is replaced.                                    *)
LEMMA StretchGoesOn ==
  ASSUME NEW t \in Seq(Symbols), NEW n \in Nat, n = Len(t), NEW i \in 1 .. n, NEW k \in i + 1 .. n,
         NEW m \in Mappings, ~Refused(m), NEW done \in Reached(m), NEW before \in Seq(Given(m)),
         InStretch(m, t, n, k - 1, i, done, before), t[k] # Blank
  PROVE  InStretch(m, t, n, k, i, Replaced(m, t, done, k), before)
<1> DEFINE to     == Replaced(m, t, done, k)
           taken  == Taken(m, t, i, before)
<1>1. taken.out \in Seq(Given(m)) /\ t \in Seq(Given(m)) /\ taken.next \in i .. n + 1
  BY TextGiven, TakenType
<1>2. /\ done.next \in k .. n + 1 /\ taken.next <= done.next
      /\ \A q \in i .. done.next - 1 : t[q] # Blank
      /\ done.out = taken.out \o Cut(t, taken.next, done.next)
      /\ done.next <= n => t[done.next] \in {Token, Blank} \/ t[done.next - 1] \in InAName \cup {Slash}
  BY DEF InStretch
<1>3. CASE k < done.next
  <2>1. to = done
    BY <1>3, Zenon DEF Replaced
  <2> HIDE DEF to, taken
  <2>2. done.next \in k + 1 .. n + 1
    BY <1>2, <1>3
  <2>3. InStretch(m, t, n, k, i, to, before)
    BY <1>2, <2>1, <2>2 DEF InStretch, taken
  <2> QED
    BY <2>3 DEF to
<1>4. CASE k = done.next /\ t[k] = Token
  <2>1. k \in 1 .. n
    OBVIOUS
  <2>9. PICK e : RunsTo(to, t, n, done.out, k, e)
    BY <1>4, <2>1, TokenRun
  <2>2. e \in k + 1 .. n + 1 /\ (\A q \in k .. e - 1 : t[q] # Blank) /\ (e <= n => t[e] \in {Token, Blank})
    BY <2>9 DEF RunsTo
  <2> HIDE DEF to, taken
  <2>3. to.next = e /\ to.out = done.out \o Cut(t, k, e)
    BY <2>9 DEF RunsTo
  <2> DEFINE c == taken.next
  <2>4. c \in Nat /\ 1 <= c /\ c <= k /\ k <= e /\ e <= n + 1 /\ k \in Nat /\ e \in Nat
    BY <1>1, <1>2, <1>4, <2>2
  <2> HIDE DEF c
  <2>5. (taken.out \o Cut(t, c, k)) \o Cut(t, k, e) = taken.out \o Cut(t, c, e)
    <3>1. InOrder(Given(m), t, n, c, k, e)
      BY <1>1, <2>4 DEF InOrder
    <3> DEFINE o == taken.out
    <3>2. o \in Seq(Given(m))
      BY <1>1
    <3> HIDE DEF o
    <3>3. OneCut(o, t, c, k, e)
      BY <3>1, <3>2, CutOn
    <3> QED
      BY Zenon, <3>3 DEF o, OneCut
  <2>6. to.out = taken.out \o Cut(t, c, e)
    BY <1>2, <1>4, <2>3, <2>5 DEF c
  <2>7. \A q \in i .. e - 1 : t[q] # Blank
    <3> SUFFICES ASSUME NEW q \in i .. e - 1 PROVE t[q] # Blank
      OBVIOUS
    <3>1. q \in i .. k - 1 \/ q \in k .. e - 1
      OBVIOUS
    <3> QED
      BY <1>2, <1>4, <2>2, <3>1
  <2>8. InStretch(m, t, n, k, i, to, before)
    BY <2>2, <2>3, <2>4, <2>6, <2>7 DEF InStretch, taken, c
  <2> QED
    BY <2>8 DEF to
<1>5. CASE k = done.next /\ t[k] # Token
  <2>1. k \in 1 .. n /\ t[k] \in Symbols /\ k - 1 \in 1 .. n
    OBVIOUS
  <2>2. t[k - 1] \in InAName \cup {Slash}
    BY <1>2, <1>5
  <2>3. Matches(m, t, k) = {}
    <3>1. ~Starts(t, k)
      BY <2>2 DEF Starts
    <3> QED
      BY <2>1, <3>1, NoMatch
  <2>4. to = [next |-> k + 1, out |-> Append(done.out, t[k])]
    <3>1. ~(k < done.next)
      BY <1>5
    <3> QED
      BY <1>5, <2>3, <3>1, Zenon DEF Replaced
  <2>5. t[k] \in InAName \cup {Slash}
    BY <1>5, <2>1, SignsApart
  <2> HIDE DEF to, taken
  <2>6. to.next = k + 1 /\ to.out = Append(done.out, t[k])
    BY <2>4
  <2> DEFINE c == taken.next
             e == k + 1
  <2>7. c \in Nat /\ 1 <= c /\ c <= k /\ k <= e /\ e <= n + 1 /\ k \in Nat /\ e \in Nat
    BY <1>1, <1>2, <1>5
  <2>8. done.out \o Cut(t, k, e) = Append(done.out, t[k])
    <3>1. done.out \in Seq(Given(m))
      BY DEF Reached
    <3> QED
      BY <1>1, <2>1, <3>1, CutOne
  <2>9. e - 1 = k /\ e \in k + 1 .. n + 1
    OBVIOUS
  <2> HIDE DEF c, e
  <2>10. (taken.out \o Cut(t, c, k)) \o Cut(t, k, e) = taken.out \o Cut(t, c, e)
    <3>1. InOrder(Given(m), t, n, c, k, e)
      BY <1>1, <2>7 DEF InOrder
    <3> DEFINE o == taken.out
    <3>2. o \in Seq(Given(m))
      BY <1>1
    <3> HIDE DEF o
    <3>3. OneCut(o, t, c, k, e)
      BY <3>1, <3>2, CutOn
    <3> QED
      BY Zenon, <3>3 DEF o, OneCut
  <2>11. to.out = taken.out \o Cut(t, c, e) /\ to.next = e
    BY <1>2, <1>5, <2>6, <2>8, <2>10 DEF c, e
  <2>12. \A q \in i .. e - 1 : t[q] # Blank
    <3> SUFFICES ASSUME NEW q \in i .. e - 1 PROVE t[q] # Blank
      OBVIOUS
    <3>1. q \in i .. k - 1 \/ q = k
      BY <2>9
    <3> QED
      BY <1>2, <1>5, <3>1
  <2>13. InStretch(m, t, n, k, i, to, before)
    BY <2>5, <2>7, <2>9, <2>11, <2>12 DEF InStretch, taken, c
  <2> QED
    BY <2>13 DEF to
<1> QED
  BY <1>2, <1>3, <1>4, <1>5

(* A blank between stretches stays. *)
LEMMA BlankStays ==
  ASSUME NEW t \in Seq(Symbols), NEW n \in Nat, n = Len(t), NEW k \in 1 .. n,
         NEW m \in Mappings, ~Refused(m), NEW done, done.next = k, t[k] = Blank
  PROVE  Replaced(m, t, done, k) = [next |-> k + 1, out |-> Append(done.out, Blank)]
<1>1. Matches(m, t, k) = {}
  BY NoMatch, SignsApart
<1>2. ~(k < done.next) /\ t[k] # Token
  BY SignsApart
<1> QED
  BY <1>1, <1>2, Zenon DEF Replaced

(* A stretch with the longest of the paths found in its place.              *)
Spoken(s, found) ==
  IF found = {} THEN s
  ELSE <<Longest(found)[2]>> \o SubSeq(s, Len(Longest(found)[1]) + 1, Len(s))

(* What a stretch of a text comes to.                                       *)
LEMMA SaidIs ==
  ASSUME NEW t \in Seq(Symbols), NEW n \in Nat, n = Len(t), NEW i \in Nat, NEW j \in Nat,
         StretchAt(t, n, i, j), NEW m \in Mappings, ~Refused(m)
  PROVE  Said(m, SubSeq(t, i, j)) = Spoken(SubSeq(t, i, j), Matches(m, t, i))
<1> DEFINE s == SubSeq(t, i, j)
           found == Matches(m, t, i)
           others == {name \in Names(m) : IsOrBelow(s, name[1])}
<1>1. Said(m, s) = Spoken(s, others)
  BY Zenon DEF Said, Spoken
<1>2. found = others
  BY StretchMatches
<1> HIDE DEF others, found, s
<1>3. Said(m, s) = Spoken(s, found)
  BY <1>1, <1>2
<1> QED
  BY <1>3 DEF s, found

(* And it is of the text's symbols and the mapping's names.                 *)
LEMMA SaidType ==
  ASSUME NEW t \in Seq(Symbols), NEW n \in Nat, n = Len(t), NEW i \in Nat, NEW j \in Nat,
         StretchAt(t, n, i, j), NEW m \in Mappings, ~Refused(m)
  PROVE  Said(m, SubSeq(t, i, j)) \in Seq(Given(m))
<1> DEFINE s     == SubSeq(t, i, j)
           found == Matches(m, t, i)
           x     == Longest(found)
<1>1. i \in 1 .. n /\ j \in i .. n
  BY DEF StretchAt
<1>2. s \in Seq(Given(m))
  <2>1. t \in Seq(Given(m))
    BY TextGiven
  <2> QED
    BY <1>1, <2>1
<1> HIDE DEF s
<1>3. Said(m, s) = IF found = {} THEN s ELSE <<x[2]>> \o SubSeq(s, Len(x[1]) + 1, Len(s))
  <2> HIDE DEF found
  <2>1. Said(m, SubSeq(t, i, j)) = Spoken(SubSeq(t, i, j), Matches(m, t, i))
    BY SaidIs
  <2>2. Said(m, s) = Spoken(s, found)
    BY <2>1 DEF s, found
  <2> QED
    BY <2>2 DEF Spoken
<1>4. CASE found = {}
  BY <1>2, <1>3, <1>4 DEF s
<1>5. CASE found # {}
  <2>1. x \in found
    BY <1>1, <1>5, LongestMatch
  <2> DEFINE l == Len(x[1])
  <2>2. l \in Nat /\ x[2] \in Given(m)
    <3> HIDE DEF x
    <3>1. MatchAt(t, n, i, x[1], Len(x[1])) /\ x \in Names(m)
      BY <1>1, <2>1, MatchFacts DEF Matches
    <3> QED
      BY <3>1 DEF MatchAt, Given
  <2> DEFINE tail == SubSeq(s, l + 1, Len(s))
             head == <<x[2]>>
  <2>3. tail \in Seq(Given(m))
    <3> HIDE DEF l
    <3> QED
      BY <1>2, <2>2
  <2>4. head \in Seq(Given(m))
    BY <2>2
  <2>5. Said(m, s) = head \o tail
    BY <1>3, <1>5
  <2> HIDE DEF head, tail
  <2>6. Said(m, s) \in Seq(Given(m))
    BY <2>3, <2>4, <2>5
  <2> QED
    BY <2>6 DEF s
<1> QED
  BY <1>4, <1>5

(* At its end a stretch has become what it should.                          *)
LEMMA StretchSaid ==
  ASSUME NEW t \in Seq(Symbols), NEW n \in Nat, n = Len(t), NEW i \in Nat, NEW j \in Nat,
         StretchAt(t, n, i, j), NEW m \in Mappings, ~Refused(m),
         NEW done \in Reached(m), NEW before \in Seq(Given(m)), InStretch(m, t, n, j, i, done, before)
  PROVE  /\ done.next = j + 1
         /\ done.out = before \o Said(m, SubSeq(t, i, j))
<1> DEFINE taken == Taken(m, t, i, before)
           found == Matches(m, t, i)
           s     == SubSeq(t, i, j)
           x     == Longest(found)
<1>1. /\ i \in 1 .. n /\ j \in i .. n /\ (j = n \/ t[j + 1] = Blank)
  BY DEF StretchAt
<1>2. /\ done.next \in j + 1 .. n + 1 /\ taken.next <= done.next
      /\ \A q \in i .. done.next - 1 : t[q] # Blank
      /\ done.out = taken.out \o Cut(t, taken.next, done.next)
  BY DEF InStretch
<1>3. done.next = j + 1
  <2> SUFFICES ASSUME done.next > j + 1 PROVE FALSE
    BY <1>1, <1>2
  <2>1. j # n /\ j + 1 \in i .. done.next - 1
    BY <1>1, <1>2
  <2> QED
    BY <1>1, <1>2, <2>1
<1>4. taken.out \in Seq(Given(m)) /\ t \in Seq(Given(m)) /\ taken.next \in i .. n + 1
  BY <1>1, TextGiven, TakenType
<1>5. Said(m, s) = IF found = {} THEN s ELSE <<x[2]>> \o SubSeq(s, Len(x[1]) + 1, Len(s))
  <2> HIDE DEF found, s, taken
  <2>1. Said(m, SubSeq(t, i, j)) = Spoken(SubSeq(t, i, j), Matches(m, t, i))
    BY SaidIs
  <2>2. Said(m, s) = Spoken(s, found)
    BY <2>1 DEF s, found
  <2> QED
    BY <2>2 DEF Spoken
<1>6. CASE found = {}
  <2>1. taken.next = i /\ taken.out = before
    BY <1>6 DEF Taken
  <2>2. s = Cut(t, i, j + 1)
    <3>1. j + 1 - 1 = j
      OBVIOUS
    <3> QED
      BY <3>1 DEF Cut
  <2> HIDE DEF found, s, taken
  <2>4. Said(m, s) = s
    BY <1>5, <1>6
  <2>5. done.out = before \o s
    BY <1>2, <1>3, <2>1, <2>2
  <2>6. done.next = j + 1 /\ done.out = before \o Said(m, s)
    BY <1>3, <2>4, <2>5
  <2> QED
    BY <2>6 DEF s
<1>7. CASE found # {}
  <2> DEFINE l == Len(x[1])
             c == i + l
             e == j + 1
  <2>1. taken.next = c /\ taken.out = Append(before, x[2])
    BY <1>7 DEF Taken
  <2>2. x \in found
    BY <1>1, <1>7, LongestMatch
  <2>3. MatchAt(t, n, i, x[1], l) /\ x[2] \in Given(m)
    <3> HIDE DEF x
    <3>1. MatchAt(t, n, i, x[1], Len(x[1]))
      BY <1>1, <2>2, MatchFacts
    <3>2. x \in Names(m)
      BY <2>2 DEF Matches
    <3> QED
      BY <3>1, <3>2 DEF Given
  <2>4. l \in Nat /\ l > 0 /\ c <= e /\ c \in 1 .. n + 1 /\ e \in 1 .. n + 1
    BY <1>1, <1>2, <1>3, <2>1, <2>3 DEF MatchAt
  <2> DEFINE tail == SubSeq(s, l + 1, Len(s))
  <2>5. tail = Cut(t, c, e)
    <3> DEFINE len == j - i + 1
               y == Cut(t, c, e)
    <3> HIDE DEF l, x, found
    <3>1. s \in Seq(Given(m)) /\ Len(s) = len /\ \A q \in 1 .. len : s[q] = t[i + q - 1]
      BY <1>1, <1>4
    <3>2. l + 1 \in 1 .. len + 1 /\ len \in Nat
      BY <1>1, <2>4
    <3> HIDE DEF s, len
    <3>3. IsCut(Cut(s, l + 1, len + 1), Given(m), s, l + 1, len + 1)
      <4> DEFINE a == l + 1
                 b == len + 1
      <4>1. a \in Nat /\ b \in Nat /\ 1 <= a /\ a <= b /\ b <= len + 1
        BY <3>2
      <4> HIDE DEF a, b
      <4>2. IsCut(Cut(s, a, b), Given(m), s, a, b)
        BY <3>1, <3>2, <4>1, CutType
      <4> QED
        BY <4>2 DEF a, b
    <3>4. IsCut(tail, Given(m), s, l + 1, len + 1)
      <4> DEFINE a == l + 1
                 b == len + 1
      <4>1. b - 1 = len
        BY <3>2
      <4> HIDE DEF a, b
      <4>2. Cut(s, a, b) = SubSeq(s, a, b - 1)
        BY DEF Cut
      <4>3. Cut(s, a, b) = SubSeq(s, a, Len(s))
        BY <3>1, <4>1, <4>2
      <4> QED
        BY <3>3, <4>3 DEF a, b
    <3>5. tail \in Seq(Given(m)) /\ Len(tail) = len - l /\ \A q \in 1 .. len - l : tail[q] = s[l + q]
      <4> DEFINE a == l + 1
                 b == len + 1
      <4>1. b - a = len - l /\ \A q \in 1 .. len - l : a + q - 1 = l + q
        BY <2>4, <3>2
      <4>2. IsCut(tail, Given(m), s, a, b)
        BY <3>4
      <4> HIDE DEF tail, a, b
      <4>3. tail \in Seq(Given(m)) /\ Len(tail) = b - a /\ \A q \in 1 .. b - a : tail[q] = s[a + q - 1]
        BY <4>2 DEF IsCut
      <4> QED
        BY <4>1, <4>3
    <3>6. IsCut(y, Given(m), t, c, e)
      <4> HIDE DEF c, e
      <4> QED
        BY <1>4, <2>4, CutType
    <3> HIDE DEF tail, y
    <3>7. e - c = len - l
      BY <2>4, <3>2 DEF len
    <3>8. y \in Seq(Given(m)) /\ Len(y) = len - l /\ \A q \in 1 .. len - l : y[q] = t[c + q - 1]
      BY <3>6, <3>7 DEF IsCut
    <3>9. ASSUME NEW q \in 1 .. len - l PROVE tail[q] = y[q]
      <4>1. l + q \in 1 .. len /\ i + (l + q) - 1 = c + q - 1
        BY <2>4, <3>2
      <4>2. s[l + q] = t[i + (l + q) - 1]
        BY <3>1, <4>1
      <4> QED
        BY <3>5, <3>8, <4>1, <4>2
    <3>10. tail = y
      BY <3>5, <3>8, <3>9, SameSeq
    <3> QED
      BY <3>10 DEF y
  <2>6. Cut(t, c, e) \in Seq(Given(m))
    <3>1. IsCut(Cut(t, c, e), Given(m), t, c, e)
      <4> HIDE DEF c, e
      <4> QED
        BY <1>4, <2>4, CutType
    <3> QED
      BY <3>1 DEF IsCut
  <2>7. Said(m, s) = <<x[2]>> \o tail
    BY <1>5, <1>7
  <2>8. done.out = Append(before, x[2]) \o tail
    BY <1>2, <1>3, <2>1, <2>5
  <2> HIDE DEF found, s, taken, tail, x
  <2>9. tail \in Seq(Given(m))
    BY <2>5, <2>6
  <2> DEFINE y == <<x[2]>>
  <2>10. y \in Seq(Given(m)) /\ Append(before, x[2]) = before \o y
    BY <2>3
  <2> HIDE DEF y
  <2>11. (before \o y) \o tail = before \o (y \o tail)
    BY <2>9, <2>10, JoinAssoc
  <2>12. Said(m, s) = y \o tail
    BY <2>7 DEF y
  <2>13. done.next = j + 1 /\ done.out = before \o Said(m, s)
    BY <1>3, <2>8, <2>10, <2>11, <2>12
  <2> QED
    BY <2>13 DEF s
<1> QED
  BY <1>6, <1>7

(* A place that is not blank is in a stretch.                               *)
LEMMA BeginsSomewhere ==
  ASSUME NEW t, NEW k \in Nat, k > 0, t[k] # Blank
  PROVE  From(t, k) \in 1 .. k /\ BeginsAt(t, From(t, k), k)
<1> DEFINE T == {h \in 1 .. k : h = 1 \/ t[h - 1] = Blank}
<1>1. 1 \in T /\ T \in SUBSET (1 .. k)
  OBVIOUS
<1>2. Max(T) \in T /\ \A h \in T : h <= Max(T)
  <2> HIDE DEF T
  <2> QED
    BY <1>1, GreatestPlace
<1>3. From(t, k) = Max(T)
  BY Zenon DEF From
<1> DEFINE f == Max(T)
<1>4. f \in 1 .. k /\ (f = 1 \/ t[f - 1] = Blank) /\ \A h \in T : h <= f
  BY <1>2
<1> HIDE DEF f
<1>5. ASSUME NEW q \in f .. k PROVE t[q] # Blank
  <2> SUFFICES ASSUME t[q] = Blank PROVE FALSE
    OBVIOUS
  <2> DEFINE h == q + 1
  <2>1. h - 1 = q /\ h \in 1 .. k /\ h > f
    BY <1>4
  <2> HIDE DEF h
  <2>2. h \in T
    BY <2>1
  <2> QED
    BY <1>4, <2>1, <2>2
<1>6. BeginsAt(t, f, k)
  BY <1>4, <1>5 DEF BeginsAt
<1> QED
  BY <1>3, <1>4, <1>6 DEF f

(* The last place of a stretch. *)
EndsAt(t, n, k) == t[k] # Blank /\ (k = n \/ t[k + 1] = Blank)

(* What a place comes to is of the text's symbols and the mapping's names.  *)
LEMMA ShownIs ==
  ASSUME NEW t \in Seq(Symbols), NEW n \in Nat, n = Len(t), NEW k \in 1 .. n,
         NEW m \in Mappings, ~Refused(m)
  PROVE  /\ Shown(m, t, k) \in Seq(Given(m))
         /\ t[k] = Blank => Shown(m, t, k) = <<Blank>>
         /\ EndsAt(t, n, k) => Shown(m, t, k) = Said(m, SubSeq(t, From(t, k), k))
         /\ t[k] # Blank /\ ~EndsAt(t, n, k) => Shown(m, t, k) = <<>>
<1>1. CASE t[k] = Blank
  <2>1. Shown(m, t, k) = <<Blank>>
    BY <1>1 DEF Shown
  <2>2. Blank \in Given(m)
    BY DEF Given, Symbols
  <2> QED
    BY <1>1, <2>1, <2>2 DEF EndsAt
<1>2. CASE EndsAt(t, n, k)
  <2>1. Shown(m, t, k) = Said(m, SubSeq(t, From(t, k), k))
    BY <1>2 DEF EndsAt, Shown
  <2> DEFINE i == From(t, k)
  <2>2. i \in 1 .. k /\ BeginsAt(t, i, k)
    BY <1>2, BeginsSomewhere DEF EndsAt
  <2> HIDE DEF i
  <2>3. StretchAt(t, n, i, k)
    BY <1>2, <2>2 DEF StretchAt, EndsAt, BeginsAt
  <2>4. Said(m, SubSeq(t, i, k)) \in Seq(Given(m))
    BY <2>2, <2>3, SaidType
  <2> QED
    BY <1>2, <2>1, <2>4 DEF i, EndsAt
<1>3. CASE t[k] # Blank /\ ~EndsAt(t, n, k)
  <2>1. Shown(m, t, k) = <<>>
    BY <1>3 DEF EndsAt, Shown
  <2> QED
    BY <1>3, <2>1
<1> QED
  BY <1>1, <1>2, <1>3 DEF EndsAt

(* Where replacing is after place k, and what it has made.                  *)
AfterPlace(m, t, n, k, stage, shown) ==
  /\ k = 0 \/ t[k] = Blank \/ EndsAt(t, n, k) => stage[k].next = k + 1 /\ stage[k].out = shown[k]
  /\ k > 0 /\ t[k] # Blank =>
       \E i \in 1 .. k : /\ BeginsAt(t, i, k) /\ shown[k - 1] = shown[i - 1]
                         /\ InStretch(m, t, n, k, i, stage[k], shown[i - 1])

(* Every text becomes what its stretches come to.                           *)
LEMMA ReplaceIsShown ==
  ASSUME NEW m \in Mappings, ~Refused(m), NEW t \in Seq(Symbols)
  PROVE  Replace(m, t) = FlattenSeq([k \in DOMAIN t |-> Shown(m, t, k)])
<1> DEFINE n == Len(t)
           seqs == [k \in DOMAIN t |-> Shown(m, t, k)]
<1>1. n \in Nat /\ DOMAIN t = 1 .. n
  OBVIOUS
<1> HIDE DEF n
<1>2. n = Len(t)
  BY DEF n
<1>3. seqs \in [1 .. n -> Seq(Given(m))] /\ \A k \in 1 .. n : seqs[k] = Shown(m, t, k)
  <2>1. \A k \in 1 .. n : Shown(m, t, k) \in Seq(Given(m))
    BY <1>1, <1>2, ShownIs
  <2> QED
    BY <1>1, <2>1
<1> HIDE DEF seqs
<1>4. PICK shown : JoinsTo(shown, Given(m), seqs, n)
  BY <1>1, <1>3, FlattenStages
<1>5. PICK stage : ReplacesTo(stage, m, t, n)
  BY <1>1, <1>2, ReplaceStages
<1>6. /\ \A k \in 0 .. n : shown[k] \in Seq(Given(m))
      /\ shown[0] = <<>> /\ shown[n] = FlattenSeq(seqs)
      /\ \A k \in 1 .. n : shown[k] = shown[k - 1] \o Shown(m, t, k)
  BY <1>3, <1>4 DEF JoinsTo
<1>7. /\ \A k \in 0 .. n : stage[k] \in Reached(m)
      /\ stage[0] = Unreplaced /\ stage[n].out = Replace(m, t)
      /\ \A k \in 1 .. n : stage[k] = Replaced(m, t, stage[k - 1], k)
  BY <1>5 DEF ReplacesTo
<1> DEFINE After(k) == AfterPlace(m, t, n, k, stage, shown)
<1>8. After(0)
  BY <1>6, <1>7 DEF AfterPlace, Unreplaced
<1>9. ASSUME NEW k \in 1 .. n, After(k - 1) PROVE After(k)
  <2> DEFINE l == k - 1
             before == shown[l]
             done == stage[l]
             to == stage[k]
  <2>1. /\ l \in 0 .. n /\ l + 1 = k /\ done \in Reached(m) /\ before \in Seq(Given(m))
        /\ to = Replaced(m, t, done, k) /\ shown[k] = before \o Shown(m, t, k)
    <3>1. l \in 0 .. n
      BY <1>1
    <3> QED
      BY <1>6, <1>7, <3>1
  <2>2. /\ l = 0 \/ t[l] = Blank \/ EndsAt(t, n, l) => done.next = k /\ done.out = before
        /\ l > 0 /\ t[l] # Blank =>
             \E i \in 1 .. l : /\ BeginsAt(t, i, l) /\ shown[l - 1] = shown[i - 1]
                               /\ InStretch(m, t, n, l, i, done, shown[i - 1])
    BY <1>9, <2>1 DEF AfterPlace
  <2> HIDE DEF l, before, done, to
  <2>3. CASE t[k] = Blank
    <3>1. l = 0 \/ t[l] = Blank \/ EndsAt(t, n, l)
      BY <2>1, <2>3 DEF EndsAt
    <3>2. done.next = k /\ done.out = before
      BY <2>2, <3>1
    <3>3. to = [next |-> k + 1, out |-> Append(done.out, Blank)]
      BY <1>1, <1>2, <2>1, <2>3, <3>2, BlankStays
    <3>4. Shown(m, t, k) = <<Blank>>
      BY <1>1, <1>2, <2>3, ShownIs
    <3>5. Blank \in Given(m)
      BY DEF Given, Symbols
    <3>6. Append(before, Blank) = before \o <<Blank>>
      BY <2>1, <3>5
    <3>7. to.next = k + 1 /\ to.out = shown[k]
      BY <2>1, <3>2, <3>3, <3>4, <3>6
    <3> QED
      BY <2>3, <3>7 DEF AfterPlace, to
  <2>4. CASE t[k] # Blank
    <3>1. \E i \in 1 .. k : /\ BeginsAt(t, i, k) /\ before = shown[i - 1]
                            /\ InStretch(m, t, n, k, i, to, shown[i - 1])
      <4>1. CASE l = 0 \/ t[l] = Blank
        <5>1. done.next = k /\ done.out = before
          BY <2>2, <4>1
        <5>2. InStretch(m, t, n, k, k, to, before)
          BY <1>1, <1>2, <2>1, <2>4, <5>1, StretchBegins
        <5>3. BeginsAt(t, k, k)
          <6>1. k - 1 = l /\ (k = 1 \/ t[l] = Blank)
            BY <2>1, <4>1
          <6>2. k \in 1 .. k /\ \A q \in k .. k : q = k
            OBVIOUS
          <6> QED
            BY <2>4, <6>1, <6>2 DEF BeginsAt
        <5>4. k - 1 = l
          BY <2>1
        <5> QED
          BY <5>2, <5>3, <5>4 DEF before
      <4>2. CASE l # 0 /\ t[l] # Blank
        <5>1. l > 0 /\ k \in l + 1 .. n
          BY <2>1, <4>2
        <5>2. PICK i \in 1 .. l : /\ BeginsAt(t, i, l) /\ shown[l - 1] = shown[i - 1]
                                  /\ InStretch(m, t, n, l, i, done, shown[i - 1])
          BY <2>2, <4>2, <5>1
        <5>3. i \in 1 .. n /\ k \in i + 1 .. n /\ k - 1 = l /\ i \in 1 .. k
          BY <1>1, <2>1
        <5>4. shown[i - 1] \in Seq(Given(m))
          <6>1. i - 1 \in 0 .. n
            BY <1>1, <5>3
          <6> QED
            BY <1>6, <6>1
        <5> DEFINE b == shown[i - 1]
        <5>5. InStretch(m, t, n, k - 1, i, done, b) /\ b \in Seq(Given(m))
          BY <5>2, <5>3, <5>4
        <5> HIDE DEF b
        <5>6. InStretch(m, t, n, k, i, to, b)
          BY <1>1, <1>2, <2>1, <2>4, <5>3, <5>5, StretchGoesOn
        <5>7. BeginsAt(t, i, k)
          <6>1. \A q \in i .. k : q \in i .. l \/ q = k
            BY <2>1, <5>3
          <6>2. i \in 1 .. l /\ (i = 1 \/ t[i - 1] = Blank) /\ \A q \in i .. l : t[q] # Blank
            BY <5>2 DEF BeginsAt
          <6> QED
            BY <2>4, <5>3, <6>1, <6>2 DEF BeginsAt
        <5>8. before = b
          <6>1. t[l + 1] # Blank /\ l # n /\ l \in 1 .. n
            BY <2>1, <2>4, <5>1
          <6>2. Shown(m, t, l) = <<>>
            BY <1>1, <1>2, <4>2, <6>1, ShownIs DEF EndsAt
          <6>3. before = shown[l - 1] \o <<>>
            BY <1>6, <6>1, <6>2 DEF before
          <6>4. l - 1 \in 0 .. n
            BY <1>1, <6>1
          <6>5. shown[l - 1] \in Seq(Given(m))
            BY <1>6, <6>4
          <6>6. before = shown[l - 1]
            BY <6>3, <6>5
          <6> QED
            BY <5>2, <6>6 DEF b
        <5> QED
          BY <5>3, <5>6, <5>7, <5>8 DEF b
      <4>3. (l = 0 \/ t[l] = Blank) \/ (l # 0 /\ t[l] # Blank)
        OBVIOUS
      <4> QED
        BY <4>1, <4>2, <4>3
    <3>2. EndsAt(t, n, k) => to.next = k + 1 /\ to.out = shown[k]
      <4> SUFFICES ASSUME EndsAt(t, n, k) PROVE to.next = k + 1 /\ to.out = shown[k]
        OBVIOUS
      <4>1. PICK i \in 1 .. k : /\ BeginsAt(t, i, k) /\ before = shown[i - 1]
                                /\ InStretch(m, t, n, k, i, to, shown[i - 1])
        BY <3>1
      <4>2. InStretch(m, t, n, k, i, to, before) /\ i \in Nat /\ k \in Nat
        BY <4>1
      <4>3. StretchAt(t, n, i, k)
        BY <1>1, <4>1 DEF StretchAt, EndsAt, BeginsAt
      <4>4. to \in Reached(m)
        BY <1>7 DEF to
      <4>5. to.next = k + 1 /\ to.out = before \o Said(m, SubSeq(t, i, k))
        BY <1>1, <1>2, <2>1, <4>2, <4>3, <4>4, StretchSaid
      <4>6. From(t, k) = i
        BY <4>1, <4>2, FromIs
      <4>7. Shown(m, t, k) = Said(m, SubSeq(t, i, k))
        <5>1. Shown(m, t, k) = Said(m, SubSeq(t, From(t, k), k))
          BY <1>1, <1>2, ShownIs
        <5> QED
          BY <4>6, <5>1
      <4> QED
        BY <2>1, <4>5, <4>7
    <3>3. shown[k - 1] = before
      BY <1>1, <2>1 DEF before, l
    <3>4. /\ k = 0 \/ t[k] = Blank \/ EndsAt(t, n, k) => stage[k].next = k + 1 /\ stage[k].out = shown[k]
          /\ \E i \in 1 .. k : /\ BeginsAt(t, i, k) /\ shown[k - 1] = shown[i - 1]
                               /\ InStretch(m, t, n, k, i, stage[k], shown[i - 1])
      <4>1. k # 0
        OBVIOUS
      <4> QED
        BY <2>4, <3>1, <3>2, <3>3, <4>1 DEF to
    <3> QED
      BY <3>4 DEF AfterPlace
  <2> QED
    BY <2>3, <2>4
<1>10. \A k \in 0 .. n : After(k)
  <2> DEFINE S == {k \in 0 .. n : After(k)}
  <2>1. 0 \in S
    BY <1>1, <1>8
  <2>2. ASSUME NEW k \in 0 .. n - 1, k \in S PROVE k + 1 \in S
    <3> DEFINE j == k + 1
    <3>1. j \in 1 .. n /\ j - 1 = k /\ After(k)
      BY <1>1, <2>2
    <3> HIDE DEF j, After
    <3>2. After(j)
      BY <1>9, <3>1
    <3> QED
      BY <3>1, <3>2 DEF j
  <2>3. 0 .. n \subseteq S
    <3> HIDE DEF S
    <3> QED
      BY <1>1, <2>1, <2>2, InductionTo
  <2> QED
    BY <2>3
<1>11. stage[n].out = shown[n]
  <2>1. AfterPlace(m, t, n, n, stage, shown)
    BY <1>1, <1>10
  <2>2. n = 0 \/ t[n] = Blank \/ EndsAt(t, n, n)
    BY DEF EndsAt
  <2> QED
    BY <2>1, <2>2 DEF AfterPlace
<1> QED
  BY <1>6, <1>7, <1>11 DEF seqs

(* Writing a text keeps its symbols and the mapping it is scrubbed by.      *)
Written == mapping \in Mappings /\ ~Refused(mapping) /\ text \in Seq(Symbols)

(* In every text, each stretch between spaces that is a mapped path, or     *)
(* something below one, has the longest such path replaced by its name, and *)
(* nothing else changes (_scrub.py:241-250).                                *)
THEOREM WholePathsOnlyHolds == PathSpec => []WholePathsOnly
<1>1. PathInit => Written
  BY DEF PathInit, Written
<1>2. Written /\ [PathNext]_pathVars => Written'
  <2> SUFFICES ASSUME Written, [PathNext]_pathVars PROVE Written'
    OBVIOUS
  <2>1. CASE WriteText
    <3>1. PICK symbol \in Symbols : text' = Append(text, symbol)
      BY <2>1 DEF WriteText
    <3>2. text' \in Seq(Symbols)
      BY <3>1 DEF Written
    <3>3. mapping' = mapping
      BY <2>1 DEF WriteText
    <3> QED
      BY <3>2, <3>3 DEF Written, Refused
  <2>2. CASE UNCHANGED pathVars
    BY <2>2 DEF Written, pathVars
  <2> QED
    BY <2>1, <2>2 DEF PathNext, PathRest
<1>3. Written => WholePathsOnly
  BY ReplaceIsShown DEF Written, WholePathsOnly
<1> QED
  BY <1>1, <1>2, <1>3, PTL DEF PathSpec
=============================================================================
