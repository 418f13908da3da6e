----------------------------- MODULE ReadsFile ------------------------------
(***************************************************************************)
(* The reads file as a value: which line record_read writes for a rule and *)
(* its evaluation, when the seal lets it, which hypotheses are post hoc    *)
(* (onus/prereg/_evaluate.py, _reads.py), which recorded read a receipt    *)
(* binds, and what its sentence says (onus/report/_receipts.py,            *)
(* _render.py).                                                            *)
(*                                                                         *)
(* A rule is known by its prereg id, which names its file stem and the     *)
(* bytes of its record or of its newest amendment, and so fixes everything *)
(* about it.  Data are the units an evaluation used: their digest fixes    *)
(* their number, n, and the hypotheses they hold an outcome for, and with  *)
(* the rule the labels.  Left out of a line: schema (read/2 lines are read *)
(* as lines with no amendment), n, as_of, reason (there exactly when       *)
(* supersedes is) and onus.                                                *)
(***************************************************************************)
EXTENDS Integers, Sequences, SequencesExt

CONSTANTS PreregIds,   \* prereg ids
          Rules,       \* the rule each id stands for
          Hypotheses,  \* names of hypotheses
          Used,        \* the units an evaluation can have used
          Labels       \* Labels[id][used]: what evaluate labels, when it does

(* A rule as load returned it: record is the id of the record before any    *)
(* amendment, amendments are ids, oldest first, touches is what the newest  *)
(* amendment touches, family gives each hypothesis's family, end is the day *)
(* its window ends, 0 for a count horizon.                                  *)
ASSUME RulesAssumption ==
  /\ DOMAIN Rules = PreregIds
  /\ \A id \in PreregIds :
       /\ DOMAIN Rules[id].family \subseteq Hypotheses
       /\ Rules[id].amendments \in Seq(PreregIds)
       /\ Rules[id].end \in Nat

HypothesesOf(id) == DOMAIN Rules[id].family

(* An id names the newest amendment, and an amendment names what it amends. *)
ASSUME ChainsAssumption ==
  \A id \in PreregIds :
    LET chain == Rules[id].amendments
    IN  /\ chain = <<>> <=> Rules[id].record = id
        /\ chain # <<>> => chain[Len(chain)] = id
        /\ \A k \in 1 .. Len(chain) :
             /\ Rules[chain[k]].amendments = SubSeq(chain, 1, k)
             /\ Rules[chain[k]].record = Rules[id].record
             /\ Rules[chain[k]].stem = Rules[id].stem

(* A used unit records an outcome for exactly the rule's hypotheses, so one *)
(* digest is never of rules with different ones.                            *)
ASSUME LabelsAssumption ==
  \A id \in PreregIds :
    /\ DOMAIN Labels[id] \subseteq Used
    /\ \A used \in DOMAIN Labels[id] :
         /\ Labels[id][used] \in [HypothesesOf(id) -> {"met", "not met"}]
         /\ \A other \in PreregIds :
              used \in DOMAIN Labels[other] => HypothesesOf(other) = HypothesesOf(id)

(* The rule s is the rule r with further amendments. *)
Extends(s, r) ==
  /\ Rules[s].record = Rules[r].record
  /\ IsPrefix(Rules[r].amendments, Rules[s].amendments)

(* The amendments that made s of r touch the hypothesis h. *)
TouchedSince(s, r, h) ==
  \E k \in Len(Rules[r].amendments) + 1 .. Len(Rules[s].amendments) :
    h \in Rules[Rules[s].amendments[k]].touches

(* What _touches gives.  A hypothesis that later amendments add is touched. *)
(* One whose label they can change on the same data is touched, or a member *)
(* of its family is, whose p-value its own adjusted one depends on.         *)
ASSUME TouchesAssumption ==
  \A r, s \in PreregIds : Extends(s, r) =>
    \A h \in HypothesesOf(s) :
      /\ h \notin HypothesesOf(r) => TouchedSince(s, r, h)
      /\ \A used \in DOMAIN Labels[r] \cap DOMAIN Labels[s] :
           Labels[s][used][h] # Labels[r][used][h] =>
             \E g \in HypothesesOf(s) :
               Rules[s].family[g] = Rules[s].family[h] /\ TouchedSince(s, r, g)

Null == <<>>                            \* JSON's null

Sha(x) == <<"sha256", x>>

-----------------------------------------------------------------------------
(* Writing a read *)

(* A line is a read of the experiment, or of a record with this file stem. *)
Relates(line, experiment, stem) ==
  line.experiment = experiment \/ Rules[line.prereg].stem = stem

(* The places of the reads a new read of the rule is held to. *)
RelatedReads(lines, id) ==
  {n \in 1 .. Len(lines) : Relates(lines[n], Rules[id].experiment, Rules[id].stem)}

(* The place of the first of them, 0 when there is none. *)
FirstRead(lines, id) ==
  SelectInSeq(lines, LAMBDA line : Relates(line, Rules[id].experiment, Rules[id].stem))

Differs(line, id, used) ==
  line.data_sha256 # Sha(used) \/ line.labels # Labels[id][used]

(* _seal lets the read through: it names the first related read when it     *)
(* differs from any of them, and nothing when it differs from none.         *)
Seals(lines, id, used, supersedes) ==
  supersedes = IF \E n \in RelatedReads(lines, id) : Differs(lines[n], id, used)
               THEN Sha(lines[FirstRead(lines, id)]) ELSE Null

(* The day d runs from 2 * d to 2 * d + 2, with noon UTC at 2 * d + 1: a    *)
(* window that ends on a day has closed in every time zone at its noon.     *)
ReadEarly(end, at) == end # 0 /\ at < 2 * end + 1

(* Mutant: compared with the amendments of the latest related read. *)
LateForLatest(lines, id, h) ==
  LET related == RelatedReads(lines, id)
      latest  == CHOOSE n \in related : \A m \in related : m <= n
      chain   == Rules[id].amendments
  IN  {k \in 1 .. Len(chain) :
         /\ h \in Rules[chain[k]].touches
         /\ related # {} /\ chain[k] \notin ToSet(lines[latest].amendments)}

(* The amendments that make h post hoc: they touch it, and the first        *)
(* related read was not made with them.                                     *)
Late(lines, id, h) ==
  LET first == FirstRead(lines, id)
      chain == Rules[id].amendments
  IN  {k \in 1 .. Len(chain) :
         /\ h \in Rules[chain[k]].touches
         /\ first # 0 /\ chain[k] \notin ToSet(lines[first].amendments)}

PostHoc(lines, id) == {h \in HypothesesOf(id) : Late(lines, id, h) # {}}

(* The line record_read writes after these lines, at a time its clock gives. *)
ReadLine(lines, id, used, supersedes, at) ==
  [prereg      |-> id,
   experiment  |-> Rules[id].experiment,
   data_sha256 |-> Sha(used),
   labels      |-> Labels[id][used],
   at          |-> at,
   early       |-> ReadEarly(Rules[id].end, at),
   supersedes  |-> supersedes,
   amendments  |-> Rules[id].amendments,
   post_hoc    |-> PostHoc(lines, id)]

(* parse_line: each field is of its kind, and only labelled hypotheses are  *)
(* post hoc.                                                                *)
WellFormed(line) ==
  /\ DOMAIN line = {"prereg", "experiment", "data_sha256", "labels", "at", "early",
                    "supersedes", "amendments", "post_hoc"}
  /\ line.prereg \in PreregIds
  /\ \E used \in Used : line.data_sha256 = Sha(used)
  /\ \A h \in DOMAIN line.labels : line.labels[h] \in {"met", "not met"}
  /\ line.early \in BOOLEAN
  /\ line.post_hoc \subseteq DOMAIN line.labels

-----------------------------------------------------------------------------
(* Rendering a read *)

(* find_line, by the digest a receipt names: 0 when no line has it. *)
FindLine(lines, sha) == SelectInSeq(lines, LAMBDA line : Sha(line) = sha)

(* Mutant: the lines after the read count as well. *)
WholeFile(lines, n) == lines

(* The lines before the read at place n. *)
Earlier(lines, n) == SubSeq(lines, 1, n - 1)

(* What a re-read repeats: other data, another record, or it is not known. *)
ReReadKind(line, earlier) ==
  LET related == {m \in 1 .. Len(earlier) :
                    Relates(earlier[m], line.experiment, Rules[line.prereg].stem)}
  IN  IF line.supersedes = Null THEN "none"
      ELSE IF \E m \in related : earlier[m].data_sha256 # line.data_sha256 THEN "data"
      ELSE IF \E m \in related : earlier[m].prereg # line.prereg THEN "record"
      ELSE "unknown"

ReceiptOf(line) ==
  [prereg |-> line.prereg, data_sha256 |-> line.data_sha256, at |-> line.at,
   line_sha256 |-> Sha(line)]

(* bound_read accepts: the line the receipt names records this evaluation,   *)
(* re-derived, the receipt's own fields, the flag its time gives, and what   *)
(* the rule and the lines before it make post hoc.                           *)
Binds(lines, id, used, receipt) ==
  LET n    == FindLine(lines, receipt.line_sha256)
      line == lines[n]
  IN  /\ n # 0
      /\ line.prereg = id /\ receipt.prereg = id
      /\ line.experiment = Rules[id].experiment
      /\ line.data_sha256 = Sha(used) /\ receipt.data_sha256 = Sha(used)
      /\ line.labels = Labels[id][used]
      /\ line.at = receipt.at
      /\ line.early = ReadEarly(Rules[id].end, line.at)
      /\ line.amendments = Rules[id].amendments
      /\ line.post_hoc = PostHoc(Earlier(lines, n), id)

(* Mutant: an early read tells of every kind of re-read. *)
ReReadToldEarly(kind, early) == kind

(* _re_read: the clause of a re-read; early, only one that shows no label. *)
ReRead(kind, early) == IF early /\ kind # "data" THEN "none" ELSE kind

(* The amendment a sentence names: the oldest that makes h post hoc. *)
PostHocBy(lines, id, h) ==
  LET late == Late(lines, id, h)
  IN  IF late = {} THEN Null
      ELSE <<Rules[id].amendments[CHOOSE k \in late : \A other \in late : k <= other]>>

(* What the sentence for h says of the read at place n: its verdict, that   *)
(* it is post hoc, that it is a re-read, and of which first read.           *)
Sentence(lines, n, h) ==
  LET line    == lines[n]
      earlier == Earlier(lines, n)
      again   == ReRead(ReReadKind(line, earlier), line.early)
  IN  [verdict  |-> IF line.early THEN "read early" ELSE line.labels[h],
       post_hoc |-> PostHocBy(earlier, line.prereg, h),
       re_read  |-> again,
       first    |-> IF again = "none" THEN Null ELSE line.supersedes]
=============================================================================
