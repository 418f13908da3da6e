-------------------------------- MODULE Load --------------------------------
(***************************************************************************)
(* load (onus/prereg/_rule.py) at work: it reads a record, lists the       *)
(* amendments beside it, reads each and has check_signoff read the ledger  *)
(* and the amendment again, then builds the rule, reading each bound file  *)
(* for the record and for every amendment.  It holds no lock, and files    *)
(* and sign-offs change at any step.                                       *)
(*                                                                         *)
(* The ledger is the log of SignoffLog, which Signoff implements.  Of      *)
(* check_signoff its two readings are steps; a corrupt ledger or copy, and *)
(* files a sign-off binds, can only refuse, and are left out.  So are      *)
(* misnamed files, which load refuses, and the day in an amendment's name. *)
(***************************************************************************)
EXTENDS Rule

CONSTANTS RecordFile,      \* the record's file
          AmendmentFiles,  \* names of amendments of it, oldest first
          BoundFiles,      \* files a record may bind
          ContentsOf,      \* what each file can hold, when it is there
          Decoded,         \* the record or amendment a file's content is
          Data,            \* outcomes an evaluation can be of
          Missing,         \* what is read where there is no file
          MaxLoads,        \* bound: calls of load
          MaxEdits,        \* bound: changes of a file
          MaxLines         \* bound: lines of the ledger

Names == ToSet(AmendmentFiles)

Paths == {RecordFile} \cup Names \cup BoundFiles

ASSUME PathsAssumption ==
  /\ AmendmentFiles \in Seq(Names)
  /\ RecordFile \notin Names
  /\ DOMAIN ContentsOf = Paths
  /\ \A path \in Paths : Missing \notin ContentsOf[path]
  /\ \A i, j \in 1 .. Len(AmendmentFiles) : AmendmentFiles[i] = AmendmentFiles[j] => i = j

ASSUME BoundsAssumption == {MaxLoads, MaxEdits, MaxLines} \subseteq Nat

VARIABLES
  files,   \* what each file holds
  log,     \* the ledger's sign-offs and revocations
  load,    \* the load under way: where it is and what it holds
  loaded,  \* history: the rules load returned
  calm,    \* history: nothing changed since the load began
  began,   \* history: how long the log was when the load began
  stood,   \* history: amendments that lay beside the record, unchanged, since
  spent    \* how much of each bound is used

historyVars == <<loaded, calm, began, stood>>
vars == <<files, log, load, historyVars, spent>>

Null == <<>>

Log == INSTANCE SignoffLog WITH
         Entries   <- {},
         NoContent <- Null,
         promised  <- 0

Entry(name, sha256) == [artifact |-> name, sha256 |-> sha256, bound |-> Null]

NoLoad ==
  [pc |-> "idle", ledger |-> FALSE, raw |-> Null, names |-> {}, content |-> Null,
   line |-> Null, signed |-> <<>>, rule |-> Null, todo |-> {}]

Init ==
  /\ files \in [Paths -> UNION {ContentsOf[path] : path \in Paths} \cup {Missing}]
  /\ \A path \in Paths : files[path] \in ContentsOf[path] \cup {Missing}
  /\ log = <<>>
  /\ load = NoLoad
  /\ loaded = {} /\ calm = TRUE /\ began = 0 /\ stood = {}
  /\ spent = [loads |-> 0, edits |-> 0]

Refuse == load' = [NoLoad EXCEPT !.pc = "refused", !.ledger = load.ledger]

-----------------------------------------------------------------------------
(* load *)

(* The record is read; with no file there, load fails at once. *)
Begin ==
  /\ load.pc = "idle" /\ spent.loads < MaxLoads
  /\ files[RecordFile] # Missing
  /\ \E ledger \in BOOLEAN :
       load' = [NoLoad EXCEPT !.pc = "list", !.ledger = ledger, !.raw = files[RecordFile]]
  /\ spent' = [spent EXCEPT !.loads = @ + 1]
  /\ calm' = TRUE /\ began' = Len(log)
  /\ stood' = {name \in Names : files[name] # Missing}
  /\ UNCHANGED <<files, log, loaded>>

(* _amendment_names: those beside the record, which need a ledger. *)
List ==
  /\ load.pc = "list"
  /\ LET names == {name \in Names : files[name] # Missing}
     IN  IF names # {} /\ ~ load.ledger THEN Refuse
         ELSE load' = [load EXCEPT !.pc = "read", !.names = names]
  /\ UNCHANGED <<files, log, historyVars, spent>>

(* Amendments are taken in the order of their days. *)
Oldest(names) ==
  CHOOSE name \in names :
    \E k \in 1 .. Len(AmendmentFiles) :
      /\ AmendmentFiles[k] = name
      /\ \A j \in 1 .. k - 1 : AmendmentFiles[j] \notin names

(* The next amendment's bytes are read, for load itself. *)
ReadAmendment ==
  /\ load.pc = "read" /\ load.names # {}
  /\ LET content == files[Oldest(load.names)]
     IN  IF content = Missing THEN Refuse
         ELSE load' = [load EXCEPT !.pc = "ledger", !.content = content]
  /\ UNCHANGED <<files, log, historyVars, spent>>

(* Mutant: an amendment that is not signed is passed over. *)
CheckLedgerPassingOver ==
  /\ load.pc = "ledger"
  /\ LET n == Log!Deciding(Oldest(load.names))
     IN  IF n = 0
         THEN load' = [load EXCEPT !.pc = "read", !.names = @ \ {Oldest(@)}, !.content = Null]
         ELSE IF log[n].sha256 = Null THEN Refuse
         ELSE load' = [load EXCEPT !.pc = "content", !.line = log[n]]
  /\ UNCHANGED <<files, log, historyVars, spent>>

(* check_signoff reads the ledger: UNSIGNED and REVOKED are refused. *)
CheckLedger ==
  /\ load.pc = "ledger"
  /\ LET n == Log!Deciding(Oldest(load.names))
     IN  IF n = 0 \/ log[n].sha256 = Null THEN Refuse
         ELSE load' = [load EXCEPT !.pc = "content", !.line = log[n]]
  /\ UNCHANGED <<files, log, historyVars, spent>>

(* The amendment is signed: it joins those to apply. *)
Take ==
  load' = [load EXCEPT !.pc = "read", !.names = @ \ {Oldest(@)}, !.content = Null,
             !.line = Null,
             !.signed = Append(@, [name |-> Oldest(load.names), content |-> load.content])]

(* Mutant: SIGNED is enough, whatever bytes load holds. *)
CheckContentOnly ==
  /\ load.pc = "content"
  /\ IF Sha(files[Oldest(load.names)]) # load.line.sha256 THEN Refuse ELSE Take
  /\ UNCHANGED <<files, log, historyVars, spent>>

(* check_signoff reads the amendment again: CHANGED is refused, and so is a *)
(* sign-off of other bytes than load read.                                  *)
CheckContent ==
  /\ load.pc = "content"
  /\ IF \/ Sha(files[Oldest(load.names)]) # load.line.sha256
        \/ Sha(load.content) # load.line.sha256
     THEN Refuse ELSE Take
  /\ UNCHANGED <<files, log, historyVars, spent>>

(* Go on to the bound files of the record that made this rule. *)
Bind(rule, signed) ==
  load' = [load EXCEPT !.pc = "bound", !.raw = Null, !.rule = rule, !.signed = signed,
                       !.todo = DOMAIN rule.record.bound]

(* Mutant: the files a record binds are left to its amendments. *)
BuildRecordUnbound ==
  /\ load.pc = "read" /\ load.names = {}
  /\ LET record == Decoded[load.raw]
     IN  IF ~ Sound(record) THEN Refuse
         ELSE load' = [load EXCEPT !.pc = "bound", !.raw = Null,
                         !.rule = RuleOf(RecordFile, load.raw, record),
                         !.todo = IF load.signed = <<>> THEN DOMAIN record.bound ELSE {}]
  /\ UNCHANGED <<files, log, historyVars, spent>>

(* _chain begins with the record. *)
BuildRecord ==
  /\ load.pc = "read" /\ load.names = {}
  /\ LET record == Decoded[load.raw]
     IN  IF Sound(record) THEN Bind(RuleOf(RecordFile, load.raw, record), load.signed)
         ELSE Refuse
  /\ UNCHANGED <<files, log, historyVars, spent>>

(* _bound: one more bound file is read. *)
ReadBound ==
  /\ load.pc = "bound"
  /\ \E path \in load.todo :
       IF Sha(files[path]) # load.rule.record.bound[path] THEN Refuse
       ELSE load' = [load EXCEPT !.todo = @ \ {path}]
  /\ UNCHANGED <<files, log, historyVars, spent>>

(* Mutant: what an amendment says it amends is not compared. *)
AmendAnything ==
  /\ load.pc = "bound" /\ load.todo = {} /\ load.signed # <<>>
  /\ LET next == Head(load.signed)
         amendment == Decoded[next.content]
     IN  IF Sound(amendment.record)
         THEN Bind(Amended(load.rule, next.name, next.content, amendment), Tail(load.signed))
         ELSE Refuse
  /\ UNCHANGED <<files, log, historyVars, spent>>

(* _amended: the next amendment is applied. *)
Amend ==
  /\ load.pc = "bound" /\ load.todo = {} /\ load.signed # <<>>
  /\ LET next == Head(load.signed)
         amendment == Decoded[next.content]
     IN  IF Amends(load.rule, amendment)
         THEN Bind(Amended(load.rule, next.name, next.content, amendment), Tail(load.signed))
         ELSE Refuse
  /\ UNCHANGED <<files, log, historyVars, spent>>

(* The rule is made. *)
Done ==
  /\ load.pc = "bound" /\ load.todo = {} /\ load.signed = <<>>
  /\ load' = [load EXCEPT !.pc = "done"]
  /\ UNCHANGED <<files, log, historyVars, spent>>

(* load returns its rule or raises. *)
Return ==
  /\ load.pc \in {"done", "refused"}
  /\ loaded' = IF load.pc = "done" THEN loaded \cup {load.rule} ELSE loaded
  /\ load' = NoLoad
  /\ UNCHANGED <<files, log, calm, began, stood, spent>>

-----------------------------------------------------------------------------
(* check_intact, which evaluate and record_read ask of every rule *)

(* The record and the id after a rule's first k amendments, by its bytes. *)
RecordAt(rule, k) ==
  IF k = 0 THEN Decoded[rule.raw] ELSE Decoded[rule.amendments[k].raw].record
IdAt(rule, k) ==
  IF k = 0 THEN IdOf(RecordFile, rule.raw)
  ELSE IdOf(rule.amendments[k].name, rule.amendments[k].raw)

(* _chain refuses none of the bytes; it reads no bound file this time. *)
Chains(rule) ==
  /\ Sound(RecordAt(rule, 0))
  /\ \A k \in 1 .. Len(rule.amendments) :
       /\ Decoded[rule.amendments[k].raw].amends = IdAt(rule, k - 1)
       /\ Sound(RecordAt(rule, k))
       /\ RecordAt(rule, k).registered = RecordAt(rule, k - 1).registered

(* The rule that _chain makes of the bytes. *)
Rebuilt(rule) ==
  [id         |-> IdAt(rule, Len(rule.amendments)),
   raw        |-> rule.raw,
   record     |-> RecordAt(rule, Len(rule.amendments)),
   amendments |-> [k \in 1 .. Len(rule.amendments) |->
                     [name |-> rule.amendments[k].name, id |-> IdAt(rule, k),
                      raw |-> rule.amendments[k].raw,
                      touches |-> Touches(RecordAt(rule, k - 1), RecordAt(rule, k))]]]

(* Mutant: the id alone is compared. *)
IntactById(rule) == Chains(rule) /\ Rebuilt(rule).id = rule.id

Intact(rule) == Chains(rule) /\ Rebuilt(rule) = rule

-----------------------------------------------------------------------------
LoadStep ==
  \/ List \/ ReadAmendment \/ CheckLedger \/ CheckContent
  \/ BuildRecord \/ ReadBound \/ Amend \/ Done \/ Return

-----------------------------------------------------------------------------
(* What else happens *)

(* Anyone writes, changes or removes a file. *)
Edit(path) ==
  /\ spent.edits < MaxEdits /\ spent' = [spent EXCEPT !.edits = @ + 1]
  /\ \E content \in (ContentsOf[path] \cup {Missing}) \ {files[path]} :
       files' = [files EXCEPT ![path] = content]
  /\ calm' = FALSE /\ stood' = stood \ {path}
  /\ UNCHANGED <<log, load, loaded, began>>

(* A person signs a content the amendment has had, or revokes. *)
SignOff(name) ==
  /\ Len(log) < MaxLines
  /\ \/ \E content \in ContentsOf[name] : Log!Sign(Entry(name, Sha(content)))
     \/ Log!Revoke(Entry(name, Null))
  /\ calm' = FALSE
  /\ UNCHANGED <<files, load, loaded, began, stood, spent>>

(* No load is under way. *)
Rest == load.pc = "idle" /\ UNCHANGED vars

Next ==
  \/ Begin \/ LoadStep
  \/ \E path \in Paths : Edit(path)
  \/ \E name \in Names : SignOff(name)
  \/ Rest

Spec == Init /\ [][Next]_vars

-----------------------------------------------------------------------------
(* Properties *)

(* An amendment is applied "only once signed" (_rule.py:573-576): for each  *)
(* that a rule applies, at some moment of the load the newest line of the   *)
(* ledger about it signed exactly the bytes applied.                        *)
AppliedWereSigned ==
  load.pc = "done" =>
    \A k \in 1 .. Len(load.rule.amendments) :
      \E n \in began .. Len(log), name \in Names :
        LET before == SubSeq(log, 1, n)
            last   == SelectLastInSeq(before, LAMBDA entry : entry.artifact = name)
        IN  /\ last # 0
            /\ load.rule.amendments[k].id = <<name, before[last].sha256>>

(* "an amendment left out unseen would leave the rule unamended"            *)
(* (_rule.py:547): each that lay beside the record from the load's          *)
(* beginning to its end is applied, with the bytes it held.                 *)
NothingPassedOver ==
  load.pc = "done" =>
    \A name \in stood : \E k \in 1 .. Len(load.rule.amendments) :
      load.rule.amendments[k].id = IdOf(name, files[name])

(* The amendments beside the record, oldest first, and the files they make. *)
Present == {k \in 1 .. Len(AmendmentFiles) : files[AmendmentFiles[k]] # Missing}
Beside ==
  [i \in 1 .. Cardinality(Present) |->
     AmendmentFiles[CHOOSE k \in Present : Cardinality({j \in Present : j <= k}) = i]]

BoundAsIs(record) == \A path \in DOMAIN record.bound : record.bound[path] = Sha(files[path])

(* The files and the ledger make a rule: each amendment is signed as it is, *)
(* amends the one before it, and every record of the chain is sound, of one *)
(* registration, and binds files as they are.                               *)
Loadable ==
  LET record == Decoded[files[RecordFile]]
      Id(k)  == IF k = 0 THEN IdOf(RecordFile, files[RecordFile])
                ELSE IdOf(Beside[k], files[Beside[k]])
  IN  /\ Sound(record) /\ BoundAsIs(record)
      /\ \A k \in 1 .. Len(Beside) :
           LET n == Log!Deciding(Beside[k])
               amendment == Decoded[files[Beside[k]]]
           IN  /\ n # 0 /\ log[n].sha256 = Sha(files[Beside[k]])
               /\ amendment.amends = Id(k - 1)
               /\ Sound(amendment.record) /\ BoundAsIs(amendment.record)
               /\ amendment.record.registered = record.registered

(* What the files' chain makes of the record. *)
Made ==
  LET RecordOf(k) == IF k = 0 THEN Decoded[files[RecordFile]]
                     ELSE Decoded[files[Beside[k]]].record
      Id(k)       == IF k = 0 THEN IdOf(RecordFile, files[RecordFile])
                     ELSE IdOf(Beside[k], files[Beside[k]])
  IN  [id         |-> Id(Len(Beside)),
       raw        |-> files[RecordFile],
       record     |-> RecordOf(Len(Beside)),
       amendments |-> [k \in 1 .. Len(Beside) |->
                         [name |-> Beside[k], id |-> Id(k), raw |-> files[Beside[k]],
                          touches |-> Touches(RecordOf(k - 1), RecordOf(k))]]]

(* A load that nothing disturbs returns what the files make, or refuses     *)
(* because they make no rule, though it reads them one after another.       *)
CalmLoadIsRight ==
  calm =>
    /\ load.pc = "done" => Loadable /\ load.rule = Made
    /\ load.pc = "refused" => ~ Loadable \/ (Beside # <<>> /\ ~ load.ledger)

(* An id names one rule: whatever the files held when, two rules of one id  *)
(* have the same record and amendments, touching the same hypotheses.  The  *)
(* seal, a receipt and a sentence all know a rule by its id.                *)
IdFixesRule == \A r, s \in loaded : r.id = s.id => r = s

(* Amendments cut short, or with the bytes of one exchanged. *)
Altered(amendments) ==
  {SubSeq(amendments, 1, k) : k \in 0 .. Len(amendments)} \cup
  UNION {{[amendments EXCEPT ![k].raw = raw] : raw \in ContentsOf[amendments[k].name]} :
           k \in 1 .. Len(amendments)}

(* What replace() can put together under an id from the rules there are. *)
PutTogether(id) ==
  [id : {id}, raw : {r.raw : r \in loaded}, record : {r.record : r \in loaded},
   amendments : UNION {Altered(r.amendments) : r \in loaded}]

(* check_intact stands between replace() and a label: whatever is put       *)
(* together under the id of a loaded rule, it lets through that rule alone, *)
(* and that rule for good, whatever becomes of its files (_rule.py:637).    *)
OnlyLoadedAreIntact ==
  \A r \in loaded : \A rule \in PutTogether(r.id) : Intact(rule) <=> rule = r

(* touches leaves nothing out: a hypothesis that amendments add is touched, *)
(* and one whose label they change on the same data is, or a member of its  *)
(* family is.                                                               *)
TouchesSuffice ==
  \A r, s \in loaded : r.raw = s.raw /\ IsPrefix(r.amendments, s.amendments) =>
    LET touched == UNION {s.amendments[k].touches :
                            k \in Len(r.amendments) + 1 .. Len(s.amendments)}
    IN  /\ DOMAIN s.record.hypotheses \ DOMAIN r.record.hypotheses \subseteq touched
        /\ \A data \in Data :
             Evaluable(r.record, data) /\ Evaluable(s.record, data) =>
               \A h \in DOMAIN data :
                 LabelOf(s.record, data, h) # LabelOf(r.record, data, h) =>
                   KinTouched(s.record, touched, h)
=============================================================================
