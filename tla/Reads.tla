------------------------------- MODULE Reads --------------------------------
(***************************************************************************)
(* record_read at work on one reads file (onus/prereg/_evaluate.py): each  *)
(* call checks its evaluation, opens the file, waits for flock, reads and  *)
(* parses it, is held to the seal, reads the clock, writes its line,       *)
(* fsyncs, and returns a receipt.  Processes read beside each other with   *)
(* rules loaded at any time, their clocks agree on nothing, and they are   *)
(* killed or lose power at any step.  What render says of a read is a      *)
(* function of the file (ReadsFile), read without the lock.                *)
(*                                                                         *)
(* An empty reads file stands for no file as well.                         *)
(***************************************************************************)
EXTENDS ReadsFile, FiniteSets

CONSTANTS Readers,         \* processes that call record_read
          Days,            \* the days a caller can give as as_of
          Times,           \* what a clock can show, in half days
          NoOne,           \* holder of a lock nobody holds
          MaxCalls,        \* bound: calls of record_read
          MaxKills,        \* bound: readers killed
          MaxPowerLosses   \* bound: power losses

ASSUME NoOneAssumption  == NoOne \notin Readers
ASSUME TimesAssumption  == Days \subseteq Nat /\ Times \subseteq Nat
ASSUME BoundsAssumption == {MaxCalls, MaxKills, MaxPowerLosses} \subseteq Nat

VARIABLES
  lines,     \* the whole lines of the reads file
  torn,      \* the file ends in part of a line
  synced,    \* how many of its lines are known to be on disk
  holder,    \* who holds flock on the file
  pc,        \* where each reader is
  call,      \* what each reader was asked to record
  building,  \* the line each reader has built: none or one
  returned,  \* history: the lines whose receipts were returned
  spent      \* how much of each bound is used

fileVars   == <<lines, torn, synced>>
readerVars == <<holder, pc, call, building>>
vars == <<fileVars, readerVars, returned, spent>>

PCs == {"idle", "wait", "read", "write", "writing", "sync"}

NoCall == [rule |-> "none", used |-> "none", supersedes |-> Null]

Init ==
  /\ lines = <<>> /\ torn = FALSE /\ synced = 0
  /\ holder = NoOne
  /\ pc = [p \in Readers |-> "idle"]
  /\ call = [p \in Readers |-> NoCall]
  /\ building = [p \in Readers |-> <<>>]
  /\ returned = {}
  /\ spent = [calls |-> 0, kills |-> 0, losses |-> 0]

Spend(counter) == spent' = [spent EXCEPT ![counter] = @ + 1]

Goto(p, where) == pc' = [pc EXCEPT ![p] = where]

(* Mutant: the lock outlives the call. *)
LeaveLocked(p) ==
  /\ Goto(p, "idle")
  /\ UNCHANGED holder
  /\ call' = [call EXCEPT ![p] = NoCall]
  /\ building' = [building EXCEPT ![p] = <<>>]

(* Leaving, by return or by raise: the file is closed, its lock given up. *)
Leave(p) ==
  /\ Goto(p, "idle")
  /\ holder' = IF holder = p THEN NoOne ELSE holder
  /\ call' = [call EXCEPT ![p] = NoCall]
  /\ building' = [building EXCEPT ![p] = <<>>]

(* An evaluation of a days horizon is made as of its end day or later. *)
Ready(id, as_of) == Rules[id].end # 0 => as_of >= Rules[id].end

-----------------------------------------------------------------------------
(* record_read, by reader p *)

(* The evaluation cannot be one of a closed window: refused before the file *)
(* is opened.                                                               *)
RefuseUnready(p) ==
  /\ pc[p] = "idle"
  /\ \E id \in PreregIds, as_of \in Days : ~ Ready(id, as_of)
  /\ spent.calls < MaxCalls /\ Spend("calls")
  /\ UNCHANGED <<fileVars, readerVars, returned>>

(* The file is open, and the call waits in flock.  The caller supersedes    *)
(* nothing, or a read whose line it has seen.                               *)
Begin(p) ==
  /\ pc[p] = "idle"
  /\ spent.calls < MaxCalls /\ Spend("calls")
  /\ \E id \in PreregIds, as_of \in Days,
        supersedes \in {Null} \cup {Sha(line) : line \in ToSet(lines)} :
     \E used \in DOMAIN Labels[id] :
       /\ Ready(id, as_of)
       /\ call' = [call EXCEPT ![p] =
                     [rule |-> id, used |-> used, supersedes |-> supersedes]]
  /\ Goto(p, "wait")
  /\ UNCHANGED <<fileVars, holder, building, returned>>

(* Mutant: a lock that readers share. *)
LockShared(p) ==
  /\ pc[p] = "wait"
  /\ holder' = p
  /\ Goto(p, "read")
  /\ UNCHANGED <<fileVars, call, building, returned, spent>>

Lock(p) ==
  /\ pc[p] = "wait" /\ holder = NoOne
  /\ holder' = p
  /\ Goto(p, "read")
  /\ UNCHANGED <<fileVars, call, building, returned, spent>>

(* Read and parse the file, apply the seal, read the clock, build the line. *)
ReadReads(p) ==
  LET id         == call[p].rule
      used       == call[p].used
      supersedes == call[p].supersedes
  IN  /\ pc[p] = "read"
      /\ IF torn \/ ~ Seals(lines, id, used, supersedes)
         THEN Leave(p)
         ELSE /\ \E at \in Times :
                   building' = [building EXCEPT ![p] =
                                  <<ReadLine(lines, id, used, supersedes, at)>>]
              /\ Goto(p, "write")
              /\ UNCHANGED <<holder, call>>
      /\ UNCHANGED <<fileVars, returned, spent>>

(* The line reaches the file in part. *)
BeginWrite(p) ==
  /\ pc[p] = "write"
  /\ torn' = TRUE
  /\ Goto(p, "writing")
  /\ UNCHANGED <<lines, synced, holder, call, building, returned, spent>>

(* The rest of the line, its newline included. *)
EndWrite(p) ==
  /\ pc[p] = "writing"
  /\ lines' = lines \o building[p]
  /\ torn' = FALSE
  /\ Goto(p, "sync")
  /\ UNCHANGED <<synced, holder, call, building, returned, spent>>

(* Mutant: no fsync before the receipt is returned. *)
SyncNot(p) ==
  /\ pc[p] = "sync"
  /\ returned' = returned \cup ToSet(building[p])
  /\ Leave(p)
  /\ UNCHANGED <<fileVars, spent>>

(* os.fsync, then the file is closed and the receipt returned. *)
Sync(p) ==
  /\ pc[p] = "sync"
  /\ synced' = Len(lines)
  /\ returned' = returned \cup ToSet(building[p])
  /\ Leave(p)
  /\ UNCHANGED <<lines, torn, spent>>

-----------------------------------------------------------------------------
(* What else happens *)

(* A reader is killed: its lock is freed, what it has written stays. *)
Kill(p) ==
  /\ pc[p] # "idle"
  /\ spent.kills < MaxKills /\ Spend("kills")
  /\ Leave(p)
  /\ UNCHANGED <<fileVars, returned>>

(* Power is lost: every process ends, and of the file a prefix is left that *)
(* is no shorter than what was fsynced, possibly cut in a line.             *)
LosePower ==
  /\ spent.losses < MaxPowerLosses /\ Spend("losses")
  /\ \E n \in synced .. Len(lines) :
       /\ lines' = SubSeq(lines, 1, n)
       /\ synced' = n
       /\ torn' \in IF n < Len(lines) \/ torn THEN BOOLEAN ELSE {FALSE}
  /\ holder' = NoOne
  /\ pc' = [p \in Readers |-> "idle"]
  /\ call' = [p \in Readers |-> NoCall]
  /\ building' = [p \in Readers |-> <<>>]
  /\ UNCHANGED returned

(* Someone repairs a file whose last write was cut short, as parse_reads    *)
(* asks: the part of a line goes.  Nobody is reading meanwhile.             *)
Repair ==
  /\ torn /\ holder = NoOne
  /\ torn' = FALSE
  /\ UNCHANGED <<lines, synced, readerVars, returned, spent>>

ReaderStep(p) ==
  Lock(p) \/ ReadReads(p) \/ BeginWrite(p) \/ EndWrite(p) \/ Sync(p)

(* Nobody is inside a call: the system may rest. *)
Rest == (\A p \in Readers : pc[p] = "idle") /\ UNCHANGED vars

Next ==
  \/ \E p \in Readers : RefuseUnready(p) \/ Begin(p) \/ ReaderStep(p) \/ Kill(p)
  \/ LosePower
  \/ Repair
  \/ Rest

Spec == Init /\ [][Next]_vars

(* A reader that can run does. *)
FairSpec == Spec /\ \A p \in Readers : WF_vars(ReaderStep(p))

-----------------------------------------------------------------------------
(* Properties *)

(* Every variable holds a value of its kind. *)
TypeOK ==
  /\ lines \in Seq(ToSet(lines))
  /\ \A n \in 1 .. Len(lines) : WellFormed(lines[n])
  /\ torn \in BOOLEAN
  /\ synced \in 0 .. Len(lines)
  /\ holder \in Readers \cup {NoOne}
  /\ pc \in [Readers -> PCs]
  /\ DOMAIN call = Readers
  /\ \A p \in Readers :
       /\ building[p] \in Seq(ToSet(building[p])) /\ Len(building[p]) <= 1
       /\ \A n \in 1 .. Len(building[p]) : WellFormed(building[p][n])
       /\ pc[p] \in {"write", "writing", "sync"} <=> building[p] # <<>>
  /\ spent \in [{"calls", "kills", "losses"} -> Nat]

(* The seal, over the whole file and however readers interleave: a read     *)
(* that differs in data or labels from any related read before it names the *)
(* first of them, and a read that differs from none names none.             *)
SealHolds ==
  \A n \in 1 .. Len(lines) :
    LET line    == lines[n]
        related == RelatedReads(Earlier(lines, n), line.prereg)
        differ  == {m \in related : \/ lines[m].data_sha256 # line.data_sha256
                                    \/ lines[m].labels # line.labels}
    IN  IF differ = {} THEN line.supersedes = Null
        ELSE \E m \in related : /\ \A other \in related : m <= other
                                /\ line.supersedes = Sha(lines[m])

(* Nothing an amendment changed after the first read passes unmarked: a     *)
(* hypothesis the first read did not label is post hoc, and where the same  *)
(* data get another label, the hypothesis or a member of its family is.     *)
LabelChangesShow ==
  \A n \in 1 .. Len(lines) :
    LET line == lines[n]
        m    == FirstRead(Earlier(lines, n), line.prereg)
        kin(h) == {g \in DOMAIN line.labels :
                     Rules[line.prereg].family[g] = Rules[line.prereg].family[h]}
    IN  m # 0 /\ Extends(line.prereg, lines[m].prereg) =>
          \A h \in DOMAIN line.labels :
            /\ h \notin DOMAIN lines[m].labels => h \in line.post_hoc
            /\ /\ lines[m].data_sha256 = line.data_sha256
               /\ lines[m].labels[h] # line.labels[h]
               => kin(h) \cap line.post_hoc # {}

(* "unknown", which no reads file written from honest evaluations shows     *)
(* (_receipts.py:38): the lines before a re-read always explain it.         *)
Explained ==
  \A n \in 1 .. Len(lines) : ReReadKind(lines[n], Earlier(lines, n)) # "unknown"

(* An early read's sentence says nothing of labels: what it says of a re-read *)
(* depends on the data of the reads before it alone.                          *)
EarlySaysNothing ==
  \A n \in 1 .. Len(lines) : lines[n].early =>
    \A h \in DOMAIN lines[n].labels :
      LET sentence == Sentence(lines, n, h)
      IN  /\ sentence.verdict = "read early"
          /\ sentence.re_read =
               IF \E m \in RelatedReads(Earlier(lines, n), lines[n].prereg) :
                    lines[m].data_sha256 # lines[n].data_sha256
               THEN "data" ELSE "none"

(* A receipt that record_read returned can be rendered for good: as long as *)
(* the file is whole, it names a line that records its rule and data still. *)
ReceiptsRender ==
  ~ torn => \A line \in returned :
    \E used \in DOMAIN Labels[line.prereg] : Binds(lines, line.prereg, used, ReceiptOf(line))

(* What a sentence says of a returned read is said for good: no later read, *)
(* kill or power loss makes the same receipt render to another sentence.    *)
SentencesStand ==
  [][~ torn /\ ~ torn' =>
       \A line \in returned : \A h \in DOMAIN line.labels :
         Sentence(lines', FindLine(lines', Sha(line)), h)
           = Sentence(lines, FindLine(lines, Sha(line)), h)]_vars

(* Every call ends, however many wait for the file and whoever is killed    *)
(* while holding it (_evaluate.py:404).                                     *)
ReadsEnd == \A p \in Readers : pc[p] # "idle" ~> pc[p] = "idle"

(* "a hypothesis an amendment added or renamed after the data were read     *)
(* stays post hoc on every later read" (_evaluate.py:290-291).              *)
PostHocStays ==
  \A m, n \in 1 .. Len(lines) :
    m < n /\ Extends(lines[n].prereg, lines[m].prereg) =>
      lines[m].post_hoc \cap DOMAIN lines[n].labels \subseteq lines[n].post_hoc
=============================================================================
