------------------------------ MODULE Signoff -------------------------------
(***************************************************************************)
(* onus.signoff at work on one ledger (onus/signoff/_ledger.py).           *)
(*                                                                         *)
(* Signers call record and revoke, which share _append: open the terminal, *)
(* open the ledger, wait for flock, read and parse, build the line, let a  *)
(* person confirm it, keep a copy of the content, write the line, fsync.   *)
(* Checkers call check_signoff, which takes no lock and reads the ledger,  *)
(* the kept copy, the content and each bound file one after the other.     *)
(* Meanwhile files are edited, kept copies are lost or spoiled, processes  *)
(* are killed at any step and the machine loses power.                     *)
(*                                                                         *)
(* An empty ledger stands for no ledger as well: every reader treats the   *)
(* two alike.                                                              *)
(***************************************************************************)
EXTENDS Ledger, FiniteSets

CONSTANTS Signers,         \* processes that call record or revoke
          Attended,        \* those with a terminal and no session variable
          Checkers,        \* processes that call check_signoff
          PathOf,          \* the file each artifact's content is at
          NoOne,           \* holder of a lock nobody holds
          MaxCalls,        \* bound: calls of record and revoke
          MaxChecks,       \* bound: calls of check_signoff
          MaxEdits,        \* bound: edits of files and of kept copies
          MaxKills,        \* bound: signers killed
          MaxPowerLosses   \* bound: power losses

ASSUME SignersAssumption == Attended \subseteq Signers /\ Signers \subseteq Reviewers
ASSUME NoOneAssumption   == NoOne \notin Signers
ASSUME PathsAssumption   == PathOf \in [Artifacts -> Files]
ASSUME BoundsAssumption  ==
  {MaxCalls, MaxChecks, MaxEdits, MaxKills, MaxPowerLosses} \subseteq Nat

VARIABLES
  lines,      \* the whole lines of the ledger file
  torn,       \* the file ends in part of a line
  synced,     \* how many of its lines are known to be on disk
  copies,     \* the kept copies under <ledger>.blobs, by digest
  partials,   \* the .partial files beside them: "none", "torn" or "whole"
  files,      \* what each file in the ledger's folder holds
  holder,     \* who holds flock on the ledger
  pc,         \* where each signer is
  call,       \* what each signer was asked to do
  seen,       \* the lines each signer read under the lock
  content,    \* the content each signer read, and shows
  bound,      \* the bound digests each signer read, and shows
  check,      \* each checker's place, question and answer
  confirmed,  \* history: the lines a person confirmed at a terminal
  returned,   \* history: the lines record and revoke returned
  calm,       \* history: nothing a checker reads changed since it began
  used        \* how much of each bound is used

ledgerVars  == <<lines, torn, synced>>
diskVars    == <<ledgerVars, copies, partials, files>>
signerVars  == <<holder, pc, call, seen, content, bound>>
historyVars == <<confirmed, returned, calm>>
vars == <<diskVars, signerVars, check, historyVars, used>>

PCs == {"idle", "wait", "read", "content", "bound", "confirm", "keep",
        "partial", "rename", "write", "writing", "sync"}

CheckPCs == {"idle", "ledger", "kept", "content", "bound"}

(* A call names an artifact and the files to bind; revoke binds none. *)
NoCall == [kind |-> "none", artifact |-> "none", bind |-> {}]

Requests ==
  [kind : {"record"}, artifact : Artifacts, bind : SUBSET Files]
    \cup [kind : {"revoke"}, artifact : Artifacts, bind : {{}}]

NoCheck == [pc |-> "idle", artifact |-> "none", sha256 |-> Null, bound |-> Unbound,
            todo |-> {}, changed |-> FALSE, answer |-> "none"]

Checks ==
  [pc : CheckPCs, artifact : Artifacts \cup {"none"}, sha256 : Digests \cup {Null},
   bound : Bindings, todo : SUBSET Files, changed : BOOLEAN,
   answer : Verdicts \cup {"none"}]

Init ==
  /\ lines = <<>> /\ torn = FALSE /\ synced = 0
  /\ copies = [d \in Digests |-> "none"]
  /\ partials = [d \in Digests |-> "none"]
  /\ files \in [Files -> Contents]
  /\ holder = NoOne
  /\ pc = [p \in Signers |-> "idle"]
  /\ call = [p \in Signers |-> NoCall]
  /\ seen = [p \in Signers |-> <<>>]
  /\ content = [p \in Signers |-> Missing]
  /\ bound = [p \in Signers |-> Unbound]
  /\ check = [c \in Checkers |-> NoCheck]
  /\ confirmed = {} /\ returned = {}
  /\ calm = [c \in Checkers |-> FALSE]
  /\ used = [calls |-> 0, checks |-> 0, edits |-> 0, kills |-> 0, losses |-> 0]

Use(counter) == used' = [used EXCEPT ![counter] = @ + 1]

(* What a checker reads has changed under it. *)
Disturb == calm' = [c \in Checkers |-> FALSE]

Goto(p, where) == pc' = [pc EXCEPT ![p] = where]

(* Mutant: the lock outlives the call. *)
LeaveLocked(p) ==
  /\ Goto(p, "idle")
  /\ UNCHANGED holder
  /\ call' = [call EXCEPT ![p] = NoCall]
  /\ seen' = [seen EXCEPT ![p] = <<>>]
  /\ content' = [content EXCEPT ![p] = Missing]
  /\ bound' = [bound EXCEPT ![p] = Unbound]

(* Leaving _append, by return or by raise: the file is closed, which gives *)
(* up the lock, and what the call read is gone.                            *)
Leave(p) ==
  /\ Goto(p, "idle")
  /\ holder' = IF holder = p THEN NoOne ELSE holder
  /\ call' = [call EXCEPT ![p] = NoCall]
  /\ seen' = [seen EXCEPT ![p] = <<>>]
  /\ content' = [content EXCEPT ![p] = Missing]
  /\ bound' = [bound EXCEPT ![p] = Unbound]

-----------------------------------------------------------------------------
(* record and revoke, by signer p *)

(* A session variable is set, or there is no terminal: refused before the   *)
(* ledger is opened.                                                        *)
RefuseUnattended(p) ==
  /\ pc[p] = "idle" /\ p \notin Attended
  /\ used.calls < MaxCalls /\ Use("calls")
  /\ UNCHANGED <<diskVars, signerVars, check, historyVars>>

(* The terminal and the ledger are open; the call now waits in flock. *)
Begin(p) ==
  /\ pc[p] = "idle" /\ p \in Attended
  /\ used.calls < MaxCalls /\ Use("calls")
  /\ \E request \in Requests : call' = [call EXCEPT ![p] = request]
  /\ Goto(p, "wait")
  /\ UNCHANGED <<diskVars, holder, seen, content, bound, check, historyVars>>

(* Mutant: a lock that readers share, LOCK_SH for LOCK_EX. *)
LockShared(p) ==
  /\ pc[p] = "wait"
  /\ holder' = p
  /\ Goto(p, "read")
  /\ UNCHANGED <<diskVars, call, seen, content, bound, check, historyVars, used>>

Lock(p) ==
  /\ pc[p] = "wait" /\ holder = NoOne
  /\ holder' = p
  /\ Goto(p, "read")
  /\ UNCHANGED <<diskVars, call, seen, content, bound, check, historyVars, used>>

(* file.read, then parse_ledger; a ledger that cannot be relied on is left. *)
ReadLedger(p) ==
  /\ pc[p] = "read"
  /\ IF torn \/ ~ Parses(lines)
     THEN Leave(p)
     ELSE /\ seen' = [seen EXCEPT ![p] = lines]
          /\ Goto(p, IF call[p].kind = "record" THEN "content" ELSE "bound")
          /\ UNCHANGED <<holder, call, content, bound>>
  /\ UNCHANGED <<diskVars, check, historyVars, used>>

(* The place in what p read of the newest line for the artifact of its call. *)
Standing(p) == Newest(seen[p], call[p].artifact)

(* record's build: read the content, refusing when there is no file. *)
ReadContent(p) ==
  /\ pc[p] = "content"
  /\ IF files[PathOf[call[p].artifact]] = Missing
     THEN Leave(p)
     ELSE /\ content' = [content EXCEPT ![p] = files[PathOf[call[p].artifact]]]
          /\ Goto(p, "bound")
          /\ UNCHANGED <<holder, call, seen, bound>>
  /\ UNCHANGED <<diskVars, check, historyVars, used>>

ToBind(p) == {f \in call[p].bind : bound[p][f] = Null}

(* record's build: read one file to bind, refusing when there is none. *)
ReadBound(p) ==
  /\ pc[p] = "bound"
  /\ \E f \in ToBind(p) :
       IF files[f] = Missing
       THEN Leave(p)
       ELSE /\ bound' = [bound EXCEPT ![p][f] = Sha(files[f])]
            /\ UNCHANGED <<holder, pc, call, seen, content>>
  /\ UNCHANGED <<diskVars, check, historyVars, used>>

(* Mutant: record signs again what is already signed. *)
RefusesLess(p) ==
  LET n    == Standing(p)
      line == seen[p][n]
  IN  IF call[p].kind = "record"
      THEN n # 0 /\ ~ Revokes(line) /\ BadCopy(copies[line.sha256])
      ELSE n = 0 \/ Revokes(line)

(* What build refuses.  record: the newest line already signs this content  *)
(* and these files, or the copy kept of what it signs cannot be relied on.   *)
(* revoke: there is no sign-off to revoke.                                  *)
Refuses(p) ==
  LET n    == Standing(p)
      line == seen[p][n]
  IN  IF call[p].kind = "record"
      THEN n # 0 /\ \/ line.sha256 = Sha(content[p]) /\ line.bound = bound[p]
                    \/ ~ Revokes(line) /\ BadCopy(copies[line.sha256])
      ELSE n = 0 \/ Revokes(line)

Show(p) ==
  /\ pc[p] = "bound" /\ ToBind(p) = {}
  /\ IF Refuses(p)
     THEN Leave(p)
     ELSE Goto(p, "confirm") /\ UNCHANGED <<holder, call, seen, content, bound>>
  /\ UNCHANGED <<diskVars, check, historyVars, used>>

(* Mutant: prev is the artifact's newest line, not the ledger's last. *)
LineOfOwnChain(p) ==
  [artifact    |-> call[p].artifact,
   sha256      |-> IF call[p].kind = "record" THEN Sha(content[p]) ELSE Null,
   bound       |-> bound[p],
   supersedes  |-> ShaAt(seen[p], Standing(p)),
   reviewed_by |-> p,
   prev        |-> ShaAt(seen[p], Standing(p))]

(* Mutant: the content is read again when the line is written. *)
LineOfReread(p) ==
  [artifact    |-> call[p].artifact,
   sha256      |-> IF call[p].kind = "record"
                   THEN Sha(files[PathOf[call[p].artifact]]) ELSE Null,
   bound       |-> bound[p],
   supersedes  |-> ShaAt(seen[p], Standing(p)),
   reviewed_by |-> p,
   prev        |-> ShaAt(seen[p], Len(seen[p]))]

(* Mutant: a revocation does not name the line it revokes. *)
LineOfUnnamed(p) ==
  [artifact    |-> call[p].artifact,
   sha256      |-> IF call[p].kind = "record" THEN Sha(content[p]) ELSE Null,
   bound       |-> bound[p],
   supersedes  |-> IF call[p].kind = "record" THEN ShaAt(seen[p], Standing(p)) ELSE Null,
   reviewed_by |-> p,
   prev        |-> ShaAt(seen[p], Len(seen[p]))]

(* The line the call shows and will write. *)
LineOf(p) ==
  [artifact    |-> call[p].artifact,
   sha256      |-> IF call[p].kind = "record" THEN Sha(content[p]) ELSE Null,
   bound       |-> bound[p],
   supersedes  |-> ShaAt(seen[p], Standing(p)),
   reviewed_by |-> p,
   prev        |-> ShaAt(seen[p], Len(seen[p]))]

(* The person types the digits asked for; only a sign-off keeps a copy. *)
Confirm(p) ==
  /\ pc[p] = "confirm"
  /\ confirmed' = confirmed \cup {LineOf(p)}
  /\ Goto(p, IF call[p].kind = "record" THEN "keep" ELSE "write")
  /\ UNCHANGED <<diskVars, holder, call, seen, content, bound, check, returned, calm, used>>

(* The person types anything else. *)
Decline(p) ==
  /\ pc[p] = "confirm"
  /\ Leave(p)
  /\ UNCHANGED <<diskVars, check, historyVars, used>>

(* Mutant: the copy is not looked for, and so never made. *)
LookForNoCopy(p) ==
  /\ pc[p] = "keep"
  /\ Goto(p, "write")
  /\ UNCHANGED <<diskVars, holder, call, seen, content, bound, check, historyVars, used>>

(* _append asks _kept for the copy of the content it signs. *)
LookForCopy(p) ==
  /\ pc[p] = "keep"
  /\ LET copy == copies[Sha(content[p])]
     IN  IF BadCopy(copy)
         THEN Leave(p)
         ELSE /\ Goto(p, IF copy = "none" THEN "partial" ELSE "write")
              /\ UNCHANGED <<holder, call, seen, content, bound>>
  /\ UNCHANGED <<diskVars, check, historyVars, used>>

(* Unlink any .partial and begin to write a new one. *)
BeginPartial(p) ==
  /\ pc[p] = "partial"
  /\ partials' = [partials EXCEPT ![Sha(content[p])] = "torn"]
  /\ Goto(p, "rename")
  /\ UNCHANGED <<ledgerVars, copies, files, holder, call, seen, content, bound,
                 check, historyVars, used>>

(* The rest of write_bytes, and chmod. *)
EndPartial(p) ==
  /\ pc[p] = "rename" /\ partials[Sha(content[p])] = "torn"
  /\ partials' = [partials EXCEPT ![Sha(content[p])] = "whole"]
  /\ UNCHANGED <<ledgerVars, copies, files, signerVars, check, historyVars, used>>

(* os.replace: what the .partial holds now stands under the digest. *)
Rename(p) ==
  LET d == Sha(content[p])
  IN  /\ pc[p] = "rename" /\ partials[d] = "whole"
      /\ copies' = [copies EXCEPT ![d] = "cached"]
      /\ partials' = [partials EXCEPT ![d] = "none"]
      /\ Goto(p, "write")
      /\ Disturb
      /\ UNCHANGED <<ledgerVars, files, holder, call, seen, content, bound,
                     check, confirmed, returned, used>>

(* The line reaches the file in part: a reader sees the bytes so far. *)
BeginWrite(p) ==
  /\ pc[p] = "write"
  /\ torn' = TRUE
  /\ Goto(p, "writing")
  /\ Disturb
  /\ UNCHANGED <<lines, synced, copies, partials, files, holder, call, seen, content,
                 bound, check, confirmed, returned, used>>

(* The rest of the line, its newline included. *)
EndWrite(p) ==
  /\ pc[p] = "writing"
  /\ lines' = Append(lines, LineOf(p))
  /\ torn' = FALSE
  /\ Goto(p, "sync")
  /\ Disturb
  /\ UNCHANGED <<synced, copies, partials, files, holder, call, seen, content, bound,
                 check, confirmed, returned, used>>

(* Mutant: no fsync before the line is returned. *)
SyncNot(p) ==
  /\ pc[p] = "sync"
  /\ returned' = returned \cup {LineOf(p)}
  /\ Leave(p)
  /\ UNCHANGED <<ledgerVars, copies, partials, files, check, confirmed, calm, used>>

(* os.fsync, then the file is closed and the line returned. *)
Sync(p) ==
  /\ pc[p] = "sync"
  /\ synced' = Len(lines)
  /\ returned' = returned \cup {LineOf(p)}
  /\ Leave(p)
  /\ UNCHANGED <<lines, torn, copies, partials, files, check, confirmed, calm, used>>

-----------------------------------------------------------------------------
(* check_signoff, by checker c: no lock, one read after another. *)

Ask(c) ==
  /\ check[c].pc = "idle"
  /\ used.checks < MaxChecks /\ Use("checks")
  /\ \E a \in Artifacts :
       check' = [check EXCEPT ![c] = [NoCheck EXCEPT !.pc = "ledger", !.artifact = a]]
  /\ calm' = [calm EXCEPT ![c] = TRUE]
  /\ UNCHANGED <<diskVars, signerVars, confirmed, returned>>

Answer(c, verdict) == check' = [check EXCEPT ![c] =
  [NoCheck EXCEPT !.artifact = check[c].artifact, !.answer = verdict]]

(* Mutant: the newest sign-off decides, revoked or not. *)
CheckSignoffs(c) ==
  LET n == SelectLastInSeq(lines, LAMBDA line :
             line.artifact = check[c].artifact /\ ~ Revokes(line))
  IN  /\ check[c].pc = "ledger"
      /\ IF torn \/ ~ Parses(lines) THEN Answer(c, "CORRUPT")
         ELSE IF n = 0 THEN Answer(c, "UNSIGNED")
         ELSE check' = [check EXCEPT ![c].pc     = "kept",
                                     ![c].sha256 = lines[n].sha256,
                                     ![c].bound  = lines[n].bound]
      /\ UNCHANGED <<diskVars, signerVars, historyVars, used>>

CheckLedger(c) ==
  LET n == Newest(lines, check[c].artifact)
  IN  /\ check[c].pc = "ledger"
      /\ IF torn \/ ~ Parses(lines) THEN Answer(c, "CORRUPT")
         ELSE IF n = 0 THEN Answer(c, "UNSIGNED")
         ELSE IF Revokes(lines[n]) THEN Answer(c, "REVOKED")
         ELSE check' = [check EXCEPT ![c].pc     = "kept",
                                     ![c].sha256 = lines[n].sha256,
                                     ![c].bound  = lines[n].bound]
      /\ UNCHANGED <<diskVars, signerVars, historyVars, used>>

CheckKept(c) ==
  /\ check[c].pc = "kept"
  /\ IF BadCopy(copies[check[c].sha256])
     THEN Answer(c, "CORRUPT")
     ELSE check' = [check EXCEPT ![c].pc = "content"]
  /\ UNCHANGED <<diskVars, signerVars, historyVars, used>>

CheckContent(c) ==
  /\ check[c].pc = "content"
  /\ IF Sha(files[PathOf[check[c].artifact]]) # check[c].sha256
     THEN Answer(c, "CHANGED")
     ELSE check' = [check EXCEPT
            ![c].pc   = "bound",
            ![c].todo = {f \in Files : check[c].bound[f] # Null}]
  /\ UNCHANGED <<diskVars, signerVars, historyVars, used>>

(* Mutant: only the last bound file read counts. *)
CheckBoundLast(c) ==
  /\ check[c].pc = "bound"
  /\ \E f \in check[c].todo :
       check' = [check EXCEPT
         ![c].todo    = @ \ {f},
         ![c].changed = check[c].bound[f] # Sha(files[f])]
  /\ UNCHANGED <<diskVars, signerVars, historyVars, used>>

(* _bound_now: every bound file is read, changed ones are remembered. *)
CheckBound(c) ==
  /\ check[c].pc = "bound"
  /\ \E f \in check[c].todo :
       check' = [check EXCEPT
         ![c].todo    = @ \ {f},
         ![c].changed = @ \/ check[c].bound[f] # Sha(files[f])]
  /\ UNCHANGED <<diskVars, signerVars, historyVars, used>>

CheckDone(c) ==
  /\ check[c].pc = "bound" /\ check[c].todo = {}
  /\ Answer(c, IF check[c].changed THEN "CHANGED" ELSE "SIGNED")
  /\ UNCHANGED <<diskVars, signerVars, historyVars, used>>

-----------------------------------------------------------------------------
(* What else happens to the machine and its disk *)

(* Anyone edits, restores or deletes a file in the ledger's folder. *)
Edit(f) ==
  /\ used.edits < MaxEdits /\ Use("edits")
  /\ \E new \in (Contents \cup {Missing}) \ {files[f]} : files' = [files EXCEPT ![f] = new]
  /\ Disturb
  /\ UNCHANGED <<ledgerVars, copies, partials, signerVars, check, confirmed, returned>>

(* Anyone deletes a kept copy or writes something else in it. *)
Meddle(d) ==
  /\ used.edits < MaxEdits /\ Use("edits")
  /\ copies[d] # "none"
  /\ \E new \in {"none", "spoiled"} : copies' = [copies EXCEPT ![d] = new]
  /\ Disturb
  /\ UNCHANGED <<ledgerVars, partials, files, signerVars, check, confirmed, returned>>

(* The kernel writes a kept copy back to disk, in its own time. *)
WriteBack(d) ==
  /\ copies[d] = "cached"
  /\ copies' = [copies EXCEPT ![d] = "whole"]
  /\ UNCHANGED <<ledgerVars, partials, files, signerVars, check, historyVars, used>>

(* A signer is killed: the kernel closes its files and frees its lock; what *)
(* it has written stays.                                                    *)
Kill(p) ==
  /\ pc[p] # "idle"
  /\ used.kills < MaxKills /\ Use("kills")
  /\ Leave(p)
  /\ UNCHANGED <<diskVars, check, historyVars>>

(* Power is lost: every process ends, and of what was not known to be on    *)
(* disk any part may be: of the ledger a prefix, possibly cut in a line; of *)
(* a copy not written back nothing, a part or the whole.                    *)
LosePower ==
  /\ used.losses < MaxPowerLosses /\ Use("losses")
  /\ \E n \in synced .. Len(lines) :
       /\ lines' = SubSeq(lines, 1, n)
       /\ synced' = n
       /\ torn' \in IF n < Len(lines) \/ torn THEN BOOLEAN ELSE {FALSE}
  /\ copies' \in {new \in [Digests -> CopyStates] : \A d \in Digests :
       new[d] \in IF copies[d] = "cached" THEN {"none", "torn", "whole"} ELSE {copies[d]}}
  /\ partials' = [d \in Digests |-> IF partials[d] = "none" THEN "none" ELSE "torn"]
  /\ holder' = NoOne
  /\ pc' = [p \in Signers |-> "idle"]
  /\ call' = [p \in Signers |-> NoCall]
  /\ seen' = [p \in Signers |-> <<>>]
  /\ content' = [p \in Signers |-> Missing]
  /\ bound' = [p \in Signers |-> Unbound]
  /\ check' = [c \in Checkers |-> NoCheck]
  /\ Disturb
  /\ UNCHANGED <<files, confirmed, returned>>

(* A ledger whose last write was cut short is restored from version control: *)
(* the part of a line goes.  Nobody is signing while that is done.           *)
Restore ==
  /\ torn /\ holder = NoOne
  /\ torn' = FALSE
  /\ Disturb
  /\ UNCHANGED <<lines, synced, copies, partials, files, signerVars, check,
                 confirmed, returned, used>>

-----------------------------------------------------------------------------
SignerStep(p) ==
  \/ Lock(p) \/ ReadLedger(p) \/ ReadContent(p) \/ ReadBound(p) \/ Show(p)
  \/ Confirm(p) \/ Decline(p) \/ LookForCopy(p) \/ BeginPartial(p) \/ EndPartial(p)
  \/ Rename(p) \/ BeginWrite(p) \/ EndWrite(p) \/ Sync(p)

CheckStep(c) ==
  CheckLedger(c) \/ CheckKept(c) \/ CheckContent(c) \/ CheckBound(c) \/ CheckDone(c)

Environment ==
  \/ \E f \in Files : Edit(f)
  \/ \E d \in Digests : Meddle(d) \/ WriteBack(d)
  \/ \E p \in Signers : Kill(p)
  \/ LosePower
  \/ Restore

(* Nobody is inside a call: the system may rest. *)
Rest ==
  /\ \A p \in Signers : pc[p] = "idle"
  /\ \A c \in Checkers : check[c].pc = "idle"
  /\ UNCHANGED vars

Next ==
  \/ \E p \in Signers : RefuseUnattended(p) \/ Begin(p) \/ SignerStep(p)
  \/ \E c \in Checkers : Ask(c) \/ CheckStep(c)
  \/ Environment
  \/ Rest

Spec == Init /\ [][Next]_vars

(* A running process takes its next step, and the person at a terminal      *)
(* answers.  Calls are bounded, so the lock is in the end free for whoever  *)
(* waits last; nothing obliges anyone to begin, edit, fail or restore.      *)
Fairness ==
  /\ \A p \in Signers : WF_vars(SignerStep(p))
  /\ \A c \in Checkers : WF_vars(CheckStep(c))

FairSpec == Spec /\ Fairness

-----------------------------------------------------------------------------
(* Properties *)

DiskOK ==
  /\ lines \in Seq(ToSet(lines))
  /\ \A n \in 1 .. Len(lines) : WellFormed(lines[n])
  /\ torn \in BOOLEAN
  /\ synced \in 0 .. Len(lines)
  /\ copies \in [Digests -> CopyStates]
  /\ partials \in [Digests -> {"none", "torn", "whole"}]
  /\ files \in [Files -> Contents \cup {Missing}]

SignersOK ==
  /\ holder \in Signers \cup {NoOne}
  /\ pc \in [Signers -> PCs]
  /\ call \in [Signers -> Requests \cup {NoCall}]
  /\ DOMAIN seen = Signers
  /\ content \in [Signers -> Contents \cup {Missing}]
  /\ bound \in [Signers -> Bindings]

ChecksOK ==
  /\ check \in [Checkers -> Checks]
  /\ calm \in [Checkers -> BOOLEAN]
  /\ used \in [{"calls", "checks", "edits", "kills", "losses"} -> Nat]

(* Every variable holds a value of its kind: in particular every line of    *)
(* the ledger is one that _parse_line accepts.                              *)
TypeOK == DiskOK /\ SignersOK /\ ChecksOK

(* Whatever signers do at once, and wherever they are killed, the whole     *)
(* lines of the ledger are ones parse_ledger accepts: _append never writes  *)
(* a line that breaks the chain or supersedes a line that is not newest.    *)
ChainHolds == Parses(lines)

Inside == {"content", "bound", "confirm", "keep", "partial", "rename", "write", "writing"}

(* From the time a signer has parsed the ledger until its line is written,  *)
(* however long the person takes to answer, it alone holds the lock and the *)
(* lines it read are the ledger's: what is confirmed is never stale, and a  *)
(* ledger cut short by someone else is never extended.                      *)
SeenIsCurrent ==
  \A p \in Signers : pc[p] \in Inside =>
    /\ holder = p
    /\ seen[p] = lines
    /\ torn => pc[p] = "writing"

(* Every line of the ledger is, field for field, one that a person was      *)
(* shown and confirmed, though the files may change while they read it.     *)
OnlyConfirmed == ToSet(lines) \subseteq confirmed

(* A line record or revoke has returned stays in the ledger, through kills  *)
(* and power losses: the fsync of _append comes before its return.          *)
ReturnedSurvive == returned \subseteq ToSet(lines)

(* While nothing else touches the kept copies and the power holds, each     *)
(* content the ledger signs has its copy beside it, whole: the copy is in   *)
(* place before the line is, so a kill between the two loses no content.    *)
SignedIsKept ==
  used.losses = 0 /\ used.edits = 0 =>
    \A n \in 1 .. Len(lines) :
      lines[n].sha256 # Null => copies[lines[n].sha256] \in {"cached", "whole"}

(* "Written whole under another name first, so a write cut short never      *)
(* stands under the hash" (_ledger.py:432).                                 *)
NeverTornCopy == \A d \in Digests : copies[d] # "torn"

(* A check goes on to compare contents only with a sign-off made after every *)
(* revocation of the artifact that has been returned to its caller, and with *)
(* what that very sign-off signed: returned revocations are seen, and stay   *)
(* seen after kills and power losses.                                        *)
NoRevokedSignoff ==
  [][\A c \in Checkers : check[c].pc = "ledger" /\ check'[c].pc = "kept" =>
       \A line \in returned :
         Revokes(line) /\ line.artifact = check[c].artifact =>
           \E m, n \in 1 .. Len(lines) :
             /\ m < n /\ lines[m] = line
             /\ lines[n].artifact = line.artifact
             /\ lines[n].sha256 = check'[c].sha256 /\ lines[n].bound = check'[c].bound]_vars

(* A check during which nothing it reads changes gives the answer that      *)
(* check_signoff's docstring defines, though it reads in four steps and     *)
(* leaves early.                                                            *)
CalmCheckIsRight ==
  [][\A c \in Checkers :
       calm[c] /\ check[c].pc # "idle" /\ check'[c].answer # "none" =>
         check'[c].answer = Verdict(lines, torn, copies, files, check[c].artifact,
                                    PathOf[check[c].artifact])]_vars

(* The ledger without its chain, and how much of it is on disk, is the log  *)
(* of SignoffLog: each call has its effect at one moment, judged against    *)
(* the log at that moment, though it reads, asks and writes in many steps.  *)
EntryOf(line) ==
  [artifact |-> line.artifact, sha256 |-> line.sha256, bound |-> line.bound,
   reviewed_by |-> line.reviewed_by]

Log == INSTANCE SignoffLog WITH
  Entries   <- [artifact : Artifacts, sha256 : Digests \cup {Null}, bound : Bindings,
                reviewed_by : Signers],
  NoContent <- Null,
  log       <- [n \in 1 .. Len(lines) |-> EntryOf(lines[n])],
  promised  <- synced

ImplementsLog == Log!LogSpec

(* Every call of record or revoke ends, one that waits for the lock of      *)
(* another included, provided each person asked answers.                    *)
CallsEnd == \A p \in Signers : (pc[p] # "idle") ~> (pc[p] = "idle")
=============================================================================
