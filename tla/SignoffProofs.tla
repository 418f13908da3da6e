--------------------------- MODULE SignoffProofs ----------------------------
(***************************************************************************)
(* Safety of onus.signoff for every number of signers, checkers, artifacts *)
(* and calls: whatever they do at once, and however they are killed or the *)
(* power fails, the ledger parses and nobody acts on stale lines; each     *)
(* line was confirmed as it stands, each returned line survives, what is   *)
(* signed is kept, a check that nothing disturbs is right, and all of it   *)
(* implements one log.                                                     *)
(***************************************************************************)
EXTENDS Signoff, Extremes

-----------------------------------------------------------------------------
(* Ledgers as values *)

(* Digests are collision free, and none is null. *)
LEMMA ShaIsInjective == \A x, y : Sha(x) = Sha(y) => x = y
BY DEF Sha

(* No digest is null. *)
LEMMA ShaIsNotNull == \A x : Sha(x) # Null
BY DEF Sha, Null

(* Newest is 0 or the last place whose line names the artifact. *)
LEMMA NewestIsLast ==
  ASSUME NEW S, NEW file \in Seq(S), NEW a
  PROVE  /\ Newest(file, a) \in 0 .. Len(file)
         /\ Newest(file, a) # 0 => file[Newest(file, a)].artifact = a
         /\ \A k \in 1 .. Len(file) : file[k].artifact = a => k <= Newest(file, a)
<1> DEFINE I == {i \in 1 .. Len(file) : file[i].artifact = a}
<1>1. Newest(file, a) = IF I # {} THEN Max(I) ELSE 0
  BY DEF Newest, SelectLastInSeq
<1>2. CASE I = {}
  BY <1>1, <1>2
<1>3. CASE I # {}
  <2>1. \E m \in I : \A k \in I : m >= k
    <3>1. Len(file) \in Nat /\ I \in SUBSET (0 .. Len(file))
      OBVIOUS
    <3>2. PICK m \in I : \A k \in I : k <= m
      BY <3>1, <1>3, GreatestElement
    <3>3. QED
      BY <3>1, <3>2
  <2>2. Max(I) \in I /\ \A k \in I : Max(I) >= k
    BY <2>1 DEF Max
  <2>3. QED
    BY <1>1, <1>3, <2>2
<1>4. QED
  BY <1>2, <1>3

-----------------------------------------------------------------------------
(* The two facts about how a ledger grows and is cut that the invariants of *)
(* Signoff rest on.                                                         *)

(* A ledger with a line added parses when it did and the line follows it. *)
LEMMA ParsesAppend ==
  ASSUME NEW S, NEW file \in Seq(S), NEW line, Parses(file), Follows(file, line)
  PROVE  Parses(Append(file, line))
<1> DEFINE longer == Append(file, line)
<1>1. /\ Len(file) \in Nat
      /\ Len(longer) = Len(file) + 1
      /\ \A n \in 1 .. Len(file) : longer[n] = file[n]
      /\ longer[Len(file) + 1] = line
  OBVIOUS
<1>2. /\ \A n \in 1 .. Len(file) : SubSeq(longer, 1, n - 1) = SubSeq(file, 1, n - 1)
      /\ SubSeq(longer, 1, Len(file)) = file
  OBVIOUS
<1>3. ASSUME NEW n \in 1 .. Len(longer)
      PROVE  Follows(SubSeq(longer, 1, n - 1), longer[n])
  <2>1. CASE n \in 1 .. Len(file)
    BY <1>1, <1>2, <2>1 DEF Parses
  <2>2. CASE n = Len(file) + 1
    <3>1. n - 1 = Len(file)
      BY <1>1, <2>2
    <3>2. SubSeq(longer, 1, n - 1) = file /\ longer[n] = line
      BY <1>1, <1>2, <2>2, <3>1
    <3>3. QED
      BY <3>2, Zenon
  <2>3. QED
    BY <1>1, <2>1, <2>2
<1>4. QED
  BY <1>3 DEF Parses

(* Every prefix of a ledger that parses, parses. *)
LEMMA ParsesPrefix ==
  ASSUME NEW S, NEW file \in Seq(S), NEW n \in 0 .. Len(file), Parses(file)
  PROVE  Parses(SubSeq(file, 1, n))
<1> DEFINE shorter == SubSeq(file, 1, n)
<1>1. /\ Len(shorter) = n
      /\ \A m \in 1 .. n : /\ shorter[m] = file[m]
                           /\ SubSeq(shorter, 1, m - 1) = SubSeq(file, 1, m - 1)
  OBVIOUS
<1>2. ASSUME NEW m \in 1 .. n PROVE Follows(SubSeq(shorter, 1, m - 1), shorter[m])
  <2>1. m \in 1 .. Len(file)
    OBVIOUS
  <2>2. Follows(SubSeq(file, 1, m - 1), file[m])
    BY <2>1, Zenon DEF Parses
  <2>3. SubSeq(shorter, 1, m - 1) = SubSeq(file, 1, m - 1) /\ shorter[m] = file[m]
    BY <1>1
  <2>4. QED
    BY <2>2, <2>3, Zenon
<1>3. QED
  BY <1>1, <1>2 DEF Parses

-----------------------------------------------------------------------------
(* The chain: each line but the first holds the digest of the one before. *)

(* In a ledger that parses, every line but the first names the one before. *)
LEMMA PrevIsDigest ==
  ASSUME NEW S, NEW file \in Seq(S), NEW n \in 1 .. Len(file), Parses(file)
  PROVE  /\ n = 1 => file[n].prev = Null
         /\ n > 1 => file[n].prev = Sha(file[n - 1])
<1>1. file[n].prev = ShaAt(SubSeq(file, 1, n - 1), Len(SubSeq(file, 1, n - 1)))
  BY DEF Parses, Follows
<1>2. /\ Len(SubSeq(file, 1, n - 1)) = n - 1
      /\ n > 1 => SubSeq(file, 1, n - 1)[n - 1] = file[n - 1]
  OBVIOUS
<1>3. QED
  BY <1>1, <1>2 DEF ShaAt

(* Two ledgers that parse and end in the same line are the same ledger: no  *)
(* earlier line can be changed, dropped, added or moved without changing    *)
(* every line after it, which is what the prev chain of parse_ledger is for. *)
THEOREM LastLineFixesLedger ==
  ASSUME NEW S, NEW s \in Seq(S), NEW t \in Seq(S),
         Parses(s), Parses(t),
         Len(s) > 0, Len(t) > 0, s[Len(s)] = t[Len(t)]
  PROVE  s = t
<1> DEFINE Both == {k \in Nat : k < Len(s) /\ k < Len(t)}
           Apart == {k \in Both : s[Len(s) - k] # t[Len(t) - k]}
<1>1. Len(s) \in Nat /\ Len(t) \in Nat
  OBVIOUS
<1>2. Apart = {}
  <2>1. SUFFICES ASSUME Apart # {} PROVE FALSE
    OBVIOUS
  <2>2. PICK k \in Apart : \A j \in Apart : k <= j
    <3>1. Apart \in SUBSET Nat
      OBVIOUS
    <3>2. QED
      BY <2>1, <3>1, LeastElement
  <2>3. k # 0
    BY <1>1
  <2>4. s[Len(s) - (k - 1)] = t[Len(t) - (k - 1)]
    <3>1. k - 1 \in Both
      BY <1>1, <2>3
    <3>2. k - 1 \notin Apart
      BY <2>2, <2>3
    <3>3. QED
      BY <3>1, <3>2
  <2>5. s[Len(s) - (k - 1)].prev = Sha(s[Len(s) - k])
    <3>1. Len(s) - (k - 1) \in 1 .. Len(s) /\ Len(s) - (k - 1) > 1
      BY <1>1, <2>3
    <3>2. Len(s) - (k - 1) - 1 = Len(s) - k
      BY <1>1
    <3>3. QED
      BY <3>1, <3>2, PrevIsDigest
  <2>6. t[Len(t) - (k - 1)].prev = Sha(t[Len(t) - k])
    <3>1. Len(t) - (k - 1) \in 1 .. Len(t) /\ Len(t) - (k - 1) > 1
      BY <1>1, <2>3
    <3>2. Len(t) - (k - 1) - 1 = Len(t) - k
      BY <1>1
    <3>3. QED
      BY <3>1, <3>2, PrevIsDigest
  <2>7. s[Len(s) - k] = t[Len(t) - k]
    BY <2>4, <2>5, <2>6, ShaIsInjective
  <2>8. QED
    BY <2>7
<1>3. \A k \in Both : s[Len(s) - k] = t[Len(t) - k]
  BY <1>2
<1>4. Len(s) = Len(t)
  <2>1. ~ (Len(s) < Len(t))
    <3>1. SUFFICES ASSUME Len(s) < Len(t) PROVE FALSE
      OBVIOUS
    <3>2. Len(s) - 1 \in Both
      BY <1>1, <3>1
    <3>3. s[1] = t[Len(t) - (Len(s) - 1)]
      <4>1. Len(s) - (Len(s) - 1) = 1
        BY <1>1
      <4>2. QED
        BY <1>3, <3>2, <4>1
    <3>4. s[1].prev = Null
      BY <1>1, PrevIsDigest
    <3>5. t[Len(t) - (Len(s) - 1)].prev # Null
      <4>1. Len(t) - (Len(s) - 1) \in 1 .. Len(t) /\ Len(t) - (Len(s) - 1) > 1
        BY <1>1, <3>1
      <4>2. QED
        BY <4>1, PrevIsDigest, ShaIsNotNull
    <3>6. QED
      BY <3>3, <3>4, <3>5
  <2>2. ~ (Len(t) < Len(s))
    <3>1. SUFFICES ASSUME Len(t) < Len(s) PROVE FALSE
      OBVIOUS
    <3>2. Len(t) - 1 \in Both
      BY <1>1, <3>1
    <3>3. t[1] = s[Len(s) - (Len(t) - 1)]
      <4>1. Len(t) - (Len(t) - 1) = 1
        BY <1>1
      <4>2. QED
        BY <1>3, <3>2, <4>1
    <3>4. t[1].prev = Null
      BY <1>1, PrevIsDigest
    <3>5. s[Len(s) - (Len(t) - 1)].prev # Null
      <4>1. Len(s) - (Len(t) - 1) \in 1 .. Len(s) /\ Len(s) - (Len(t) - 1) > 1
        BY <1>1, <3>1
      <4>2. QED
        BY <4>1, PrevIsDigest, ShaIsNotNull
    <3>6. QED
      BY <3>3, <3>4, <3>5
  <2>3. QED
    BY <1>1, <2>1, <2>2
<1>5. ASSUME NEW n \in 1 .. Len(s) PROVE s[n] = t[n]
  <2>1. Len(s) - n \in Both
    BY <1>1, <1>4
  <2>2. Len(s) - (Len(s) - n) = n
    BY <1>1
  <2>3. QED
    BY <1>3, <1>4, <2>1, <2>2
<1>6. QED
  BY <1>4, <1>5

(* No two lines of a ledger that parses are equal, so a digest in           *)
(* supersedes or prev names one line only: a sign-off repeated word for     *)
(* word after a revocation is still a line of its own.                      *)
THEOREM LinesDiffer ==
  ASSUME NEW S, NEW file \in Seq(S), Parses(file),
         NEW i \in 1 .. Len(file), NEW j \in 1 .. Len(file), file[i] = file[j]
  PROVE  i = j
<1> DEFINE s == SubSeq(file, 1, i)
           t == SubSeq(file, 1, j)
<1>1. s \in Seq(S) /\ t \in Seq(S)
  OBVIOUS
<1>2. Len(s) = i /\ Len(t) = j /\ s[i] = file[i] /\ t[j] = file[j]
  OBVIOUS
<1>3. Parses(s) /\ Parses(t)
  BY ParsesPrefix
<1>4. s = t
  <2> HIDE DEF s, t
  <2>1. QED
    BY <1>1, <1>2, <1>3, LastLineFixesLedger
<1>5. QED
  BY <1>2, <1>4

-----------------------------------------------------------------------------
(* Signers *)

(* The places of a signer that has read the content it signs. *)
HasContent == {"bound", "confirm", "keep", "partial", "rename", "write", "writing"}

(* What holds of a signer at each place.  The last conjunct is what makes   *)
(* the line it writes follow the ledger: nobody else can have extended or   *)
(* cut the ledger since it was read, because the lock is held throughout.   *)
SignerInv(p) ==
  /\ holder = p <=> pc[p] \notin {"idle", "wait"}
  /\ pc[p] # "idle" => call[p] \in Requests
  /\ pc[p] = "idle" \/ call[p].kind = "revoke" => bound[p] = Unbound
  /\ pc[p] \in {"content", "keep", "partial", "rename"} => call[p].kind = "record"
  /\ pc[p] \in HasContent /\ call[p].kind = "record" => content[p] \in Contents
  /\ pc[p] \in {"confirm", "write", "writing"} /\ call[p].kind = "revoke" =>
       Standing(p) # 0 /\ ~ Revokes(seen[p][Standing(p)])
  /\ pc[p] \in Inside => seen[p] = lines /\ (torn => pc[p] = "writing")

Inv ==
  /\ TypeOK
  /\ Parses(lines)
  /\ \A p \in Signers : SignerInv(p)

-----------------------------------------------------------------------------
(* Frames: what a step of signer p leaves to the other signers. *)

OnlyMoves(p) ==
  \A q \in Signers \ {p} :
    /\ pc'[q] = pc[q] /\ call'[q] = call[q] /\ seen'[q] = seen[q]
    /\ content'[q] = content[q] /\ bound'[q] = bound[q]
    /\ holder' = q <=> holder = q

(* A step of p keeps what holds of the others, unless it changes the ledger *)
(* without the lock.                                                        *)
LEMMA OthersKeep ==
  ASSUME NEW p \in Signers, OnlyMoves(p), \A q \in Signers : SignerInv(q),
         (lines' = lines /\ torn' = torn) \/ holder = p,
         SignerInv(p)'
  PROVE  \A q \in Signers : SignerInv(q)'
<1> SUFFICES ASSUME NEW q \in Signers, q # p PROVE SignerInv(q)'
  BY Zenon
<1>1. /\ pc'[q] = pc[q] /\ call'[q] = call[q] /\ seen'[q] = seen[q]
      /\ content'[q] = content[q] /\ bound'[q] = bound[q]
      /\ holder' = q <=> holder = q
  BY DEF OnlyMoves
<1>2. pc[q] \in Inside => lines' = lines /\ torn' = torn
  BY DEF SignerInv, Inside
<1>3. QED
  BY <1>1, <1>2 DEF SignerInv, Standing

(* A step of no signer that leaves the lines alone keeps what holds of      *)
(* them.                                                                    *)
LEMMA SignersRest ==
  ASSUME UNCHANGED signerVars, lines' = lines, torn' = torn \/ torn' = FALSE,
         \A p \in Signers : SignerInv(p)
  PROVE  \A p \in Signers : SignerInv(p)'
BY DEF signerVars, SignerInv, Standing

(* Leaving _append gives up the lock and nothing of anyone else's. *)
LEMMA LeaveKeeps ==
  ASSUME NEW p \in Signers, SignersOK, SignerInv(p), Leave(p)
  PROVE  SignersOK' /\ OnlyMoves(p) /\ SignerInv(p)'
<1>1. SignersOK'
  BY DEF SignersOK, Leave, Goto, PCs, Bindings, Unbound
<1>2. OnlyMoves(p)
  BY NoOneAssumption DEF SignersOK, Leave, Goto, OnlyMoves
<1>3. SignerInv(p)'
  BY NoOneAssumption DEF SignersOK, Leave, Goto, SignerInv, HasContent, Inside, NoCall
<1>4. QED
  BY <1>1, <1>2, <1>3

(* What holds of the disk stays while the disk is left alone. *)
LEMMA DiskStays ==
  ASSUME DiskOK, Parses(lines), UNCHANGED <<ledgerVars, copies, partials, files>>
  PROVE  DiskOK' /\ Parses(lines)'
BY DEF DiskOK, ledgerVars

(* What holds of the checks stays while they are left alone. *)
LEMMA ChecksStay ==
  ASSUME ChecksOK, UNCHANGED <<check, calm, used>> PROVE ChecksOK'
BY DEF ChecksOK

(* Using some of a bound keeps what holds of the checks. *)
LEMMA ChecksCount ==
  ASSUME ChecksOK, UNCHANGED <<check, calm>>,
         NEW k \in {"calls", "checks", "edits", "kills", "losses"}, Use(k)
  PROVE  ChecksOK'
BY DEF ChecksOK, Use

(* Disturbing every check keeps the type of calm. *)
LEMMA DisturbOK == ASSUME Disturb PROVE calm' \in [Checkers -> BOOLEAN]
BY DEF Disturb

-----------------------------------------------------------------------------
(* Each step of a signer that leaves the disk alone keeps the invariant. *)

(* A call that begins has read nothing, and holds nothing. *)
LEMMA BeginInv == ASSUME Inv, NEW p \in Signers, Begin(p) PROVE Inv'
<1>1. DiskOK' /\ Parses(lines)' /\ lines' = lines /\ torn' = torn
  BY DiskStays DEF Begin, Inv, TypeOK, diskVars, ledgerVars
<1>2. ChecksOK'
  BY ChecksCount DEF Begin, Inv, TypeOK, historyVars
<1>3. SignersOK' /\ OnlyMoves(p) /\ SignerInv(p)'
  <2>1. SignersOK'
    BY DEF Begin, Inv, TypeOK, SignersOK, Goto, PCs
  <2>2. OnlyMoves(p)
    BY NoOneAssumption DEF Begin, Inv, TypeOK, SignersOK, Goto, OnlyMoves
  <2>3. SignerInv(p)'
    BY <1>1, NoOneAssumption
    DEF Begin, Inv, TypeOK, SignersOK, Goto, SignerInv, HasContent, Inside, Standing, Requests
  <2>4. QED
    BY <2>1, <2>2, <2>3
<1>4. QED
  BY <1>1, <1>2, <1>3, OthersKeep DEF Inv, TypeOK

(* Only one signer gets the lock. *)
LEMMA LockInv == ASSUME Inv, NEW p \in Signers, Lock(p) PROVE Inv'
<1>1. DiskOK' /\ Parses(lines)' /\ lines' = lines /\ torn' = torn
  BY DiskStays DEF Lock, Inv, TypeOK, diskVars, ledgerVars
<1>2. ChecksOK'
  BY ChecksStay DEF Lock, Inv, TypeOK, historyVars
<1>3. SignersOK' /\ OnlyMoves(p) /\ SignerInv(p)'
  <2>1. SignersOK'
    BY DEF Lock, Inv, TypeOK, SignersOK, Goto, PCs
  <2>2. OnlyMoves(p)
    BY NoOneAssumption DEF Lock, Inv, TypeOK, SignersOK, Goto, OnlyMoves
  <2>3. SignerInv(p)'
    BY <1>1, NoOneAssumption
    DEF Lock, Inv, TypeOK, SignersOK, Goto, SignerInv, HasContent, Inside, Standing
  <2>4. QED
    BY <2>1, <2>2, <2>3
<1>4. QED
  BY <1>1, <1>2, <1>3, OthersKeep DEF Inv, TypeOK

(* Having the lock, a signer reads lines that parse, or leaves. *)
LEMMA ReadLedgerInv == ASSUME Inv, NEW p \in Signers, ReadLedger(p) PROVE Inv'
<1>1. DiskOK' /\ Parses(lines)' /\ lines' = lines /\ torn' = torn
  BY DiskStays DEF ReadLedger, Inv, TypeOK, diskVars, ledgerVars
<1>2. ChecksOK'
  BY ChecksStay DEF ReadLedger, Inv, TypeOK, historyVars
<1>3. CASE Leave(p)
  BY <1>1, <1>2, <1>3, LeaveKeeps, OthersKeep DEF Inv, TypeOK
<1>4. CASE ~ Leave(p)
  <2>1. SignersOK'
    BY <1>4 DEF ReadLedger, Inv, TypeOK, SignersOK, Goto, PCs
  <2>2. OnlyMoves(p)
    BY <1>4, NoOneAssumption DEF ReadLedger, Inv, TypeOK, SignersOK, Goto, OnlyMoves
  <2>3. SignerInv(p)'
    BY <1>1, <1>4, NoOneAssumption
    DEF ReadLedger, Inv, TypeOK, SignersOK, Goto, SignerInv, HasContent, Inside, Standing, Requests
  <2>4. QED
    BY <1>1, <1>2, <2>1, <2>2, <2>3, OthersKeep DEF Inv, TypeOK
<1>5. QED
  BY <1>3, <1>4

(* record reads content that is there, or leaves. *)
LEMMA ReadContentInv == ASSUME Inv, NEW p \in Signers, ReadContent(p) PROVE Inv'
<1>1. DiskOK' /\ Parses(lines)' /\ lines' = lines /\ torn' = torn
  BY DiskStays DEF ReadContent, Inv, TypeOK, diskVars, ledgerVars
<1>2. ChecksOK'
  BY ChecksStay DEF ReadContent, Inv, TypeOK, historyVars
<1>3. CASE Leave(p)
  BY <1>1, <1>2, <1>3, LeaveKeeps, OthersKeep DEF Inv, TypeOK
<1>4. CASE ~ Leave(p)
  <2> DEFINE now == files[PathOf[call[p].artifact]]
  <2>0. now \in Contents \cup {Missing}
    <3>1. call[p].artifact \in Artifacts
      BY DEF ReadContent, Inv, SignerInv, Requests
    <3>2. PathOf[call[p].artifact] \in Files
      BY <3>1, PathsAssumption
    <3>3. QED
      BY <3>2 DEF Inv, TypeOK, DiskOK
  <2>a. /\ now # Missing /\ content' = [content EXCEPT ![p] = now] /\ Goto(p, "bound")
        /\ UNCHANGED <<holder, call, seen, bound>>
    BY <1>4 DEF ReadContent
  <2>1. SignersOK'
    BY <2>0, <2>a DEF Inv, TypeOK, SignersOK, Goto, PCs
  <2>2. OnlyMoves(p)
    BY <1>4, NoOneAssumption DEF ReadContent, Inv, TypeOK, SignersOK, Goto, OnlyMoves
  <2>3. SignerInv(p)'
    BY <1>1, <2>0, <2>a, NoOneAssumption
    DEF ReadContent, Inv, TypeOK, SignersOK, Goto, SignerInv, HasContent, Inside, Standing, Requests
  <2>4. QED
    BY <1>1, <1>2, <2>1, <2>2, <2>3, OthersKeep DEF Inv, TypeOK
<1>5. QED
  BY <1>3, <1>4

(* A file that is read is bound to a digest; a missing one ends the call. *)
LEMMA ReadBoundInv == ASSUME Inv, NEW p \in Signers, ReadBound(p) PROVE Inv'
<1>1. DiskOK' /\ Parses(lines)' /\ lines' = lines /\ torn' = torn
  BY DiskStays DEF ReadBound, Inv, TypeOK, diskVars, ledgerVars
<1>2. ChecksOK'
  BY ChecksStay DEF ReadBound, Inv, TypeOK, historyVars
<1>3. CASE Leave(p)
  BY <1>1, <1>2, <1>3, LeaveKeeps, OthersKeep DEF Inv, TypeOK
<1>4. CASE ~ Leave(p)
  <2>1. PICK f \in ToBind(p) :
          /\ files[f] # Missing
          /\ bound' = [bound EXCEPT ![p][f] = Sha(files[f])]
          /\ UNCHANGED <<holder, pc, call, seen, content>>
    BY <1>4 DEF ReadBound
  <2>2. call[p] \in Requests /\ f \in call[p].bind /\ pc[p] = "bound"
    BY DEF ToBind, ReadBound, Inv, SignerInv
  <2>3. call[p].kind = "record" /\ f \in Files
    BY <2>2 DEF Requests
  <2>4. Sha(files[f]) \in Digests
    BY <2>1, <2>3 DEF Inv, TypeOK, DiskOK, Digests
  <2>5. SignersOK'
    <3>1. [bound[p] EXCEPT ![f] = Sha(files[f])] \in Bindings
      BY <2>4 DEF Inv, TypeOK, SignersOK, Bindings
    <3>2. QED
      BY <2>1, <3>1 DEF Inv, TypeOK, SignersOK
  <2>6. OnlyMoves(p)
    BY <2>1 DEF Inv, TypeOK, SignersOK, OnlyMoves
  <2>7. SignerInv(p)'
    BY <1>1, <2>1, <2>2, <2>3 DEF Inv, SignerInv, HasContent, Inside
  <2>8. QED
    BY <1>1, <1>2, <2>5, <2>6, <2>7, OthersKeep DEF Inv, TypeOK
<1>5. QED
  BY <1>3, <1>4

(* A revocation is only shown for a standing sign-off. *)
LEMMA ShowInv == ASSUME Inv, NEW p \in Signers, Show(p) PROVE Inv'
<1>1. DiskOK' /\ Parses(lines)' /\ lines' = lines /\ torn' = torn
  BY DiskStays DEF Show, Inv, TypeOK, diskVars, ledgerVars
<1>2. ChecksOK'
  BY ChecksStay DEF Show, Inv, TypeOK, historyVars
<1>3. CASE Leave(p)
  BY <1>1, <1>2, <1>3, LeaveKeeps, OthersKeep DEF Inv, TypeOK
<1>4. CASE ~ Leave(p)
  <2>1. SignersOK'
    BY <1>4 DEF Show, Inv, TypeOK, SignersOK, Goto, PCs
  <2>2. OnlyMoves(p)
    BY <1>4, NoOneAssumption DEF Show, Inv, TypeOK, SignersOK, Goto, OnlyMoves
  <2>3. SignerInv(p)'
    BY <1>1, <1>4, NoOneAssumption
    DEF Show, Inv, TypeOK, SignersOK, Goto, SignerInv, HasContent, Inside, Standing, Refuses, Requests
  <2>4. QED
    BY <1>1, <1>2, <2>1, <2>2, <2>3, OthersKeep DEF Inv, TypeOK
<1>5. QED
  BY <1>3, <1>4

(* Confirming changes nothing that the line is built from. *)
LEMMA ConfirmInv == ASSUME Inv, NEW p \in Signers, Confirm(p) PROVE Inv'
<1>1. DiskOK' /\ Parses(lines)' /\ lines' = lines /\ torn' = torn
  BY DiskStays DEF Confirm, Inv, TypeOK, diskVars, ledgerVars
<1>2. ChecksOK'
  BY ChecksStay DEF Confirm, Inv, TypeOK, historyVars
<1>3. SignersOK' /\ OnlyMoves(p) /\ SignerInv(p)'
  <2>1. SignersOK'
    BY DEF Confirm, Inv, TypeOK, SignersOK, Goto, PCs
  <2>2. OnlyMoves(p)
    BY NoOneAssumption DEF Confirm, Inv, TypeOK, SignersOK, Goto, OnlyMoves
  <2>3. SignerInv(p)'
    BY <1>1, NoOneAssumption
    DEF Confirm, Inv, TypeOK, SignersOK, Goto, SignerInv, HasContent, Inside, Standing, Requests
  <2>4. QED
    BY <2>1, <2>2, <2>3
<1>4. QED
  BY <1>1, <1>2, <1>3, OthersKeep DEF Inv, TypeOK

(* A call that is not confirmed leaves the ledger as it was. *)
LEMMA DeclineInv == ASSUME Inv, NEW p \in Signers, Decline(p) PROVE Inv'
<1>1. DiskOK' /\ Parses(lines)' /\ lines' = lines /\ torn' = torn
  BY DiskStays DEF Decline, Inv, TypeOK, diskVars, ledgerVars
<1>2. ChecksOK'
  BY ChecksStay DEF Decline, Inv, TypeOK, historyVars
<1>3. SignersOK' /\ OnlyMoves(p) /\ SignerInv(p)'
  BY LeaveKeeps DEF Decline, Inv, TypeOK
<1>4. QED
  BY <1>1, <1>2, <1>3, OthersKeep DEF Inv, TypeOK

(* Looking for the kept copy changes nothing on disk. *)
LEMMA LookForCopyInv == ASSUME Inv, NEW p \in Signers, LookForCopy(p) PROVE Inv'
<1>1. DiskOK' /\ Parses(lines)' /\ lines' = lines /\ torn' = torn
  BY DiskStays DEF LookForCopy, Inv, TypeOK, diskVars, ledgerVars
<1>2. ChecksOK'
  BY ChecksStay DEF LookForCopy, Inv, TypeOK, historyVars
<1>3. CASE Leave(p)
  BY <1>1, <1>2, <1>3, LeaveKeeps, OthersKeep DEF Inv, TypeOK
<1>4. CASE ~ Leave(p)
  <2>1. SignersOK'
    BY <1>4 DEF LookForCopy, Inv, TypeOK, SignersOK, Goto, PCs
  <2>2. OnlyMoves(p)
    BY <1>4, NoOneAssumption DEF LookForCopy, Inv, TypeOK, SignersOK, Goto, OnlyMoves
  <2>3. SignerInv(p)'
    BY <1>1, <1>4, NoOneAssumption
    DEF LookForCopy, Inv, TypeOK, SignersOK, Goto, SignerInv, HasContent, Inside, Standing
  <2>4. QED
    BY <1>1, <1>2, <2>1, <2>2, <2>3, OthersKeep DEF Inv, TypeOK
<1>5. QED
  BY <1>3, <1>4

(* A signer that is killed leaves what it wrote and gives up the lock. *)
LEMMA KillInv == ASSUME Inv, NEW p \in Signers, Kill(p) PROVE Inv'
<1>1. DiskOK' /\ Parses(lines)' /\ lines' = lines /\ torn' = torn
  BY DiskStays DEF Kill, Inv, TypeOK, diskVars, ledgerVars
<1>2. ChecksOK'
  BY ChecksCount DEF Kill, Inv, TypeOK, historyVars
<1>3. SignersOK' /\ OnlyMoves(p) /\ SignerInv(p)'
  BY LeaveKeeps DEF Kill, Inv, TypeOK
<1>4. QED
  BY <1>1, <1>2, <1>3, OthersKeep DEF Inv, TypeOK

-----------------------------------------------------------------------------
(* Steps that write beside the ledger *)

(* Beginning a copy leaves the ledger alone. *)
LEMMA BeginPartialInv == ASSUME Inv, NEW p \in Signers, BeginPartial(p) PROVE Inv'
<1>1. DiskOK' /\ Parses(lines)' /\ lines' = lines /\ torn' = torn
  BY DEF BeginPartial, Inv, TypeOK, DiskOK, ledgerVars
<1>2. ChecksOK'
  BY ChecksStay DEF BeginPartial, Inv, TypeOK, historyVars
<1>3. SignersOK' /\ OnlyMoves(p)
  BY DEF BeginPartial, Inv, TypeOK, SignersOK, Goto, PCs, OnlyMoves
<1>4. SignerInv(p)'
  BY <1>1, NoOneAssumption
  DEF BeginPartial, Inv, TypeOK, SignersOK, Goto, SignerInv, HasContent, Inside, Standing
<1>5. QED
  BY <1>1, <1>2, <1>3, <1>4, OthersKeep DEF Inv, TypeOK

(* Finishing a copy leaves the ledger alone. *)
LEMMA EndPartialInv == ASSUME Inv, NEW p \in Signers, EndPartial(p) PROVE Inv'
<1>1. DiskOK' /\ Parses(lines)' /\ lines' = lines /\ torn' = torn
  BY DEF EndPartial, Inv, TypeOK, DiskOK, ledgerVars
<1>2. ChecksOK'
  BY ChecksStay DEF EndPartial, Inv, TypeOK, historyVars
<1>3. SignersOK'
  BY DEF EndPartial, signerVars, Inv, TypeOK, SignersOK
<1>4. \A q \in Signers : SignerInv(q)'
  BY <1>1, SignersRest DEF EndPartial, Inv
<1>5. QED
  BY <1>1, <1>2, <1>3, <1>4 DEF Inv, TypeOK

(* Putting a copy in place leaves the ledger alone. *)
LEMMA RenameInv == ASSUME Inv, NEW p \in Signers, Rename(p) PROVE Inv'
<1>1. DiskOK' /\ Parses(lines)' /\ lines' = lines /\ torn' = torn
  BY DEF Rename, Inv, TypeOK, DiskOK, ledgerVars, CopyStates
<1>2. ChecksOK'
  BY DisturbOK DEF Rename, Inv, TypeOK, ChecksOK
<1>3. SignersOK' /\ OnlyMoves(p)
  BY DEF Rename, Inv, TypeOK, SignersOK, Goto, PCs, OnlyMoves
<1>4. SignerInv(p)'
  BY <1>1, NoOneAssumption
  DEF Rename, Inv, TypeOK, SignersOK, Goto, SignerInv, HasContent, Inside, Standing
<1>5. QED
  BY <1>1, <1>2, <1>3, <1>4, OthersKeep DEF Inv, TypeOK

-----------------------------------------------------------------------------
(* Steps that write the line *)

(* Only the holder of the lock starts a line, and the file is torn only     *)
(* while it writes.                                                         *)
LEMMA BeginWriteInv == ASSUME Inv, NEW p \in Signers, BeginWrite(p) PROVE Inv'
<1>1. DiskOK' /\ Parses(lines)' /\ lines' = lines
  BY DEF BeginWrite, Inv, TypeOK, DiskOK
<1>2. ChecksOK'
  BY DisturbOK DEF BeginWrite, Inv, TypeOK, ChecksOK
<1>3. SignersOK' /\ OnlyMoves(p) /\ holder = p
  BY DEF BeginWrite, Inv, TypeOK, SignersOK, Goto, PCs, OnlyMoves, SignerInv
<1>4. SignerInv(p)'
  BY <1>1, NoOneAssumption
  DEF BeginWrite, Inv, TypeOK, SignersOK, Goto, SignerInv, HasContent, Inside, Standing
<1>5. QED
  BY <1>1, <1>2, <1>3, <1>4, OthersKeep DEF Inv, TypeOK

(* The line a signer writes is well formed and follows the lines it read. *)
LEMMA LineOfFollows ==
  ASSUME Inv, NEW p \in Signers, pc[p] = "writing"
  PROVE  Follows(lines, LineOf(p))
<1> DEFINE line == LineOf(p)
<1>1. /\ call[p] \in Requests /\ seen[p] = lines
      /\ call[p].kind = "revoke" =>
           bound[p] = Unbound /\ Standing(p) # 0 /\ ~ Revokes(lines[Standing(p)])
      /\ call[p].kind = "record" => content[p] \in Contents
      /\ bound[p] \in Bindings
  BY DEF Inv, TypeOK, SignersOK, SignerInv, Inside, HasContent
<1>2. /\ call[p].kind \in {"record", "revoke"} /\ call[p].artifact \in Artifacts
  BY <1>1 DEF Requests
<1>3. /\ line.artifact = call[p].artifact /\ line.bound = bound[p] /\ line.reviewed_by = p
      /\ line.supersedes = ShaAt(lines, Newest(lines, line.artifact))
      /\ line.prev = ShaAt(lines, Len(lines))
      /\ line.sha256 = IF call[p].kind = "record" THEN Sha(content[p]) ELSE Null
      /\ DOMAIN line = {"artifact", "sha256", "bound", "supersedes", "reviewed_by", "prev"}
  BY <1>1 DEF LineOf, Standing
<1>4. Revokes(line) <=> call[p].kind = "revoke"
  BY <1>2, <1>3, ShaIsNotNull DEF Revokes
<1>5. Revokes(line) => /\ Newest(lines, line.artifact) # 0
                       /\ ~ Revokes(lines[Newest(lines, line.artifact)])
                       /\ line.bound = Unbound
  BY <1>1, <1>3, <1>4 DEF Standing
<1>6. Revokes(line) => line.supersedes # Null
  BY <1>3, <1>5, ShaIsNotNull DEF ShaAt
<1>7. line.sha256 \in Digests \cup {Null}
  BY <1>1, <1>2, <1>3 DEF Digests
<1>8. WellFormed(line)
  <2> HIDE DEF line
  <2>1. QED
    BY <1>1, <1>2, <1>3, <1>5, <1>6, <1>7, SignersAssumption DEF WellFormed
<1>9. QED
  <2> HIDE DEF line
  <2>1. Follows(lines, line)
    BY <1>3, <1>5, <1>8 DEF Follows
  <2>2. QED
    BY <2>1 DEF line

(* A sequence is one over the set of its own elements. *)
LEMMA SeqOfItself ==
  ASSUME NEW S, NEW s \in Seq(S) PROVE s \in Seq(ToSet(s))
BY DEF ToSet

(* The line written follows the lines of the ledger, for they are the ones  *)
(* read.                                                                    *)
LEMMA EndWriteInv == ASSUME Inv, NEW p \in Signers, EndWrite(p) PROVE Inv'
<1>1. /\ lines' = Append(lines, LineOf(p)) /\ pc[p] = "writing" /\ holder = p
      /\ lines \in Seq(ToSet(lines))
  BY DEF EndWrite, Inv, TypeOK, DiskOK, SignerInv
<1>2. Follows(lines, LineOf(p)) /\ WellFormed(LineOf(p))
  BY <1>1, LineOfFollows DEF Follows
<1>3. Parses(lines)'
  BY <1>1, <1>2, ParsesAppend DEF Inv
<1>4. DiskOK'
  <2>1. Append(lines, LineOf(p)) \in Seq(ToSet(lines) \cup {LineOf(p)})
    BY <1>1
  <2>2. lines' \in Seq(ToSet(lines'))
    BY <1>1, <2>1, SeqOfItself
  <2>3. \A n \in 1 .. Len(lines') : WellFormed(lines'[n])
    <3>1. \A n \in 1 .. Len(lines) : WellFormed(lines[n])
      BY DEF Inv, TypeOK, DiskOK
    <3>2. ASSUME NEW n \in 1 .. Len(lines') PROVE WellFormed(lines'[n])
      <4>1. \/ n \in 1 .. Len(lines) /\ lines'[n] = lines[n]
            \/ lines'[n] = LineOf(p)
        BY <1>1
      <4>2. QED
        BY <1>2, <3>1, <4>1, Zenon
    <3>3. QED
      BY <3>2
  <2>4. synced' \in 0 .. Len(lines') /\ torn' \in BOOLEAN
    <3>1. Len(lines) \in Nat /\ Len(lines') = Len(lines) + 1
      BY <1>1
    <3>2. synced \in 0 .. Len(lines) /\ synced' = synced
      BY DEF EndWrite, Inv, TypeOK, DiskOK
    <3>3. synced' \in 0 .. Len(lines')
      BY <3>1, <3>2
    <3>4. torn' \in BOOLEAN
      BY DEF EndWrite
    <3>5. QED
      BY <3>3, <3>4
  <2>5. QED
    BY <2>2, <2>3, <2>4 DEF EndWrite, Inv, TypeOK, DiskOK
<1>5. ChecksOK'
  BY DisturbOK DEF EndWrite, Inv, TypeOK, ChecksOK
<1>6. SignersOK' /\ OnlyMoves(p)
  BY DEF EndWrite, Inv, TypeOK, SignersOK, Goto, PCs, OnlyMoves
<1>7. SignerInv(p)'
  BY <1>1, NoOneAssumption
  DEF EndWrite, Inv, TypeOK, SignersOK, Goto, SignerInv, HasContent, Inside
<1>8. QED
  BY <1>1, <1>3, <1>4, <1>5, <1>6, <1>7, OthersKeep DEF Inv, TypeOK

(* Returning the line gives up the lock. *)
LEMMA SyncInv == ASSUME Inv, NEW p \in Signers, Sync(p) PROVE Inv'
<1>1. DiskOK' /\ Parses(lines)' /\ lines' = lines /\ torn' = torn
  BY DEF Sync, Inv, TypeOK, DiskOK
<1>2. ChecksOK'
  BY ChecksStay DEF Sync, Inv, TypeOK
<1>3. SignersOK' /\ OnlyMoves(p) /\ SignerInv(p)'
  BY LeaveKeeps DEF Sync, Inv, TypeOK
<1>4. QED
  BY <1>1, <1>2, <1>3, OthersKeep DEF Inv, TypeOK

(* A call refused for want of a terminal touches nothing. *)
LEMMA RefuseUnattendedInv == ASSUME Inv, NEW p \in Signers, RefuseUnattended(p) PROVE Inv'
<1>1. DiskOK' /\ Parses(lines)' /\ lines' = lines /\ torn' = torn
  BY DiskStays DEF RefuseUnattended, Inv, TypeOK, diskVars, ledgerVars
<1>2. ChecksOK'
  BY ChecksCount DEF RefuseUnattended, Inv, TypeOK, historyVars
<1>3. SignersOK' /\ \A q \in Signers : SignerInv(q)'
  BY <1>1, SignersRest DEF RefuseUnattended, signerVars, Inv, TypeOK, SignersOK
<1>4. QED
  BY <1>1, <1>2, <1>3 DEF Inv, TypeOK

-----------------------------------------------------------------------------
(* A check changes nothing but its own record. *)

(* A check that answers is a check. *)
LEMMA AnswerOK ==
  ASSUME ChecksOK, NEW c \in Checkers, NEW verdict \in Verdicts, Answer(c, verdict)
  PROVE  check' \in [Checkers -> Checks]
<1>1. check[c].artifact \in Artifacts \cup {"none"}
  BY DEF ChecksOK, Checks
<1>2. Unbound \in Bindings
  BY DEF Unbound, Bindings
<1>3. [NoCheck EXCEPT !.artifact = check[c].artifact, !.answer = verdict] \in Checks
  BY <1>1, <1>2 DEF NoCheck, Checks, CheckPCs
<1>4. QED
  BY <1>3 DEF Answer, ChecksOK

(* A check changes nothing but itself. *)
LEMMA CheckStepInv == ASSUME Inv, NEW c \in Checkers, Ask(c) \/ CheckStep(c) PROVE Inv'
<1>1. UNCHANGED diskVars /\ UNCHANGED signerVars
  BY DEF Ask, CheckStep, CheckLedger, CheckKept, CheckContent, CheckBound, CheckDone
<1>2. DiskOK' /\ Parses(lines)' /\ lines' = lines /\ torn' = torn
  BY <1>1, DiskStays DEF Inv, TypeOK, diskVars, ledgerVars
<1>3. SignersOK' /\ \A q \in Signers : SignerInv(q)'
  BY <1>1, <1>2, SignersRest DEF signerVars, Inv, TypeOK, SignersOK
<1>4. ChecksOK /\ check[c] \in Checks
  BY DEF Inv, TypeOK, ChecksOK
<1>5. check' \in [Checkers -> Checks]
  <2>1. CASE Ask(c)
    <3>1. Unbound \in Bindings
      BY DEF Unbound, Bindings
    <3>2. \A a \in Artifacts : [NoCheck EXCEPT !.pc = "ledger", !.artifact = a] \in Checks
      BY <3>1 DEF NoCheck, Checks, CheckPCs
    <3>3. QED
      BY <1>4, <2>1, <3>2 DEF Ask, ChecksOK
  <2>2. CASE CheckLedger(c)
    <3> DEFINE n == Newest(lines, check[c].artifact)
    <3>1. \/ \E verdict \in Verdicts : Answer(c, verdict)
          \/ /\ n # 0
             /\ check' = [check EXCEPT ![c].pc     = "kept",
                                       ![c].sha256 = lines[n].sha256,
                                       ![c].bound  = lines[n].bound]
      BY <2>2 DEF CheckLedger, Verdicts
    <3>2. n # 0 => lines[n].sha256 \in Digests \cup {Null} /\ lines[n].bound \in Bindings
      BY NewestIsLast DEF Inv, TypeOK, DiskOK, WellFormed
    <3>3. n # 0 =>
            [check[c] EXCEPT !.pc = "kept", !.sha256 = lines[n].sha256,
                             !.bound = lines[n].bound] \in Checks
      BY <1>4, <3>2 DEF Checks, CheckPCs
    <3>4. QED
      BY <1>4, <3>1, <3>3, AnswerOK DEF ChecksOK
  <2>3. CASE CheckKept(c)
    <3>1. [check[c] EXCEPT !.pc = "content"] \in Checks
      BY <1>4 DEF Checks, CheckPCs
    <3>2. QED
      BY <1>4, <2>3, <3>1, AnswerOK DEF CheckKept, ChecksOK, Verdicts
  <2>4. CASE CheckContent(c)
    <3>1. [check[c] EXCEPT !.pc = "bound",
                           !.todo = {f \in Files : check[c].bound[f] # Null}] \in Checks
      BY <1>4 DEF Checks, CheckPCs
    <3>2. QED
      BY <1>4, <2>4, <3>1, AnswerOK DEF CheckContent, ChecksOK, Verdicts
  <2>5. CASE CheckBound(c)
    <3>1. PICK f \in check[c].todo :
            check' = [check EXCEPT
              ![c].todo    = @ \ {f},
              ![c].changed = @ \/ check[c].bound[f] # Sha(files[f])]
      BY <2>5 DEF CheckBound
    <3>2. QED
      BY <1>4, <3>1 DEF Checks, ChecksOK
  <2>6. CASE CheckDone(c)
    BY <1>4, <2>6, AnswerOK DEF CheckDone, Verdicts
  <2>7. QED
    BY <2>1, <2>2, <2>3, <2>4, <2>5, <2>6 DEF CheckStep
<1>6. calm' \in [Checkers -> BOOLEAN]
  BY <1>4 DEF Ask, CheckStep, CheckLedger, CheckKept, CheckContent, CheckBound, CheckDone,
     historyVars, ChecksOK
<1>7. used' \in [{"calls", "checks", "edits", "kills", "losses"} -> Nat]
  <2>1. CASE Ask(c)
    <3>1. used' = [used EXCEPT !["checks"] = @ + 1]
      BY <2>1 DEF Ask, Use
    <3>2. QED
      BY <1>4, <3>1 DEF ChecksOK
  <2>2. CASE UNCHANGED used
    BY <1>4, <2>2 DEF ChecksOK
  <2>3. QED
    BY <2>1, <2>2 DEF CheckStep, CheckLedger, CheckKept, CheckContent, CheckBound, CheckDone
<1>8. QED
  BY <1>2, <1>3, <1>5, <1>6, <1>7 DEF Inv, TypeOK, ChecksOK

-----------------------------------------------------------------------------
(* The environment *)

(* Editing a file leaves the ledger and every call alone. *)
LEMMA EditInv == ASSUME Inv, NEW f \in Files, Edit(f) PROVE Inv'
<1>1. DiskOK' /\ Parses(lines)' /\ lines' = lines /\ torn' = torn
  BY DEF Edit, Inv, TypeOK, DiskOK, ledgerVars
<1>2. SignersOK' /\ \A q \in Signers : SignerInv(q)'
  BY <1>1, SignersRest DEF Edit, signerVars, Inv, TypeOK, SignersOK
<1>3. ChecksOK'
  BY DisturbOK DEF Edit, Use, Inv, TypeOK, ChecksOK
<1>4. QED
  BY <1>1, <1>2, <1>3 DEF Inv, TypeOK

(* Changing a kept copy leaves the ledger and every call alone. *)
LEMMA MeddleInv == ASSUME Inv, NEW d \in Digests, Meddle(d) PROVE Inv'
<1>1. DiskOK' /\ Parses(lines)' /\ lines' = lines /\ torn' = torn
  BY DEF Meddle, Inv, TypeOK, DiskOK, ledgerVars, CopyStates
<1>2. SignersOK' /\ \A q \in Signers : SignerInv(q)'
  BY <1>1, SignersRest DEF Meddle, signerVars, Inv, TypeOK, SignersOK
<1>3. ChecksOK'
  BY DisturbOK DEF Meddle, Use, Inv, TypeOK, ChecksOK
<1>4. QED
  BY <1>1, <1>2, <1>3 DEF Inv, TypeOK

(* Writing a copy back leaves the ledger and every call alone. *)
LEMMA WriteBackInv == ASSUME Inv, NEW d \in Digests, WriteBack(d) PROVE Inv'
<1>1. DiskOK' /\ Parses(lines)' /\ lines' = lines /\ torn' = torn
  BY DEF WriteBack, Inv, TypeOK, DiskOK, ledgerVars, CopyStates
<1>2. SignersOK' /\ \A q \in Signers : SignerInv(q)'
  BY <1>1, SignersRest DEF WriteBack, signerVars, Inv, TypeOK, SignersOK
<1>3. ChecksOK'
  BY ChecksStay DEF WriteBack, historyVars, Inv, TypeOK
<1>4. QED
  BY <1>1, <1>2, <1>3 DEF Inv, TypeOK

(* Restoring the ledger drops the part of a line, and nobody holds the      *)
(* lock.                                                                    *)
LEMMA RestoreInv == ASSUME Inv, Restore PROVE Inv'
<1>1. DiskOK' /\ Parses(lines)' /\ lines' = lines /\ torn' = FALSE
  BY DEF Restore, Inv, TypeOK, DiskOK
<1>2. SignersOK' /\ \A q \in Signers : SignerInv(q)'
  BY <1>1, SignersRest DEF Restore, signerVars, Inv, TypeOK, SignersOK
<1>3. ChecksOK'
  BY DisturbOK DEF Restore, Inv, TypeOK, ChecksOK
<1>4. QED
  BY <1>1, <1>2, <1>3 DEF Inv, TypeOK

(* A power loss leaves a prefix of the ledger, and no call. *)
LEMMA LosePowerInv == ASSUME Inv, LosePower PROVE Inv'
<1>1. PICK n \in synced .. Len(lines) :
        /\ lines' = SubSeq(lines, 1, n)
        /\ synced' = n
        /\ torn' \in IF n < Len(lines) \/ torn THEN BOOLEAN ELSE {FALSE}
  BY DEF LosePower
<1>2. lines \in Seq(ToSet(lines)) /\ synced \in 0 .. Len(lines) /\ n \in 0 .. Len(lines)
  BY <1>1 DEF Inv, TypeOK, DiskOK
<1>3. Parses(lines)'
  BY <1>1, <1>2, ParsesPrefix DEF Inv
<1>4. DiskOK'
  <2>1. lines' \in Seq(ToSet(lines)) /\ Len(lines') = n
    BY <1>1, <1>2
  <2>2. lines' \in Seq(ToSet(lines'))
    BY <2>1, SeqOfItself
  <2>3. \A m \in 1 .. Len(lines') : WellFormed(lines'[m])
    BY <1>1, <1>2, <2>1 DEF Inv, TypeOK, DiskOK
  <2>4. copies' \in [Digests -> CopyStates]
    BY DEF LosePower
  <2>5. partials' \in [Digests -> {"none", "torn", "whole"}]
    BY DEF LosePower
  <2>6. files' \in [Files -> Contents \cup {Missing}] /\ torn' \in BOOLEAN
    BY <1>1 DEF LosePower, Inv, TypeOK, DiskOK
  <2>7. QED
    BY <1>1, <1>2, <2>1, <2>2, <2>3, <2>4, <2>5, <2>6 DEF DiskOK
<1>5. SignersOK'
  BY DEF LosePower, SignersOK, PCs, Unbound, Bindings
<1>6. ChecksOK'
  <2>1. NoCheck \in Checks
    BY DEF NoCheck, Checks, CheckPCs, Unbound, Bindings
  <2>2. QED
    BY <2>1, DisturbOK DEF LosePower, Use, Inv, TypeOK, ChecksOK
<1>7. ASSUME NEW q \in Signers PROVE SignerInv(q)'
  BY NoOneAssumption DEF LosePower, SignerInv, HasContent, Inside, NoCall
<1>8. QED
  BY <1>3, <1>4, <1>5, <1>6, <1>7 DEF Inv, TypeOK

-----------------------------------------------------------------------------
(* The initial states satisfy the invariant. *)
LEMMA InitInv == Init => Inv
<1> SUFFICES ASSUME Init PROVE Inv
  OBVIOUS
<1>1. DiskOK
  <2>1. lines = <<>> /\ lines \in Seq(ToSet(lines)) /\ synced \in 0 .. Len(lines)
    BY DEF Init
  <2>2. copies \in [Digests -> CopyStates] /\ partials \in [Digests -> {"none", "torn", "whole"}]
    BY DEF Init, CopyStates
  <2>3. files \in [Files -> Contents \cup {Missing}] /\ torn \in BOOLEAN
    BY DEF Init
  <2>4. QED
    BY <2>1, <2>2, <2>3 DEF DiskOK
<1>2. SignersOK
  BY DEF Init, SignersOK, PCs, Unbound, Bindings
<1>3. ChecksOK
  <2>1. NoCheck \in Checks
    BY DEF NoCheck, Checks, CheckPCs, Unbound, Bindings
  <2>2. QED
    BY <2>1 DEF Init, ChecksOK
<1>4. Parses(lines)
  BY DEF Init, Parses
<1>5. ASSUME NEW p \in Signers PROVE SignerInv(p)
  BY NoOneAssumption DEF Init, SignerInv, HasContent, Inside, NoCall
<1>6. QED
  BY <1>1, <1>2, <1>3, <1>4, <1>5 DEF Inv, TypeOK

(* Every step of the system keeps the invariant: one fact per action. *)
LEMMA NextInv == Inv /\ [Next]_vars => Inv'
<1> SUFFICES ASSUME Inv, [Next]_vars PROVE Inv'
  OBVIOUS
<1>1. ASSUME NEW p \in Signers, RefuseUnattended(p) \/ Begin(p) \/ SignerStep(p) PROVE Inv'
  BY <1>1, RefuseUnattendedInv, BeginInv, LockInv, ReadLedgerInv, ReadContentInv,
     ReadBoundInv, ShowInv, ConfirmInv, DeclineInv, LookForCopyInv, BeginPartialInv,
     EndPartialInv, RenameInv, BeginWriteInv, EndWriteInv, SyncInv DEF SignerStep
<1>2. ASSUME NEW c \in Checkers, Ask(c) \/ CheckStep(c) PROVE Inv'
  BY <1>2, CheckStepInv
<1>3. CASE Environment
  BY <1>3, EditInv, MeddleInv, WriteBackInv, KillInv, LosePowerInv, RestoreInv
  DEF Environment
<1>4. CASE UNCHANGED vars
  <2>1. DiskOK' /\ Parses(lines)' /\ lines' = lines /\ torn' = torn
    BY <1>4, DiskStays DEF vars, diskVars, ledgerVars, Inv, TypeOK
  <2>2. SignersOK' /\ \A q \in Signers : SignerInv(q)'
    BY <1>4, <2>1, SignersRest DEF vars, signerVars, Inv, TypeOK, SignersOK
  <2>3. ChecksOK'
    BY <1>4, ChecksStay DEF vars, historyVars, Inv, TypeOK
  <2>4. QED
    BY <2>1, <2>2, <2>3 DEF Inv, TypeOK
<1>5. CASE Rest
  BY <1>4, <1>5 DEF Rest
<1>6. QED
  BY <1>1, <1>2, <1>3, <1>4, <1>5 DEF Next

(* The inductive invariant holds in every reachable state, whatever the     *)
(* constants.                                                               *)
THEOREM InvHolds == Spec => []Inv
<1>1. QED
  BY InitInv, NextInv, PTL DEF Spec

(* Every variable always holds a value of its kind. *)
THEOREM TypesHold == Spec => []TypeOK
<1>1. Inv => TypeOK
  BY DEF Inv
<1>2. QED
  BY <1>1, InvHolds, PTL

(* However many signers work at once, and wherever they are killed or the   *)
(* power fails, the whole lines of the ledger parse: the lock of _append,   *)
(* held from before the ledger is read until the line is on disk, is enough *)
(* for every line to follow the one before.                                 *)
THEOREM ChainAlwaysHolds == Spec => []ChainHolds
<1>1. Inv => ChainHolds
  BY DEF Inv, ChainHolds
<1>2. QED
  BY <1>1, InvHolds, PTL

(* What a person is asked to confirm is never stale: between parsing the    *)
(* ledger and writing its line a signer alone holds the lock, and the lines *)
(* it read are still the ledger.                                            *)
THEOREM SeenStaysCurrent == Spec => []SeenIsCurrent
<1>1. Inv => SeenIsCurrent
  BY DEF Inv, SeenIsCurrent, SignerInv, Inside
<1>2. QED
  BY <1>1, InvHolds, PTL

-----------------------------------------------------------------------------
(* What people confirmed, what callers were told and what checks answer *)

(* A person has confirmed the line that will be written. *)
Sealed == {"keep", "partial", "rename", "write", "writing"}

(* A person has been shown it. *)
Shown == Sealed \cup {"confirm"}

(* The line would sign again what its artifact's newest line signs. *)
Repeats(p) ==
  LET n == Standing(p)
  IN  /\ call[p].kind = "record" /\ n # 0
      /\ seen[p][n].sha256 = Sha(content[p]) /\ seen[p][n].bound = bound[p]

(* What a signer late in its call has behind it. *)
LateInv(p) ==
  /\ pc[p] \in Sealed \cup {"sync"} => LineOf(p) \in confirmed
  /\ pc[p] \in Shown => ~ Repeats(p)
  /\ pc[p] = "sync" => \E n \in 1 .. Len(lines) : lines[n] = LineOf(p)

(* Where the returned lines are is what a power loss tells apart: among the *)
(* lines known to be on disk.                                               *)
HistoryInv ==
  /\ \A n \in 1 .. Len(lines) : lines[n] \in confirmed
  /\ \A line \in returned : \E n \in 1 .. synced : lines[n] = line
  /\ \A p \in Signers : LateInv(p)

-----------------------------------------------------------------------------
(* Frames *)

(* What q shows and writes is settled: it was before, or Show settles it. *)
Settles(q) ==
  pc'[q] \in Shown \cup {"sync"} =>
    /\ call'[q] = call[q] /\ seen'[q] = seen[q]
    /\ content'[q] = content[q] /\ bound'[q] = bound[q]
    /\ pc'[q] \in Sealed => pc[q] \in Sealed
    /\ pc'[q] = "sync" => pc[q] = "sync"
    /\ pc'[q] = "confirm" => pc[q] = "confirm" \/ ~ Repeats(q)

Quiet ==
  /\ UNCHANGED <<lines, synced, confirmed, returned>>
  /\ \A q \in Signers : Settles(q)

(* A step that neither confirms, writes, returns nor loses a line keeps the *)
(* history.                                                                 *)
LEMMA QuietKeeps == ASSUME HistoryInv, Quiet PROVE HistoryInv'
<1>1. ASSUME NEW p \in Signers PROVE LateInv(p)'
  <2>1. LateInv(p) /\ Settles(p) /\ lines' = lines /\ confirmed' = confirmed
    BY DEF HistoryInv, Quiet
  <2>2. pc'[p] \in Shown \cup {"sync"} => LineOf(p)' = LineOf(p) /\ (Repeats(p)' <=> Repeats(p))
    BY <2>1 DEF Settles, LineOf, Repeats, Standing
  <2>3. QED
    BY <2>1, <2>2 DEF LateInv, Settles, Sealed, Shown
<1>2. QED
  BY <1>1 DEF HistoryInv, Quiet

(* Leaving settles nothing and disturbs nobody. *)
LEMMA LeaveSettles ==
  ASSUME SignersOK, NEW p \in Signers, Leave(p) PROVE \A q \in Signers : Settles(q)
BY DEF SignersOK, Leave, Goto, Settles, Sealed, Shown

(* A step that leaves every signer where it is settles nothing new. *)
LEMMA RestSettles == ASSUME UNCHANGED signerVars PROVE \A q \in Signers : Settles(q)
BY DEF signerVars, Settles, Sealed, Shown

(* The steps of a signer that are quiet. *)
LEMMA SignerQuiet ==
  ASSUME Inv, NEW p \in Signers,
         \/ RefuseUnattended(p) \/ Begin(p) \/ Lock(p) \/ ReadLedger(p) \/ ReadContent(p)
         \/ ReadBound(p) \/ Show(p) \/ Decline(p) \/ LookForCopy(p) \/ BeginPartial(p)
         \/ EndPartial(p) \/ Rename(p) \/ BeginWrite(p) \/ Kill(p)
  PROVE  Quiet
<1>1. UNCHANGED <<lines, synced, confirmed, returned>>
  BY DEF RefuseUnattended, Begin, Lock, ReadLedger, ReadContent, ReadBound, Show, Decline,
     LookForCopy, BeginPartial, EndPartial, Rename, BeginWrite, Kill, diskVars, ledgerVars,
     historyVars
<1> USE DEF Inv, TypeOK
<1> SUFFICES ASSUME NEW q \in Signers PROVE Settles(q)
  BY <1>1 DEF Quiet
<1>2. CASE Leave(p)
  BY <1>2, LeaveSettles
<1>3. CASE RefuseUnattended(p) \/ EndPartial(p)
  BY <1>3, RestSettles DEF RefuseUnattended, EndPartial
<1>4. CASE Begin(p) \/ Lock(p)
  BY <1>4 DEF Begin, Lock, SignersOK, Goto, Settles, Sealed, Shown
<1>5. CASE ReadLedger(p) /\ ~ Leave(p)
  BY <1>5 DEF ReadLedger, SignersOK, Goto, Settles, Sealed, Shown
<1>6. CASE ReadContent(p) /\ ~ Leave(p)
  BY <1>6 DEF ReadContent, SignersOK, Goto, Settles, Sealed, Shown
<1>7. CASE ReadBound(p) /\ ~ Leave(p)
  BY <1>7 DEF ReadBound, SignersOK, Settles, Sealed, Shown
<1>8. CASE Show(p) /\ ~ Leave(p)
  BY <1>8 DEF Show, SignersOK, Goto, Settles, Sealed, Shown, Refuses, Repeats
<1>9. CASE LookForCopy(p) /\ ~ Leave(p)
  BY <1>9 DEF LookForCopy, SignersOK, Goto, Settles, Sealed, Shown
<1>10. CASE BeginPartial(p) \/ Rename(p) \/ BeginWrite(p)
  BY <1>10 DEF BeginPartial, Rename, BeginWrite, SignersOK, Goto, Settles, Sealed, Shown
<1>11. QED
  BY <1>2, <1>3, <1>4, <1>5, <1>6, <1>7, <1>8, <1>9, <1>10 DEF Decline, Kill

(* Checks, and what happens to other files, are quiet. *)
LEMMA OthersQuiet ==
  ASSUME \/ \E c \in Checkers : Ask(c) \/ CheckStep(c)
         \/ \E f \in Files : Edit(f)
         \/ \E d \in Digests : Meddle(d) \/ WriteBack(d)
         \/ Restore \/ Rest \/ UNCHANGED vars
  PROVE  Quiet
<1>1. UNCHANGED signerVars /\ UNCHANGED <<lines, synced, confirmed, returned>>
  BY DEF Ask, CheckStep, CheckLedger, CheckKept, CheckContent, CheckBound, CheckDone, Edit,
     Meddle, WriteBack, Restore, Rest, vars, diskVars, ledgerVars, historyVars
<1>2. QED
  BY <1>1, RestSettles DEF Quiet

(* Every step is quiet, or confirms, writes, returns or loses lines. *)
LEMMA StepKinds ==
  ASSUME Inv, [Next]_vars
  PROVE  \/ Quiet \/ LosePower
         \/ \E p \in Signers : Confirm(p) \/ EndWrite(p) \/ Sync(p)
BY SignerQuiet, OthersQuiet DEF Next, SignerStep, Environment

-----------------------------------------------------------------------------
(* The four steps that are not quiet *)

(* Confirming adds the line to what was confirmed. *)
LEMMA ConfirmHistory ==
  ASSUME Inv, HistoryInv, NEW p \in Signers, Confirm(p) PROVE HistoryInv'
<1>1. /\ pc[p] = "confirm" /\ confirmed' = confirmed \cup {LineOf(p)}
      /\ UNCHANGED <<lines, synced, call, seen, content, bound, returned>>
      /\ pc'[p] \in Sealed /\ \A q \in Signers \ {p} : pc'[q] = pc[q]
  BY DEF Confirm, diskVars, ledgerVars, Goto, Sealed, Inv, TypeOK, SignersOK
<1>2. ASSUME NEW q \in Signers PROVE LateInv(q)'
  <2>1. LateInv(q) /\ LineOf(q)' = LineOf(q) /\ (Repeats(q)' <=> Repeats(q))
    BY <1>1 DEF HistoryInv, LineOf, Repeats, Standing
  <2>2. CASE q = p
    BY <1>1, <2>1, <2>2 DEF LateInv, Sealed, Shown
  <2>3. CASE q # p
    BY <1>1, <2>1, <2>3 DEF LateInv
  <2>4. QED
    BY <2>2, <2>3
<1>3. QED
  BY <1>1, <1>2 DEF HistoryInv

(* Writing adds the confirmed line after the others, which stay in place. *)
LEMMA EndWriteHistory ==
  ASSUME Inv, HistoryInv, NEW p \in Signers, EndWrite(p) PROVE HistoryInv'
<1>1. /\ pc[p] = "writing" /\ lines' = Append(lines, LineOf(p))
      /\ UNCHANGED <<synced, call, seen, content, bound, confirmed, returned>>
      /\ pc'[p] = "sync" /\ \A q \in Signers \ {p} : pc'[q] = pc[q]
  BY DEF EndWrite, Goto, Inv, TypeOK, SignersOK
<1>2. /\ lines \in Seq(ToSet(lines)) /\ Len(lines) \in Nat /\ synced \in 0 .. Len(lines)
  BY DEF Inv, TypeOK, DiskOK
<1>3. /\ Len(lines') = Len(lines) + 1
      /\ \A n \in 1 .. Len(lines) : lines'[n] = lines[n]
      /\ lines'[Len(lines) + 1] = LineOf(p)
  BY <1>1, <1>2
<1>4. LineOf(p) \in confirmed
  BY <1>1 DEF HistoryInv, LateInv, Sealed
<1>5. ASSUME NEW n \in 1 .. Len(lines') PROVE lines'[n] \in confirmed'
  <2>1. n \in 1 .. Len(lines) \/ n = Len(lines) + 1
    BY <1>2, <1>3
  <2>2. QED
    BY <1>1, <1>3, <1>4, <2>1 DEF HistoryInv
<1>6. ASSUME NEW line \in returned' PROVE \E n \in 1 .. synced' : lines'[n] = line
  <2>1. PICK n \in 1 .. synced : lines[n] = line
    BY <1>1 DEF HistoryInv
  <2>2. n \in 1 .. Len(lines)
    BY <1>2
  <2>3. QED
    BY <1>1, <1>3, <2>1, <2>2
<1>7. ASSUME NEW q \in Signers PROVE LateInv(q)'
  <2>1. LateInv(q) /\ LineOf(q)' = LineOf(q) /\ (Repeats(q)' <=> Repeats(q))
    BY <1>1 DEF HistoryInv, LineOf, Repeats, Standing
  <2>2. CASE q = p
    <3>1. Len(lines) + 1 \in 1 .. Len(lines')
      BY <1>2, <1>3
    <3>2. QED
      BY <1>1, <1>3, <1>4, <2>1, <2>2, <3>1 DEF LateInv, Sealed, Shown
  <2>3. CASE q # p
    <3>1. pc[q] = "sync" => \E n \in 1 .. Len(lines') : lines'[n] = LineOf(q)
      BY <1>2, <1>3, <2>1 DEF LateInv
    <3>2. QED
      BY <1>1, <2>1, <2>3, <3>1 DEF LateInv
  <2>4. QED
    BY <2>2, <2>3
<1>8. QED
  BY <1>5, <1>6, <1>7 DEF HistoryInv

(* A line that is returned has just been put on disk, with all before it. *)
LEMMA SyncHistory ==
  ASSUME Inv, HistoryInv, NEW p \in Signers, Sync(p) PROVE HistoryInv'
<1>1. /\ pc[p] = "sync" /\ synced' = Len(lines) /\ returned' = returned \cup {LineOf(p)}
      /\ UNCHANGED <<lines, confirmed>> /\ Leave(p)
  BY DEF Sync
<1>2. synced \in 0 .. Len(lines) /\ Len(lines) \in Nat
  BY DEF Inv, TypeOK, DiskOK
<1>3. ASSUME NEW line \in returned' PROVE \E n \in 1 .. synced' : lines'[n] = line
  <2>1. CASE line \in returned
    BY <1>1, <1>2, <2>1 DEF HistoryInv
  <2>2. CASE line = LineOf(p)
    BY <1>1, <2>2 DEF HistoryInv, LateInv
  <2>3. QED
    BY <1>1, <2>1, <2>2
<1>4. ASSUME NEW q \in Signers PROVE LateInv(q)'
  <2>1. LateInv(q) /\ Settles(q)
    BY <1>1, LeaveSettles DEF HistoryInv, Inv, TypeOK
  <2>2. pc'[q] \in Shown \cup {"sync"} => LineOf(q)' = LineOf(q) /\ (Repeats(q)' <=> Repeats(q))
    BY <2>1 DEF Settles, LineOf, Repeats, Standing
  <2>3. QED
    BY <1>1, <2>1, <2>2 DEF LateInv, Settles, Sealed, Shown
<1>5. QED
  BY <1>1, <1>3, <1>4 DEF HistoryInv

(* A power loss ends every call and keeps what was known to be on disk. *)
LEMMA LosePowerHistory == ASSUME Inv, HistoryInv, LosePower PROVE HistoryInv'
<1>1. PICK n \in synced .. Len(lines) : lines' = SubSeq(lines, 1, n) /\ synced' = n
  BY DEF LosePower
<1>2. synced \in 0 .. Len(lines) /\ Len(lines) \in Nat /\ lines \in Seq(ToSet(lines))
  BY DEF Inv, TypeOK, DiskOK
<1>3. Len(lines') = n /\ \A m \in 1 .. n : lines'[m] = lines[m]
  BY <1>1, <1>2
<1>4. ASSUME NEW line \in returned' PROVE \E m \in 1 .. synced' : lines'[m] = line
  <2>1. PICK m \in 1 .. synced : lines[m] = line
    BY DEF LosePower, HistoryInv
  <2>2. QED
    BY <1>1, <1>2, <1>3, <2>1
<1>5. \A m \in 1 .. Len(lines') : lines'[m] \in confirmed'
  BY <1>1, <1>2, <1>3 DEF LosePower, HistoryInv
<1>6. \A p \in Signers : LateInv(p)'
  BY DEF LosePower, LateInv, Sealed, Shown
<1>7. QED
  BY <1>4, <1>5, <1>6 DEF HistoryInv

(* Every step keeps the history, given the invariant of SignoffProofs. *)
LEMMA NextHistory == Inv /\ HistoryInv /\ [Next]_vars => HistoryInv'
BY StepKinds, QuietKeeps, ConfirmHistory, EndWriteHistory, SyncHistory, LosePowerHistory

(* Before anything happens nothing is written, confirmed or returned. *)
LEMMA InitHistory == Init => HistoryInv
BY DEF Init, HistoryInv, LateInv, Sealed, Shown

(* The history is kept in every reachable state. *)
THEOREM HistoryHolds == Spec => []HistoryInv
<1>1. QED
  BY InitHistory, NextHistory, InvHolds, PTL DEF Spec

(* Every line of the ledger is, field for field, one that a person was      *)
(* shown and confirmed: what record and revoke read before they ask is what *)
(* they write, whatever happens to the files and the ledger while the       *)
(* person reads.                                                            *)
THEOREM OnlyConfirmedHolds == Spec => []OnlyConfirmed
<1>1. Inv /\ HistoryInv => OnlyConfirmed
  BY DEF Inv, TypeOK, DiskOK, HistoryInv, OnlyConfirmed, ToSet
<1>2. QED
  BY <1>1, InvHolds, HistoryHolds, PTL

(* A line that record or revoke returned stays in the ledger through every  *)
(* kill and power loss, since the fsync of _append covers it and every line *)
(* before it.                                                               *)
THEOREM ReturnedSurviveHolds == Spec => []ReturnedSurvive
<1>1. Inv /\ HistoryInv => ReturnedSurvive
  <2> SUFFICES ASSUME Inv, HistoryInv, NEW line \in returned PROVE line \in ToSet(lines)
    BY DEF ReturnedSurvive
  <2>1. PICK n \in 1 .. synced : lines[n] = line
    BY DEF HistoryInv
  <2>2. n \in 1 .. Len(lines)
    BY DEF Inv, TypeOK, DiskOK
  <2>3. QED
    BY <2>1, <2>2 DEF ToSet
<1>2. QED
  BY <1>1, InvHolds, HistoryHolds, PTL

-----------------------------------------------------------------------------
(* Kept copies *)

Kept == {"cached", "whole"}

Undisturbed == used.losses = 0 /\ used.edits = 0

(* While nobody disturbs them, copies are whole, those of signed contents   *)
(* are there, and so is that of a sign-off about to be written.             *)
KeptInv ==
  Undisturbed =>
    /\ \A d \in Digests : copies[d] \in Kept \cup {"none"}
    /\ \A n \in 1 .. Len(lines) : lines[n].sha256 # Null => copies[lines[n].sha256] \in Kept
    /\ \A p \in Signers :
         pc[p] \in {"write", "writing"} /\ call[p].kind = "record" =>
           copies[Sha(content[p])] \in Kept

(* A power loss or an edit ends the undisturbed time for good. *)
LEMMA DisturbedStays == ASSUME Inv, [Next]_vars, Undisturbed' PROVE Undisturbed
<1>1. used \in [{"calls", "checks", "edits", "kills", "losses"} -> Nat]
  BY DEF Inv, TypeOK, ChecksOK
<1>2. UNCHANGED used \/ \E k \in {"calls", "checks", "edits", "kills", "losses"} : Use(k)
  BY DEF Next, SignerStep, CheckStep, Environment, vars, RefuseUnattended, Begin, Lock, ReadLedger,
     ReadContent, ReadBound, Show, Confirm, Decline, LookForCopy, BeginPartial, EndPartial, Rename,
     BeginWrite, EndWrite, Sync, Ask, CheckLedger, CheckKept, CheckContent, CheckBound, CheckDone,
     Edit, Meddle, WriteBack, Kill, LosePower, Restore, Rest
<1>3. QED
  BY <1>1, <1>2 DEF Undisturbed, Use

(* Nothing undisturbed is edited, meddled with or lost. *)
LEMMA UndisturbedSteps ==
  ASSUME Inv, Undisturbed'
  PROVE  /\ ~ LosePower
         /\ \A f \in Files : ~ Edit(f)
         /\ \A d \in Digests : ~ Meddle(d)
<1>1. used \in [{"calls", "checks", "edits", "kills", "losses"} -> Nat]
  BY DEF Inv, TypeOK, ChecksOK
<1>2. ~ Use("losses") /\ ~ Use("edits")
  BY <1>1 DEF Undisturbed, Use
<1>3. QED
  BY <1>2 DEF LosePower, Edit, Meddle

(* What a signer about to write relies on, and how its step changes copies. *)
Relies(q) ==
  pc'[q] \in {"write", "writing"} /\ call'[q].kind = "record" =>
    /\ content'[q] = content[q] /\ call'[q] = call[q]
    /\ pc[q] \in {"write", "writing"} \/ copies'[Sha(content[q])] \in Kept

(* A step keeps the copies it must keep. *)
LEMMA KeptFrame ==
  ASSUME KeptInv, Undisturbed, lines' = lines,
         \A d \in Digests : \/ copies'[d] = copies[d]
                            \/ copies'[d] \in Kept,
         \A n \in 1 .. Len(lines) : lines[n].sha256 # Null => lines[n].sha256 \in Digests,
         \A q \in Signers : call[q].kind = "record" /\ pc[q] \in {"write", "writing"} =>
           Sha(content[q]) \in Digests,
         \A q \in Signers : Relies(q)
  PROVE  KeptInv'
BY DEF KeptInv, Undisturbed, Relies, Kept

(* Every step keeps the copies of what is signed while nobody disturbs them. *)
LEMMA NextKept ==
  ASSUME Inv, KeptInv, [Next]_vars
  PROVE  KeptInv'
<1>0. SUFFICES ASSUME Undisturbed' PROVE KeptInv'
  BY DEF KeptInv
<1>1. Undisturbed
  BY <1>0, DisturbedStays
<1>2. /\ ~ LosePower
      /\ \A f \in Files : ~ Edit(f)
      /\ \A d \in Digests : ~ Meddle(d)
  BY <1>0, UndisturbedSteps
<1>3. \A n \in 1 .. Len(lines) : lines[n].sha256 # Null => lines[n].sha256 \in Digests
  BY DEF Inv, TypeOK, DiskOK, WellFormed
<1>4. \A q \in Signers : call[q].kind = "record" /\ pc[q] \in {"write", "writing", "keep", "rename"} =>
        Sha(content[q]) \in Digests
  BY DEF Inv, SignerInv, HasContent, Digests
<1>5. copies \in [Digests -> CopyStates] /\ SignersOK
  BY DEF Inv, TypeOK, DiskOK
<1>6. ASSUME NEW p \in Signers, RefuseUnattended(p) \/ Begin(p) \/ SignerStep(p) \/ Kill(p)
      PROVE  KeptInv'
  <2>1. CASE \/ RefuseUnattended(p) \/ Begin(p) \/ Lock(p) \/ ReadLedger(p) \/ ReadContent(p)
            \/ ReadBound(p) \/ Show(p) \/ Confirm(p) \/ Decline(p) \/ BeginPartial(p)
            \/ EndPartial(p) \/ BeginWrite(p) \/ Sync(p) \/ Kill(p)
    <3>1. lines' = lines /\ copies' = copies
      BY <2>1 DEF RefuseUnattended, Begin, Lock, ReadLedger, ReadContent, ReadBound, Show, Confirm,
         Decline, BeginPartial, EndPartial, BeginWrite, Sync, Kill, diskVars, ledgerVars
    <3>2. ASSUME NEW q \in Signers PROVE Relies(q)
      <4>1. CASE Leave(p)
        BY <1>5, <4>1 DEF Leave, Goto, SignersOK, Relies
      <4>2. CASE RefuseUnattended(p) \/ EndPartial(p)
        BY <4>2 DEF RefuseUnattended, EndPartial, signerVars, Relies
      <4>3. CASE (Begin(p) \/ Lock(p) \/ BeginPartial(p) \/ BeginWrite(p)) /\ ~ Leave(p)
        BY <1>5, <4>3 DEF Begin, Lock, BeginPartial, BeginWrite, Goto, SignersOK, Relies
      <4>4. CASE ReadLedger(p) /\ ~ Leave(p)
        BY <1>5, <4>4 DEF ReadLedger, Goto, SignersOK, Relies
      <4>5. CASE ReadContent(p) /\ ~ Leave(p)
        BY <1>5, <4>5 DEF ReadContent, Goto, SignersOK, Relies
      <4>6. CASE (ReadBound(p) \/ Show(p)) /\ ~ Leave(p)
        BY <1>5, <4>6 DEF ReadBound, Show, Goto, SignersOK, Relies
      <4>7. CASE Confirm(p) /\ ~ Leave(p)
        BY <1>5, <4>7 DEF Confirm, Goto, SignersOK, Relies
      <4>8. QED
        BY <2>1, <4>1, <4>2, <4>3, <4>4, <4>5, <4>6, <4>7 DEF Decline, Kill, Sync
    <3>3. QED
      BY <1>1, <1>3, <1>4, <3>1, <3>2, KeptFrame
  <2>2. CASE LookForCopy(p)
    <3>1. lines' = lines /\ copies' = copies /\ pc[p] = "keep" /\ Sha(content[p]) \in Digests
      BY <1>4, <2>2 DEF LookForCopy, diskVars, ledgerVars, Inv, SignerInv
    <3>2. copies[Sha(content[p])] = "none" \/ copies[Sha(content[p])] \in Kept
      BY <1>1, <3>1 DEF KeptInv
    <3>3. \A q \in Signers : Relies(q)
      <4>1. CASE Leave(p)
        BY <1>5, <4>1 DEF Leave, Goto, SignersOK, Relies
      <4>2. CASE ~ Leave(p)
        BY <1>5, <2>2, <3>1, <3>2, <4>2 DEF LookForCopy, Goto, SignersOK, Relies
      <4>3. QED
        BY <4>1, <4>2
    <3>4. QED
      BY <1>1, <1>3, <1>4, <3>1, <3>3, KeptFrame
  <2>3. CASE Rename(p)
    <3>1. lines' = lines /\ pc[p] = "rename" /\ copies' = [copies EXCEPT ![Sha(content[p])] = "cached"]
          /\ Sha(content[p]) \in Digests
      BY <1>4, <2>3 DEF Rename, ledgerVars, Inv, SignerInv
    <3>2. \A q \in Signers : Relies(q)
      BY <1>5, <2>3, <3>1 DEF Rename, Goto, SignersOK, Relies, Kept
    <3>3. \A d \in Digests : copies'[d] = copies[d] \/ copies'[d] \in Kept
      BY <1>5, <3>1 DEF Kept
    <3>4. QED
      BY <1>1, <1>3, <1>4, <3>1, <3>2, <3>3, KeptFrame
  <2>4. CASE EndWrite(p)
    <3>1. /\ pc[p] = "writing" /\ lines' = Append(lines, LineOf(p)) /\ lines \in Seq(ToSet(lines))
          /\ UNCHANGED <<copies, call, content>>
          /\ \A q \in Signers : pc'[q] \in {"write", "writing"} => pc'[q] = pc[q]
      BY <2>4 DEF EndWrite, Goto, Inv, TypeOK, DiskOK, SignersOK
    <3>2. LineOf(p).sha256 # Null => copies[LineOf(p).sha256] \in Kept
      BY <1>1, <3>1 DEF KeptInv, LineOf
    <3>3. \A n \in 1 .. Len(lines') :
            (n \in 1 .. Len(lines) /\ lines'[n] = lines[n]) \/ lines'[n] = LineOf(p)
      BY <3>1
    <3>4. \A n \in 1 .. Len(lines') : lines'[n].sha256 # Null => copies'[lines'[n].sha256] \in Kept
      BY <1>1, <3>1, <3>2, <3>3 DEF KeptInv
    <3>5. QED
      BY <1>1, <3>1, <3>4 DEF KeptInv
  <2>5. QED
    BY <1>6, <2>1, <2>2, <2>3, <2>4 DEF SignerStep
<1>7. ASSUME lines' = lines, UNCHANGED signerVars,
             \A d \in Digests : copies'[d] = copies[d] \/ copies'[d] \in Kept
      PROVE  KeptInv'
  <2>1. \A q \in Signers : Relies(q)
    BY <1>7 DEF signerVars, Relies
  <2>2. QED
    BY <1>1, <1>3, <1>4, <1>7, <2>1, KeptFrame
<1>8. ASSUME NEW c \in Checkers, Ask(c) \/ CheckStep(c) PROVE KeptInv'
  BY <1>7, <1>8 DEF Ask, CheckStep, CheckLedger, CheckKept, CheckContent, CheckBound, CheckDone,
     diskVars, ledgerVars
<1>9. ASSUME NEW d \in Digests, WriteBack(d) PROVE KeptInv'
  BY <1>5, <1>7, <1>9 DEF WriteBack, ledgerVars, Kept
<1>10. CASE Restore
  BY <1>7, <1>10 DEF Restore
<1>11. CASE UNCHANGED vars
  BY <1>7, <1>11 DEF vars, diskVars, ledgerVars
<1>12. CASE Rest
  BY <1>11, <1>12 DEF Rest
<1>13. CASE Environment
  BY <1>2, <1>6, <1>9, <1>10, <1>13 DEF Environment
<1>14. QED
  BY <1>6, <1>8, <1>11, <1>12, <1>13 DEF Next

(* While nothing else touches the kept copies and the power holds, each     *)
(* content the ledger signs is kept, whole, though a signer may be killed   *)
(* at any step: _append puts the copy in place before it writes the line.   *)
THEOREM SignedIsKeptHolds == Spec => []SignedIsKept
<1>1. Init => KeptInv
  BY DEF Init, KeptInv, Kept
<1>2. KeptInv => SignedIsKept
  BY DEF KeptInv, Undisturbed, SignedIsKept, Kept
<1>3. QED
  BY <1>1, <1>2, NextKept, InvHolds, PTL DEF Spec

-----------------------------------------------------------------------------
(* Checks that nothing disturbs *)

(* What a checker remembers of the ledger is the sign-off that stands. *)
Compared(c) ==
  LET n == Newest(lines, check[c].artifact)
  IN  /\ ~ torn /\ Parses(lines) /\ n # 0 /\ ~ Revokes(lines[n])
      /\ check[c].sha256 = lines[n].sha256 /\ check[c].bound = lines[n].bound

(* What a calm check has found so far is what there is. *)
CalmAt(c) ==
  /\ check[c].pc # "idle" => check[c].answer = "none"
  /\ calm[c] =>
       /\ check[c].pc \in {"kept", "content", "bound"} => Compared(c)
       /\ check[c].pc \in {"content", "bound"} => ~ BadCopy(copies[check[c].sha256])
       /\ check[c].pc \in {"ledger", "kept", "content"} => ~ check[c].changed
       /\ check[c].pc = "bound" =>
            /\ Sha(files[PathOf[check[c].artifact]]) = check[c].sha256
            /\ \A f \in check[c].todo : check[c].bound[f] # Null
            /\ check[c].changed <=>
                 \E f \in Files \ check[c].todo :
                   check[c].bound[f] # Null /\ check[c].bound[f] # Sha(files[f])

(* A step that changes nothing a check reads, or writes copies back. *)
Still ==
  /\ UNCHANGED <<lines, torn, files, check, calm>>
  /\ \A d \in Digests : BadCopy(copies'[d]) <=> BadCopy(copies[d])

(* Whatever is not a step of a check leaves it still, or is known to it. *)
LEMMA StillOrDisturb ==
  ASSUME Inv, [Next]_vars
  PROVE  \/ Still
         \/ Disturb /\ (UNCHANGED check \/ check' = [c \in Checkers |-> NoCheck])
         \/ \E c \in Checkers : Ask(c) \/ CheckStep(c)
<1>0. copies \in [Digests -> CopyStates]
  BY DEF Inv, TypeOK, DiskOK
<1>1. ASSUME NEW p \in Signers, RefuseUnattended(p) \/ Begin(p) \/ SignerStep(p)
      PROVE  Still \/ (Disturb /\ UNCHANGED check)
  BY <1>1 DEF SignerStep, RefuseUnattended, Begin, Lock, ReadLedger, ReadContent, ReadBound, Show,
     Confirm, Decline, LookForCopy, BeginPartial, EndPartial, Rename, BeginWrite, EndWrite, Sync,
     Still, diskVars, ledgerVars, historyVars
<1>2. ASSUME NEW d \in Digests, WriteBack(d) PROVE Still
  BY <1>0, <1>2 DEF WriteBack, Still, ledgerVars, historyVars, BadCopy
<1>3. ASSUME NEW p \in Signers, Kill(p) PROVE Still
  BY <1>3 DEF Kill, Still, diskVars, ledgerVars, historyVars
<1>4. CASE UNCHANGED vars
  BY <1>4 DEF vars, Still, diskVars, ledgerVars, historyVars
<1>5. CASE Environment
  <2>1. ASSUME NEW f \in Files, Edit(f) PROVE Disturb /\ UNCHANGED check
    BY <2>1 DEF Edit
  <2>2. ASSUME NEW d \in Digests, Meddle(d) PROVE Disturb /\ UNCHANGED check
    BY <2>2 DEF Meddle
  <2>3. LosePower => Disturb /\ check' = [c \in Checkers |-> NoCheck]
    BY DEF LosePower
  <2>4. Restore => Disturb /\ UNCHANGED check
    BY DEF Restore
  <2>5. QED
    BY <1>2, <1>3, <1>5, <2>1, <2>2, <2>3, <2>4 DEF Environment
<1>6. CASE Rest
  BY <1>4, <1>6 DEF Rest
<1>7. QED
  BY <1>1, <1>4, <1>5, <1>6 DEF Next

(* What a check compares with is a digest the ledger signs. *)
LEMMA ComparedIsDigest ==
  ASSUME Inv, NEW c \in Checkers, Compared(c) PROVE check[c].sha256 \in Digests
<1> DEFINE n == Newest(lines, check[c].artifact)
<1>1. n \in 1 .. Len(lines) /\ ~ Revokes(lines[n]) /\ check[c].sha256 = lines[n].sha256
  BY NewestIsLast DEF Compared, Inv, TypeOK, DiskOK
<1>2. QED
  BY <1>1 DEF Inv, TypeOK, DiskOK, WellFormed, Revokes

(* A still step keeps every calm check right. *)
LEMMA StillCalm ==
  ASSUME Inv, NEW c \in Checkers, CalmAt(c), Still PROVE CalmAt(c)'
<1>1. Compared(c)' <=> Compared(c)
  BY DEF Still, Compared
<1>2. Compared(c) => (BadCopy(copies'[check[c].sha256]) <=> BadCopy(copies[check[c].sha256]))
  BY ComparedIsDigest DEF Still
<1>3. QED
  BY <1>1, <1>2 DEF CalmAt, Still

(* A step of a check keeps every calm check right. *)
LEMMA CheckCalm ==
  ASSUME Inv, NEW c \in Checkers, Ask(c) \/ CheckStep(c), \A d \in Checkers : CalmAt(d)
  PROVE  \A d \in Checkers : CalmAt(d)'
<1>1. check \in [Checkers -> Checks] /\ calm \in [Checkers -> BOOLEAN]
  BY DEF Inv, TypeOK, ChecksOK
<1>2. UNCHANGED <<lines, torn, copies, files>> /\ \A d \in Checkers \ {c} : calm'[d] = calm[d]
  BY <1>1 DEF Ask, CheckStep, CheckLedger, CheckKept, CheckContent, CheckBound, CheckDone,
     diskVars, ledgerVars, historyVars
<1>3. \A d \in Checkers \ {c} : check'[d] = check[d]
  BY <1>1 DEF Ask, CheckStep, CheckLedger, CheckKept, CheckContent, CheckBound, CheckDone, Answer
<1>4. ASSUME NEW d \in Checkers \ {c} PROVE CalmAt(d)'
  <2>1. Compared(d)' <=> Compared(d)
    BY <1>2, <1>3 DEF Compared
  <2>2. CalmAt(d)
    BY <1>4
  <2>3. QED
    BY <1>2, <1>3, <2>1, <2>2 DEF CalmAt
<1>5. SUFFICES CalmAt(c)'
  BY <1>4
<1>0. CalmAt(c)
  OBVIOUS
<1>6. ASSUME NEW v, Answer(c, v) PROVE CalmAt(c)'
  BY <1>1, <1>6 DEF Answer, CalmAt, NoCheck
<1>7. CASE Ask(c)
  <2>1. PICK a \in Artifacts :
          check' = [check EXCEPT ![c] = [NoCheck EXCEPT !.pc = "ledger", !.artifact = a]]
    BY <1>7 DEF Ask
  <2>2. check'[c].pc = "ledger" /\ check'[c].answer = "none" /\ ~ check'[c].changed
    BY <1>1, <2>1 DEF NoCheck
  <2>3. QED
    BY <2>2 DEF CalmAt
<1>8. CASE CheckLedger(c)
  <2> DEFINE n == Newest(lines, check[c].artifact)
  <2>1. CASE \E v \in Verdicts : Answer(c, v)
    BY <1>6, <2>1
  <2>2. CASE /\ ~ torn /\ Parses(lines) /\ n # 0 /\ ~ Revokes(lines[n])
             /\ check' = [check EXCEPT ![c].pc     = "kept",
                                       ![c].sha256 = lines[n].sha256,
                                       ![c].bound  = lines[n].bound]
    <3>1. /\ check'[c].pc = "kept" /\ check'[c].sha256 = lines[n].sha256
          /\ check'[c].bound = lines[n].bound /\ check'[c].artifact = check[c].artifact
          /\ check'[c].answer = check[c].answer /\ check'[c].changed = check[c].changed
      BY <1>1, <2>2 DEF Checks
    <3>2. Compared(c)' /\ check[c].pc = "ledger" /\ calm' = calm
      BY <1>2, <1>8, <2>2, <3>1 DEF Compared, CheckLedger, historyVars
    <3>3. QED
      BY <1>0, <3>1, <3>2 DEF CalmAt
  <2>3. QED
    BY <1>8, <2>1, <2>2 DEF CheckLedger, Verdicts
<1>9. CASE CheckKept(c)
  <2>1. CASE \E v \in Verdicts : Answer(c, v)
    BY <1>6, <2>1
  <2>2. CASE check' = [check EXCEPT ![c].pc = "content"] /\ ~ BadCopy(copies[check[c].sha256])
    <3>1. /\ check'[c].pc = "content" /\ check'[c].sha256 = check[c].sha256
          /\ check'[c].bound = check[c].bound /\ check'[c].artifact = check[c].artifact
          /\ check'[c].answer = check[c].answer
      BY <1>1, <2>2 DEF Checks
    <3>2. (Compared(c)' <=> Compared(c)) /\ check[c].pc = "kept" /\ calm' = calm
      BY <1>2, <1>9, <3>1 DEF Compared, CheckKept, historyVars
    <3>3. QED
      BY <1>2, <1>0, <2>2, <3>1, <3>2 DEF CalmAt
  <2>3. QED
    BY <1>9, <2>1, <2>2 DEF CheckKept, Verdicts
<1>10. CASE CheckContent(c)
  <2>1. CASE \E v \in Verdicts : Answer(c, v)
    BY <1>6, <2>1
  <2>2. CASE /\ check' = [check EXCEPT ![c].pc   = "bound",
                                       ![c].todo = {f \in Files : check[c].bound[f] # Null}]
             /\ Sha(files[PathOf[check[c].artifact]]) = check[c].sha256
    <3>1. /\ check'[c].pc = "bound" /\ check'[c].sha256 = check[c].sha256
          /\ check'[c].bound = check[c].bound /\ check'[c].artifact = check[c].artifact
          /\ check'[c].answer = check[c].answer /\ check'[c].changed = check[c].changed
          /\ check'[c].todo = {f \in Files : check[c].bound[f] # Null}
      BY <1>1, <2>2 DEF Checks
    <3>2. (Compared(c)' <=> Compared(c)) /\ check[c].pc = "content" /\ calm' = calm
      BY <1>2, <1>10, <3>1 DEF Compared, CheckContent, historyVars
    <3>3. QED
      BY <1>2, <1>0, <2>2, <3>1, <3>2 DEF CalmAt
  <2>3. QED
    BY <1>10, <2>1, <2>2 DEF CheckContent, Verdicts
<1>11. CASE CheckBound(c)
  <2>1. PICK f \in check[c].todo :
          check' = [check EXCEPT ![c].todo    = @ \ {f},
                                 ![c].changed = @ \/ check[c].bound[f] # Sha(files[f])]
    BY <1>11 DEF CheckBound
  <2>2. /\ check'[c].pc = check[c].pc /\ check'[c].sha256 = check[c].sha256
        /\ check'[c].bound = check[c].bound /\ check'[c].artifact = check[c].artifact
        /\ check'[c].answer = check[c].answer
        /\ check'[c].todo = check[c].todo \ {f}
        /\ check'[c].changed <=> check[c].changed \/ check[c].bound[f] # Sha(files[f])
    BY <1>1, <2>1 DEF Checks
  <2>3. (Compared(c)' <=> Compared(c)) /\ check[c].pc = "bound" /\ calm' = calm /\ f \in Files
    BY <1>1, <1>2, <1>11, <2>1, <2>2 DEF Compared, CheckBound, historyVars, Checks
  <2>4. QED
    BY <1>2, <1>0, <2>2, <2>3 DEF CalmAt
<1>12. CASE CheckDone(c)
  BY <1>6, <1>12 DEF CheckDone
<1>13. QED
  BY <1>7, <1>8, <1>9, <1>10, <1>11, <1>12 DEF CheckStep

(* Every step keeps every calm check right. *)
LEMMA NextCalm ==
  ASSUME Inv, [Next]_vars, \A c \in Checkers : CalmAt(c)
  PROVE  \A c \in Checkers : CalmAt(c)'
<1>1. CASE Still
  BY <1>1, StillCalm
<1>2. CASE Disturb /\ (UNCHANGED check \/ check' = [c \in Checkers |-> NoCheck])
  BY <1>2 DEF Disturb, CalmAt, NoCheck
<1>3. ASSUME NEW c \in Checkers, Ask(c) \/ CheckStep(c) PROVE \A d \in Checkers : CalmAt(d)'
  BY <1>3, CheckCalm
<1>4. QED
  BY <1>1, <1>2, <1>3, StillOrDisturb

(* What a calm check answers at each step is what check_signoff documents. *)
LEMMA CalmAnswers ==
  ASSUME Inv, NEW c \in Checkers, CalmAt(c), CheckStep(c), calm[c], check[c].pc # "idle",
         check'[c].answer # "none"
  PROVE  check'[c].answer = Verdict(lines, torn, copies, files, check[c].artifact,
                                    PathOf[check[c].artifact])
<1> DEFINE n == Newest(lines, check[c].artifact)
<1>1. check \in [Checkers -> Checks]
  BY DEF Inv, TypeOK, ChecksOK
<1>2. check[c].answer = "none"
  BY DEF CalmAt
<1>3. \A v : Answer(c, v) => check'[c].answer = v
  BY <1>1 DEF Answer, NoCheck
<1>4. CASE CheckLedger(c)
  <2>1. CASE check' = [check EXCEPT ![c].pc     = "kept",
                                    ![c].sha256 = lines[n].sha256,
                                    ![c].bound  = lines[n].bound]
    BY <1>1, <1>2, <2>1 DEF Checks
  <2>2. QED
    BY <1>3, <1>4, <2>1 DEF CheckLedger, Verdict
<1>5. CASE CheckKept(c)
  <2>1. CASE check' = [check EXCEPT ![c].pc = "content"]
    BY <1>1, <1>2, <2>1 DEF Checks
  <2>2. Compared(c)
    BY <1>5 DEF CheckKept, CalmAt
  <2>3. QED
    BY <1>3, <1>5, <2>1, <2>2 DEF CheckKept, Compared, Verdict
<1>6. CASE CheckContent(c)
  <2>1. CASE check' = [check EXCEPT
            ![c].pc   = "bound",
            ![c].todo = {f \in Files : check[c].bound[f] # Null}]
    BY <1>1, <1>2, <2>1 DEF Checks
  <2>2. Compared(c) /\ ~ BadCopy(copies[check[c].sha256])
    BY <1>6 DEF CheckContent, CalmAt
  <2>3. QED
    BY <1>3, <1>6, <2>1, <2>2 DEF CheckContent, Compared, Verdict
<1>7. CASE CheckBound(c)
  BY <1>1, <1>2, <1>7 DEF CheckBound, Checks
<1>8. CASE CheckDone(c)
  <2>1. /\ Compared(c) /\ ~ BadCopy(copies[check[c].sha256])
        /\ Sha(files[PathOf[check[c].artifact]]) = check[c].sha256
        /\ check[c].changed <=> \E f \in Files : check[c].bound[f] # Null
                                                 /\ check[c].bound[f] # Sha(files[f])
    BY <1>8 DEF CheckDone, CalmAt
  <2>2. check[c].changed <=> BoundChanged(check[c].bound, files) # {}
    BY <2>1 DEF BoundChanged
  <2>3. QED
    BY <1>3, <1>8, <2>1, <2>2 DEF CheckDone, Compared, Verdict
<1>9. QED
  BY <1>4, <1>5, <1>6, <1>7, <1>8 DEF CheckStep

(* A step of one check leaves the others where they are. *)
LEMMA CheckFrame ==
  ASSUME Inv, NEW c \in Checkers, NEW d \in Checkers \ {c}, Ask(d) \/ CheckStep(d)
  PROVE  check'[c] = check[c]
BY DEF Inv, TypeOK, ChecksOK, Ask, CheckStep, CheckLedger, CheckKept, CheckContent, CheckBound,
   CheckDone, Answer

(* A check that nothing disturbs answers what check_signoff documents, in   *)
(* however many steps it reads and whatever others do meanwhile.            *)
THEOREM CalmChecksAreRight == Spec => CalmCheckIsRight
<1>1. Init => \A c \in Checkers : CalmAt(c)
  BY DEF Init, CalmAt, NoCheck
<1>2. ASSUME Inv, \A c \in Checkers : CalmAt(c), [Next]_vars,
             NEW c \in Checkers, calm[c], check[c].pc # "idle", check'[c].answer # "none"
      PROVE  check'[c].answer = Verdict(lines, torn, copies, files, check[c].artifact,
                                        PathOf[check[c].artifact])
  <2>1. check[c].answer = "none"
    BY <1>2 DEF CalmAt
  <2>2. CASE UNCHANGED check \/ check' = [d \in Checkers |-> NoCheck]
    BY <1>2, <2>1, <2>2 DEF NoCheck
  <2>3. ASSUME NEW d \in Checkers \ {c}, Ask(d) \/ CheckStep(d) PROVE FALSE
    BY <1>2, <2>1, <2>3, CheckFrame
  <2>4. CASE CheckStep(c)
    BY <1>2, <2>4, CalmAnswers
  <2>5. ~ Ask(c)
    BY <1>2 DEF Ask
  <2>6. QED
    BY <1>2, <2>2, <2>3, <2>4, <2>5, StillOrDisturb DEF Still
<1>3. Inv /\ (\A c \in Checkers : CalmAt(c)) /\ [Next]_vars =>
        [\A c \in Checkers :
           calm[c] /\ check[c].pc # "idle" /\ check'[c].answer # "none" =>
             check'[c].answer = Verdict(lines, torn, copies, files, check[c].artifact,
                                        PathOf[check[c].artifact])]_vars
  BY <1>2
<1>4. Inv /\ (\A c \in Checkers : CalmAt(c)) /\ [Next]_vars => (\A c \in Checkers : CalmAt(c))'
  BY NextCalm
<1>5. QED
  BY <1>1, <1>3, <1>4, InvHolds, PTL DEF Spec, CalmCheckIsRight

(* A check goes on to compare contents only with a sign-off made after each *)
(* revocation that was returned, and with what that sign-off signed.        *)
THEOREM NoRevokedSignoffHolds == Spec => NoRevokedSignoff
<1> DEFINE Later(line, c) ==
             \E m, n \in 1 .. Len(lines) :
               /\ m < n /\ lines[m] = line
               /\ lines[n].artifact = line.artifact
               /\ lines[n].sha256 = check'[c].sha256 /\ lines[n].bound = check'[c].bound
<1>1. ASSUME Inv, HistoryInv, [Next]_vars, NEW c \in Checkers,
             check[c].pc = "ledger", check'[c].pc = "kept",
             NEW line \in returned, Revokes(line), line.artifact = check[c].artifact
      PROVE  Later(line, c)
  <2> DEFINE n == Newest(lines, check[c].artifact)
  <2>1. check \in [Checkers -> Checks] /\ lines \in Seq(ToSet(lines)) /\ synced \in 0 .. Len(lines)
    BY <1>1 DEF Inv, TypeOK, DiskOK, ChecksOK
  <2>2. CheckLedger(c)
    <3>1. ~ (UNCHANGED check \/ check' = [d \in Checkers |-> NoCheck])
      BY <1>1 DEF NoCheck
    <3>2. ASSUME NEW d \in Checkers \ {c}, Ask(d) \/ CheckStep(d) PROVE FALSE
      BY <1>1, <3>2, CheckFrame
    <3>3. Ask(c) \/ CheckStep(c)
      BY <1>1, <3>1, <3>2, StillOrDisturb DEF Still
    <3>4. QED
      BY <1>1, <3>3 DEF Ask, CheckStep, CheckKept, CheckContent, CheckBound, CheckDone
  <2>3. \A v : ~ Answer(c, v)
    BY <1>1, <2>1 DEF Answer, NoCheck
  <2>4. /\ n # 0 /\ ~ Revokes(lines[n])
        /\ check' = [check EXCEPT ![c].pc     = "kept",
                                  ![c].sha256 = lines[n].sha256,
                                  ![c].bound  = lines[n].bound]
    BY <2>2, <2>3 DEF CheckLedger
  <2>5. check'[c].sha256 = lines[n].sha256 /\ check'[c].bound = lines[n].bound
    BY <2>1, <2>4 DEF Checks
  <2>6. PICK m \in 1 .. synced : lines[m] = line
    BY <1>1 DEF HistoryInv
  <2>7. /\ n \in 1 .. Len(lines) /\ lines[n].artifact = check[c].artifact
        /\ m \in 1 .. Len(lines) /\ m <= n
    BY <1>1, <2>1, <2>4, <2>6, NewestIsLast
  <2>8. m < n
    BY <1>1, <2>4, <2>6, <2>7
  <2>9. QED
    BY <1>1, <2>5, <2>6, <2>7, <2>8
<1>2. Inv /\ HistoryInv /\ [Next]_vars =>
        [\A c \in Checkers : check[c].pc = "ledger" /\ check'[c].pc = "kept" =>
           \A line \in returned :
             Revokes(line) /\ line.artifact = check[c].artifact => Later(line, c)]_vars
  BY <1>1
<1>3. QED
  BY <1>2, InvHolds, HistoryHolds, PTL DEF Spec, NoRevokedSignoff

-----------------------------------------------------------------------------
(* The ledger is the log of SignoffLog: each call takes effect at one       *)
(* moment, when its line is written, and is right about the log as it is    *)
(* then.                                                                    *)

TheLog == [n \in 1 .. Len(lines) |-> EntryOf(lines[n])]

(* The entry that decides for an artifact stands where its newest line does. *)
LEMMA SameNewest ==
  ASSUME lines \in Seq(ToSet(lines)), NEW a
  PROVE  Log!Deciding(a) = Newest(lines, a)
<1>1. /\ Len(lines) \in Nat /\ Len(TheLog) = Len(lines)
      /\ \A n \in 1 .. Len(lines) : TheLog[n].artifact = lines[n].artifact
  BY DEF TheLog, EntryOf
<1>2. {n \in 1 .. Len(TheLog) : TheLog[n].artifact = a}
        = {n \in 1 .. Len(lines) : lines[n].artifact = a}
  BY <1>1
<1> DEFINE I == {n \in 1 .. Len(lines) : lines[n].artifact = a}
<1>3. Newest(lines, a) = IF I # {} THEN Max(I) ELSE 0
  BY DEF Newest, SelectLastInSeq
<1>4. Log!Deciding(a) = IF I # {} THEN Log!Max(I) ELSE 0
  BY <1>2, Zenon DEF Log!Deciding, Log!SelectLastInSeq, TheLog
<1>5. Log!Max(I) = Max(I)
  BY Zenon DEF Log!Max, Max
<1>6. QED
  BY <1>3, <1>4, <1>5, Zenon

(* A step that leaves the lines and what is on disk alone is a stutter. *)
LEMMA QuietStutters == ASSUME UNCHANGED <<lines, synced>> PROVE UNCHANGED Log!logVars
BY DEF Log!logVars

(* Writing a line is a sign-off or a revocation, allowed by the log as it is. *)
LEMMA EndWriteSigns ==
  ASSUME Inv, HistoryInv, NEW p \in Signers, EndWrite(p) PROVE Log!LogNext
<1> DEFINE line == LineOf(p)
           entry == EntryOf(line)
           n == Newest(lines, call[p].artifact)
<1>1. /\ pc[p] = "writing" /\ lines' = Append(lines, line) /\ synced' = synced
      /\ lines \in Seq(ToSet(lines))
  BY DEF EndWrite, Inv, TypeOK, DiskOK
<1>2. /\ call[p] \in Requests /\ seen[p] = lines /\ bound[p] \in Bindings
      /\ call[p].kind = "record" => content[p] \in Contents
      /\ call[p].kind = "revoke" => n # 0 /\ ~ Revokes(lines[n])
  BY <1>1 DEF Inv, TypeOK, SignersOK, SignerInv, Inside, HasContent, Standing
<1>3. call[p].kind \in {"record", "revoke"} /\ call[p].artifact \in Artifacts
  BY <1>2 DEF Requests
<1>4. ~ Repeats(p)
  BY <1>1 DEF HistoryInv, LateInv, Shown, Sealed
<1>5. /\ entry.artifact = call[p].artifact /\ entry.bound = bound[p]
      /\ entry.sha256 = IF call[p].kind = "record" THEN Sha(content[p]) ELSE Null
      /\ entry = [artifact |-> entry.artifact, sha256 |-> entry.sha256,
                  bound |-> entry.bound, reviewed_by |-> p]
  BY DEF EntryOf, LineOf
<1>6. entry \in [artifact : Artifacts, sha256 : Digests \cup {Null}, bound : Bindings,
                 reviewed_by : Signers]
  <2>1. entry.sha256 \in Digests \cup {Null}
    BY <1>2, <1>3, <1>5 DEF Digests
  <2> HIDE DEF entry
  <2>2. QED
    BY <1>2, <1>3, <1>5, <2>1
<1>7. TheLog' = Append(TheLog, entry)
  <2>1. Len(lines) \in Nat /\ Len(lines') = Len(lines) + 1
        /\ (\A m \in 1 .. Len(lines) : lines'[m] = lines[m]) /\ lines'[Len(lines) + 1] = line
    BY <1>1
  <2>2. QED
    BY <2>1 DEF TheLog
<1>8. Log!Deciding(entry.artifact) = n /\ n \in 0 .. Len(lines)
  BY <1>1, <1>5, SameNewest, NewestIsLast
<1>9. n # 0 => TheLog[n].sha256 = lines[n].sha256 /\ TheLog[n].bound = lines[n].bound
  BY <1>8 DEF TheLog, EntryOf
<1>10. CASE call[p].kind = "record"
  <2>1. entry.sha256 = Sha(content[p]) /\ entry.sha256 # Null
    BY <1>5, <1>10, ShaIsNotNull
  <2>2. n # 0 => <<TheLog[n].sha256, TheLog[n].bound>> # <<entry.sha256, entry.bound>>
    BY <1>2, <1>4, <1>5, <1>9, <1>10, <2>1 DEF Repeats, Standing
  <2> HIDE DEF entry, n
  <2>3. Log!Sign(entry)
    BY <1>1, <1>7, <1>8, <2>1, <2>2 DEF Log!Sign, TheLog
  <2>4. QED
    BY <1>6, <2>3 DEF Log!LogNext
<1>11. CASE call[p].kind = "revoke"
  <2>1. entry.sha256 = Null /\ n # 0 /\ TheLog[n].sha256 # Null
    BY <1>2, <1>5, <1>9, <1>11 DEF Revokes
  <2> HIDE DEF entry, n
  <2>2. Log!Revoke(entry)
    BY <1>1, <1>7, <1>8, <2>1 DEF Log!Revoke, TheLog
  <2>3. QED
    BY <1>6, <2>2 DEF Log!LogNext
<1>12. QED
  BY <1>3, <1>10, <1>11

(* fsync makes the whole log a promise. *)
LEMMA SyncPromises ==
  ASSUME Inv, NEW p \in Signers, Sync(p) PROVE Log!LogNext
<1>1. lines' = lines /\ synced' = Len(lines) /\ Len(TheLog) = Len(lines)
  BY DEF Sync, Inv, TypeOK, DiskOK, TheLog
<1>2. Log!Promise
  BY <1>1 DEF Log!Promise, TheLog
<1>3. QED
  BY <1>2 DEF Log!LogNext

(* A power loss forgets entries nobody was told of. *)
LEMMA LosePowerForgets == ASSUME Inv, LosePower PROVE Log!LogNext
<1>1. PICK n \in synced .. Len(lines) : lines' = SubSeq(lines, 1, n) /\ synced' = n
  BY DEF LosePower
<1>2. /\ synced \in 0 .. Len(lines) /\ lines \in Seq(ToSet(lines)) /\ Len(lines) \in Nat
      /\ Len(TheLog) = Len(lines)
  BY DEF Inv, TypeOK, DiskOK, TheLog
<1>3. Len(lines') = n /\ \A m \in 1 .. n : lines'[m] = lines[m]
  BY <1>1, <1>2
<1>4. TheLog' = SubSeq(TheLog, 1, n)
  BY <1>1, <1>2, <1>3 DEF TheLog
<1>5. Log!Forget
  BY <1>1, <1>2, <1>4 DEF Log!Forget, TheLog
<1>6. QED
  BY <1>5 DEF Log!LogNext

(* Every step of the ledger is a step of the log, or none. *)
LEMMA StepImplements == Inv /\ HistoryInv /\ [Next]_vars => [Log!LogNext]_(Log!logVars)
<1> SUFFICES ASSUME Inv, HistoryInv, [Next]_vars PROVE [Log!LogNext]_(Log!logVars)
  OBVIOUS
<1>1. CASE Quiet
  BY <1>1, QuietStutters DEF Quiet
<1>2. CASE LosePower
  BY <1>2, LosePowerForgets
<1>3. ASSUME NEW p \in Signers, Confirm(p) PROVE UNCHANGED Log!logVars
  BY <1>3, QuietStutters DEF Confirm, diskVars, ledgerVars
<1>4. ASSUME NEW p \in Signers, EndWrite(p) \/ Sync(p) PROVE Log!LogNext
  BY <1>4, EndWriteSigns, SyncPromises
<1>5. QED
  BY <1>1, <1>2, <1>3, <1>4, StepKinds

(* The empty ledger is the empty log. *)
LEMMA InitImplements == Init => Log!LogInit
BY DEF Init, Log!LogInit

(* However calls interleave, wait, are killed or lose power, the ledger     *)
(* behaves as the atomic log of SignoffLog: record never signs what already *)
(* stands, revoke only ends what stands, and what was returned is kept.     *)
THEOREM LedgerImplementsLog == Spec => ImplementsLog
<1>1. QED
  BY InitImplements, StepImplements, InvHolds, HistoryHolds, PTL
  DEF Spec, ImplementsLog, Log!LogSpec
=============================================================================
