----------------------------- MODULE SignoffLog -----------------------------
(***************************************************************************)
(* What a sign-off ledger promises, with no files, locks or hashes: a log  *)
(* of sign-offs and revocations that grows one entry at a time, each entry *)
(* judged against the log it joins.  An artifact is never signed twice     *)
(* over with the same content and bound files, only a standing sign-off is *)
(* revoked, and what has been promised to a caller is never lost.          *)
(***************************************************************************)
EXTENDS Integers, Sequences, SequencesExt

CONSTANTS Entries,      \* [artifact, sha256, bound, reviewed_by]
          NoContent     \* the sha256 of an entry that revokes

VARIABLES log,          \* the entries, oldest first
          promised      \* how many of them callers rely on

logVars == <<log, promised>>

LogInit == log = <<>> /\ promised = 0

(* The place of the entry that decides for an artifact, 0 when none does. *)
Deciding(artifact) ==
  SelectLastInSeq(log, LAMBDA entry : entry.artifact = artifact)

Sign(entry) ==
  LET n == Deciding(entry.artifact)
  IN  /\ entry.sha256 # NoContent
      /\ n # 0 => <<log[n].sha256, log[n].bound>> # <<entry.sha256, entry.bound>>
      /\ log' = Append(log, entry)
      /\ UNCHANGED promised

Revoke(entry) ==
  LET n == Deciding(entry.artifact)
  IN  /\ entry.sha256 = NoContent
      /\ n # 0 /\ log[n].sha256 # NoContent
      /\ log' = Append(log, entry)
      /\ UNCHANGED promised

(* A caller is told that its entry stands; every entry before it does too. *)
Promise ==
  /\ promised' = Len(log)
  /\ UNCHANGED log

(* Entries nobody was told of may go, newest first. *)
Forget ==
  \E n \in promised .. Len(log) :
    /\ log' = SubSeq(log, 1, n)
    /\ promised' = n

LogNext == (\E entry \in Entries : Sign(entry) \/ Revoke(entry)) \/ Promise \/ Forget

LogSpec == LogInit /\ [][LogNext]_logVars
=============================================================================
