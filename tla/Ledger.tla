------------------------------- MODULE Ledger -------------------------------
(***************************************************************************)
(* The sign-off ledger as a value: what one signoff/1 line holds, which    *)
(* sequences of lines parse_ledger accepts, which line is the newest for   *)
(* an artifact, and what check_signoff answers about a ledger, its kept    *)
(* copies and the files, all read at one moment (onus/signoff/_ledger.py). *)
(*                                                                         *)
(* A sha256 is taken to be collision free, so the digest of x is a value   *)
(* built from x and nothing else.  The fields no property tells apart are  *)
(* left out of a line: schema, tool, at, and bytes (which is null exactly  *)
(* when sha256 is).                                                        *)
(***************************************************************************)
EXTENDS Integers, Sequences, SequencesExt

CONSTANTS Artifacts,  \* exact artifact ids
          Files,      \* files inside the ledger's folder
          Contents,   \* the contents a file can have
          Reviewers,  \* the names a line can carry as reviewed_by
          Missing     \* what is read where there is no file

ASSUME MissingIsNoContent == Missing \notin Contents

Null == <<>>                            \* JSON's null

Sha(x) == <<"sha256", x>>

Digests == {Sha(c) : c \in Contents}

(* No bound files: the empty object. A bound object is total on Files here, *)
(* Null where the line does not bind the file.                              *)
Unbound == [f \in Files |-> Null]

Bindings == [Files -> Digests \cup {Null}]

(* A line signs no content exactly when it revokes a sign-off. *)
Revokes(line) == line.sha256 = Null

(* _parse_line: the keys are exactly signoff/1's, each field is of its kind, *)
(* and a revocation names a line and binds nothing.                          *)
WellFormed(line) ==
  /\ DOMAIN line = {"artifact", "sha256", "bound", "supersedes", "reviewed_by", "prev"}
  /\ line.artifact \in Artifacts
  /\ line.sha256 \in Digests \cup {Null}
  /\ line.bound \in Bindings
  /\ line.reviewed_by \in Reviewers
  /\ Revokes(line) => line.supersedes # Null /\ line.bound = Unbound

(* The hash of line n, or Null where there is no such line (n = 0). *)
ShaAt(lines, n) == IF n = 0 THEN Null ELSE Sha(lines[n])

(* The place of the newest line for artifact, 0 when no line names it. *)
Newest(lines, artifact) ==
  SelectLastInSeq(lines, LAMBDA line : line.artifact = artifact)

(* What parse_ledger requires of a line, given the lines before it. *)
Follows(before, line) ==
  LET earlier == Newest(before, line.artifact)
  IN  /\ WellFormed(line)
      /\ line.prev = ShaAt(before, Len(before))
      /\ line.supersedes = ShaAt(before, earlier)
      /\ Revokes(line) => earlier # 0 /\ ~ Revokes(before[earlier])

(* parse_ledger accepts these whole lines. *)
Parses(lines) ==
  \A n \in 1 .. Len(lines) : Follows(SubSeq(lines, 1, n - 1), lines[n])

(* _bound_now: the bound files that are missing or have another content. *)
BoundChanged(bound, files) ==
  {f \in Files : bound[f] # Null /\ bound[f] # Sha(files[f])}

-----------------------------------------------------------------------------
(* Kept copies, by digest.  A copy is the content its name says when it is  *)
(* "whole", on disk, or "cached", renamed into place and not yet written    *)
(* back by the kernel (nothing fsyncs it).  "torn" and "spoiled" are the    *)
(* two ways it is not that content: cut short, or changed by something else. *)

CopyStates == {"none", "cached", "whole", "torn", "spoiled"}

(* _kept raises CorruptLedgerError. *)
BadCopy(copy) == copy \in {"torn", "spoiled"}

Verdicts == {"SIGNED", "UNSIGNED", "CHANGED", "REVOKED", "CORRUPT"}

(* What check_signoff's docstring promises of a ledger, its kept copies and *)
(* the files when nothing changes them while it looks.                      *)
Verdict(lines, torn, copies, files, artifact, path) ==
  LET n    == Newest(lines, artifact)
      line == lines[n]
  IN  IF torn \/ ~ Parses(lines) THEN "CORRUPT"
      ELSE IF n = 0 THEN "UNSIGNED"
      ELSE IF Revokes(line) THEN "REVOKED"
      ELSE IF BadCopy(copies[line.sha256]) THEN "CORRUPT"
      ELSE IF Sha(files[path]) = line.sha256 /\ BoundChanged(line.bound, files) = {}
           THEN "SIGNED"
      ELSE "CHANGED"
=============================================================================
