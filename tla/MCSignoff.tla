----------------------------- MODULE MCSignoff ------------------------------
(***************************************************************************)
(* Small instances of Signoff for TLC: up to two signers, two artifacts,   *)
(* two files and two contents.                                             *)
(***************************************************************************)
EXTENDS Signoff

CONSTANTS p1, p2, a1, a2, f1, f2, x, y, c1

OnePath  == a1 :> f1
SharedPath == a1 :> f1 @@ a2 :> f1

(* Signers that may all sign are alike, and so are contents. *)
ContentsAlike == Permutations(Contents)

SignersAlike == Permutations(Signers) \cup ContentsAlike
=============================================================================
