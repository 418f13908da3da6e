-------------------------------- MODULE Paths --------------------------------
(***************************************************************************)
(* The paths scrubber (onus/scrub/_scrub.py): a text comes in symbol by    *)
(* symbol, and mapped paths in it are replaced by the names the caller     *)
(* gave them.                                                              *)
(*                                                                         *)
(* A symbol is Slash, Dot, Blank (anything that is in no path), Token (one *)
(* a scrubber wrote) or a word of letters.                                 *)
(***************************************************************************)
EXTENDS Integers, Sequences, FiniteSets, FiniteSetsExt, SequencesExt

CONSTANTS Mappings,   \* each a set of <<path, name>>
          Folders,    \* the words that name one
          MaxText

VARIABLES mapping, text

pathVars == <<mapping, text>>

Slash == "/"
Dot   == "."
Blank == " "
Token == "<token>"
Symbols == {Slash, Dot, Blank, Token} \cup Folders
InAName == Folders \cup {Dot}

ASSUME FoldersAssumption == Folders \cap {Slash, Dot, Blank, Token} = {}

ASSUME MappingsAssumption ==
  \A m \in Mappings : \A pair \in m : pair[1] \in Seq(InAName \cup {Slash})

(* _PRIVATE_TWINS *)
Twins == {"var", "tmp", "etc"}

StartsAt(t, at, path) == at + Len(path) - 1 <= Len(t) /\ SubSeq(t, at, at + Len(path) - 1) = path

(* The path, and how else macOS spells it. *)
Spellings(path) ==
  {path}
  \cup (IF \E twin \in Twins : StartsAt(path, 1, <<Slash, twin>>)
        THEN {<<Slash, "private">> \o path} ELSE {})
  \cup (IF \E twin \in Twins : StartsAt(path, 1, <<Slash, "private", Slash, twin>>)
        THEN {SubSeq(path, 3, Len(path))} ELSE {})

(* rstrip("/") *)
Stripped(path) ==
  LET kept == {i \in DOMAIN path : path[i] # Slash}
  IN  IF kept = {} THEN <<>> ELSE SubSeq(path, 1, Max(kept))

(* names: each spelling, and what it is given. *)
Names(m) == UNION {{<<spelling, pair[2]>> : spelling \in Spellings(Stripped(pair[1]))} : pair \in m}

Refused(m) ==
  \/ m = {}
  \/ \E pair \in m : Stripped(pair[1]) = <<>> \/ pair[1][1] # Slash
  \/ \E n1, n2 \in Names(m) : n1[1] = n2[1] /\ n1[2] # n2[2]

(* Where the symbols of a set run on to from at. *)
RunEnd(t, at, symbols) ==
  Min({i \in at .. Len(t) + 1 : i = Len(t) + 1 \/ t[i] \notin symbols})

Starts(t, at) == at = 1 \/ t[at - 1] \notin InAName \cup {Slash}

(* Mutant: any symbol of a name runs the path on. *)
EndsNoStop(t, at) == ~(at <= Len(t) /\ t[at] \in InAName \cup {Token})

(* Neither a name nor a token runs on; a full stop alone does not.          *)
Ends(t, at) ==
  LET end == RunEnd(t, at, InAName)
  IN  /\ \A i \in at .. end - 1 : t[i] = Dot
      /\ ~(end <= Len(t) /\ t[end] = Token)

(* The alternatives of the expression at a place, the longest first. *)
Matches(m, t, at) ==
  {n \in Names(m) : StartsAt(t, at, n[1]) /\ Starts(t, at) /\ Ends(t, at + Len(n[1]))}

Longest(found) == CHOOSE n \in found : \A other \in found : Len(other[1]) <= Len(n[1])

(* regex.sub at a place: next is the first that is not yet used.           *)
Replaced(m, t, done, at) ==
  IF at < done.next THEN done
  ELSE IF t[at] = Token
  THEN LET end == RunEnd(t, at + 1, InAName \cup {Slash})
       IN  [next |-> end, out |-> done.out \o SubSeq(t, at, end - 1)]
  ELSE LET found == Matches(m, t, at)
       IN  IF found = {} THEN [next |-> at + 1, out |-> Append(done.out, t[at])]
           ELSE [next |-> at + Len(Longest(found)[1]), out |-> Append(done.out, Longest(found)[2])]

Unreplaced == [next |-> 1, out |-> <<>>]

Replace(m, t) ==
  FoldLeft(LAMBDA done, at : Replaced(m, t, done, at), Unreplaced, [at \in DOMAIN t |-> at]).out

-----------------------------------------------------------------------------
PathInit == mapping \in Mappings /\ ~Refused(mapping) /\ text = <<>>

WriteText ==
  /\ Len(text) < MaxText
  /\ \E symbol \in Symbols : text' = Append(text, symbol)
  /\ UNCHANGED mapping

PathRest == Len(text) = MaxText /\ UNCHANGED pathVars

PathNext == WriteText \/ PathRest

PathSpec == PathInit /\ [][PathNext]_pathVars

-----------------------------------------------------------------------------
(* Properties *)

(* The stretch is the path or something below it, a full stop or more let   *)
(* aside.                                                                   *)
IsOrBelow(stretch, path) ==
  LET stops == RunEnd(stretch, Len(path) + 1, {Dot})
  IN  StartsAt(stretch, 1, path) /\ (stops > Len(stretch) \/ stretch[stops] = Slash)

(* What a stretch between spaces becomes: one that is or is below mapped    *)
(* paths has the longest of them replaced, and no other changes.            *)
Said(m, stretch) ==
  LET found == {n \in Names(m) : IsOrBelow(stretch, n[1])}
  IN  IF found = {} THEN stretch
      ELSE <<Longest(found)[2]>> \o SubSeq(stretch, Len(Longest(found)[1]) + 1, Len(stretch))

(* Where the stretch of a place begins.                                     *)
From(t, k) == Max({i \in 1 .. k : i = 1 \/ t[i - 1] = Blank})

(* What comes of a place: the last of a stretch stands for all of it.       *)
Shown(m, t, k) ==
  CASE t[k] = Blank -> <<Blank>>
    [] t[k] # Blank /\ (k = Len(t) \/ t[k + 1] = Blank) -> Said(m, SubSeq(t, From(t, k), k))
    [] OTHER -> <<>>

(* The text is what its stretches come to, and nothing else is replaced,    *)
(* wherever else a path's words stand (_scrub.py:241-250).                  *)
WholePathsOnly ==
  Replace(mapping, text) = FlattenSeq([k \in DOMAIN text |-> Shown(mapping, text, k)])
=============================================================================
