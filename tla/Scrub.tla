-------------------------------- MODULE Scrub --------------------------------
(***************************************************************************)
(* Scrubbers and chains of them (onus/scrub/_scrub.py).                    *)
(*                                                                         *)
(* A text is a sequence of pieces with spaces between them.  A piece has a *)
(* kind (what is written there), a value, and is loud when its letters are *)
(* capitals.  A "stamp" is <<its date, its clock>>, a "uuid" is <<its      *)
(* first group, the rest>>; a "count" is digits as long as an id, and      *)
(* "nodate" is written like a date no calendar has.  What a scrubber       *)
(* writes is a "token", or a "broken" piece when it replaced only the      *)
(* start of one.                                                           *)
(***************************************************************************)
EXTENDS Integers, Sequences, FiniteSets, FiniteSetsExt, SequencesExt

CONSTANTS Pieces, Patterns, MaxParts, MaxLen

VARIABLES chain, left, right   \* the chain, and the outputs of two runs

scrubVars == <<chain, left, right>>

Kinds == {"date", "nodate", "stamp", "uuid", "hex", "count", "run", "job"}

ASSUME PiecesAssumption ==
  \A p \in Pieces : /\ p.kind \in Kinds /\ p.loud \in BOOLEAN
                    /\ p.kind = "uuid" => p.value = <<p.value[1], p.value[2]>>

(* A pattern reads one kind of value, in the letters it is written in. *)
ASSUME PatternsAssumption ==
  \A s \in Patterns : ~s.folds /\ \E kind \in {"run", "job"} : s.matches = {kind}

IsoDates      == [token |-> "date", matches |-> {"date", "nodate"}, folds |-> FALSE]
IsoTimestamps == [token |-> "timestamp", matches |-> {"stamp"}, folds |-> FALSE]
Uuids         == [token |-> "uuid", matches |-> {"uuid"}, folds |-> TRUE]
HexIds        == [token |-> "hex", matches |-> {"hex", "count", "uuid"}, folds |-> TRUE]  \* of length 8

Simple == {IsoDates, IsoTimestamps, Uuids, HexIds} \cup Patterns

(* A calendar date; not written like a number. *)
Real(piece) == piece.kind \notin {"nodate", "count"}

Reads(s, piece) == piece.kind \in s.matches /\ Real(piece)

(* The scrubber's match is the start of the piece, not the whole of it. *)
Inside(s, piece) == s.token = "hex" /\ piece.kind = "uuid"

(* What makes two matches one value. *)
Same(s, piece) ==
  <<IF Inside(s, piece) THEN <<piece.value[1]>> ELSE piece.value, piece.loud /\ ~s.folds>>

(* Distinct values are numbered in the order they first appear. *)
Number(s, text, at) ==
  LET first == Min({i \in 1 .. at : Reads(s, text[i]) /\ Same(s, text[i]) = Same(s, text[at])})
  IN  Cardinality({Same(s, text[i]) : i \in {j \in 1 .. first : Reads(s, text[j])}})

(* One simple scrubber over a text. *)
Numbered(s, text) ==
  [at \in DOMAIN text |->
     LET piece == text[at]
     IN  CASE ~Reads(s, piece) -> piece
           [] Reads(s, piece) /\ ~Inside(s, piece) ->
                [kind |-> "token", value |-> <<s.token, Number(s, text, at)>>, loud |-> FALSE]
           [] Reads(s, piece) /\ Inside(s, piece) ->
                [kind |-> "broken", value |-> <<s.token, Number(s, text, at), piece.value[2]>>,
                 loud |-> piece.loud]]

(* A scrubber: the simple ones it applies, and the token names it numbers. *)
One(s) == [parts |-> <<s>>, numbers |-> {s.token}]

(* Two write one numbered name: chain raises. *)
Raises(a, b) == a.numbers \cap b.numbers # {}

(* Mutant: a chain shows no names to the chain it is nested in. *)
ChainOfForgetting(scrubbers) ==
  [parts |-> FlattenSeq([k \in DOMAIN scrubbers |-> scrubbers[k].parts]), numbers |-> {}]

ChainOf(scrubbers) ==
  [parts   |-> FlattenSeq([k \in DOMAIN scrubbers |-> scrubbers[k].parts]),
   numbers |-> UNION {scrubbers[k].numbers : k \in DOMAIN scrubbers}]

Scrubbed(scrubber, text) == FoldLeft(LAMBDA t, s : Numbered(s, t), text, scrubber.parts)

-----------------------------------------------------------------------------
ScrubInit == chain \in {ChainOf(<<One(s)>>) : s \in Simple} /\ left = <<>> /\ right = <<>>

(* The caller nests the chain in a new one, with a scrubber after it. *)
Extend ==
  /\ left = <<>> /\ Len(chain.parts) < MaxParts
  /\ \E s \in Simple : ~Raises(chain, One(s)) /\ chain' = ChainOf(<<chain, One(s)>>)
  /\ UNCHANGED <<left, right>>

(* Each run writes its next piece. *)
Write ==
  /\ Len(left) < MaxLen
  /\ \E p, q \in Pieces : left' = Append(left, p) /\ right' = Append(right, q)
  /\ UNCHANGED chain

ScrubRest == Len(left) = MaxLen /\ UNCHANGED scrubVars

ScrubNext == Extend \/ Write \/ ScrubRest

ScrubSpec == ScrubInit /\ [][ScrubNext]_scrubVars

-----------------------------------------------------------------------------
(* Properties *)

ReadByChain(piece) == \E k \in DOMAIN chain.parts : Reads(chain.parts[k], piece)

Ids == {"uuid", "hex"}

(* Two pieces of one output hold the same value. *)
Equal(p, q) == p.kind = q.kind /\ p.value = q.value /\ (p.kind \in Ids \/ p.loud = q.loud)

(* What differs between two runs is only which run-to-run values they had:  *)
(* the same kinds stand at the same places, and values are equal at the     *)
(* same places.                                                             *)
SameButForRuns ==
  /\ \A i \in DOMAIN left : left[i].kind = right[i].kind
  /\ \A i, j \in DOMAIN left : Equal(left[i], left[j]) <=> Equal(right[i], right[j])
  /\ \A i \in DOMAIN left : ~ReadByChain(left[i]) => left[i] = right[i]

(* Two outputs that scrub to one text differ in nothing else: no swap of    *)
(* two values, of two kinds of value or of a reported number is hidden      *)
(* (_scrub.py:316-319, 93, 182-183).                                        *)
SwapsAreSeen == Scrubbed(chain, left) = Scrubbed(chain, right) => SameButForRuns

PlaceOf(s) == {k \in DOMAIN chain.parts : chain.parts[k] = s}

(* "put uuids before a hex_ids of length 8" (_scrub.py:186) *)
UuidsFirst == \A k \in PlaceOf(HexIds) : \E j \in PlaceOf(Uuids) : j < k

(* Two runs of one program scrub to one text, when no hex_ids comes before  *)
(* uuids (_scrub.py:1, 92-93, 170, 186).                                    *)
RunsScrubAlike == UuidsFirst /\ SameButForRuns => Scrubbed(chain, left) = Scrubbed(chain, right)

(* Two outputs scrub to one text exactly if they differ in run-to-run       *)
(* values alone.                                                            *)
ScrubsRunsAlone == SwapsAreSeen /\ RunsScrubAlike
=============================================================================
