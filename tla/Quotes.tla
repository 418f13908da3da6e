------------------------------- MODULE Quotes -------------------------------
(***************************************************************************)
(* Checked quotes (onus/report/_quote.py): a document comes in token by    *)
(* token, and is held to the rendered sentences.                           *)
(*                                                                         *)
(* A token is "open" or "close" for an exact marker, "mention" for its     *)
(* words in any other form, Space for whitespace, and otherwise a letter.  *)
(* A sentence is a sequence of letters and spaces.                         *)
(***************************************************************************)
EXTENDS Integers, Sequences, FiniteSets, SequencesExt

CONSTANTS SentenceLists,  \* what a document may be held to
          Letters,
          MaxDoc          \* bound on the document

VARIABLES sentences, doc

quoteVars == <<sentences, doc>>

Space   == " "
Markers == {"open", "close", "mention"}
Tokens  == Markers \cup Letters \cup {Space}

ASSUME SentencesAssumption == SentenceLists \subseteq Seq(Seq(Tokens))

(* A token more of a text whose runs of whitespace are made one. *)
Spaced(done, token) ==
  IF token = Space /\ (done = <<>> \/ Last(done) = Space) THEN done ELSE Append(done, token)

Joined(text) == FoldLeft(LAMBDA done, token : Spaced(done, token), <<>>, text)

(* And its ends stripped. *)
OneSpaced(text) ==
  IF Joined(text) # <<>> /\ Last(Joined(text)) = Space THEN Front(Joined(text)) ELSE Joined(text)

(* Mutant: a second opening marker starts the span over. *)
ScannedReopening(tokens, scan, at) ==
  CASE scan.error \/ tokens[at] \notin Markers -> scan
    [] ~scan.error /\ tokens[at] = "open" -> [scan EXCEPT !.opened = at]
    [] ~scan.error /\ tokens[at] = "close" /\ scan.opened # 0 ->
         [scan EXCEPT !.opened = 0, !.spans = Append(@, SubSeq(tokens, scan.opened + 1, at - 1))]
    [] OTHER -> [scan EXCEPT !.error = TRUE]

(* One mention more: opened is where the open span starts, or 0. *)
Scanned(tokens, scan, at) ==
  CASE scan.error \/ tokens[at] \notin Markers -> scan
    [] ~scan.error /\ tokens[at] = "open" /\ scan.opened = 0 -> [scan EXCEPT !.opened = at]
    [] ~scan.error /\ tokens[at] = "close" /\ scan.opened # 0 ->
         [scan EXCEPT !.opened = 0, !.spans = Append(@, SubSeq(tokens, scan.opened + 1, at - 1))]
    [] OTHER -> [scan EXCEPT !.error = TRUE]

Unscanned == [opened |-> 0, spans |-> <<>>, error |-> FALSE]

Spans(tokens) ==
  FoldLeft(LAMBDA scan, at : Scanned(tokens, scan, at), Unscanned, [at \in DOMAIN tokens |-> at])

Quotable(sentence) == OneSpaced(sentence) # <<>> /\ Range(sentence) \cap Markers = {}

(* assert_quoted *)
AssertQuoted(tokens, list) ==
  LET wanted == {OneSpaced(s) : s \in Range(list)}
      scan   == Spans(tokens)
      found  == {OneSpaced(s) : s \in Range(scan.spans)}
  IN  CASE list = <<>> \/ (\E s \in Range(list) : ~Quotable(s)) -> "ValueError"
        [] list # <<>> /\ (\A s \in Range(list) : Quotable(s))
             /\ (scan.error \/ scan.opened # 0 \/ found # wanted) -> "AssertionError"
        [] OTHER -> "pass"

-----------------------------------------------------------------------------
QuoteInit == sentences \in SentenceLists /\ doc = <<>>

WriteDoc ==
  /\ Len(doc) < MaxDoc
  /\ \E token \in Tokens : doc' = Append(doc, token)
  /\ UNCHANGED sentences

QuoteRest == Len(doc) = MaxDoc /\ UNCHANGED quoteVars

QuoteNext == WriteDoc \/ QuoteRest

QuoteSpec == QuoteInit /\ [][QuoteNext]_quoteVars

-----------------------------------------------------------------------------
(* Properties *)

(* Where the words of a text begin and end, with no whitespace inside. *)
Words(text) ==
  {w \in (DOMAIN text) \X (DOMAIN text) :
     /\ w[1] <= w[2] /\ \A k \in w[1] .. w[2] : text[k] # Space
     /\ w[1] - 1 \in DOMAIN text => text[w[1] - 1] = Space
     /\ w[2] + 1 \in DOMAIN text => text[w[2] + 1] = Space}

Between(text, w) == SubSeq(text, w[1], w[2])
Before(text, w)  == Cardinality({v \in Words(text) : v[1] < w[1]})

(* Two texts have the same words in the same order. *)
SameWords(s, t) ==
  /\ Cardinality(Words(s)) = Cardinality(Words(t))
  /\ \A w \in Words(s) : \E v \in Words(t) :
       Between(s, w) = Between(t, v) /\ Before(s, w) = Before(t, v)

Places(token) == {i \in DOMAIN doc : doc[i] = token}

Marks == Places("open") \cup Places("close")
Pairs == {p \in Places("open") \X Places("close") :
            p[1] < p[2] /\ \A k \in p[1] + 1 .. p[2] - 1 : k \notin Marks}
Quote(p) == SubSeq(doc, p[1] + 1, p[2] - 1)

(* A document passes exactly if its markers pair off in turn, nothing else  *)
(* mentions them, each pair holds a sentence but for its wrapping, and each *)
(* sentence is in some pair: no quote goes unchecked (_quote.py:64-75,      *)
(* 28-34).                                                                  *)
PassesExactlyWhenQuoted ==
  AssertQuoted(doc, sentences) = "pass" <=>
    /\ sentences # <<>> /\ \A s \in Range(sentences) : Words(s) # {} /\ Range(s) \cap Markers = {}
    /\ Places("mention") = {}
    /\ \A i \in Marks : \E p \in Pairs : i \in {p[1], p[2]}
    /\ \A p \in Pairs : \E s \in Range(sentences) : SameWords(s, Quote(p))
    /\ \A s \in Range(sentences) : \E p \in Pairs : SameWords(s, Quote(p))
=============================================================================
