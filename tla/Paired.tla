------------------------------- MODULE Paired -------------------------------
(***************************************************************************)
(* The paired sign test (onus/stats/binomial.py), on pairs that come in    *)
(* one by one.                                                             *)
(***************************************************************************)
EXTENDS Binomial

CONSTANTS Values,
          Missing,  \* None or a NaN
          MaxPairs  \* bound on the pairs

ASSUME ValuesAssumption == Values \subseteq Int /\ Missing \notin Values

VARIABLE pairs

Gap(pair)  == pair.a = Missing \/ pair.b = Missing
Win(pair)  == ~Gap(pair) /\ pair.a > pair.b
Loss(pair) == ~Gap(pair) /\ pair.a < pair.b
Tie(pair)  == ~Gap(pair) /\ pair.a = pair.b

Count(seq, Holds(_)) == Cardinality({i \in DOMAIN seq : Holds(seq[i])})

(* Mutant: a tie counts as a win. *)
PairedSignTestWon(seq, alternative, missing) ==
  LET gaps   == Count(seq, Gap)
      result == SignTest(Count(seq, Win) + Count(seq, Tie), Count(seq, Loss), 0, alternative)
  IN  CASE gaps > 0 /\ missing = "refuse" -> Gaps
        [] ~(gaps > 0 /\ missing = "refuse") /\ result = Empty -> Empty
        [] OTHER -> [result EXCEPT !.missing = gaps]

PairedSignTest(seq, alternative, missing) ==
  LET gaps   == Count(seq, Gap)
      result == SignTest(Count(seq, Win), Count(seq, Loss), Count(seq, Tie), alternative)
  IN  CASE gaps > 0 /\ missing = "refuse" -> Gaps
        [] ~(gaps > 0 /\ missing = "refuse") /\ result = Empty -> Empty
        [] OTHER -> [result EXCEPT !.missing = gaps]

PairedInit == pairs = <<>>

Measure ==
  /\ Len(pairs) < MaxPairs
  /\ \E a, b \in Values \cup {Missing} : pairs' = Append(pairs, [a |-> a, b |-> b])

PairedRest == Len(pairs) = MaxPairs /\ UNCHANGED pairs

PairedNext == Measure \/ PairedRest

PairedSpec == PairedInit /\ [][PairedNext]_pairs

-----------------------------------------------------------------------------
(* Properties *)

Swapped(seq) == [i \in DOMAIN seq |-> [a |-> seq[i].b, b |-> seq[i].a]]

Opposite == [greater |-> "less", less |-> "greater"]

Answered(result) == result \notin {Empty, Gaps}

(* Which sequence is called the first is a matter of names: exchanging them *)
(* exchanges "greater" with "less", leaves "two-sided" alone, and answers   *)
(* or refuses alike (binomial.py:155, 176-181).                             *)
SidesMirror ==
  \A missing \in {"refuse", "drop"}, alternative \in Alternatives :
    LET other == IF alternative = "two-sided" THEN alternative ELSE Opposite[alternative]
        here  == PairedSignTest(pairs, alternative, missing)
        there == PairedSignTest(Swapped(pairs), other, missing)
    IN  IF Answered(here) /\ Answered(there)
        THEN /\ here.p = there.p /\ here.n = there.n
             /\ here.ties = there.ties /\ here.missing = there.missing
        ELSE ~Answered(here) /\ ~Answered(there)
=============================================================================
