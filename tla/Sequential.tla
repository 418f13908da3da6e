----------------------------- MODULE Sequential -----------------------------
(***************************************************************************)
(* The true size of a sign test that is read at several looks              *)
(* (sequential_size, onus/stats/power.py): one look a step, over what has  *)
(* not rejected yet.                                                       *)
(***************************************************************************)
EXTENDS Binomial

CONSTANTS MaxTrials,  \* bound on the last look
          Levels      \* the values of alpha

ASSUME TrialsAssumption == MaxTrials \in Nat

VARIABLES level, alternative,  \* alpha, and the side tested
          looks,     \* the looks taken, cumulative counts
          trials,    \* the last of them
          weights,   \* paths of so many trials with k wins and no rejection, by k
          rejected   \* parts of 2^trials that have rejected at some look

sizeVars == <<level, alternative, looks, trials, weights, rejected>>

SizeInit ==
  /\ level \in Levels /\ alternative \in Alternatives
  /\ looks = <<>> /\ trials = 0 /\ weights = [k \in {0} |-> 1] /\ rejected = 0

RegionOf(look) == RejectionRegion(look, Half, level, alternative)

(* Paths to the next look, by wins. *)
Grown(look) == [k \in 0 .. look |->
  MapThenSumSet(LAMBDA i : weights[i] * choose(look - trials, k - i),
                {i \in DOMAIN weights : k - i \in 0 .. look - trials})]

Among(counts, grown) == MapThenSumSet(LAMBDA k : grown[k], counts)

(* Mutant: what has rejected goes on. *)
LookAgain(look) ==
  LET grown == Grown(look)
  IN  /\ look > trials
      /\ weights' = grown
      /\ rejected' = rejected * Raise(2, look - trials) + Among(RegionOf(look), grown)
      /\ trials' = look /\ looks' = Append(looks, look)
      /\ UNCHANGED <<level, alternative>>

(* Looks are strictly increasing, or the call is refused. *)
Look(look) ==
  LET grown == Grown(look)
  IN  /\ look > trials
      /\ weights' = [k \in (0 .. look) \ RegionOf(look) |-> grown[k]]
      /\ rejected' = rejected * Raise(2, look - trials) + Among(RegionOf(look), grown)
      /\ trials' = look /\ looks' = Append(looks, look)
      /\ UNCHANGED <<level, alternative>>

(* The schedule may be over. *)
SizeRest == trials = MaxTrials /\ UNCHANGED sizeVars

SizeNext == (\E look \in 1 .. MaxTrials : Look(look)) \/ SizeRest

SizeSpec == SizeInit /\ [][SizeNext]_sizeVars

-----------------------------------------------------------------------------
(* Properties *)

Paths == [1 .. trials -> {0, 1}]

Wins(path, look) == Cardinality({i \in 1 .. look : path[i] = 1})

Stopped(path) == \E i \in DOMAIN looks : Wins(path, looks[i]) \in RegionOf(looks[i])

(* rejected is the probability "that a sign test run at every look rejects  *)
(* at least once" (power.py:187), and weights what the comment at power.py: *)
(* 200 says, over every sequence of wins and losses.                        *)
SizeIsExact ==
  /\ rejected = Cardinality({path \in Paths : Stopped(path)})
  /\ \A k \in 0 .. trials :
       (IF k \in DOMAIN weights THEN weights[k] ELSE 0)
         = Cardinality({path \in Paths : ~Stopped(path) /\ Wins(path, trials) = k})
=============================================================================
