------------------------------ MODULE Binomial ------------------------------
(***************************************************************************)
(* Exact binomial tails and the tests built on them                        *)
(* (onus/stats/binomial.py), and the power of a set of counts              *)
(* (onus/stats/power.py).                                                  *)
(*                                                                         *)
(* A probability is a fraction [num, den] in lowest terms, as Fraction     *)
(* keeps it; a probability over n trials is a whole number of parts of 1,  *)
(* of which there are den^n.                                               *)
(***************************************************************************)
EXTENDS Integers, Sequences, FiniteSets, FiniteSetsExt, Functions, Combinatorics

Fractions == {p \in [num : Nat, den : Nat \ {0}] : p.num <= p.den}

Half == [num |-> 1, den |-> 2]

Alternatives == {"two-sided", "greater", "less"}

(* As in Python, 0 ** 0 is 1. *)
Raise(base, exponent) ==
  LET power[i \in 0 .. exponent] == IF i = 0 THEN 1 ELSE power[i - 1] * base
  IN  power[exponent]

LesserOf(a, b) == IF a <= b THEN a ELSE b

(* Row n of Pascal's triangle, each number from the one before it, and its *)
(* running sums: element k is C(n, 0) + ... + C(n, k - 1).                 *)
HalfPrefix(n) ==
  LET row[k \in 0 .. n]      == IF k = 0 THEN 1 ELSE (row[k - 1] * (n - k + 1)) \div k
      sums[k \in 0 .. n + 1] == IF k = 0 THEN 0 ELSE sums[k - 1] + row[k - 1]
  IN  sums

(* The tail at 1/2, in parts of 2^n. *)
HalfTail(k, n, tail) ==
  IF tail = "upper" THEN HalfPrefix(n)[n + 1] - HalfPrefix(n)[k] ELSE HalfPrefix(n)[k + 1]

(* The sum of C(n, j) num^j (den - num)^(n - j) over the tail, by Horner's  *)
(* rule: each step multiplies the sum so far by den - num and adds the next *)
(* term, which is made from the one before it.                              *)
HornerTail(k, n, p, tail) ==
  LET q     == p.den - p.num
      first == IF tail = "upper" THEN k ELSE 0
      last  == IF tail = "upper" THEN n ELSE k
      term[j \in first .. last] ==
        IF j = first THEN choose(n, first) * Raise(p.num, first)
        ELSE ((term[j - 1] * (n - j + 1)) \div j) * p.num
      total[j \in first - 1 .. last] ==
        IF j < first THEN 0 ELSE total[j - 1] * q + term[j]
  IN  total[last] * Raise(q, n - last)

(* Mutant: the upper tail begins above k. *)
BinomTailStrict(k, n, p, tail) ==
  CASE k > n              -> IF tail = "upper" THEN 0 ELSE Raise(p.den, n)
    [] k <= n /\ p = Half -> HalfTail(IF tail = "upper" THEN k + 1 ELSE k, n, tail)
    [] OTHER              -> HornerTail(k, n, p, tail)

(* binom_tail: P(X >= k), or P(X <= k). *)
BinomTail(k, n, p, tail) ==
  CASE k > n              -> IF tail = "upper" THEN 0 ELSE Raise(p.den, n)
    [] k <= n /\ p = Half -> HalfTail(k, n, tail)
    [] OTHER              -> HornerTail(k, n, p, tail)

PExact(k, n, null, alternative) ==
  LET upper == BinomTail(k, n, null, "upper")
      lower == BinomTail(k, n, null, "lower")
  IN  CASE alternative = "greater"   -> upper
        [] alternative = "less"      -> lower
        [] alternative = "two-sided" -> LesserOf(Raise(null.den, n), 2 * LesserOf(upper, lower))

(* Whether parts / whole is at most, or at least, a fraction. *)
AtMost(parts, whole, fraction)  == parts * fraction.den <= fraction.num * whole
AtLeast(parts, whole, fraction) == parts * fraction.den >= fraction.num * whole

(* The count k is in the rejection region at level alpha. *)
Rejects(k, n, null, alpha, alternative) ==
  AtMost(PExact(k, n, null, alternative), Raise(null.den, n), alpha)

-----------------------------------------------------------------------------
(* Tests *)

Empty == [error |-> "EmptySampleError"]
Gaps  == [error |-> "MissingDataError"]

Result(wins, n, ties, missing, alternative) ==
  [p |-> PExact(wins, n, Half, alternative), successes |-> wins, n |-> n,
   ties |-> ties, missing |-> missing]

Refused == [error |-> "ValueError"]

BinomialTest(k, n, null, alternative) ==
  CASE n = 0                                                       -> Empty
    [] n > 0 /\ (k > n \/ (alternative = "two-sided" /\ null # Half)) -> Refused
    [] OTHER -> [p |-> PExact(k, n, null, alternative), successes |-> k, n |-> n,
                 ties |-> 0, missing |-> 0]

SignTest(wins, losses, ties, alternative) ==
  IF wins + losses = 0 THEN Empty
  ELSE Result(wins, wins + losses, ties, 0, alternative)

-----------------------------------------------------------------------------
(* Power *)

(* rejection_region, by what its search is shown to find (module Power). *)
RejectionRegion(n, null, alpha, alternative) ==
  {k \in 0 .. n : n > 0 /\ Rejects(k, n, null, alpha, alternative)}

(* The last count of the run of a region that starts at a count. *)
RunEnd(region, start) == CHOOSE k \in region :
  /\ k >= start /\ start .. k \subseteq region
  /\ k + 1 \notin region

RunPower(start, k, n, p) ==
  CASE start = 0           -> BinomTail(k, n, p, "lower")
    [] start > 0 /\ k = n  -> BinomTail(start, n, p, "upper")
    [] OTHER               -> BinomTail(start, n, p, "upper") - BinomTail(k + 1, n, p, "upper")

(* _region_power: P(X in region), from the tails of its runs. *)
RegionPower(region, n, p) ==
  MapThenSumSet(LAMBDA start : RunPower(start, RunEnd(region, start), n, p),
                {k \in region : k - 1 \notin region})

-----------------------------------------------------------------------------
(* What the above are meant to be: outcomes of n trials counted one by one. *)

(* Trials that come out in den equally likely ways, num of them successes. *)
Outcomes(n, p) == [1 .. n -> 1 .. p.den]

Successes(outcome, p) == Cardinality({i \in DOMAIN outcome : outcome[i] <= p.num})

(* How many outcomes have a count of successes in a set. *)
Ways(counts, n, p) == Cardinality({o \in Outcomes(n, p) : Successes(o, p) \in counts})

(* A p-value: outcomes at least as extreme, twice the smaller tail.         *)
ByCounting(k, n, null, alternative) ==
  LET upper == Ways(k .. n, n, null)
      lower == Ways(0 .. k, n, null)
  IN  CASE alternative = "greater"   -> upper
        [] alternative = "less"      -> lower
        [] alternative = "two-sided" -> LesserOf(Raise(null.den, n), 2 * LesserOf(upper, lower))
=============================================================================
