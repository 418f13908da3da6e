------------------------------- MODULE Power --------------------------------
(***************************************************************************)
(* Planning a binomial test (onus/stats/power.py): the edge of its         *)
(* rejection region is searched for, and then the smallest effect on a     *)
(* grid at which its power suffices.  Composes the searches of Search with *)
(* the exact tails of Binomial.                                            *)
(*                                                                         *)
(* A design is [n, null, alpha, alternative, target].                      *)
(***************************************************************************)
EXTENDS Binomial, Search

CONSTANTS Designs,
          Grid,       \* GRID: effects are multiples of 1 / Grid
          Base,       \* an effect is printed in digits of this base,
          MDE_DIGITS, \* this many
          NotYet, None, NoEffect  \* no answer, no effect reaches, the null does

(* What rejection_region and binomial_mde check their arguments for.        *)
ASSUME DesignsAssumption ==
  \A d \in Designs :
    /\ d.n \in Nat /\ d.alternative \in Alternatives
    /\ {d.null, d.alpha, d.target} \subseteq Fractions
    /\ d.alternative = "two-sided" => d.null = Half

ASSUME AnswersAssumption ==
  NotYet # {} /\ None \notin {NotYet, NoEffect} /\ {NotYet, None, NoEffect} \cap Nat = {}

ASSUME GridAssumption == Grid \in Nat \ {0}

ASSUME DigitsAssumption == Base \in Nat \ {0, 1} /\ MDE_DIGITS \in Nat \ {0}

VARIABLES design,
          region,  \* the rejection region, once found
          answer   \* what binomial_mde returned or raised

planVars == <<searchVars, design, region, answer>>

(* a / b in lowest terms, for b > 0. *)
Lowest(a, b) ==
  LET divisor == Max({d \in 1 .. b : a % d = 0 /\ b % d = 0})
  IN  [num |-> a \div divisor, den |-> b \div divisor]

RejectsIn(d, k) == Rejects(k, d.n, d.null, d.alpha, d.alternative)

(* Which search rejection_region makes. *)
EdgeSearch(d) ==
  CASE d.alternative = "greater"   -> StartFirst([k \in 0 .. d.n |-> RejectsIn(d, k)], d.n)
    [] d.alternative = "less"      -> StartFirst([k \in 0 .. d.n |-> ~RejectsIn(d, k)], d.n)
    [] d.alternative = "two-sided" ->
         StartFirst([k \in 0 .. d.n \div 2 |-> ~RejectsIn(d, k)], d.n \div 2)

PlanInit ==
  /\ design \in Designs
  /\ EdgeSearch(design)
  /\ region = IF design.n = 0 THEN {} ELSE NotYet
  /\ answer = NotYet

Seek == region = NotYet /\ Loops /\ UNCHANGED <<design, region, answer>>

RegionAt(d, edge) ==
  CASE d.alternative = "greater"   -> edge .. d.n
    [] d.alternative = "less"      -> 0 .. edge - 1
    [] d.alternative = "two-sided" -> (0 .. edge - 1) \cup {d.n - k : k \in 0 .. edge - 1}

(* rejection_region returns. *)
Bound ==
  /\ region = NotYet /\ loop = "found"
  /\ region' = RegionAt(design, low)
  /\ UNCHANGED <<searchVars, design, answer>>

PowerAt(d, counts, p) == RegionPower(counts, d.n, p)

Suffices(d, counts, p) == AtLeast(PowerAt(d, counts, p), Raise(p.den, d.n), d.target)

Upward(d) == d.alternative # "less"

(* Grid points are counted outward from the null. *)
GridBase(d) ==
  IF Upward(d) THEN (d.null.num * Grid) \div d.null.den
  ELSE -((-(d.null.num * Grid)) \div d.null.den)

GridTop(d) == IF Upward(d) THEN Grid - GridBase(d) ELSE GridBase(d)

GridPoint(d, i) == Lowest(IF Upward(d) THEN GridBase(d) + i ELSE GridBase(d) - i, Grid)

(* The region is empty, or needs no effect at all. *)
Hopeless ==
  /\ answer = NotYet /\ region # NotYet
  /\ \/ region = {} /\ answer' = None
     \/ region # {} /\ Suffices(design, region, design.null) /\ answer' = NoEffect
  /\ UNCHANGED <<searchVars, design, region>>

(* Mutant: an index is taken as it is guessed. *)
TrustTheGuess ==
  /\ answer = NotYet /\ region # NotYet /\ region # {}
  /\ ~Suffices(design, region, design.null)
  /\ answer' \in 1 .. GridTop(design)
  /\ UNCHANGED <<searchVars, design, region>>

(* The search in floats may end anywhere near: the guess is any index. *)
Aim ==
  /\ answer = NotYet /\ region \notin {NotYet, {}} /\ guess = top + 1
  /\ ~Suffices(design, region, design.null)
  /\ top' = GridTop(design)
  /\ holds' = [i \in 0 .. top' |-> Suffices(design, region, GridPoint(design, i))]
  /\ \E at \in 1 .. top' : guess' = at /\ low' = at - 1 /\ high' = at
  /\ loop' = "out" /\ step' = 1
  /\ UNCHANGED <<design, region, answer>>

Settling == region # NotYet /\ guess <= top

Settle == Settling /\ answer = NotYet /\ Loops /\ UNCHANGED <<design, region, answer>>

Conclude ==
  /\ Settling /\ answer = NotYet /\ loop = "found"
  /\ answer' = high
  /\ UNCHANGED <<searchVars, design, region>>

PlanRest == (answer # NotYet \/ loop = "ValueError") /\ UNCHANGED planVars

PlanNext == Seek \/ Bound \/ Hopeless \/ Aim \/ Settle \/ Conclude \/ PlanRest

PlanSpec == PlanInit /\ [][PlanNext]_planVars

-----------------------------------------------------------------------------
(* Printing the effect (onus/report/_render.py, mde_text) *)

(* How far a grid point is from the null. *)
GapTo(d, i) ==
  LET p == GridPoint(d, i)
      g == p.num * d.null.den - d.null.num * p.den
  IN  Lowest(IF Upward(d) THEN g ELSE -g, p.den * d.null.den)

(* The null plus, or minus, a gap. *)
Effect(d, gap) ==
  LET up == IF Upward(d) THEN gap.num ELSE -gap.num
  IN  [num |-> d.null.num * gap.den + up * d.null.den, den |-> d.null.den * gap.den]

(* Mutant: to the nearest number of so many digits. *)
RoundedToNearest(gap) ==
  LET enough == gap.den * Raise(Base, MDE_DIGITS - 1)
      places == CHOOSE e \in 0 .. enough :
                  /\ gap.num * Raise(Base, e) >= enough
                  /\ \A f \in 0 .. e - 1 : gap.num * Raise(Base, f) < enough
      whole  == Raise(Base, places)
  IN  Lowest((2 * gap.num * whole + gap.den) \div (2 * gap.den), whole)

(* To MDE_DIGITS significant digits, away from 0. *)
RoundedUp(gap) ==
  LET enough == gap.den * Raise(Base, MDE_DIGITS - 1)
      places == CHOOSE e \in 0 .. enough :
                  /\ gap.num * Raise(Base, e) >= enough
                  /\ \A f \in 0 .. e - 1 : gap.num * Raise(Base, f) < enough
      whole  == Raise(Base, places)
  IN  Lowest(-((-(gap.num * whole)) \div gap.den), whole)

(* The gap that is printed. *)
MdeText(d, i) ==
  LET digits == RoundedUp(GapTo(d, i))
      effect == Effect(d, digits)
  IN  IF effect.num \in 0 .. effect.den THEN digits ELSE GapTo(d, i)

-----------------------------------------------------------------------------
(* Properties *)

(* "every count k in 0..n whose exact binomial p-value against p0 is at     *)
(* most alpha" (power.py:21), the p-value as outcomes counted one by one;   *)
(* and no design of no trials rejects.                                      *)
RegionIsExact ==
  region # NotYet =>
    region = {k \in 0 .. design.n :
                /\ design.n > 0
                /\ AtMost(ByCounting(k, design.n, design.null, design.alternative),
                          Raise(design.null.den, design.n), design.alpha)}

(* The effect returned is the multiple of 1 / GRID nearest the null whose   *)
(* exact power suffices, wherever the float search ended; there is none     *)
(* only if no count rejects, and no error but the documented one            *)
(* (power.py:110-112).                                                      *)
MdeIsNearest ==
  /\ region # NotYet => loop # "ValueError"
  /\ answer = None => region = {}
  /\ answer \in Nat =>
       LET Reaches(i) == AtLeast(Ways(region, design.n, GridPoint(design, i)),
                                 Raise(GridPoint(design, i).den, design.n), design.target)
       IN  Reaches(answer) /\ \A i \in 1 .. answer - 1 : ~Reaches(i)

(* "the printed effect lies no nearer the null than the MDE and still       *)
(* reaches the power" (_render.py:66-67), and it is a probability.          *)
PrintedReaches ==
  answer \in Nat =>
    LET gap    == MdeText(design, answer)
        effect == Effect(design, gap)
        mde    == GapTo(design, answer)
    IN  /\ effect.num \in 0 .. effect.den
        /\ gap.num * mde.den >= mde.num * gap.den
        /\ Suffices(design, region, Lowest(effect.num, effect.den))

(* What the searches of a plan lead to: the right region, and the right     *)
(* effect, printed right.                                                   *)
PlanIsRight == RegionIsExact /\ MdeIsNearest /\ PrintedReaches
=============================================================================
