------------------------------- MODULE Search -------------------------------
(***************************************************************************)
(* The two searches of onus/stats/power.py, one loop iteration a step:     *)
(* _first bisects a range, _settle gallops out from a guess and bisects    *)
(* what that brackets.  Both look for the first index at which a monotone  *)
(* predicate holds.                                                        *)
(***************************************************************************)
EXTENDS Integers

CONSTANT MaxTop  \* bound on the ranges searched

ASSUME MaxTopAssumption == MaxTop \in Nat

VARIABLES holds,      \* the predicate, on 0 .. top
          top,        \* the last index
          loop,       \* "first", one of _settle's "out", "in", "close", "found" or "ValueError"
          low, high,  \* the bounds
          step,       \* how far the gallop goes next
          guess       \* where _settle started; top + 1 for _first

searchVars == <<holds, top, loop, low, high, step, guess>>

(* _first is called on the whole range. *)
StartFirst(f, last) ==
  /\ holds = f /\ top = last
  /\ loop = "first" /\ low = 0 /\ high = last + 1
  /\ step = 1 /\ guess = last + 1

(* _settle is called with a guess at the index. *)
StartSettle(f, last, at) ==
  /\ holds = f /\ top = last
  /\ loop = "out" /\ low = at - 1 /\ high = at
  /\ step = 1 /\ guess = at

(* Every monotone predicate, first true somewhere or nowhere. *)
SearchInit ==
  \E last \in 0 .. MaxTop, from \in 0 .. MaxTop + 1 :
    LET f == [i \in 0 .. last |-> i >= from]
    IN  \/ StartFirst(f, last)
        \/ \E at \in 1 .. last : StartSettle(f, last, at)

Mid == (low + high) \div 2

LeastOf(a, b)    == IF a <= b THEN a ELSE b
GreatestOf(a, b) == IF a >= b THEN a ELSE b

Found == loop' = "found" /\ UNCHANGED <<holds, top, low, high, step, guess>>

(* _first *)
Halve ==
  /\ loop = "first" /\ low < high
  /\ IF holds[Mid] THEN high' = Mid /\ UNCHANGED low
                   ELSE low' = Mid + 1 /\ UNCHANGED high
  /\ UNCHANGED <<holds, top, loop, step, guess>>

Halved == loop = "first" /\ low >= high /\ Found

(* Out to an index that reaches. *)
Outward ==
  /\ loop = "out" /\ ~holds[high] /\ high < top
  /\ low' = high /\ high' = LeastOf(top, high + step) /\ step' = 2 * step
  /\ UNCHANGED <<holds, top, loop, guess>>

OutOfRange ==
  /\ loop = "out" /\ ~holds[high] /\ high = top
  /\ loop' = "ValueError"
  /\ UNCHANGED <<holds, top, low, high, step, guess>>

Reached ==
  /\ loop = "out" /\ holds[high]
  /\ loop' = "in" /\ step' = 1
  /\ UNCHANGED <<holds, top, low, high, guess>>

(* Mutant: the gallop stops as soon as it has moved inward. *)
InwardOnce ==
  /\ loop = "in" /\ low > 0 /\ holds[low]
  /\ high' = low /\ low' = GreatestOf(0, low - step) /\ step' = 2 * step
  /\ loop' = "close"
  /\ UNCHANGED <<holds, top, guess>>

(* In to an index that fails, or to 0. *)
Inward ==
  /\ loop = "in" /\ low > 0 /\ holds[low]
  /\ high' = low /\ low' = GreatestOf(0, low - step) /\ step' = 2 * step
  /\ UNCHANGED <<holds, top, loop, guess>>

Bracketed ==
  /\ loop = "in" /\ (low > 0 => ~holds[low])
  /\ loop' = "close"
  /\ UNCHANGED <<holds, top, low, high, step, guess>>

Close ==
  /\ loop = "close" /\ high - low > 1
  /\ IF holds[Mid] THEN high' = Mid /\ UNCHANGED low
                   ELSE low' = Mid /\ UNCHANGED high
  /\ UNCHANGED <<holds, top, loop, step, guess>>

Closed == loop = "close" /\ high - low <= 1 /\ Found

Loops == Halve \/ Halved \/ Outward \/ OutOfRange \/ Reached \/ Inward \/ Bracketed
         \/ Close \/ Closed

Ended == loop \in {"found", "ValueError"}

(* What was searched for is returned, or the error raised. *)
SearchRest == Ended /\ UNCHANGED searchVars

SearchNext == Loops \/ SearchRest

SearchSpec == SearchInit /\ [][SearchNext]_searchVars

-----------------------------------------------------------------------------
(* Properties *)

(* The bounds stay in the range, in order, so that the predicate is never   *)
(* asked about an index it does not have (power.py:51-59, 156-176).         *)
SearchTypeOK ==
  /\ top \in 0 .. MaxTop /\ holds \in [0 .. top -> BOOLEAN]
  /\ loop \in {"first", "out", "in", "close", "found", "ValueError"}
  /\ low \in 0 .. top + 1 /\ high \in 0 .. top + 1 /\ low <= high
  /\ guess = top + 1 \/ high <= top
  /\ guess \in 1 .. top + 1 /\ step \in Nat

(* _first returns the smallest index where the predicate holds, or the end  *)
(* if it holds nowhere; _settle the smallest above 0, and it fails only if  *)
(* the predicate holds nowhere (power.py:52, 157-162).                      *)
FindsFirst ==
  /\ loop = "found" =>
       /\ \A i \in 0 .. top : i < high /\ (i > 0 \/ guess = top + 1) => ~holds[i]
       /\ high <= top => holds[high]
       /\ guess <= top => high \in 1 .. top
  /\ loop = "ValueError" => \A i \in 1 .. top : ~holds[i]
=============================================================================
