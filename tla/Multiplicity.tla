---------------------------- MODULE Multiplicity ----------------------------
(***************************************************************************)
(* Adjusting the p-values of a family (onus/stats/multiplicity.py).        *)
(*                                                                         *)
(* A p-value is a whole number of equal parts of 1, of which there are     *)
(* One.  Fractions are exact in the code, so the parts are chosen fine     *)
(* enough for every division by a rank to come out even.                   *)
(***************************************************************************)
EXTENDS Integers, Sequences, FiniteSets, FiniteSetsExt

CONSTANT One  \* how many parts make 1

ASSUME OneAssumption == One \in Nat \ {0}

Corrections == {"holm", "benjamini-hochberg"}

(* The place of ps[i] once ps is sorted; equal ones keep their order. *)
Place(ps, i) ==
  1 + Cardinality({j \in DOMAIN ps : ps[j] < ps[i] \/ (ps[j] = ps[i] /\ j < i)})

(* The index of the p-value at each place. *)
Order(ps) == [place \in DOMAIN ps |-> CHOOSE i \in DOMAIN ps : Place(ps, i) = place]

(* The p-value at a place, times how many are left; at most 1. *)
StepDown(ps, place) == Min({One, (Len(ps) - place + 1) * ps[Order(ps)[place]]})

(* The p-value at a place, times the length over the place. *)
StepUp(ps, place) == (ps[Order(ps)[place]] * Len(ps)) \div place

(* Mutant: no running maximum. *)
HolmUnordered(ps) == [i \in DOMAIN ps |-> StepDown(ps, Place(ps, i))]

(* The running maximum from the smallest p-value up. *)
Holm(ps) == [i \in DOMAIN ps |-> Max({StepDown(ps, place) : place \in 1 .. Place(ps, i)})]

(* The running minimum from the largest p-value down, from 1. *)
BenjaminiHochberg(ps) ==
  [i \in DOMAIN ps |-> Min({One} \cup {StepUp(ps, place) : place \in Place(ps, i) .. Len(ps)})]

Adjust(correction, ps) ==
  IF correction = "holm" THEN Holm(ps) ELSE BenjaminiHochberg(ps)

(* decide: an adjusted p-value of exactly alpha rejects. *)
Decide(p, alpha) == p <= alpha
=============================================================================
