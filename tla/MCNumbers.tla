----------------------------- MODULE MCNumbers ------------------------------
(***************************************************************************)
(* The statistics that share the exact tails of Binomial and the           *)
(* adjustments of Multiplicity, one of them at work at a time: a search    *)
(* alone, the plan of a test, a schedule of looks, pairs, or a family.     *)
(* The variables of the others stay as they start.                         *)
(***************************************************************************)
EXTENDS Power, Family, Paired, Sequential

VARIABLE atWork

numberVars == <<atWork, planVars, sizeVars, pairs, familyVars>>

Over(a, b) == [num |-> a, den |-> b]

(* Schedules of looks, at levels p-values equal.                            *)
SmallLevels == {Over(0, 1), Over(1, 8), Over(5, 16), Over(1, 1)}

(* Families of up to three members, their p-values in sixths: One is 36.    *)
Sixths == {0, 6, 12, 18, 24, 30, 36}

ASSUME FamilyAssumption == Divisible

(* Designs of a few trials, with levels that some p-values equal, and a     *)
(* null off the grid.                                                       *)
SmallDesigns ==
  {d \in [n : 0 .. 4, null : {Over(1, 2), Over(1, 3), Over(3, 4), Over(1, 6)},
          alpha : {Over(0, 1), Over(1, 16), Over(1, 4), Over(19, 27), Over(1, 1)},
          alternative : Alternatives, target : {Over(1, 3), Over(4, 5)}] :
     d.alternative = "two-sided" => d.null = Half}

OneDesign == CHOOSE d \in SmallDesigns : d.n = 0

-----------------------------------------------------------------------------
SearchIdle == StartFirst([i \in {0} |-> TRUE], 0)
PlanIdle   == design = OneDesign /\ region = NotYet /\ answer = NotYet
LooksIdle  == /\ level = Half /\ alternative = "less" /\ looks = <<>> /\ trials = 0
              /\ weights = [k \in {0} |-> 1] /\ rejected = 0
FamilyIdle == /\ members = <<>> /\ correction = "holm"
              /\ results = [name \in {} |-> 0] /\ adjusted = <<>>

NumbersInit ==
  \/ atWork = "search" /\ SearchInit /\ PlanIdle /\ LooksIdle /\ PairedInit /\ FamilyIdle
  \/ atWork = "plan"   /\ PlanInit /\ LooksIdle /\ PairedInit /\ FamilyIdle
  \/ atWork = "looks"  /\ SearchIdle /\ PlanIdle /\ SizeInit /\ PairedInit /\ FamilyIdle
  \/ atWork = "pairs"  /\ SearchIdle /\ PlanIdle /\ LooksIdle /\ PairedInit /\ FamilyIdle
  \/ atWork = "family" /\ SearchIdle /\ PlanIdle /\ LooksIdle /\ PairedInit /\ FamilyInit

NumbersNext ==
  \/ atWork = "search" /\ SearchNext
       /\ UNCHANGED <<atWork, design, region, answer, sizeVars, pairs, familyVars>>
  \/ atWork = "plan"   /\ PlanNext /\ UNCHANGED <<atWork, sizeVars, pairs, familyVars>>
  \/ atWork = "looks"  /\ SizeNext /\ UNCHANGED <<atWork, planVars, pairs, familyVars>>
  \/ atWork = "pairs"  /\ PairedNext /\ UNCHANGED <<atWork, planVars, sizeVars, familyVars>>
  \/ atWork = "family" /\ FamilyNext /\ UNCHANGED <<atWork, planVars, sizeVars, pairs>>

NumbersSpec == NumbersInit /\ [][NumbersNext]_numberVars
=============================================================================
