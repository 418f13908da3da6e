------------------------------- MODULE Family -------------------------------
(***************************************************************************)
(* Family (onus/stats/multiplicity.py): its members are declared first,    *)
(* results are added one by one in any order, and it is adjusted once each *)
(* member has its result.                                                  *)
(***************************************************************************)
EXTENDS Multiplicity

CONSTANTS Names,    \* what a member can be called
          PValues   \* the p-values a result can have

(* The p-values are parts of 1, and every division by a place comes out even. *)
Divisible ==
  /\ PValues \subseteq 0 .. One
  /\ \A p \in PValues : \A m \in 1 .. Cardinality(Names) : \A place \in 1 .. m :
    (p * m) % place = 0

VARIABLES members,     \* the members, in the order declared
          correction,
          results,     \* the results added, by member
          adjusted     \* the adjusted p-values, by member, once asked for

familyVars == <<members, correction, results, adjusted>>

Unadjusted == <<>>

Distinct(s) == \A i, j \in DOMAIN s : s[i] = s[j] => i = j

Declared == {members[i] : i \in DOMAIN members}

FamilyInit ==
  /\ members \in {s \in UNION {[1 .. m -> Names] : m \in 1 .. Cardinality(Names)} : Distinct(s)}
  /\ correction \in Corrections
  /\ results = [name \in {} |-> 0]
  /\ adjusted = Unadjusted

(* A result of an undeclared member, or a second one, is refused. *)
Add(name, p) ==
  /\ name \in Declared \ DOMAIN results
  /\ results' = [each \in DOMAIN results \cup {name} |->
                   IF each = name THEN p ELSE results[each]]
  /\ UNCHANGED <<members, correction, adjusted>>

(* adjusted: refused while a declared member has no result. *)
Adjusted ==
  LET out == Adjust(correction, [i \in DOMAIN members |-> results[members[i]]])
  IN  /\ adjusted = Unadjusted
      /\ Declared \subseteq DOMAIN results
      /\ adjusted' = [name \in Declared |->
                        out[CHOOSE i \in DOMAIN members : members[i] = name]]
      /\ UNCHANGED <<members, correction, results>>

(* Nothing is left to ask of the family. *)
FamilyRest == adjusted # Unadjusted /\ UNCHANGED familyVars

FamilyNext ==
  \/ \E name \in Names, p \in PValues : Add(name, p)
  \/ Adjusted
  \/ FamilyRest

FamilySpec == FamilyInit /\ [][FamilyNext]_familyVars

-----------------------------------------------------------------------------
(* Properties *)

(* Holm decides as the closed testing procedure does: a hypothesis is       *)
(* rejected at a level exactly when every set of members it is in holds one *)
(* whose p-value, times the size of the set, is at most that level.  So the *)
(* order of equal p-values, and of the members, makes no difference, and    *)
(* the familywise error rate is controlled.                                 *)
HolmCloses ==
  correction = "holm" /\ adjusted # Unadjusted =>
    \A name \in Declared, alpha \in 0 .. One - 1 :
      Decide(adjusted[name], alpha) <=>
        \A S \in SUBSET Declared : name \in S =>
          \E other \in S : Cardinality(S) * results[other] <= alpha

(* Benjamini-Hochberg decides as its step-up rule does: a hypothesis is     *)
(* rejected when, for some k, its p-value and at least k in all are at most *)
(* k / m of the level.                                                      *)
BHStepsUp ==
  correction = "benjamini-hochberg" /\ adjusted # Unadjusted =>
    \A name \in Declared, alpha \in 0 .. One - 1 :
      LET m     == Cardinality(Declared)
          Up(k) == {other \in Declared : results[other] * m <= k * alpha}
      IN  Decide(adjusted[name], alpha) <=>
            \E k \in 1 .. m : name \in Up(k) /\ Cardinality(Up(k)) >= k

(* Each correction decides as the procedure it is named for. *)
DecidesAsNamed == HolmCloses /\ BHStepsUp
=============================================================================
