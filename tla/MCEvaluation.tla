---------------------------- MODULE MCEvaluation ----------------------------
(***************************************************************************)
(* Two units make the horizon, two hypotheses the rule; units come in an   *)
(* order that is not the order of their keys, some with ids or keys that   *)
(* repeat, are of another type, or are neither.                            *)
(***************************************************************************)
EXTENDS Evaluation

Str(k) == [type |-> "str", rank |-> k]
Int_(k) == [type |-> "int", rank |-> k]
Other  == [type |-> "other", rank |-> 0]

Sign(alternative) == [name |-> "sign_test", alternative |-> alternative, null |-> Half]
Binom(alternative) == [name |-> "binomial_test", alternative |-> alternative, null |-> Half]

Hyp(test) == [test |-> test, alpha |-> 8, family |-> "f"]

RuleWith(horizon, t1, t2, correction) ==
  [shared |-> horizon, hypotheses |-> "h1" :> Hyp(t1) @@ "h2" :> Hyp(t2),
   families |-> "f" :> correction]

Count2 == [kind |-> "count", size |-> 2, start |-> 0]
Days2  == [kind |-> "days", size |-> 2, start |-> 2]

SmallRules ==
  {RuleWith(Count2, Sign("greater"), Binom("greater"), "holm"),
   RuleWith(Days2, Sign("greater"), Binom("greater"), "benjamini-hochberg"),
   RuleWith(Days2, Sign("two-sided"), Binom("less"), "holm")}

Both(a, b) == "h1" :> a @@ "h2" :> b

Unit(id, order, outcomes) == [id |-> id, order |-> order, outcomes |-> outcomes]

SmallUnits ==
  {Unit(Str(i), Str(5 - i), o) :
     i \in 1 .. 3, o \in {Both("win", "success"), Both("loss", "success"), Both("tie", "failure")}}
  \cup {Unit(Str(4), Str(1), Both("win", "success")),
        Unit(Int_(1), Str(3), Both("win", "success")),
        Unit(Str(1), Int_(2), Both("win", "success")),
        Unit(Int_(2), Int_(1), Both("loss", "failure")),
        Unit(Str(5), Str(5), Both("success", "success")),
        Unit(Str(5), Str(3), "h1" :> "win"),
        Unit(Str(6), Other, Both("win", "success"))}
=============================================================================
