------------------------------ MODULE MCReads -------------------------------
(***************************************************************************)
(* Small instances of Reads for TLC: a record of two hypotheses in one     *)
(* family, three amendments of it, a copy of it under another stem, and    *)
(* three sets of used units.                                               *)
(***************************************************************************)
EXTENDS Reads

CONSTANTS p1, p2

RuleOf(stem, record, experiment, names, amendments, touches, end) ==
  [stem |-> stem, record |-> record, experiment |-> experiment,
   family |-> [h \in names |-> "primary"],
   amendments |-> amendments, touches |-> touches, end |-> end]

(* The record s; the amendment sa, which turns h1's alternative round; sb,  *)
(* which renames the experiment; sc, which drops h1 and adds h3; the copy t *)
(* of s.                                                                    *)
FiveRules ==
     "s"  :> RuleOf("S", "s", "E", {"h1", "h2"}, <<>>, {}, 1)
  @@ "sa" :> RuleOf("S", "s", "E", {"h1", "h2"}, <<"sa">>, {"h1"}, 1)
  @@ "sb" :> RuleOf("S", "s", "F", {"h1", "h2"}, <<"sa", "sb">>, {}, 1)
  @@ "sc" :> RuleOf("S", "s", "F", {"h2", "h3"}, <<"sa", "sb", "sc">>, {"h2", "h3"}, 1)
  @@ "t"  :> RuleOf("T", "t", "E", {"h1", "h2"}, <<>>, {}, 0)

All(names, label) == [h \in names |-> label]

(* On d1 the record rejects both hypotheses; once h1 is turned round it     *)
(* rejects neither, since h2 is adjusted with h1.  On d2 neither is met.    *)
FiveLabels ==
  LET both      == {"h1", "h2"}
      rejecting == "d1" :> All(both, "met") @@ "d2" :> All(both, "not met")
      amended   == "d1" :> All(both, "not met") @@ "d2" :> All(both, "not met")
  IN  "s" :> rejecting @@ "t" :> rejecting @@ "sa" :> amended @@ "sb" :> amended
      @@ "sc" :> ("d3" :> All({"h2", "h3"}, "met"))

FourRules == [id \in {"s", "sa", "sb", "t"} |-> FiveRules[id]]
FourLabels == [id \in {"s", "sa", "sb", "t"} |-> FiveLabels[id]]
=============================================================================
