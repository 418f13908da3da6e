------------------------------- MODULE MCLoad -------------------------------
(***************************************************************************)
(* A small instance of Load: a record of two hypotheses, two versions of   *)
(* it, two amendments to choose from on the first day, and one on the      *)
(* second.                                                                 *)
(***************************************************************************)
EXTENDS Load, TLC

(* The p-values of the outcomes, in parts of 1 / One, and alpha. *)
PValueOf(test, outcome) ==
  CASE outcome = "wins"   -> IF test = "greater" THEN 1 ELSE 36
    [] outcome = "losses" -> IF test = "greater" THEN 36 ELSE 1
    [] outcome = "few"    -> 2

Hypothesis(test, family) == [test |-> test, alpha |-> 2, family |-> family]

Record(registered, h1, h2, families, notes) ==
  [registered |-> registered, experiment |-> "E", shared |-> "count",
   bound |-> "notes" :> Sha(notes), hypotheses |-> "h1" :> h1 @@ "h2" :> h2,
   families |-> families]

Up   == Hypothesis("greater", "f")
Down == Hypothesis("less", "f")

First  == Record(1, Up, Up, "f" :> "holm", "n1")
Second == Record(1, Down, Up, "f" :> "holm", "n1")

(* The record has two versions.  On the first day an amendment turns h1     *)
(* round, or binds the notes anew and changes the correction.  On the       *)
(* second day one gives h2 a family of its own.                             *)
Files ==
     "R1" :> First
  @@ "R2" :> Second
  @@ "A1" :> [amends |-> IdOf("record", "R1"), record |-> Second]
  @@ "A2" :> [amends |-> IdOf("record", "R1"),
              record |-> Record(1, Up, Up, "f" :> "benjamini-hochberg", "n2")]
  @@ "B1" :> [amends |-> IdOf("a1", "A1"),
              record |-> Record(1, Down, Hypothesis("greater", "g"),
                                "f" :> "holm" @@ "g" :> "holm", "n1")]

TwoDays == <<"a1", "a2">>

HeldBy == "record" :> {"R1", "R2"} @@ "a1" :> {"A1", "A2"} @@ "a2" :> {"B1"}
          @@ "notes" :> {"n1", "n2"}

Outcomes == [{"h1", "h2"} -> {"wins", "losses", "few"}]
=============================================================================
