-------------------------------- MODULE Rule --------------------------------
(***************************************************************************)
(* Records and amendments as values (onus/prereg/_rule.py): what an        *)
(* amendment touches, the rule a record and its amendments make, and the   *)
(* labels a rule gives data (onus/prereg/_evaluate.py).                    *)
(*                                                                         *)
(* A record is [registered, experiment, shared, bound, hypotheses,         *)
(* families].  shared stands for unit, order_key, horizon and looks, which *)
(* every result depends on; bound gives the digest of each file the record *)
(* binds; a hypothesis is [test, alpha, family], test being all that its   *)
(* p-value depends on (test, alternative, method, p0); families gives each *)
(* family its correction.  Left out: provenance, the hypotheses' order,    *)
(* and fields of the wrong kind, which load refuses one by one.            *)
(***************************************************************************)
EXTENDS Multiplicity, SequencesExt

CONSTANT PValue(_, _)  \* the exact p-value a test gives the outcomes of one hypothesis

Sha(x) == <<"sha256", x>>

(* _id: the file's name, and its bytes by their digest. *)
IdOf(name, raw) == <<name, Sha(raw)>>

Members(record, family) ==
  {h \in DOMAIN record.hypotheses : record.hypotheses[h].family = family}

(* What _build requires of a record beyond the kinds of its fields: the     *)
(* families are those its hypotheses name, each decided at one alpha.       *)
Sound(record) ==
  /\ DOMAIN record.hypotheses # {} /\ IsFiniteSet(DOMAIN record.hypotheses)
  /\ DOMAIN record.families = {record.hypotheses[h].family : h \in DOMAIN record.hypotheses}
  /\ \A g, h \in DOMAIN record.hypotheses :
       record.hypotheses[g].family = record.hypotheses[h].family =>
         record.hypotheses[g].alpha = record.hypotheses[h].alpha

-----------------------------------------------------------------------------
(* What an amendment touches *)

(* The fields of _SHARED. *)
Shared(record) == <<record.registered, record.shared, record.bound>>

(* Hypotheses that are new under their name, or a field of which changed. *)
Changed(before, after) ==
  {h \in DOMAIN after.hypotheses :
     h \in DOMAIN before.hypotheses => before.hypotheses[h] # after.hypotheses[h]}

(* Mutant: a family is regrouped when its correction changes. *)
RegroupedByCorrection(before, after) ==
  {family \in DOMAIN after.families :
     family \in DOMAIN before.families => before.families[family] # after.families[family]}

(* Families that are new, or whose correction or members changed. *)
Regrouped(before, after) ==
  {family \in DOMAIN after.families :
     \/ family \notin DOMAIN before.families
     \/ before.families[family] # after.families[family]
     \/ Members(before, family) # Members(after, family)}

Touches(before, after) ==
  IF Shared(before) # Shared(after) THEN DOMAIN after.hypotheses
  ELSE Changed(before, after)
       \cup UNION {Members(after, family) : family \in Regrouped(before, after)}

-----------------------------------------------------------------------------
(* Rules *)

(* The rule of a record before any amendment, and of its file's bytes. *)
RuleOf(name, raw, record) ==
  [id |-> IdOf(name, raw), raw |-> raw, record |-> record, amendments |-> <<>>]

(* _amended lets the amendment, a file's [amends, record], follow the rule. *)
Amends(rule, amendment) ==
  /\ amendment.amends = rule.id
  /\ Sound(amendment.record)
  /\ amendment.record.registered = rule.record.registered

(* The rule as an amendment, in a file of these bytes, leaves it. *)
Amended(rule, name, raw, amendment) ==
  LET id == IdOf(name, raw)
  IN  [id         |-> id,
       raw        |-> rule.raw,
       record     |-> amendment.record,
       amendments |-> Append(rule.amendments,
                        [name |-> name, id |-> id, raw |-> raw,
                         touches |-> Touches(rule.record, amendment.record)])]

-----------------------------------------------------------------------------
(* Evaluating a rule on data: outcomes, by hypothesis, of the units used *)

(* The data hold outcomes for exactly the hypotheses of the record. *)
Evaluable(record, data) == DOMAIN data = DOMAIN record.hypotheses

AdjustedIn(record, data, family) ==
  LET members == SetToSeq(Members(record, family))
      out     == Adjust(record.families[family],
                        [i \in DOMAIN members |->
                           PValue(record.hypotheses[members[i]].test, data[members[i]])])
  IN  [h \in Members(record, family) |-> out[CHOOSE i \in DOMAIN members : members[i] = h]]

LabelOf(record, data, h) ==
  LET own == record.hypotheses[h]
  IN  IF Decide(AdjustedIn(record, data, own.family)[h], own.alpha) THEN "met" ELSE "not met"

(* h is touched, or a member of its family is: the p-value adjusted for h   *)
(* depends on all of theirs.                                                *)
KinTouched(record, touches, h) ==
  Members(record, record.hypotheses[h].family) \cap touches # {}
=============================================================================
