----------------------------- MODULE Evaluation -----------------------------
(***************************************************************************)
(* Evaluating a rule on its data (onus/prereg/_evaluate.py): which units   *)
(* its horizon uses, the exact tests on their outcomes, and the labels.    *)
(* Composes Rule (families, labels) with the tests of Binomial; units come *)
(* in one by one and the caller names a day.                               *)
(*                                                                         *)
(* A unit is [id, order, outcomes].  An id or an order is [type, rank]: an *)
(* "int", a "str", or "other" for what is neither or is not there.  rank   *)
(* is its place among its type's values, for an id as json.dumps spells    *)
(* it; a "str" is also the day its rank says, for a days horizon.  A       *)
(* rule's shared field is its horizon, [kind, size, start].                *)
(***************************************************************************)
EXTENDS Rule, Binomial

CONSTANTS Rules, Units, Days,
          NoDay,    \* as_of is not given
          MaxUnits  \* bound on the data

Keys == [type : {"int", "str", "other"}, rank : Int]

ASSUME UnitsAssumption ==
  Units \subseteq [id : Keys, order : Keys, outcomes : {u.outcomes : u \in Units}]

ASSUME RulesAssumption ==
  \A r \in Rules :
    /\ DOMAIN r.hypotheses # {}
    /\ r.shared.kind \in {"count", "days"} /\ r.shared.size \in Nat \ {0} /\ r.shared.start \in Int

ASSUME DaysAssumption == Days \subseteq Int /\ NoDay \notin Days

VARIABLES rule, data, asOf

vars == <<rule, data, asOf>>

Is(kind)   == [kind |-> kind]
Used(seq)  == [kind |-> "used", used |-> seq]

UnitsRefused(units) ==
  \/ \E i \in DOMAIN units : "other" \in {units[i].id.type, units[i].order.type}
  \/ \E i, j \in DOMAIN units : i # j /\ units[i].id = units[j].id

Earlier(u, v) == u.order.rank < v.order.rank

(* The spelling of a string begins with a quote, which sorts before digits. *)
SpeltBefore(a, b) ==
  \/ a.type = "str" /\ b.type = "int"
  \/ a.type = b.type /\ a.rank < b.rank

(* The keys of the two sorts, as the pairs of places they put in order. *)
ByOrder(units, places) == {p \in places \X places : Earlier(units[p[1]], units[p[2]])}

ByDayThenId(units, places) ==
  {p \in places \X places :
     LET u == units[p[1]]
         v == units[p[2]]
     IN  Earlier(u, v) \/ (u.order.rank = v.order.rank /\ SpeltBefore(u.id, v.id))}

(* The places that come before place i; a sort leaves equals as they were. *)
Ahead(places, before, i) ==
  {j \in places : <<j, i>> \in before \/ (j < i /\ <<i, j>> \notin before)}

(* The units at some places, sorted. *)
Sorted(units, places, before) ==
  [k \in 1 .. Cardinality(places) |->
     units[CHOOSE i \in places : Cardinality(Ahead(places, before, i)) = k - 1]]

(* Two types, or two units in one place. *)
Ambiguous(units) ==
  \E i, j \in DOMAIN units : i # j /\ (\/ units[i].order.type # units[j].order.type
                                       \/ units[i].order = units[j].order)

InOrder(units) == Sorted(units, DOMAIN units, ByOrder(units, DOMAIN units))

(* Mutant: the first units as they are listed. *)
CountChosenAsListed(size, units) ==
  CASE Ambiguous(units)                         -> Is("PreregError")
    [] ~Ambiguous(units) /\ Len(units) < size -> Is("HorizonNotReachedError")
    [] OTHER -> Used(InOrder(SubSeq(units, 1, size)))

(* Mutant: the newest units. *)
CountChosenNewest(size, units) ==
  CASE Ambiguous(units)                         -> Is("PreregError")
    [] ~Ambiguous(units) /\ Len(units) < size -> Is("HorizonNotReachedError")
    [] OTHER -> Used(SubSeq(InOrder(units), Len(units) - size + 1, Len(units)))

CountChosen(size, units) ==
  CASE Ambiguous(units)                         -> Is("PreregError")
    [] ~Ambiguous(units) /\ Len(units) < size -> Is("HorizonNotReachedError")
    [] OTHER -> Used(SubSeq(InOrder(units), 1, size))

WindowEnd(horizon) == horizon.start + horizon.size

InWindow(horizon, units) ==
  {i \in DOMAIN units : units[i].order.rank \in horizon.start .. WindowEnd(horizon) - 1}

DaysChosen(horizon, units, day) ==
  CASE day = NoDay -> Is("PreregError")
    [] day # NoDay /\ day < WindowEnd(horizon) -> Is("HorizonNotReachedError")
    [] day # NoDay /\ day >= WindowEnd(horizon)
         /\ (\E i \in DOMAIN units : units[i].order.type # "str") -> Is("PreregError")
    [] OTHER -> LET places == InWindow(horizon, units)
                IN  Used(Sorted(units, places, ByDayThenId(units, places)))

Chosen(horizon, units, day) ==
  IF horizon.kind = "count" THEN CountChosen(horizon.size, units)
  ELSE DaysChosen(horizon, units, day)

OUTCOMES == [sign_test |-> {"win", "loss", "tie"}, binomial_test |-> {"success", "failure"}]

(* The unit records an outcome for exactly the hypotheses. *)
Matches(record, unit) ==
  /\ DOMAIN unit.outcomes = DOMAIN record.hypotheses
  /\ \A h \in DOMAIN record.hypotheses :
       unit.outcomes[h] \in OUTCOMES[record.hypotheses[h].test.name]

(* What load has checked of each test; the code tests at an alpha below 1.  *)
ASSUME TestsAssumption ==
  \A r \in Rules :
    /\ IsFiniteSet(DOMAIN r.hypotheses)
    /\ \A h \in DOMAIN r.hypotheses :
         LET own == r.hypotheses[h]
         IN  /\ own.alpha \in 0 .. One - 1
             /\ own.test.name \in DOMAIN OUTCOMES /\ own.test.null \in Fractions
             /\ own.test.name = "sign_test" => own.test.null = Half

Number(outcome, seen) == Cardinality({i \in DOMAIN seen : seen[i] = outcome})

(* Mutant: wins and losses change places. *)
TestSwapped(test, seen) ==
  IF test.name = "sign_test"
  THEN SignTest(Number("loss", seen), Number("win", seen), Number("tie", seen), test.alternative)
  ELSE BinomialTest(Number("success", seen), Len(seen), test.null, test.alternative)

Test(test, seen) ==
  IF test.name = "sign_test"
  THEN SignTest(Number("win", seen), Number("loss", seen), Number("tie", seen), test.alternative)
  ELSE BinomialTest(Number("success", seen), Len(seen), test.null, test.alternative)

(* The value of PValue: a p-value in parts of 1, fine enough to be exact. *)
ExactP(test, seen) ==
  LET result == Test(test, seen) IN (result.p * One) \div Raise(test.null.den, result.n)

Seen(units, h) == [i \in DOMAIN units |-> units[i].outcomes[h]]

Labels(record, units) ==
  LET seen == [h \in DOMAIN record.hypotheses |-> Seen(units, h)]
  IN  [h \in DOMAIN record.hypotheses |-> LabelOf(record, seen, h)]

(* Mutant: outcomes are looked at before the units are chosen. *)
EvaluateLookingFirst(record, units, day) ==
  LET chosen == IF UnitsRefused(units) \/ \E i \in DOMAIN units : ~Matches(record, units[i])
                THEN Is("PreregError") ELSE Chosen(record.shared, units, day)
  IN  CASE chosen.kind # "used" -> chosen
        [] chosen.kind = "used" /\ (\E h \in DOMAIN record.hypotheses :
             Test(record.hypotheses[h].test, Seen(chosen.used, h)) = Empty) -> Is("EmptySampleError")
        [] OTHER -> [kind |-> "evaluated", used |-> chosen.used, labels |-> Labels(record, chosen.used)]

Evaluate(record, units, day) ==
  LET chosen  == IF UnitsRefused(units) THEN Is("PreregError") ELSE Chosen(record.shared, units, day)
      matched == \A i \in DOMAIN chosen.used : Matches(record, chosen.used[i])
      empty   == \E h \in DOMAIN record.hypotheses :
                   Test(record.hypotheses[h].test, Seen(chosen.used, h)) = Empty
  IN  CASE chosen.kind # "used"                          -> chosen
        [] chosen.kind = "used" /\ ~matched              -> Is("PreregError")
        [] chosen.kind = "used" /\ matched /\ empty      -> Is("EmptySampleError")
        [] OTHER -> [kind |-> "evaluated", used |-> chosen.used, labels |-> Labels(record, chosen.used)]

(* status: a horizon not yet reached is "pending", not an error. *)
Status(record, units, day) ==
  LET result == Evaluate(record, units, day)
  IN  CASE result.kind = "evaluated"              -> result.labels
        [] result.kind = "HorizonNotReachedError" -> [h \in DOMAIN record.hypotheses |-> "pending"]
        [] OTHER                                  -> result

-----------------------------------------------------------------------------
(* Data come in *)

Init == rule \in Rules /\ data = <<>> /\ asOf \in Days \cup {NoDay}

Arrive ==
  /\ Len(data) < MaxUnits
  /\ \E unit \in Units : data' = Append(data, unit)
  /\ UNCHANGED <<rule, asOf>>

Name == asOf' \in (Days \cup {NoDay}) \ {asOf} /\ UNCHANGED <<rule, data>>

Next == Arrive \/ Name

Spec == Init /\ [][Next]_vars

-----------------------------------------------------------------------------
(* Properties *)

Answer    == Evaluate(rule, data, asOf)
Permuted(seq, order) == [i \in DOMAIN seq |-> seq[order[i]]]

(* The order in which units are listed shows in nothing, not even in the    *)
(* units hashed, so no one can choose a result by listing them anew         *)
(* (_evaluate.py:147-148, 155).                                             *)
ListingIsIrrelevant ==
  LET answer == Answer
  IN  \A order \in Bijection(DOMAIN data, DOMAIN data) :
        Evaluate(rule, Permuted(data, order), asOf) = answer

(* What a unit recorded reaches the answer only if the horizon uses the     *)
(* unit: nothing shows early, and a bad outcome outside refuses nothing     *)
(* (_evaluate.py:193-206).                                                  *)
OnlyUsedOutcomesShow ==
  LET answer == Answer
      shown  == IF answer.kind = "evaluated" THEN Range(answer.used) ELSE {}
  IN  answer.kind \in {"evaluated", "HorizonNotReachedError"} =>
        \A i \in DOMAIN data, other \in {u.outcomes : u \in Units} :
          data[i] \in shown \/ Evaluate(rule, [data EXCEPT ![i].outcomes = other], asOf) = answer

Ranked == [loss |-> 1, tie |-> 2, win |-> 3, failure |-> 1, success |-> 2]

(* A better outcome never loses a result: where one used unit does better   *)
(* on a hypothesis that asks for more, every hypothesis of that kind that   *)
(* was met stays met, through its family's adjustment too, as long as       *)
(* there is a sample (_evaluate.py:207-233).                                *)
BetterNeverLoses ==
  LET answer == Answer
      names  == DOMAIN rule.hypotheses
  IN  (answer.kind = "evaluated" /\ \A h \in names : rule.hypotheses[h].test.alternative = "greater") =>
        \A i \in DOMAIN data, h \in names :
          data[i] \in Range(answer.used) =>
            \A better \in OUTCOMES[rule.hypotheses[h].test.name] :
              Ranked[better] > Ranked[data[i].outcomes[h]] =>
                LET after == Evaluate(rule, [data EXCEPT ![i].outcomes[h] = better], asOf)
                IN  after.kind = "evaluated" =>
                      \A g \in names : answer.labels[g] = "met" => after.labels[g] = "met"

(* The unit belongs before the horizon's last, or in its window. *)
Belongs(unit, used) ==
  IF rule.shared.kind = "count" THEN \E u \in Range(used) : Earlier(unit, u)
  ELSE unit.order.rank \in rule.shared.start .. WindowEnd(rule.shared) - 1

StandsAfter(unit, before, after) ==
  before.kind = "evaluated" =>
    /\ Status(rule, Append(data, unit), asOf) # [h \in DOMAIN rule.hypotheses |-> "pending"]
    /\ \/ Belongs(unit, before.used)
       \/ after = before
       \/ after.kind = "PreregError"
            /\ (UnitsRefused(Append(data, unit)) \/ Ambiguous(Append(data, unit)))

(* A result once reached stands: one more unit changes it only if it        *)
(* belongs among the units used, or makes the data ambiguous or malformed;  *)
(* nothing makes it pending again (_evaluate.py:140-148, 152-157).          *)
ReachedStands ==
  [][\A unit \in Units : data' = Append(data, unit) =>
       StandsAfter(unit, Evaluate(rule, data, asOf), Evaluate(rule, Append(data, unit), asOf))]_vars
=============================================================================
