\* A copy, an amendment, and an amendment that renames the experiment.
SPECIFICATION Spec
CONSTANTS
  p1 = p1
  p2 = p2
  NoOne = NoOne
  Readers = {p1}
  PreregIds = {"s", "sa", "sb", "sc", "t"}
  Rules <- FiveRules
  Hypotheses = {"h1", "h2", "h3"}
  Used = {"d1", "d2", "d3"}
  Labels <- FiveLabels
  Days = {0, 1}
  Times = {3}
  MaxCalls = 3
  MaxKills = 0
  MaxPowerLosses = 0
INVARIANTS
  PostHocStays
