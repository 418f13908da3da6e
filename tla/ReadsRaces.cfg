\* Two readers, three calls, a kill and a power loss, with fairness.
SPECIFICATION FairSpec
CONSTANTS
  p1 = p1
  p2 = p2
  NoOne = NoOne
  Readers = {p1, p2}
  PreregIds = {"s","sa","sb","t"}
  Rules <- FourRules
  Hypotheses = {"h1", "h2"}
  Used = {"d1", "d2"}
  Labels <- FourLabels
  Days = {0, 1}
  Times = {2, 3}
  MaxCalls = 3
  MaxKills = 1
  MaxPowerLosses = 1
INVARIANTS
  SealHolds
  LabelChangesShow
  EarlySaysNothing
  ReceiptsRender
PROPERTIES
  
  ReadsEnd
