\* Two signers, two artifacts at one file, a kill and a power loss.
SPECIFICATION Spec
CONSTANTS
  p1 = p1
  p2 = p2
  a1 = a1
  a2 = a2
  f1 = f1
  f2 = f2
  x = x
  y = y
  c1 = c1
  Artifacts = {a1, a2}
  Files = {f1}
  Contents = {x, y}
  Missing = Missing
  NoOne = NoOne
  Signers = {p1, p2}
  Attended = {p1, p2}
  Reviewers = {p1, p2}
  Checkers = {}
  PathOf <- SharedPath
  MaxCalls = 3
  MaxChecks = 0
  MaxEdits = 0
  MaxKills = 1
  MaxPowerLosses = 1
SYMMETRY SignersAlike
INVARIANTS
  ChainHolds
  
PROPERTIES
  ImplementsLog
