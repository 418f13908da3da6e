\* A power loss soon after a sign-off.
SPECIFICATION Spec
CONSTANTS
  p1 = p1
  p2 = p2
  a1 = a1
  a2 = a2
  f1 = f1
  f2 = f2
  x = x
  y = y
  c1 = c1
  Artifacts = {a1}
  Files = {f1, f2}
  Contents = {x, y}
  Missing = Missing
  NoOne = NoOne
  Signers = {p1, p2}
  Attended = {p1}
  Reviewers = {p1, p2}
  Checkers = {}
  PathOf <- OnePath
  MaxCalls = 1
  MaxChecks = 0
  MaxEdits = 0
  MaxKills = 0
  MaxPowerLosses = 1
INVARIANTS
  NeverTornCopy
