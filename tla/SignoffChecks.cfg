\* A signer, a session that is refused, and a checker, an edit and a kill, with fairness.
SPECIFICATION FairSpec
CONSTANTS
  p1 = p1
  p2 = p2
  a1 = a1
  a2 = a2
  f1 = f1
  f2 = f2
  x = x
  y = y
  c1 = c1
  Artifacts = {a1}
  Files = {f1, f2}
  Contents = {x, y}
  Missing = Missing
  NoOne = NoOne
  Signers = {p1, p2}
  Attended = {p1}
  Reviewers = {p1, p2}
  Checkers = {c1}
  PathOf <- OnePath
  MaxCalls = 2
  MaxChecks = 1
  MaxEdits = 1
  MaxKills = 1
  MaxPowerLosses = 0
PROPERTIES
  NoRevokedSignoff
  CalmCheckIsRight
  
