\* The working tree is edited, a tool fails, a build is stopped, a new backend comes out.
CONSTANTS
  Modules = {"extra"}
  Versions = {"v1"}
  Assigned = {"v1", "v2"}
  Backends = {1, 2}
  Suits <- TwoBackends
  MaxEdits = 2
  MaxMerges = 1
  MaxFailures = 1
  MaxBreaks = 1
SPECIFICATION Spec
INVARIANTS ReleasedIsTheCommit GateForetells 
