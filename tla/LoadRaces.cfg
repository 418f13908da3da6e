\* Edits and sign-offs at any step of two loads.
SPECIFICATION Spec
CONSTANTS
  One = 36
  PValue <- PValueOf
  RecordFile = "record"
  AmendmentFiles <- TwoDays
  BoundFiles = {"notes"}
  ContentsOf <- HeldBy
  Decoded <- Files
  Data <- Outcomes
  Missing = Missing
  MaxLoads = 2
  MaxEdits = 1
  MaxLines = 3
INVARIANTS
  AppliedWereSigned
  NothingPassedOver
  CalmLoadIsRight
  
  OnlyLoadedAreIntact
  TouchesSuffice
