\* Two suites, three runs, kills at every step and a file edited by hand.
SPECIFICATION Spec
CONSTANTS
  Suites = {s1, s2}
  Sources <- SmallSources
  Texts <- SmallTexts
  Records <- SmallRecords
  Stems = {"s", "t"}
  Exts = {".md", ".json"}
  Nothing = Nothing
  Cut = Cut
  MaxStarts = 3
  MaxEdits = 1
SYMMETRY Symmetric
INVARIANTS
  
  RecordingRepairs

  
