\* Documents of up to seven tokens, chains of two scrubbers, texts of up to six symbols.
SPECIFICATION Spec
CONSTANTS
  SentenceLists <- Lists
  Letters = {"a"}
  MaxDoc = 7
  MaxParts = 2
  MaxLen = 2
  Mappings <- SmallMappings
  Folders = {"private", "var", "app"}
  MaxText = 6
  Pieces <- SmallPieces
  Patterns <- SmallPatterns
INVARIANTS
  PassesExactlyWhenQuoted
  ScrubsRunsAlone
  
