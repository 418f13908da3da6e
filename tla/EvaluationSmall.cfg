\* Up to three units, a horizon of two.
SPECIFICATION Spec
CONSTANTS
  One = 16
  PValue <- ExactP
  Rules <- SmallRules
  Units <- SmallUnits
  Days = {3, 4}
  NoDay = NoDay
  MaxUnits = 3
INVARIANTS
  ListingIsIrrelevant
  OnlyUsedOutcomesShow
  BetterNeverLoses
PROPERTY
  ReachedStands
