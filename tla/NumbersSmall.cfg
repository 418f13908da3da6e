\* Every monotone predicate on up to 0 .. 24, every design of MCNumbers, every schedule of up to
\* six trials, up to four pairs of two values or a gap, and families of up to three.
SPECIFICATION NumbersSpec
CONSTANTS
  MaxTop = 24
  Designs <- SmallDesigns
  Grid = 8
  Base = 2
  MDE_DIGITS = 1
  MaxTrials = 6
  Levels <- SmallLevels
  Values = {1, 2}
  Missing = Missing
  MaxPairs = 4
  One = 36
  Names = {"n1", "n2", "n3"}
  PValues <- Sixths
  NotYet = NotYet
  None = None
  NoEffect = NoEffect
INVARIANTS
  FindsFirst
  SidesMirror
  PlanIsRight
  SizeIsExact
  DecidesAsNamed
