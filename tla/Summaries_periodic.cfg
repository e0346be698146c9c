SPECIFICATION Spec
CONSTANTS
  Batch = 2
  MaxTurns = 5
  MaxEras = 1
  MaxCrashes = 1
INVARIANTS
  RangesAreDisjoint
  SummariesAreWhole
  SummariesKeepUp
CHECK_DEADLOCK FALSE
