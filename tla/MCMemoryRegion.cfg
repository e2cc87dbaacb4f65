SPECIFICATION Spec
CONSTANTS
  Base = 100
  RegionPages = 7
  PieceSizes = {1, 2, 3}
  Limit = 109
  InitFaults = {"normal", "quantum"}
INVARIANTS
  Disjoint
  FreedIsFree
  ExitFreesAll
