SPECIFICATION Spec
CONSTANTS
  Tasks = {t1, t2}
  Files = {f1, f2, f3}
  Blocks = {b1, b2}
  Sizes = {1}
  Null = Null
  Error = Error
  NoFile = NoFile
  InitFaults = {}
  MaxOps = 2
SYMMETRY Symmetry
CHECK_DEADLOCK FALSE
INVARIANTS
  FreesBlocks
