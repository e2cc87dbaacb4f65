SPECIFICATION Spec
CONSTANTS
  Threads = {t1, t2}
  Registers = {r1, r2}
  Contents <- FlipContents
  NoThread = NoThread
  NoReg = NoReg
  LoadFaults = {"alloc", "init"}
  MaxRounds = 2
SYMMETRY Symmetry
INVARIANTS
  CorrectionsWithinErrors
PROPERTIES
  OwnSyndrome
  CorrectsFlips
  ImplementsRounds
