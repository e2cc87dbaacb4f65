SPECIFICATION Spec
CONSTANTS
  Tasks = {t1, t2, t3}
  Names = {n1, n2}
  Dentries = {d1, d2, d3}
  NoName = NoName
  NoDentry = NoDentry
  MaxRaces = 2
SYMMETRY Symmetry
INVARIANTS
  Accounting
  MountUndone
