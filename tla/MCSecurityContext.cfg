SPECIFICATION Spec
CONSTANTS
  Tasks = {t1, t2}
  Contexts = {c1, c2}
  NoContext = NoContext
  Levels = {1, 2, 5}
  Flags = {e, a}
  DefaultLevel = 2
  MinLevel = 2
  Required = {e, a}
SYMMETRY Symmetry
INVARIANTS
  RefsCounted
  NoDangling
  DeniesUnmet
  GrantsSteady
