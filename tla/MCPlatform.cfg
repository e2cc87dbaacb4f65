SPECIFICATION Spec
CONSTANTS
  Tasks = {t1, t2}
  Devices = {d1, d2, d3}
  Head = Head
  None = None
  Archs = {x86, arm, riscv}
  Free = Free
  Other = Other
  MaxLoads = 2
  MaxFiles = 1
SYMMETRY Symmetry
INVARIANTS
  WalkEnds
  NoneLost
  UhalUndone
PROPERTIES
  CpufreqOwned
