SPECIFICATION PerfSpec
CONSTANTS
  Tasks = {t1, t2}
  Contexts = {c1, c2}
  NoContext = NoContext
  Metrics = {m1}
  Values = {80, 95}
  Normal = 80
  NoTask = NoTask
  NoMetric = NoMetric
  Samplers = {t1, t2}
  MaxTime = 2
  MaxUpdates = 1
SYMMETRY Symmetry
INVARIANTS
  StatsConsistent
PROPERTIES
  DurationWithinSampling
