SPECIFICATION FairSpec
CONSTANTS
  Threads = {t1, t2}
  Blocks = {b1, b2, b3}
  Requests = {0, 2, 3}
  MaxRequests = {1}
  QMEM_MAX_QUBITS = 3
  QMEM_MAX_QUBITS_PER_BLOCK = 2
  INT_MAX = 7
  NoThread = NoThread
  NoBlock = NoBlock
INVARIANTS
  Accounting
  RefSafety
  NoLeak
  Overcommit
PROPERTIES
  UnlistedByLastPut
  ImplementsPool
  CallsReturn
