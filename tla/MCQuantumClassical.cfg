SPECIFICATION QcFairSpec
CONSTANTS
  Threads = {t1, t2}
  Contents = {{}, {0}}
  NoThread = NoThread
  NoReg = NoReg
  Registers = {Iface}
  LoadFaults = {"init"}
  MaxRounds = 2
  Iface = Iface
  BufferSize = 1024
  Sizes = {0, 2, 1025}
  GateQubits = {0}
  InterfaceFaults = {"state", "init", "buffer"}
  MaxConversions = 2
INVARIANTS
  LocksNest
  CorrectionsAreControlled
  CountsConversions
PROPERTIES
  UsesCorrection
  CallsReturn
