SPECIFICATION QcSpec
CONSTANTS
  Threads = {t1, t2}
  Contents = {{}, {0}}
  NoThread = NoThread
  NoReg = NoReg
  Registers = {Iface}
  LoadFaults = {"init"}
  MaxRounds = 1
  Iface = Iface
  BufferSize = 1024
  Sizes = {1}
  GateQubits = {0}
  InterfaceFaults = {"buffer"}
  MaxConversions = 1
SYMMETRY Symmetry
INVARIANTS
  LoadedIsReady
