SPECIFICATION Spec
CONSTANTS
  Senders = {s1, s2}
  Lens = {2, 3}
  Addrs = {a1, a2, Zero}
  Valid = {a1, a2}
  Zero = Zero
  Nobody = Nobody
  MaxPackets = 3
SYMMETRY Symmetry
INVARIANTS
  StatsExact
  
  UpIsReady
