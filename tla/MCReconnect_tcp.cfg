SPECIFICATION Spec
CONSTANTS
  Conn = {a, b}
  a = a
  b = b
  NoConn = NoConn
  Transport = "tcp"
  CatchupSlots = 1
  MaxCtl = 1
  MaxFaults = 1
  MaxSeq = 2
  CoalThreshold = 1
  MaxInc = 2
SYMMETRY Symmetry
INVARIANT IInv
