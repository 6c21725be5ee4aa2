SPECIFICATION FairSpec
CONSTANTS
  Conn = {a, b}
  a = a
  b = b
  NoConn = NoConn
  Transport = "tcp"
  CatchupSlots = 1
  MaxCtl = 0
  MaxFaults = 1
  MaxSeq = 1
  CoalThreshold = 1
  MaxInc = 1
PROPERTIES KeystrokesArrive
