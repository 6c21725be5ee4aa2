SPECIFICATION FairSpec
CONSTANTS
  Conn = {a, b}
  a = a
  b = b
  NoConn = NoConn
  Transport = "quic"
  CatchupSlots = 1
  MaxCtl = 0
  MaxFaults = 2
  MaxSeq = 1
  CoalThreshold = 2
  MaxInc = 1
PROPERTIES KeystrokesArrive OutputArrives
