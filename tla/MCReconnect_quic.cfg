CONSTANTS
  Conn = {a, b}
  NoConn = NoConn
  Transport = "quic"
  CatchupSlots = 2
  MaxCtl = 0
  MaxFaults = 2
  MaxSeq = 2
  CoalThreshold = 2
  MaxInc = 1
SPECIFICATION Spec
SYMMETRY Symmetry
INVARIANTS
  TypeOK
  StdoutInOrder
  PtyInputInOrder
  NothingMissingDown
  NothingMissingUp
  ShutdownIsReal
PROPERTIES DownStream UpStream
