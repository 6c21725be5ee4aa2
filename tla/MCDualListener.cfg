SPECIFICATION ListenerSpec
CONSTANTS
  TcpConns = {t1, t2}
  QuicConns = {q1, q2}
  Cap = 1
  None = None
INVARIANTS OneHolder
PROPERTIES Served LoopsExit
