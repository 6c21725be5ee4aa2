SPECIFICATION InputSpec
CONSTANTS
  Delay = 2
  Threshold = 3
  MaxKeys = 6
  MaxChunk = 3
INVARIANTS EmitsExactly DisconnectsExactly DeadlineMet
PROPERTIES FitsEscapeBuf
