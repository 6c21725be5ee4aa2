SPECIFICATION TerminalFairSpec
CONSTANTS
  Rows <- MCRows
  SpawnRows = 3
  TermLens <- MCTermLens
  MaxChanges = 2
  MaxLosses = 2
INVARIANTS SizeCurrent RawOnlyConnected
PROPERTIES UnchangedWindowRedraws SizeArrives
CHECK_DEADLOCK FALSE
