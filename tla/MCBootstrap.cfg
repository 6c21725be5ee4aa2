SPECIFICATION BootSpec
CONSTANTS
  MaxRuns = 3
INVARIANTS ClientHasSession InstallRunsCurrent NothingLeft
PROPERTIES FailsOnlyIf
CHECK_DEADLOCK FALSE
