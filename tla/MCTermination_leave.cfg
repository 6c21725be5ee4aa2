SPECIFICATION FairSpec
CONSTANTS
  MaxOut = 2
  MaxBeats = 1
  MaxFaults = 1
PROPERTIES LeaveEndsSession
CHECK_DEADLOCK FALSE
