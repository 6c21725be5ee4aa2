SPECIFICATION FairSpec
CONSTANTS
  MaxOut = 2
  MaxBeats = 1
  MaxFaults = 1
INVARIANTS ShutdownDeliversTaken
PROPERTIES ShutdownHeard SessionEnds ClientNotices
CHECK_DEADLOCK FALSE
