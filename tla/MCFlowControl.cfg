SPECIFICATION FairSpec
CONSTANTS
  NetCap = 1
  ChanCap = 1
  StreamCap = 1
  PtyCap = 1
  TtyIn = 1
  TtyOut = 1
  MaxReplay = 2
 
PROPERTIES FitsJoins LoopsReturn OutputFlows
CHECK_DEADLOCK FALSE
