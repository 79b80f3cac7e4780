SPECIFICATION FairSpec
CONSTANTS
  Unset = Unset
  Options <- WorkingOptions
  Commands <- GoodCommands
  ToServer = 1
  ToOrigin = 1
  ModelSize = 2
  ReadMax = 4
  WriteMax = 2
  SockBuf = 2
  MaxPauses = 1
  Faults = FALSE
  Timeouts = FALSE
INVARIANT BarrierRespected
 
