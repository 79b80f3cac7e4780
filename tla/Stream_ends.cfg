SPECIFICATION FairSpec
CONSTANTS
  Unset = Unset
  Options <- EndingOptions
  Commands <- PathCommand
  ToServer = 1
  ToOrigin = 2
  ModelSize = 2
  ReadMax = 4
  WriteMax = 2
  SockBuf = 2
  MaxPauses = 0
  Faults = TRUE
  Timeouts = TRUE
PROPERTY EveryStreamEnds
