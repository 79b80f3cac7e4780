SPECIFICATION Spec
CONSTANTS
  Unset = Unset
  Options <- MixedOptions
  Commands <- OneFlawCommands
  ToServer = 1
  ToOrigin = 2
  ModelSize = 2
  ReadMax = 4
  WriteMax = 2
  SockBuf = 3
  MaxPauses = 0
  Faults = TRUE
  Timeouts = TRUE
INVARIANTS TypeOK StreamInv SuccessIsMutual SuccessIsAccepted Framing NoStrandedInput CompletionNotified StagesInBounds
