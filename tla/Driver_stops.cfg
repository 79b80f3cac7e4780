SPECIFICATION FairSpec
CONSTANTS
  Unset = Unset
  Actions <- JoinActions
  Start = 0
  Type <- JoinType
  Out <- JoinOut
  PauseTimes <- JoinTimes
  EndOptions <- JoinCount
  Slots = {s1, s2}
  Server = server
  HasServer = TRUE
  Heartbeat = TRUE
  StartDelay = 0
  Failures = FALSE
  Stalls = TRUE
  MaxStreams = 5
  MaxBytes = 0
  MaxTime = 0
PROPERTIES Stops 
