SPECIFICATION Spec
CONSTANTS
  Unset = Unset
  Actions <- JoinActions
  Start = 0
  Type <- JoinType
  Out <- JoinOut
  PauseTimes <- JoinTimes
  EndOptions <- JoinLimits
  Slots = {s1, s2}
  Server = server
  HasServer = TRUE
  Heartbeat = TRUE
  StartDelay = 0
  Failures = TRUE
  Stalls = TRUE
  MaxStreams = 3
  MaxBytes = 2
  MaxTime = 1
INVARIANTS DriverInv WalkAlive 
