SPECIFICATION FairSpec
CONSTANTS
  MaxFd = 4
  MaxEvents = 3
  HasServer = TRUE
  Timeouts = TRUE
  Exhausts = TRUE
INVARIANTS IOInv AllReleased AssertionsHoldInTime
PROPERTY DeferredWritesResume
