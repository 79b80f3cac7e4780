SPECIFICATION Spec
CONSTANTS
  MaxFd = 4
  MaxEvents = 3
  HasServer = FALSE
  Timeouts = TRUE
  Exhausts = FALSE
INVARIANT AssertionsHold
