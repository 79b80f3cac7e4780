SPECIFICATION FairSpec
CONSTANTS
  NaN = NaN
  Unset = Unset
  Cases <- CasesMC
  PacketSize = 2
  WriteMax = 3
  MaxExpected = 8
INVARIANT PacketsInv ExactTransfer AssertionsHold
PROPERTY StreamCompletes
CHECK_DEADLOCK FALSE
