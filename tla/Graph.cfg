SPECIFICATION Spec
CONSTANTS
  Unset = Unset
  ByteUnit <- MCByteUnit
  TimeUnit <- MCTimeUnit
  Word = 64
  Max32 = 8
  Max16 = 4
  Cases <- MCCases
  MaxGens = 3
INVARIANTS GraphInv  SafeUse OptionsHonoured ChoiceIsFair
PROPERTIES OptionsStick
CHECK_DEADLOCK FALSE
