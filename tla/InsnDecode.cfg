SPECIFICATION Spec
CONSTANTS
  Mnemonics <- MCMnemonics
  RegOps <- MCRegOps
  Addresses <- MCAddresses
  Hints = {0, 8, 16, 32, 64}
  Values <- MCValues
  Half <- MCHalf
  MaxOperands = 2
INVARIANTS
  DecodesAsWritten
  FirstIsBest
  LayoutsCovered
CHECK_DEADLOCK FALSE
