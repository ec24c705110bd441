SPECIFICATION Spec
CONSTANTS
  Regs = {0, 4, 5, 12, 13, 16}
  Scales = {1, 2, 3, 8, 258}
  Literals = {1, 3, 4}
  Symbols = TRUE
  Tails = {0, 1, 4}
  Int8 = 2
  Int32 = 4
  MaxTerms = 4
INVARIANTS
  AddressKept
CHECK_DEADLOCK FALSE
