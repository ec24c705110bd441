SPECIFICATION Spec
CONSTANTS
  WordMax = 63
  MallocAlign = 8
  Header = 12
  MinBlock = 8
  FirstCap = 4
  Base = 4
  BlockSizes = {1, 16}
  Sizes = {0, 3, 62}
  Aligns = {3, 1, 16}
  Counts = {2, 33, 62}
  Offsets = {1, 62}
  ArgSize = 4
  Field = 3
  Number = 27
  MaxCalls = 4
INVARIANTS
  StorageOK
  ContentsKept
  OwnedOnce
PROPERTIES
  FailuresChangeNothing
CHECK_DEADLOCK FALSE
