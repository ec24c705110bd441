SPECIFICATION Spec
CONSTANTS
  UMax = 90
  AllocMayFail = TRUE
  Calls <- MCCalls
  Outcomes = {"image", "errors", "fatal"}
INVARIANTS
  TokensCorrect
  StringsDecode
  PositionsAgree
  ExitTellsResult
  OutputBesideInput
PROPERTIES
  ArgumentsDecide
  ImplementsTokenStream
  Exits
