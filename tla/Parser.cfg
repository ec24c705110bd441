SPECIFICATION Spec
CONSTANTS
  Sources <- MCSources
  MaxOperands = 2
  Word = 65536
  AllocMayFail = TRUE
INVARIANTS
  TypeOK
  ErrorsPerLine
PROPERTIES
  ImplementsSyntax
  Terminates
