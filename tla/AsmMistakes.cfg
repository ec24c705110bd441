SPECIFICATION Spec
CONSTANTS
  a = a
  b = b
  Sym <- MCSym
  SecName = {".text", ".bss"}
  U64 = 1000
  MemLimit = 500
  Insns <- ErrInsns
  ArgStmts <- ErrArgs
  Zeros = {6}
  Aligns = {4}
  AbsValues = {7}
  RelMax = 8
  MaxStmts = 3
  Mistakes = TRUE
  AllocMayFail = FALSE
  Bases = {0, 64}
INVARIANTS
  ObjectIffValid
PROPERTIES
  Terminates
