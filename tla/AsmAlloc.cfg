SPECIFICATION Spec
CONSTANTS
  a = a
  b = b
  Sym <- MCSym
  SecName = {".text", ".bss"}
  U64 = 40
  MemLimit = 12
  Insns <- ErrInsns
  ArgStmts <- ErrArgs
  Zeros = {6, 39}
  Aligns = {8}
  AbsValues = {7}
  RelMax = 8
  MaxStmts = 3
  Mistakes = TRUE
  AllocMayFail = TRUE
  Bases = {0, 64}
INVARIANTS
  NoObjectAfterFailure
