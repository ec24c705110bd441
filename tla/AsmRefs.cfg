SPECIFICATION Spec
CONSTANTS
  a = a
  b = b
  Sym <- MCSym
  SecName = {".text", ".bss"}
  U64 = 1000
  MemLimit = 500
  Insns <- RefInsns
  ArgStmts <- RefArgs
  Zeros = {6}
  Aligns = {2, 4}
  AbsValues = {7}
  RelMax = 10
  MaxStmts = 4
  Mistakes = FALSE
  AllocMayFail = FALSE
  Bases = {0, 64}
INVARIANTS
  TypeOK
  FixupsInBounds
  FixupsDisjoint
  NoInternalRejection
  LabelsAnchored
  SymbolsCorrect
  SectionsCorrect
  LinkCorrect
PROPERTIES
  FirstLabelWins
  SectionsOnlyGrow
