SPECIFICATION Spec
CONSTANTS
  nameX = nameX
  nameY = nameY
  noName = noName
  Name <- MCName
  NoName = noName
  NameLen <- MCNameLen
  SectionChoices <- MCSections
  SymbolChoices <- MCSymbols
  Amounts = {5}
  Sites = {0}
  MaxSize = 5
  MaxSections = 2
  MaxSymbols = 3
  MaxRelas = 1
  Half = 64
  ShnAbs = 49
  AllocMayFail = TRUE
INVARIANTS
  TypeOK
  FileLayout
PROPERTIES
  ImplementsObjectFile
