SPECIFICATION Spec
CONSTANTS
  Name = {"a", "b", "c", "d"}
  OutOfMemory = OutOfMemory
  Digests = {0, 3, 7}
  FirstBuckets = 2
  AllocMayFail = TRUE
INVARIANTS
  Findable
  HeadroomKept
PROPERTIES
  CallsReturn
  ImplementsNameTable
