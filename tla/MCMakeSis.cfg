CONSTANTS
  Proc = {m1, m2, m3}
  Before = m3
  None = None
  LastSlot = 1
  MaxSuffix = 1
  Chunks = 2
SPECIFICATION MCSpec
INVARIANTS
  DirectoriesUnique
  ReadsOwnCopy
  NoStrayDirectory
PROPERTY
  RunEnds
