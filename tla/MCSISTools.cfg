SPECIFICATION MCSpec
CONSTANTS
  a = a
  b = b
  x = x
  y = y
  missing = missing
  File = {a, b}
  Key = {k}
  Sources = {x, y}
  Conditions = {p, q}
  Kinds = {"file", "lang"}
  MaxLines = 5
  Foreign <- MCForeign
  Packages <- MCPackages
  Shrinks <- MCShrinks
  MaxRuns = 3
  MaxNesting = 3
INVARIANTS
  LengthsRecorded
  FilesConsistent
  TreeFollowsLines
  EmbeddedIntact
  NestedPackagesSound
PROPERTIES
  BothTerminate
