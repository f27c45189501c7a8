SPECIFICATION SignSpec
CONSTANTS
  File = {a, b}
  Key = {k1, k2}
  Content = {x}
  MaxRuns = 3
  Foreign <- MCForeign
  Shrinks <- MCShrinks
INVARIANTS
  SignaturesIntact
  FilesConsistent
  CompressionKept
PROPERTIES
  RemoveUndoesSign
  SigningPromise
