SPECIFICATION SignSpec
CONSTANTS
  File = {a}
  Key = {k1}
  Content = {x}
  MaxRuns = 2
  Foreign <- MCForeignNoChecksum
  Shrinks <- MCShrinks
INVARIANT
  DataChecksumsRight
