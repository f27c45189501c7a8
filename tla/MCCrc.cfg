SPECIFICATION Spec
CONSTANTS
  Width = 4
  ByteBits = 2
  Polynomial = {0, 1}
  MaxBytes = 4
INVARIANTS
  FastIsSlow
  SlowIsRemainder
