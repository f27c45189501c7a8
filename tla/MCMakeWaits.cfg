SPECIFICATION UpdateFairSpec
CONSTANTS
  Files <- Names
  Makefiles <- WaitingMakefiles
  Ages = {0, 1, 2}
PROPERTIES
  WaitingEnds
