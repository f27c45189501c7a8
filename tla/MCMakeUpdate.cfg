SPECIFICATION UpdateFairSpec
CONSTANTS
  Files <- Names
  Makefiles <- MCMakefiles
  Ages = {0, 1, 2}
INVARIANTS
  PrerequisitesReady
  CommandsOnce
  SuccessIsUpToDate
  NothingNeedless
  IntermediatesGone
  AgainRunsNothing
PROPERTIES
  MakeEnds
