SPECIFICATION JobsFairSpec
CONSTANTS
  Makes <- MCMakes
  Top = "top"
  Slots = 2
  Jobs <- MCJobs
  Builds <- MCBuilds
INVARIANTS
  NeverMoreThanSlots
  TokensConserved
  NobodyLeftBehind
  PrerequisitesFirst
  ExitTells
PROPERTIES
  EveryMakeEnds
CHECK_DEADLOCK FALSE
