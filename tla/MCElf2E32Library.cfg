SPECIFICATION LibSpec
CONSTANTS
  Name = {1, 2, 3}
  EpocVersion = 92
  MaxBuilds = 4
  ElfFiles <- MCElfFiles
  DefFiles <- MCDefFiles
  SysDef <- MCSysDef
  Hash <- MCHash
INVARIANTS LinkedProgramsResolve DsoMatchesImage
  SortComparesNames
PROPERTY FreezeKeeps
CHECK_DEADLOCK FALSE
