SPECIFICATION ImgSpec
CONSTANTS
  Elfs <- MCElfs
  HeaderSize = 12
  PageSize = 8
  OrdinalLimit = 1000
  NameLength <- MCNameLength
INVARIANTS LoadedAsLinked ImportsAsLinked PartsTile
CHECK_DEADLOCK FALSE
