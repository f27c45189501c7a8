SPECIFICATION MCSpec
CONSTANTS
  MaxItems = 3
  KLangOptions = {"EN", "FR"}
  Sorts = {"languages", "header", "options", "file"}
  Nesting = {}
  MaxSorts = 3
  Items <- MCItems
  Existing <- MCExisting
  SisNames <- MCSisNames
  UidOf <- MCUidOf
INVARIANTS
  OptionsNamed
CHECK_DEADLOCK FALSE
