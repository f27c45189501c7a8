SPECIFICATION MCSpec
CONSTANTS
  MaxItems = 9
  KLangOptions = {"EN", "FR"}
  Sorts = {"languages", "header", "localizedVendor", "dependency",
           "platformDependency", "options", "file", "package", "langFiles",
           "langPackages", "logo", "capability", "vendor", "signature",
           "if", "endif", "comment", "unknown"}
  MaxSorts = 5
  Nesting = {"header", "if", "elseif", "else", "endif"}
  Items <- MCItems
  Existing <- MCExisting
  SisNames <- MCSisNames
  UidOf <- MCUidOf
INVARIANTS
  StringsPerLanguage
  LanguageGroupsWhole
  ConditionsClosed
CHECK_DEADLOCK FALSE
