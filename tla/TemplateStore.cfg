SPECIFICATION Spec
CONSTANTS
  None = None
  TrendGroups <- MCTrendGroups
  TiesUp = {1000005}
  Editors = {e1, e2}
  Builtins <- MCBuiltins
  CustomNames = {"n1", "default"}
  AutoNames <- MCAutoNames
  Sheets <- MCSheets
  MaxVersion = 2
INVARIANTS
  StoredSchemesAreValid
  StoreStaysReadable
  AcceptedExportIsTheScheme
CHECK_DEADLOCK FALSE
