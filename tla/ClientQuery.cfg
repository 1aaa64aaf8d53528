SPECIFICATION Spec
CONSTANTS
  Value = {0, 1}
  Columns = 2
  Cap = 3
  ScanReorderFetch = 6
  DefaultLimit = 2
  CountMax = 15
  Buckets = 2
  Statement <- ScansAndLookups
  Limit <- SmallLimits
  Offset = {0}
  MaxRows = 3
CHECK_DEADLOCK FALSE
INVARIANTS
  PagesAnswer
  PagesSurviveInserts
