SPECIFICATION Spec
CONSTANTS
  v1 = v1
  Value = {v1}
  MaxPayload = 2
  MaxAppends = 3
INVARIANTS
  ReplayedWereAppended
  AckedReplayed
PROPERTY SyncedStaysReplayed
CHECK_DEADLOCK FALSE
