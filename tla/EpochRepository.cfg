SPECIFICATION Spec
CONSTANTS
  t1 = t1
  t2 = t2
  t3 = t3
  server = server
  cli = cli
  Thread = {t1, t2}
  Process = {server}
  ProcOf <- OneProcess
  Ops <- AllOps
  Row = {r1, r2}
  Keep = 2
  MaxVersion = 3
  QuiescentRollback = TRUE
  Faults = {"write", "read", "crash", "power"}
  NoRow = NoRow
  NoDir = NoDir
  None = None
SYMMETRY FullSymmetry
VIEW LiveState
INVARIANTS
  CurrentReadable
  AckedIsCurrent
  RollbackWindow
  IInv
PROPERTIES
  NoLostUpdate
  ImplementsStore
