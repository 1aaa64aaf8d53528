SPECIFICATION Spec
CONSTANTS
  t1 = t1
  t2 = t2
  t3 = t3
  server = server
  cli = cli
  Thread = {t1, t2}
  Process = {server, cli}
  ProcOf <- ServerAndCli
  Ops <- InsertAndRollback
  Row = {r1, r2}
  Keep = 1
  MaxVersion = 3
  QuiescentRollback = FALSE
  Faults = {}
  NoRow = NoRow
  NoDir = NoDir
  None = None
SYMMETRY Symmetry
PROPERTY CurrentNeverDeleted
