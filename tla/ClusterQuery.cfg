SPECIFICATION Spec
CONSTANTS
  Node = {n1, n2}
  Front = {n1}
  Churn = {n2}
  Loaded = {n2}
  Thread = {t1, t2}
  Ttl = 1
  MaxTime = 1
  MaxVersion = 2
  Faults = {"call", "read"}
  NoOne = NoOne
SYMMETRY Symmetry
INVARIANTS
  AllShardsOrNone
  MembersCovered
