SPECIFICATION Spec
CONSTANTS
  Node = {n1, n2}
  Handler = {h1, h2}
  Keyset = {k1, k2}
  Principal = {p1, p2}
  Backend = {b1}
  MaxCalls = 2
  Faults = {"stream", "put", "crash"}
  NoKeys = NoKeys
  NoOne = NoOne
SYMMETRY Symmetry
VIEW LiveState
INVARIANTS
  CacheIsFile
  RegisteredReachesView
