SPECIFICATION FairSpec
CONSTANTS
  Node = {n1, n2}
  MaxLeases = 3
  MaxEpoch = 1
  MaxFaults = 1
  NoOne = NoOne
VIEW WithoutEpoch
INVARIANTS
  OneLiveLeader
  RegisteredStays
PROPERTIES
  StaleLeaderStepsDown
  LeaderElected
  ShardMapFollows
