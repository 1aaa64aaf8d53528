SPECIFICATION FairSpec
CONSTANTS
  n1 = n1
  n2 = n2
  q1 = q1
  Server = {n1, n2}
  Query = {q1}
  Configuration <- Configurations
VIEW UpToCredentials
CHECK_DEADLOCK FALSE
PROPERTY StopEnds
INVARIANTS
  RegisteredServes
  RefusedOnlyByDeparted
