CONSTANTS
  Request = {q1, q2}
  MaxConns = 1
  Retries = 2
  ContentValid = TRUE
  FirstImage = 1
  LastImage = 3
  MaxFaults = 2
  MaxStops = 2
SPECIFICATION FairSpec
INVARIANTS
  TypeOK
  ServesMigrated
  CleanExit
PROPERTIES
  StopEnds
  ApiComesUp
