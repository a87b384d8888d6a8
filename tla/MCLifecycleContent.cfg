CONSTANTS
  Request = {q1, q2}
  MaxConns = 1
  Retries = 2
  ContentValid = FALSE
  FirstImage = 1
  LastImage = 1
  MaxFaults = 0
  MaxStops = 0
SPECIFICATION FairSpec
PROPERTY ApiComesUp
