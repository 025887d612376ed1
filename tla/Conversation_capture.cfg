SPECIFICATION Spec
CONSTANTS
  c1 = c1
  c2 = c2
  h1 = h1
  None = None
  Clients = {c1, c2}
  Workers = {h1}
  HostOf <- OneInside
  Days = {1, 2}
  Paths = {1, 2}
  Window = 3
  Forced = TRUE
  Partial = {"cached", "reset"}
  MaxTurns = 3
  MaxExtracts = 1
  MaxCrashes = 0
  MaxRetries = 1
  MaxRows = 2
CHECK_DEADLOCK FALSE
PROPERTY ImplementsSessionLog
