SPECIFICATION FairSpec
CONSTANTS
  c1 = c1
  c2 = c2
  h1 = h1
  None = None
  Clients = {c1}
  Workers = {h1}
  HostOf <- AllInside
  Days = {1}
  Paths = {1}
  Window = 2
  Forced = FALSE
  Partial = {"cached", "closing", "closed"}
  MaxTurns = 2
  MaxExtracts = 0
  MaxCrashes = 1
  MaxRetries = 2
  MaxRows = 4
CHECK_DEADLOCK FALSE
INVARIANTS TypeOK CursorIsHonest TailIsQueued
PROPERTIES EveryTurnIsExtracted IdleSessionIsClosed
