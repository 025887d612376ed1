SPECIFICATION FairSpec
CHECK_DEADLOCK FALSE
CONSTANTS
  p1 = p1
  p2 = p2
  h1 = h1
  h2 = h2
  w1 = w1
  w2 = w2
  w3 = w3
  Pages <- MCPages
  Hosts <- MCHosts
  Serving <- MCServing
  Workers <- MCWorkers
  HostOf <- MCHostOf
  MaxAttempts = 2
  None = None
  MaxText <- MCMaxText
  MaxCrashes = 1
INVARIANTS TypeOK NoLostText ClaimIsExclusive
PROPERTIES JobsSettle
