SPECIFICATION FairSpec
CONSTANTS
  r1 = r1
  r2 = r2
  c1 = c1
  c2 = c2
  Home = Home
  None = None
  Runtimes = {r1, r2}
  Daemons = {r2}
  Commands = {c1}
  Jobs <- AnyJob
  MaxMarks = 1
  LateMarks = FALSE
  Damage = FALSE
CHECK_DEADLOCK FALSE
INVARIANT
  PendingIsClosed
  OpenMeansReconciled
PROPERTY
  SwitchIsAttached
  PendingIsConcluded
