SPECIFICATION Spec
CONSTANTS
  r1 = r1
  r2 = r2
  c1 = c1
  c2 = c2
  Home = Home
  None = None
  Runtimes = {r1}
  Daemons = {}
  Commands = {c1, c2}
  Jobs <- MoveAndFinalize
  MaxMarks = 1
  LateMarks = TRUE
  Damage = TRUE
CHECK_DEADLOCK FALSE
INVARIANTS
  TypeOK
  AckIsExact
  RootIsVerified
  OpenUnlessAstray
PROPERTY
  OriginatorConcludes
