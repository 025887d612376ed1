SPECIFICATION Spec
CHECK_DEADLOCK FALSE
CONSTANTS
  r1 = r1
  r2 = r2
  r3 = r3
  f1 = f1
  f2 = f2
  Runs <- MCRuns
  Files <- MCFiles
  Old = Old
  CachePath = CachePath
  None = None
  MaxDamage = 1
SYMMETRY MCSymmetry
INVARIANTS CacheIsWhole
PROPERTIES LiveIsLeftAlone PullsHeal
