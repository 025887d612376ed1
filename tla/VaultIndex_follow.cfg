SPECIFICATION FairSpec
CONSTANTS
  a = a
  b = b
  w1 = w1
  w2 = w2
  d1 = d1
  d2 = d2
  d3 = d3
  None = None
  Paths = {a}
  Data = {d1, d2}
  Writers = {w1}
  Inside = {w1}
  Capacity = 1
  Faults = {"mark", "commit", "rename", "pass"}
  MaxEdits = 2
  MaxPuts = 1
  MaxCrashes = 1
  MaxFails = 1
CHECK_DEADLOCK FALSE
PROPERTY Follows WritesReopen
