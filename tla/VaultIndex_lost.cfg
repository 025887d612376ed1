SPECIFICATION Spec
CONSTANTS
  a = a
  b = b
  w1 = w1
  w2 = w2
  d1 = d1
  d2 = d2
  d3 = d3
  None = None
  Paths = {a, b}
  Data = {d1}
  Writers = {w1}
  Inside = {w1}
  Capacity = 1
  Faults = {}
  MaxEdits = 1
  MaxPuts = 1
  MaxCrashes = 0
  MaxFails = 0
CHECK_DEADLOCK FALSE
PROPERTY PutIsKept
