SPECIFICATION Spec
CHECK_DEADLOCK FALSE
CONSTANTS
  MaxSpace = 0
  MaxFact = 2
  KeyOf <- MCKeyOf
  Near <- MCNear
  Like <- MCLike
  Attempts = 1
  Windows <- MCOneWindow
  w1 = w1
  None = None
  MaxNotes = 0
  MaxExtracts = 1
  MaxEdits = 1
  MaxCalls = 0
  MaxSessions = 0
INVARIANTS PassesGetThrough
