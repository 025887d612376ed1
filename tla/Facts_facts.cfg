SPECIFICATION Spec
CHECK_DEADLOCK FALSE
CONSTANTS
  MaxSpace = 0
  MaxFact = 2
  KeyOf <- MCKeyOf
  Near <- MCNear
  Like <- MCLike
  Attempts = 2
  Windows <- MCOneWindow
  w1 = w1
  None = None
  MaxNotes = 1
  MaxExtracts = 2
  MaxEdits = 1
  MaxCalls = 2
  MaxSessions = 1
INVARIANTS TypeOK ChainsEndInHeads OnlyEditsWedge
PROPERTIES RetiredStaysRetired RetryWritesNothing
