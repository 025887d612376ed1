SPECIFICATION Spec
CHECK_DEADLOCK FALSE
CONSTANTS
  MaxPath = 3
  Data <- MCData
  Trivial <- MCTrivial
  None = None
  big = big
  tiny = tiny
  MaxPages = 4
  MaxEdits = 3
  MaxCalls = 2
INVARIANTS OrderIsIrrelevant RowsLeadToLivePages
PROPERTIES IdentityFollowsUuid FilesAreIndexed DbOnlyStateIsKept
