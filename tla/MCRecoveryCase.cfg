SPECIFICATION Spec
CONSTANTS
  NoContent = NoContent
  Composers = {c1}
  Callers = {c1, c2}
  Contents = {v1, v2}
  NSteps = 1
  MaxPlans = 2
  MaxApprovals = 2
  MaxCrashes = 1
INVARIANTS
  RecoveryHolds
  ClosedIsQuiet
  
PROPERTIES
  ApprovalMovesCase
  ReProposed
CHECK_DEADLOCK FALSE
