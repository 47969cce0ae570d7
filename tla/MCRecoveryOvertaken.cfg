SPECIFICATION Spec
CONSTANTS
  NoContent = NoContent
  Composers = {c1}
  Callers = {c1, c2}
  Contents = {v1, v2}
  NSteps = 1
  MaxPlans = 2
  MaxApprovals = 2
  MaxCrashes = 0
INVARIANTS
  ExecutedPlanWasApproved
CHECK_DEADLOCK FALSE
