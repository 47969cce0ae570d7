CONSTANTS
  Approvals = {a1, a2}
  Subjects = {m1}
  InternalMessages = {}
  Workers = {w1}
  Operators = {o1}
  Reconcilers = {r1}
  NoSubject = NoSubject
  NoApproval = NoApproval
SPECIFICATION OutboundSpec
INVARIANTS NoDuplicateSend
CHECK_DEADLOCK FALSE
