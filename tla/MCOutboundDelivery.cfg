CONSTANTS
  Approvals = {a1, a2}
  Subjects = {m1, m2}
  InternalMessages = {m2}
  Workers = {w1, w2}
  Operators = {o1}
  Reconcilers = {r1, r2}
  NoSubject = NoSubject
  NoApproval = NoApproval
SYMMETRY Symmetry
SPECIFICATION OutboundSpec
INVARIANTS
  OutboundHolds
CHECK_DEADLOCK FALSE
