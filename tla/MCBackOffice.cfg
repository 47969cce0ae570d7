\* Two of each that may overlap, one of what they overlap on.
SPECIFICATION BackSpec
CONSTANTS
  Approvals = {a1, a2}
  Subjects = {m1, m2}
  Workers = {w1, w2}
  NoSubject = NoSubject
  NoApproval = NoApproval
  Leads = {d1}
  Contacts = {k1}
  ClockWorkers = {x1, x2}
  LastMinute = 1
  NoLead = NoLead
  Events = {e1}
  Hands = {h1, h2}
  Steps <- MCSteps
  MaxFaults = 1
  NoEvent = NoEvent
  NCases = 2
  Recorders = {r1}
  Sweepers = {s1}
  MaxMoves = 2
  MaxLedgerDeaths = 1
  Records = {r1}
  Scans = {s1, s2}
  MaxStirs = 2
  MaxScanFaults = 1
  NoKey = NoKey
  a1 = a1
  a2 = a2
  d1 = d1
  e1 = e1
  h1 = h1
  h2 = h2
  r1 = r1
  s1 = s1
  s2 = s2
  x1 = x1
  x2 = x2
INVARIANTS
  QueueHolds
PROPERTIES
  
  LedgerHolds
  ClosedIsFinal
  RequestsClose
  ImplementsGate
  ClockHolds
  
CHECK_DEADLOCK FALSE
