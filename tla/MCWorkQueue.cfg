CONSTANTS
  Items = {i1, i2}
  Keys = {k1}
  Workers = {w1, w2}
  Resolvers = {o1}
  MaxAttempts = 2
  BatchLimit = 2
  NoKey = NoKey
  NoWorker = NoWorker
  NoItem = NoItem
SYMMETRY Symmetry
SPECIFICATION Spec
INVARIANTS
  WorkHolds
  LeaseDiscipline
PROPERTIES
  LiveLeaseIsSafe
CHECK_DEADLOCK FALSE
