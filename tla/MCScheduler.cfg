\* Two replicas, two windows, one external delivery, two faults.
CONSTANTS
  Instances = {p1, p2}
  Requests = {r1}
  MaxWindow = 2
  MaxFaults = 2
  Gone = Gone
SPECIFICATION FairSpec
INVARIANTS
  SchedulerHolds
PROPERTIES
  LeaseMovesForward
  WindowIsServed
CHECK_DEADLOCK FALSE
