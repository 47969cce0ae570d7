\* Two items without a key and two ticks; two sources, two generations, one page.
SPECIFICATION EndsSpec
CONSTANTS
  Items = {i1, i2}
  Keys = {}
  Workers = {w1, w2}
  Resolvers = {}
  MaxAttempts = 2
  BatchLimit = 2
  NoKey = NoKey
  NoWorker = NoWorker
  NoItem = NoItem
  Sources = {x1, x2}
  Generations = {g1, g2}
  Page = 1
  MaxShifts = 2
  MaxRuleFailures = 1
  x1 = x1
  x2 = x2
PROPERTIES
  WorkEnds
  AdviceHolds
CHECK_DEADLOCK FALSE
