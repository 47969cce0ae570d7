CONSTANTS
  Items = {i1}
  Keys = {}
  Workers = {w1, w2}
  Resolvers = {}
  MaxAttempts = 2
  BatchLimit = 2
  NoKey = NoKey
  NoWorker = NoWorker
  NoItem = NoItem
SPECIFICATION FairSpec
PROPERTIES NeverStranded
CHECK_DEADLOCK FALSE
