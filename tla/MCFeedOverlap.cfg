CONSTANTS
  Worker = {w1}
  MaxId = 2
  QueueMax = 3
  OutboxMax = 7
  ReplayLimit = 3
  MaxFetches = 1
SPECIFICATION Spec
PROPERTIES
  NothingLost
