CONSTANTS
  Worker = {w1}
  MaxId = 2
  QueueMax = 2
  OutboxMax = 3
  ReplayLimit = 2
  MaxFetches = 2
SPECIFICATION Spec
INVARIANTS
  LiveBoardFresh
