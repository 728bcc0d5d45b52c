CONSTANTS
  Worker = {w1, w2}
  MaxId = 2
  QueueMax = 1
  OutboxMax = 2
  ReplayLimit = 1
  MaxFetches = 2
SPECIFICATION FairSpec
INVARIANTS
  NoPhantom
  FedSince
  AnnouncedShown
PROPERTIES
  EventShown
