CONSTANTS
  w1 = w1
  w2 = w2
  w3 = w3
  t1 = t1
  t2 = t2
  o1 = o1
  o2 = o2
  o3 = o3
  o4 = o4
  s1 = s1
  s2 = s2
  b1 = b1
  k1 = k1
  k2 = k2
  None = None
  Worker = {w1, w2}
  Terminal = {t1, t2}
  Order = {o1, o2, o3, o4}
  Session = {s1, s2}
  Table = {b1}
  Key = {k1, k2}
  MaxLines = 1
  OrderTerminal <- Order_TwoTills
  SessionTerminal <- Session_TwoTills
  Request <- Request_Meet
  ExpiringKey = {}
  MaxMoves = 1
  MaxCounts = 1
SPECIFICATION FairSpec
INVARIANTS
  OneDraftPerTable
  NoLockCycle
PROPERTIES
  RequestTerminates
