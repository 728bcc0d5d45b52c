CONSTANTS
  w1 = w1
  w2 = w2
  w3 = w3
  t1 = t1
  t2 = t2
  o1 = o1
  o2 = o2
  o3 = o3
  o4 = o4
  s1 = s1
  s2 = s2
  b1 = b1
  k1 = k1
  k2 = k2
  None = None
  Worker = {w1, w2}
  Terminal = {t1}
  Order = {o1}
  Session = {s1}
  Table = {}
  Key = {k1}
  MaxLines = 1
  OrderTerminal <- Order_OneTill
  SessionTerminal <- Session_OneTill
  Request <- Request_Replay
  ExpiringKey = {}
  MaxMoves = 1
  MaxCounts = 1
SPECIFICATION Spec
PROPERTIES
  ReplayBeatsConflict
