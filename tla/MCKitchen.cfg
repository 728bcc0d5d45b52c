CONSTANTS
  w1 = w1
  w2 = w2
  l1 = l1
  l2 = l2
  None = None
  Worker = {w1, w2}
  Line = {l1, l2}
  Request <- Request_Busy
SPECIFICATION Spec
SYMMETRY Workers
INVARIANTS
  KitchenTypeOK
  KitchenFollowsSale
  HeaderDerived
PROPERTIES
  CalmHistory
CHECK_DEADLOCK FALSE
