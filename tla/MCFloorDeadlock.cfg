CONSTANTS
  w1 = w1
  w2 = w2
  z1 = z1
  z2 = z2
  n1 = n1
  n2 = n2
  None = None
  Worker = {w1, w2}
  Zone = {z1, z2}
  NTables = 3
  NOrders = 3
  NLines = 3
  Name = {n1, n2}
  FirstZone = z1
  FirstTables <- TwoOfThree
  Scene <- Scenes
SPECIFICATION Spec
SYMMETRY Workers
INVARIANTS
  NeverDeadlock
