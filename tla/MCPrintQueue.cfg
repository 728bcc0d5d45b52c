CONSTANTS
  Worker = {w1, w2}
  MaxJob = 2
  Limit = 1
  Window = 2
  MaxAttempts = 2
SPECIFICATION Spec
SYMMETRY Workers
INVARIANTS
  SendsCounted
  AlertedOnce
PROPERTIES
  DoneForGood
