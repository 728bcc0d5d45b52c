CONSTANTS
  Worker = {w1}
  MaxJob = 2
  Limit = 1
  Window = 1
  MaxAttempts = 2
SPECIFICATION Spec
PROPERTIES
  RetriesMove
