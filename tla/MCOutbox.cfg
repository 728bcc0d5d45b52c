CONSTANTS
  None = None
  Flush = {f1, f2}
  MaxKey = 4
  MaxOrder = 2
  MaxLate = 1
SPECIFICATION Spec
SYMMETRY CallsOfFlush
INVARIANTS
  SentOnce
  TicketsAsTapped
  KeptOrTold
