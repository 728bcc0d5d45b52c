SPECIFICATION OfficeSpec
CONSTANTS
  None = None
  Handler = {h1, h2}
  First <- MCFirst
  DeskScene <- MCScene
  MaxRows <- MCMaxRows
  Permission <- MCPermission
  MaxToken = 3
INVARIANTS OneButtonPerCell
CHECK_DEADLOCK FALSE
