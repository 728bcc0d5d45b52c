SPECIFICATION OfficeSpec
CONSTANTS
  None = None
  Handler = {h1, h2}
  First <- MCFirst
  DeskScene <- MCScene
  MaxRows <- MCMaxRows
  Permission <- MCPermission
  MaxToken = 3
INVARIANTS ReuseRefused PriceInForce NoTaxGap
PROPERTIES PricesAppendOnly OnlyAskedFields
CHECK_DEADLOCK FALSE
