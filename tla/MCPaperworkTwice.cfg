SPECIFICATION PaperSpec
CONSTANTS
  Null = Null
  Clerk = {c1, c2}
  NSales = 4
  Rate = {"r10", "r21"}
  Summary <- MCSummary
  Customer <- MCCustomer
  WithTaxId <- MCWithTaxId
  RefundOf <- MCRefundOf
  DocScene <- MCDocScene
  MaxNumber = 2
  Dispatcher = {d1, d2}
  Regime = {"verifactu"}
  Answer = {"accepted", "rejected", "error"}
  Limit = 1
  MaxCrashes = 1
  MaxEvents = 2
INVARIANTS NetNotNegative
