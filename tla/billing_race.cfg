SPECIFICATION StandingSpec
CONSTANTS
  Orders = {o1}
  Requests = {r1, r2}
  Weights = {3}
  Estimates = {0}
  Quantities = {2}
  Tariffs <- MCTariffsWithFee
  TolerancePercent = 1000
  MaxLog = 1
  WeighableStatuses = {"received"}
  RedisEnabled = FALSE
  MaxJobs = 1
  InAppConfirmation = FALSE
  MaxCrashes = 0
  Payments = {p1, p2}
  Amounts = {1, 2}
  Methods = {"cash", "digital"}
  Outcomes = {"success", "failed", "refunded"}
SYMMETRY Symmetry
INVARIANTS
  BillingTypeOK
  UnpaidIffNothingReceived
  PaidIsCovered
  ReportMatchesBooks
PROPERTIES
  LedgerSpec
CHECK_DEADLOCK FALSE
