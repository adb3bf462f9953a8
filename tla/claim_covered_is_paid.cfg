SPECIFICATION BillingSpec
CONSTANTS
  Orders = {o1}
  Requests = {r1, r2}
  Weights = {}
  Estimates = {0}
  Quantities = {2}
  Tariffs <- MCTariffsWithFee
  TolerancePercent = 1000
  MaxLog = 1
  WeighableStatuses = {"received"}
  RedisEnabled = FALSE
  MaxJobs = 1
  InAppConfirmation = FALSE
  MaxCrashes = 0
  Payments = {p1, p2, p3}
  Amounts = {1, 2}
  Methods = {"cash", "digital"}
  Outcomes = {"success"}
INVARIANTS
  CoveredIsPaid
CHECK_DEADLOCK FALSE
