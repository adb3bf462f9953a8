SPECIFICATION BillingSpec
CONSTANTS
  Orders = {o1}
  Requests = {r1}
  Weights = {3}
  Estimates = {0}
  Quantities = {2}
  Tariffs <- MCTariffsWithFee
  TolerancePercent = 1000
  MaxLog = 1
  WeighableStatuses = {"received"}
  RedisEnabled = FALSE
  MaxJobs = 1
  InAppConfirmation = FALSE
  MaxCrashes = 0
  Payments = {p1}
  Amounts = {1, 2}
  Methods = {"cash"}
  Outcomes = {"success", "failed", "refunded"}
INVARIANTS
  PaidIsCovered
CHECK_DEADLOCK FALSE
