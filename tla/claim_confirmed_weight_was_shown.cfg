SPECIFICATION Spec
CONSTANTS
  Orders = {o1}
  Requests = {r1}
  Weights <- MCTwoMismatches
  Estimates = {500}
  Quantities = {0}
  Tariffs <- MCTariffs
  TolerancePercent = 1000
  MaxLog = 1
  WeighableStatuses = {"received"}
  RedisEnabled = TRUE
  MaxJobs = 1
  InAppConfirmation = FALSE
  MaxCrashes = 0
INVARIANTS
  ConfirmedWeightWasShown
CHECK_DEADLOCK FALSE
