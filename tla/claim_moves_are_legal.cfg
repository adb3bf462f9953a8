SPECIFICATION Spec
CONSTANTS
  Orders = {o1}
  Requests = {r1, r2}
  Weights <- MCWeights
  Estimates = {500}
  Quantities = {0}
  Tariffs <- MCTariffs
  TolerancePercent = 1000
  MaxLog = 6
  WeighableStatuses = {"received"}
  RedisEnabled = TRUE
  MaxJobs = 1
  InAppConfirmation = FALSE
  MaxCrashes = 0
PROPERTIES
  MovesAreLegal
CHECK_DEADLOCK FALSE
