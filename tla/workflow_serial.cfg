SPECIFICATION Spec
CONSTANTS
  Orders = {o1}
  Requests = {r1}
  Weights <- MCWeights
  Estimates = {0, 500}
  Quantities = {0}
  Tariffs <- MCTariffs
  TolerancePercent = 1000
  MaxLog = 6
  WeighableStatuses = {"pending", "pickup", "received", "process", "delivery", "done", "cancelled"}
  RedisEnabled = TRUE
  MaxJobs = 1
  InAppConfirmation = TRUE
  MaxCrashes = 1
PROPERTIES
  LifecycleSpec
CHECK_DEADLOCK FALSE
