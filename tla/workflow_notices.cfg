SPECIFICATION FairSpec
CONSTANTS
  Orders = {o1}
  Requests = {r1, r2}
  Weights <- MCThreeWeights
  Estimates = {500}
  Quantities = {0}
  Tariffs <- MCTariffsWithDiscount
  TolerancePercent = 1000
  MaxLog = 1
  WeighableStatuses = {"pending", "pickup", "received", "process", "delivery", "done", "cancelled"}
  RedisEnabled = TRUE
  MaxJobs = 1
  InAppConfirmation = FALSE
  MaxCrashes = 2
INVARIANTS
  MismatchTracked
  ShownNoticesAreTrue
PROPERTIES
  MismatchIsSettled
CHECK_DEADLOCK FALSE
