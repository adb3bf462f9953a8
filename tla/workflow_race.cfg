SPECIFICATION Spec
CONSTANTS
  Orders = {o1}
  Requests = {r1, r2}
  Weights <- MCWeights
  Estimates = {0, 500}
  Quantities = {0}
  Tariffs <- MCDiscountedTariff
  TolerancePercent = 1000
  MaxLog = 6
  WeighableStatuses = {"pending", "pickup", "received", "process", "delivery", "done", "cancelled"}
  RedisEnabled = TRUE
  MaxJobs = 1
  InAppConfirmation = TRUE
  MaxCrashes = 0
SYMMETRY Symmetry
INVARIANTS
  TypeOK
  StatusTrail
  LogTracksStatus
  HandoverPhotos
  ProcessRequiresWeighing
CHECK_DEADLOCK FALSE
