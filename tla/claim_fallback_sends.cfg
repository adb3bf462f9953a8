SPECIFICATION FairSpec
CONSTANTS
  Orders = {o1}
  Requests = {r1}
  Weights <- MCWeights
  Estimates = {500}
  Quantities = {0}
  Tariffs <- MCTariffs
  TolerancePercent = 1000
  MaxLog = 1
  WeighableStatuses = {"received"}
  RedisEnabled = FALSE
  MaxJobs = 1
  InAppConfirmation = FALSE
  MaxCrashes = 0
PROPERTIES
  NoticeIsShown
CHECK_DEADLOCK FALSE
