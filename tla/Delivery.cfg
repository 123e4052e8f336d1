SPECIFICATION Spec
CONSTANTS
  Targets <- BothTargets
  Items = {i1}
  Workers = {w1, w2}
  DirectWorker = w1
  Offloaded <- AllItems
  MaxDeliver = 2
  Enforce = TRUE
  FaultKinds <- AllFaults
  MaxFaults = 1
INVARIANTS
  DeliveryTypeOK
  NoStrandedItem
  PayloadWhilePending
  CancelMeansUnanswered
CHECK_DEADLOCK FALSE
