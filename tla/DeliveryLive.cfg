SPECIFICATION FairSpec
CONSTANTS
  Targets <- BothTargets
  Items = {i1}
  Workers = {w1}
  DirectWorker = w1
  Offloaded <- AllItems
  MaxDeliver = 1
  Enforce = TRUE
  FaultKinds <- GatewayFaults
  MaxFaults = 2
PROPERTIES
  AbandonedIsCancelled
  
CHECK_DEADLOCK FALSE
