SPECIFICATION Spec
CONSTANTS
  a = a
  b = b
  v1 = v1
  v2 = v2
  w1 = w1
  w2 = w2
  x1 = x1
  x2 = x2
  Models = {a, b}
  RemoteModels = {b}
  Versions = {v1, v2}
  None = None
  Writers = {w1}
  Executions = {}
  InitConfigs <- BothV1
  PinSets <- PinNoneOrA
  Evictors = {"monitor", "idle", "manual", "reap"}
  Faults = {"oom", "load", "teardown", "refuse"}
  MaxMutations = 1
INVARIANTS
  LoadedFromCurrentConfig
  
CHECK_DEADLOCK FALSE
