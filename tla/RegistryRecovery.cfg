SPECIFICATION Spec
CONSTANTS
  a = a
  b = b
  v1 = v1
  v2 = v2
  w1 = w1
  w2 = w2
  x1 = x1
  x2 = x2
  Models = {a, b}
  RemoteModels = {}
  Versions = {v1, v2}
  None = None
  Writers = {w1}
  Executions = {}
  InitConfigs <- BothV1
  PinSets <- PinNoneOrA
  Evictors = {"monitor", "oom"}
  Faults = {"teardown", "oom", "download"}
  MaxMutations = 1
INVARIANTS
  NoGhost

  
CHECK_DEADLOCK FALSE
