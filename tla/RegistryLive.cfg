SPECIFICATION FairSpec
CONSTANTS
  a = a
  b = b
  v1 = v1
  v2 = v2
  w1 = w1
  w2 = w2
  x1 = x1
  x2 = x2
  Models = {a, b}
  RemoteModels = {}
  Versions = {v1, v2}
  None = None
  Writers = {w1}
  Executions = {x1}
  InitConfigs <- OnlyAServed
  PinSets <- Unpinned
  Evictors = {"monitor"}
  Faults = {"oom", "download", "teardown", "refuse"}
  MaxMutations = 1
INVARIANTS
  LeasePinsConfig
PROPERTIES
  LoadsEnd
  LeaseIsLive
CHECK_DEADLOCK FALSE
