CONSTANTS
  m1 = m1  m2 = m2  p1 = p1  p2 = p2  v1 = v1  v2 = v2  c1 = c1  k1 = k1  k2 = k2
  None = None
  Models = {m1, m2}
  Profiles = {p1, p2}
  Versions = {v1, v2}
  Clients = {c1}
  Baked <- BakedOne
  Bodies <- ThreeBodies
  HasStore = TRUE
  FlakyReads = FALSE
  MaxEpoch = 3
  Requests = {1, 2, 3}
  Keys = {k1, k2}
  Calls <- SixCalls
  Workloads <- AnyThree
  CacheSize = 1
  CancelAt = {"waiting", "locking"}
SPECIFICATION FairApiSpec
INVARIANTS ApiTypeOK StoreAgrees ExportVerifiable WireOrdered DeltaVerifiable WritesOwnTheirKey
PROPERTIES RestartKeepsApiModels KeepsPromise EveryRequestEnds DeletedIsGone
