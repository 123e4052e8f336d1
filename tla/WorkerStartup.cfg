CONSTANTS
  m1 = m1  m2 = m2  p1 = p1  v1 = v1  v2 = v2    w = w
  None = None
  Models = {m1}
  Profiles = {p1}
  Versions = {v1}
  Clients = {w}
  Worker = w
  Scope = {m1}
  Children = {1}
  Unservable <- AllServable
  Faults = {"replace"}
  MaxFaults = 1
  Baked <- NothingBaked
  Bodies <- First
  HasStore = TRUE
  FlakyReads = FALSE
  MaxEpoch = 2
SPECIFICATION FairWorkerSpec
PROPERTY WorkerConverges
