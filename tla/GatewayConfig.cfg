CONSTANTS
  m1 = m1  m2 = m2  p1 = p1  v1 = v1  v2 = v2  g = g
  None = None
  Models = {m1, m2}
  Written = {m1}
  Profiles = {p1}
  Versions = {v1, v2}
  Clients = {g}
  Gateway = g
  MinRetained = 50
  Hazards = {}
  Faults = {"http", "read", "count", "redeploy", "gateway"}
  MaxFaults = 1
  Baked <- SecondBaked
  Bodies <- BothVersions
  Replacements <- SecondVersion
  HasStore = TRUE
  FlakyReads = TRUE
  MaxEpoch = 2
SPECIFICATION FairGwSpec
INVARIANTS GwTypeOK
PROPERTIES NoLostDelta MatchedSnapshot GwConverges
