CONSTANTS
  m1 = m1  m2 = m2  p1 = p1  v1 = v1  v2 = v2  g = g
  None = None
  Models = {m1, m2}
  Written = {m1, m2}
  Profiles = {p1}
  Versions = {v1}
  Clients = {g}
  Gateway = g
  MinRetained = 50
  Hazards = {"late delta"}
  Faults = {}
  MaxFaults = 0
  Baked <- NothingBaked
  Bodies <- FirstVersion
  Replacements = {}
  HasStore = TRUE
  FlakyReads = FALSE
  MaxEpoch = 2
SPECIFICATION FairGwSpec
PROPERTIES GwConverges
