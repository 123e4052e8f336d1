SPECIFICATION FairSpec
CONSTANTS
  encode = encode
  extract = extract
  Queues = {encode, extract}
  Split = {extract}
  MaxCalls = 2
  Parts = {2}
  Cap = 3
  Depth = 1
  Widths = {1, 2}
  MaxReports = 1
  Knobs <- OneKnobOff
  None = None
INVARIANTS
  SlotsBalance
  LaneCountsItsBatches
  ItemsInOnePlace
PROPERTIES
  
  HeldWhileBusy
  EverythingLeaves
CHECK_DEADLOCK FALSE
