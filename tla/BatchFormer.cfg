SPECIFICATION FormerSpec
CONSTANTS
  Calls <- SmallCalls
  Configs <- SmallConfigs
  Budgets = {1, 99}
  MaxItems = 6
INVARIANTS
  WaitIsBounded
  TurnWithinBudget
  TimersAnchored
PROPERTIES
  IsAQueue
CHECK_DEADLOCK FALSE
