SPECIFICATION Spec
CONSTANTS
  Defs <- MCDefs
  TotalMb = {0, 1, 7, 10}
  MaxLaunches = 2
INVARIANTS
  ShardsOwnTheirFiles
  CacheWithinBudget
PROPERTY
  ShutdownExits
CHECK_DEADLOCK FALSE
