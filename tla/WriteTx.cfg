SPECIFICATION Spec
CONSTANTS
  Order <- MCOrder
  Header = "header"
  QueryShards <- MCQueryShards
  Dependents <- MCDependents
  MaxHeight = 2
  MaxForks = 1
  MaxFailures = 1
  MaxCrashes = 1
  MaxContexts = 2
INVARIANTS
  RootBacked
  AckedIsStored
  CommandsInScope
  NeverStuck
CHECK_DEADLOCK FALSE
