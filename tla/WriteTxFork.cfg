SPECIFICATION FairSpec
CONSTANTS
  Order <- MCOrder
  Header = "header"
  QueryShards <- MCQueryShards
  Dependents <- MCDependents
  MaxHeight = 2
  MaxForks = 1
  MaxFailures = 0
  MaxCrashes = 0
  MaxContexts = 1
PROPERTY
  CommitCompletes
CHECK_DEADLOCK FALSE
