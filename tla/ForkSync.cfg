SPECIFICATION Spec
CONSTANTS
  Block <- MCBlock
  ChainOf <- MCChainOf
  Start = "t1"
  ForkDetectionHeights = 4
  U32 = 16
  MaxRefusals = 1
  MaxFailures = 1
  MaxCrashes = 1
INVARIANTS
  HeadersAreAChain
  IndexExact
PROPERTIES
  RollbackOnlySuperseded
CHECK_DEADLOCK FALSE
