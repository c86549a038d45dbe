SPECIFICATION FairSpec
CONSTANTS
  MaxHeight = 4
  WeightOf <- MCWeightOf
  SizeOf <- MCSizeOf
  MinEntityBatchSize = 3
  ProcessRatio = 3
  ForkDetectionHeights = 2
  NonDurableBatches = 2
  FetchPar = 2
  ProcPar = 2
  FetchCap = 1
  ProcCap = 1
  SortCap = 1
  SafetyCap = 4
  ByteLimit = 2
  UsizeMax = 100
  U32 = 16
  StoreMayFail = TRUE
  MaxFailures = 1
INVARIANTS
  PersistedIsPrefix
  DurableEveryN
PROPERTIES
  TasksEnd
CHECK_DEADLOCK FALSE
