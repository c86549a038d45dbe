SPECIFICATION TaskSpec
CONSTANTS
  Start = 1
  MaxHeight = 6
  light = light
  heavy = heavy
  Block <- MCBlock
  WeightOf <- MCWeightOf
  MaxBufferHint = 2
  MaxDropped = 2
  MinWeight = 4
  Cap = 3
  UsizeMax = 100
CHECK_DEADLOCK FALSE
INVARIANTS
  TypeOK
  ReleasedInOrder
  WaitsOnlyForMissing
  BatchesExact
