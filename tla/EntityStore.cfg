CONSTANTS
  Schema <- MCSchema
  Root = "Block"
  Batches <- MCBatches
  Filters <- MCFilters
  Values = {1, 2, 3}
  IndexedTable <- MCIndexed
  IndexShards = 1
  Overwrites = FALSE
  MaxTake = 2
  Base = 4
  RootBytes = 2
  ChildBytes = 1
  MaxOps = 3
SPECIFICATION Spec
INVARIANTS SchemaKept KeysSound StoreExact ReadsAreWhole QueriesExact
CHECK_DEADLOCK FALSE
