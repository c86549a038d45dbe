SPECIFICATION Spec
CONSTANTS
  Key = {1, 2}
  KeyBytes <- MCKeyBytes
  a = a
  b = b
  c = c
  Value <- MCValue
  Hash <- MCHash
  None = None
  Shards = {1, 3}
  Queries <- MCQueries
  MaxCalls = 4
  MaxTransactions = 2
  Overwrites = FALSE
INVARIANTS
  RowsFound
  AnswersExact
  QueriesSettled
CHECK_DEADLOCK FALSE
