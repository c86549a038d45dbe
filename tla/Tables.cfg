SPECIFICATION TablesSpec
CONSTANTS
  Key = {1, 2, 3, 4}
  RowKey = {1, 2, 3}
  Value = {a, b, c}
  None = None
  LruCapacity = 2
  MaxRun = 4
  MaxPairs = 8
INVARIANTS
  TypeOK
  IndexInverse
  AnyIsAKey
  BufferSound
  ReadsBack
  BirthKeysExact
  CacheCoherent
