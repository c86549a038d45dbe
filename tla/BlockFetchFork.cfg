SPECIFICATION Spec
CONSTANTS
  Chains = {"btc"}
  Par = 2
  MaxHeight = 3
  MaxFaults = 0
  SizeOf <- MCSizeOf
  TxsOf <- MCTxsOf
  ByteLimit = 3
  UsizeMax = 100
  U8 = 4
  U16 = 8
  U32 = 64
CHECK_DEADLOCK FALSE
INVARIANT
  BlocksFoundByHash
