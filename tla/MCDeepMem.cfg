SPECIFICATION Spec
CONSTANTS
  PoolSize = 152
  PoolStruct = 8
  FastBinMax = 24
  Levels = 2
  HeadMod = 4096
  Requests <- MCRequests
  Junk = Junk
INVARIANT TypeOK LiveBlocksIntact FreeMemoryAccounts HeapShape
PROPERTY ClientDataPreserved HandsOutZeroed ImplementsPool
CHECK_DEADLOCK FALSE
