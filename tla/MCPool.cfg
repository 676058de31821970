SPECIFICATION Spec
CONSTANTS
  FirstBlock = 168
  TopEnd = 376
  FastBinMax = 64
  Requests <- MCRequests
INVARIANT LiveBlocksApart Layout
PROPERTY KeepsPromise
CHECK_DEADLOCK FALSE
