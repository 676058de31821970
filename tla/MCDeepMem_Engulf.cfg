SPECIFICATION Spec
CONSTANTS
  PoolSize = 144
  PoolStruct = 8
  FastBinMax = 16
  Levels = 1
  HeadMod = 4096
  Requests <- MCOneLevelRequests
  Junk = Junk
INVARIANT NeverOverMerges
CHECK_DEADLOCK FALSE
