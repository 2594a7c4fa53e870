\* Reads in flight; the L2 is cleared between kernels, flushed before it or not.
CONSTANTS
  Tag <- MCTag
  Sectors = 1
  Byte <- MCByte
  Assoc = 2
  FillLatency = 1
  NumSets = 1
  SetOf <- OneSet
  Policies <- Cleared
  HighWatermark = 1
  Target = 0
  MaxPerKernel = 1
  MinAge = 1
  KernelGap = 0
  MaxTime = 1
SPECIFICATION Spec
INVARIANTS
  LedgerAgrees
  NothingLost
  CheckpointExact
CHECK_DEADLOCK FALSE
