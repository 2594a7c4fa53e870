\* Fills complete at once and the L2 persists, as run_memgen sets them, with and
\* without the drain and the streaming fills of the command line.
CONSTANTS
  Tag <- MCTag
  Sectors = 1
  Byte <- MCByte
  Assoc = 2
  FillLatency = 0
  NumSets = 1
  SetOf <- OneSet
  Policies <- Kept
  HighWatermark = 1
  Target = 0
  MaxPerKernel = 1
  MinAge = 1
  KernelGap = 0
  MaxTime = 1
SPECIFICATION Spec
INVARIANTS
  TypeOK
  LedgerAgrees
  NothingLost
  CheckpointExact
  EvictionPossible
PROPERTIES
  DrainExact
