\* Two slices, lines of two sectors, every request a whole sector: the drain
\* shares its budget over slices, positions and sectors.
CONSTANTS
  Tag <- MCTag
  Sectors = 2
  Byte <- Whole
  Assoc = 2
  FillLatency = 0
  NumSets = 2
  SetOf <- TwoSets
  Policies <- KeptDrained
  HighWatermark = 2
  Target = 1
  MaxPerKernel = 0
  MinAge = 1
  KernelGap = 0
  MaxTime = 1
SPECIFICATION Spec
PROPERTY DrainExact
