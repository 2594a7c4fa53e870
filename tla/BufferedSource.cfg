\* Ring of two slots, workloads of up to seven records (two kernels).
CONSTANTS
  Capacity = 2
  MaxItems = 7
SPECIFICATION Spec
INVARIANTS
  TypeOK
  SlotExclusive
  NoProtocolError
  DrainedBeforeError
PROPERTIES
  StreamOrder
  Termination
