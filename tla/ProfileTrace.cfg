CONSTANTS
  Workloads <- MCWorkloads
  WordSize = 8
  MaxAddress = 511
  Page = 4
  PrivateBase = 96
  Slack = 8
  SectorBytes = 2
  Span = 2
SPECIFICATION Spec
INVARIANTS
  StreamOrdered
  TraceRegenerated
  CensusExact
  CompleteGridAdmitted
  LayerRebound
CHECK_DEADLOCK FALSE
