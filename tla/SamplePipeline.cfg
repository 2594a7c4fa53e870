SPECIFICATION Spec
CONSTANTS
    NKernels = 2
    NRecords = 2
    PipeCap = 1
    MaxFaults = 1
INVARIANTS TypeOK  
PROPERTIES LedgerSpec PipelineEnds
