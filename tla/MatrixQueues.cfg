CONSTANTS
    NCases = 2
    MaxRestarts = 1
SPECIFICATION Spec
INVARIANTS
    JobsExclusive
    CacheAfterGraph
    ReportTruthful
PROPERTIES
    VerdictsKept
