CONSTANTS
    NRows = 6
    Workers = 2
    Interval = 2
    Runners = {"serial", "map", "bounded"}
SPECIFICATION Spec
INVARIANTS
    FilesAgree
    LookAheadBounded
PROPERTIES
    LedgerSpec
    VerdictPublished
