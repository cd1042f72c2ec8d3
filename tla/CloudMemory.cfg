SPECIFICATION Spec
CONSTANTS
    Nodes = {n1, n2}
    Apps = {n1}
    Saves = {1, 2}
    Browser = {2}
    MaxJobs = 2
    Faults = 2
INVARIANTS
    TypeOK
PROPERTIES
    LedgerSpec
    NothingOverwritten
    Converges
CHECK_DEADLOCK FALSE
