SPECIFICATION Spec
CONSTANTS
    Nodes = {n1, n2}
    Apps = {n1}
    Hearing = {n2}
    Syncs = {n2}
    Saves = {1, 2}
    Faults = 1
INVARIANTS
    TypeOK
PROPERTIES
    LedgerSpec
    WorksForward
    Converges
CHECK_DEADLOCK FALSE
