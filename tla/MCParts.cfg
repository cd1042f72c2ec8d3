CONSTANTS
    Segments = {s1}
    Workers = {w1, w2}
    Pools = {core1}
    Tries = {t1}
    Chunks = 2
    MaxFaults = 1
    Nodes = {n1, n2, n3}
    Coordinators = {n1, n2}
    Keys = {k1, k2}
    MaxVersion = 1
    MaxRevision = 3
    CloudFaults = 3
    Calls = {1, 2}
    Questions = {1, 2}
SPECIFICATION PartsSpec
INVARIANTS
    RotationIsWhole
    OneAuthority
    PhotoOwned
PROPERTIES
    SlotsFreed
CHECK_DEADLOCK FALSE
