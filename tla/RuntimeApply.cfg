SPECIFICATION FairSpec
CONSTANTS
    N = 2
    MaxRuns = 2
    MaxSaves = 1
    MaxFaults = 2
    Beside = 2
INVARIANTS
    TypeOK
PROPERTIES
    AppliesWhole
    Recovered
CHECK_DEADLOCK FALSE
