CONSTANTS
    Requests = {r1}
    MaxJobs = 1
    MaxChunks = 2
    MaxCalls = 2
    MaxDisconnects = 1
SPECIFICATION FairSpec
INVARIANTS
    TypeOK
PROPERTIES
    NothingTwice
    TextSpec
    BothEnd
CHECK_DEADLOCK FALSE
