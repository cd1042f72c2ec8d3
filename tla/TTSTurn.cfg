CONSTANTS
    MaxLookahead = 3
    MaxSegments = 4
    TextBound = 4
SPECIFICATION FairSpec
INVARIANTS
    TypeOK
    TurnSafe
PROPERTIES
    DeviceSpec
    TurnEnds
CHECK_DEADLOCK FALSE
