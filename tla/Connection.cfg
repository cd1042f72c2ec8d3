SPECIFICATION Spec
CONSTANTS
    Events = 3
    MaxDepth = 1
    Pieces = 1
    PreBuffer = 1
INVARIANTS
    TypeOK
    ListensAgain
PROPERTIES
    HeardInOrder
CHECK_DEADLOCK FALSE
