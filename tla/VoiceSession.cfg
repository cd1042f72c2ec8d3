CONSTANTS
    MaxMessages = 2
    MaxCancels = 1
    IdleTimeout = TRUE
SPECIFICATION SessionSpec
INVARIANTS
    TurnOwned
    NoDeadlock
CHECK_DEADLOCK FALSE
