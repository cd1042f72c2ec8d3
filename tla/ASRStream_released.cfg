CONSTANTS
    MaxTries = 1
    MaxFrames = 1
    CoreQueue = 2
    RecoveryFrames = 1
    WorkerQueue = 1
    MaxTurns = 1
    MaxFaults = 1
SPECIFICATION Spec
INVARIANTS
    ReleasedIsIdle
CHECK_DEADLOCK FALSE
