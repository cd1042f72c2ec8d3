CONSTANTS
    MaxTries = 2
    MaxFrames = 2
    CoreQueue = 2
    RecoveryFrames = 1
    WorkerQueue = 1
    MaxTurns = 1
    MaxFaults = 1
SPECIFICATION Spec
INVARIANTS
    TypeOK
    AudioOnce
    NoneLeftBehind
CHECK_DEADLOCK FALSE
