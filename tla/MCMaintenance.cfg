SPECIFICATION PauseSpec
CONSTANTS
    Kinds = {asr, tts}
    asr = asr
    tts = tts
    Queues = {asr}
    Late = {asr}
    MaxAsks = 2
    MaxDeaths = 1
INVARIANTS
    LoopAgrees
    PauseHolds
PROPERTIES
    Obeys
CHECK_DEADLOCK FALSE
