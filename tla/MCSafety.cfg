CONSTANTS
    Segments = {s1, s2}
    Workers = {w1}
    Pools = {core1, core2}
    Tries = {t1}
    Chunks = 1
    MaxFaults = 1
    Hosts = {h1, h2}
    MaxSaves = 1
    MaxBackups = 1
    MaxFiles = 2
    CloneFaults = 1
    Names = {a, b}
    OpenPages = {p1, p2}
    MaxMade = 2
    MaxRuns = 1
    Tools = {1, 2}
    Pages = 2
    MaxLosses = 1
    MaxConnections = 2
    Passing = {1}
    Pushes = {n1}
SPECIFICATION SafetySpec
SYMMETRY Alike
INVARIANTS
    SlotUndisturbed
    CloneIsOwn
    ToolsAnswer
    OneConnection
    NobodyStuck
PROPERTIES
    AudioKept
CHECK_DEADLOCK FALSE
