SPECIFICATION FairSpec
CONSTANTS
    p1 = p1
    p2 = p2
    Papers <- MCPapers
    Retries = 1
    InitialGate = 2
    LowGate = 1
    HighGate = 2
INVARIANTS
    RecordedOnce
    NoOrphans
PROPERTIES
    RunEnds
CHECK_DEADLOCK FALSE
