SPECIFICATION FairSpec
CONSTANTS
    a = a
    b = b
    x = x
    NoOne = NoOne
    Stop = Stop
    Callers <- MCCallers
    Poison <- MCPoison
    MaxBatch = 2
    MaxGenerations = 3
INVARIANTS
    OwnAnswer
PROPERTIES
    Answered
CHECK_DEADLOCK FALSE
