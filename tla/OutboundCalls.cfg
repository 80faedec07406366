SPECIFICATION FairSpec
CONSTANTS
    c1 = c1  c2 = c2  c3 = c3  l1 = l1  l2 = l2
    Callers <- MCCallers
    Loops <- MCLoops
    LoopOf <- MCLoopOf
    NoCaller = NoCaller
    Stopping = {l2}
    FailureThreshold = 2
    MaxRequests = 1
    MaxAttempts = 2
INVARIANTS
    TypeOK
    WaitersHaveAProbe
    TurnIsNotLost
PROPERTIES
    OnlyProbeReopens
    CallsEnd
CHECK_DEADLOCK FALSE
