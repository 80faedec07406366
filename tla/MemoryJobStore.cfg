CONSTANTS
    j1 = j1
    j2 = j2
    j3 = j3
    j4 = j4
    Jobs <- MCJobs
    MaxActive = 2
    MaxRetained = 3
    MaxRetainedBytes = 2
    ResultSize <- MCResultSize
SPECIFICATION StoreSpec
INVARIANTS
    CapRespected
    RetentionBounded
PROPERTIES
    ForgetsOldestFirst
    JustFinishedIsKept
