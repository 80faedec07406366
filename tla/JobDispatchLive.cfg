CONSTANTS
    j3 = j3
    p = p
    q = q
    NoJob = NoJob
    Fingerprints = {p, q}
    FingerprintOf <- MCFingerprintOf
    ResultSize <- MCResultSize
    Jobs = {j1, j3}
    Workers = {w1}
    MaxActive = 2
    MaxRetained = 2
    MaxRetainedBytes = 0
    Dedupe = FALSE
    Shared = FALSE
    Outages = FALSE
    DiskFaults = FALSE
SPECIFICATION FairSpec
PROPERTIES
    AcceptedJobsEnd
    CloseTerminates
