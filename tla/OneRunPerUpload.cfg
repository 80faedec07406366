CONSTANTS
    j3 = j3
    p = p
    q = q
    NoJob = NoJob
    Fingerprints = {p, q}
    FingerprintOf <- MCFingerprintOf
    ResultSize <- MCResultSize
    Jobs = {j1, j2, j4}
    Workers = {w1}
    MaxActive = 2
    MaxRetained = 2
    MaxRetainedBytes = 0
    Dedupe = TRUE
    Shared = TRUE
    Outages = FALSE
    DiskFaults = FALSE
SPECIFICATION Spec
SYMMETRY MCSymmetry
INVARIANTS
    OneRunPerUpload
