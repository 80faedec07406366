CONSTANTS
    j3 = j3
    p = p
    q = q
    NoJob = NoJob
    Fingerprints = {p, q}
    FingerprintOf <- MCFingerprintOf
    ResultSize <- MCResultSize
    Jobs = {j1, j2, j3}
    Workers = {w1, w2}
    MaxActive = 2
    MaxRetained = 2
    MaxRetainedBytes = 0
    Dedupe = TRUE
    Shared = FALSE
    Outages = FALSE
    DiskFaults = FALSE
SPECIFICATION Spec
SYMMETRY MCSymmetry
INVARIANTS
    TypeOK
    UploadsAreOwned
    HeldUploadIsTrackers
    OneRunPerUpload
    SlotsAreOwned
PROPERTIES
    ImplementsLifecycle
    CallsStoreAsAssumed
