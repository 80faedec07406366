CONSTANTS
    j3 = j3
    p = p
    q = q
    NoJob = NoJob
    Fingerprints = {p, q}
    FingerprintOf <- MCFingerprintOf
    ResultSize <- MCResultSize
    Jobs = {j1, j2}
    Workers = {w1, w2}
    MaxActive = 1
    MaxRetained = 2
    MaxRetainedBytes = 0
    Dedupe = TRUE
    Shared = TRUE
    Outages = TRUE
    DiskFaults = TRUE
SPECIFICATION Spec
SYMMETRY MCSymmetry
INVARIANTS
    UploadsAreThere
    FingerprintsAreHeld
    HeldOnce
PROPERTIES
    OnlyClaimedJobsRun
    OnlyItsRunRevises
