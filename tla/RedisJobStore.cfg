SPECIFICATION FairSpec
CONSTANTS
    j1 = j1  j2 = j2  r1 = r1  r2 = r2
    Jobs <- MCJobs
    Replicas <- MCReplicas
    Home <- MCHome
    Fragile = {r2}
    MaxActive = 1
    MaxRetained = 1
    MaxLate = 1
INVARIANTS
    TypeOK
    CapOverReplicas
    HeldIsOwned
    OutcomesBounded
PROPERTIES
    ImplementsSharedLifecycle
    SlotsComeBack
