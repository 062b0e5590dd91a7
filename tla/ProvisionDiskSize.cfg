SPECIFICATION Spec
CHECK_DEADLOCK FALSE
CONSTANTS
    b1 = b1
    b2 = b2
    d1 = d1
    d2 = d2
    BootVersions <- MCBootVersions
    DataVersions <- MCDataVersions
    MaxInits <- MCInits
    MaxLosses <- NoLoss
    Legacy = FALSE
INVARIANTS
    DiskHasItsSize
