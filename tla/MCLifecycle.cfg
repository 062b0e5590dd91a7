SPECIFICATION Spec
CONSTANTS
    MaxTried <- MCTries
    SockTries <- MCTries
    GuestMayHang = TRUE
    StopRequests = TRUE
INVARIANTS
    TypeOK
    SyncBeforeKill
    NoExitDuringSync
    RaceWaitCoversAll
    VMMAfterNetwork
    NoReadyAfterError
    StopReplyTruthful
PROPERTIES
    KeepsPromise
    
