SPECIFICATION FairSpec
CONSTANTS
    MaxTried <- MCOneTry
    SockTries <- MCOneTry
    GuestMayHang = TRUE
    StopRequests = FALSE
PROPERTIES
    ShutdownCompletes
    ParentGoneEndsStart
    GvproxyDeathEndsStart
    RaceWaitEndsStart
