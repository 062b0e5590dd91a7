SPECIFICATION FairSpec
CONSTANTS
    MaxTried <- MCOneTry
    SockTries <- MCOneTry
    GuestMayHang = FALSE
    StopRequests = FALSE
PROPERTIES
    ParentGoneStopsVM
