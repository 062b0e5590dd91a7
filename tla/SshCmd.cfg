SPECIFICATION FairSpec
CHECK_DEADLOCK FALSE
CONSTANTS
    GuestMayHang = TRUE
INVARIANTS
    TypeOK
    NilMeansSuccess
    NothingLeftOpen
    OutputComplete
PROPERTIES
    CancelEndsCall
