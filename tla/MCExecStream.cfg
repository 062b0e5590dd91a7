SPECIFICATION FairSpec
CHECK_DEADLOCK FALSE
CONSTANTS
    MaxChunks <- MCChunks
    GuestMayHang = TRUE
INVARIANTS
    TypeOK
    OutInOrder
    DoneAfterEnd
    ErrorQuotesLastStderr
PROPERTIES
    KeepsStreamPromise
    HandlerLeaves
    EndIsSeen
    RunEndsWithClient
