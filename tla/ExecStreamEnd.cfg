SPECIFICATION Spec
CHECK_DEADLOCK FALSE
CONSTANTS
    MaxChunks <- MCOneChunk
    GuestMayHang = FALSE
INVARIANTS
    DoneIsEndOfData
