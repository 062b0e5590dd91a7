SPECIFICATION Spec
CHECK_DEADLOCK FALSE
CONSTANTS
    GuestMayHang = FALSE
INVARIANTS
    SignalsASession
