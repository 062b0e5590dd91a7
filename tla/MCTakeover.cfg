CONSTANT MaxStarts = 2
SPECIFICATION Spec
INVARIANTS TypeOK  NoStaleNetwork SSHReachesOwnGuest
PROPERTIES SparesOthers
CHECK_DEADLOCK FALSE
