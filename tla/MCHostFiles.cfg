CONSTANTS
    MaxStarts = 2
    m1 = m1
    m2 = m2
    Machine <- MCMachines
    VolumeLists <- MCVolumeLists
SPECIFICATION Spec
INVARIANTS
    TypeOK
    RestReachable
    MountsOnlyAsAsked
    
    
CHECK_DEADLOCK FALSE
