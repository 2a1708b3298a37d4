SPECIFICATION FairSpec
CONSTANTS
    MaxRequests = 4
    MaxFaults = 2
CHECK_DEADLOCK FALSE
INVARIANTS
    TypeOK
    TimersAccounted
    OffIsOff
    OnIsAlive
    
    DestroyedIsSilent
PROPERTIES
    IntentsRefine
    RequestsAnswered
    
