SPECIFICATION FairSpec
CONSTANTS
    MaxAttempts = 1
    MaxFd = 1
INVARIANTS
    TypeOK
PROPERTIES
    
    StaleConnectionNoticed
    
CHECK_DEADLOCK FALSE
