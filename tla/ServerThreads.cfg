SPECIFICATION FairSpec
CONSTANTS
    c1 = c1
    c2 = c2
    Clients = {c1, c2}
    None = None
    MaxPieces = 1
INVARIANTS
    TypeOK
    ClosedOnce
    NoFdLeak
PROPERTIES
    ClientsAccepted
    DestroyReturns
CHECK_DEADLOCK FALSE
