SPECIFICATION FairSpec
CONSTANTS
    Services = {"service", "other"}
    Clients = {"c1"}
    NameOf <- MCNameOf
    SaId <- MCSaId
    None = None
    Dead = Dead
    MaxStarts = 2
    MaxCalls = 1
INVARIANTS
    TypeOK
    WaitBacked
PROPERTIES
    CallReturns
    StopEnds
CHECK_DEADLOCK FALSE
