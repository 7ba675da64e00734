SPECIFICATION FairSpec
CONSTANTS
    Clients = {"empty", "cut", "long"}
    Length <- MCLength
    MaxText = 3
    AckLen = 2
    Chunk = 4
    None = None
    MaxStarts = 2
INVARIANTS
    TypeOK
    Answered
PROPERTIES
    ClientEnds
CHECK_DEADLOCK FALSE
