SPECIFICATION FairSpec
CONSTANTS
    Senders = {"main"}
    HeaderLen = 2
    PayloadLen = 1
    SockBuf = 1
    ClientFrames = 1
    ServerFrames = 1
INVARIANTS
    TypeOK
    NothingMissed
PROPERTIES
    HandledAsSent
    SendEnds
CHECK_DEADLOCK FALSE
