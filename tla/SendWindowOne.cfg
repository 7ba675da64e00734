SPECIFICATION FairSpec
CONSTANTS
    t1 = t1
    Senders = {t1}
    WINDOW_SIZE = 2
    SockBuf = 2
    MaxSeq = 3
INVARIANTS
    TypeOK
    OkMeansAcked
    NoLeak
PROPERTIES
    SendReturns
    ImplementsPromise
CHECK_DEADLOCK FALSE
