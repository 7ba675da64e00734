SPECIFICATION Spec
CONSTANTS
    t1 = t1
    Senders = {t1}
    WINDOW_SIZE = 2
    SockBuf = 2
    MaxSeq = 1
INVARIANTS
    NoDoubleFree
CHECK_DEADLOCK FALSE
