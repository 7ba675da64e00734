SPECIFICATION Spec
CONSTANTS
    t1 = t1
    t2 = t2
    Senders = {t1, t2}
    WINDOW_SIZE = 2
    SockBuf = 2
    MaxSeq = 3
SYMMETRY SenderSymmetry
INVARIANTS
    DeliveredInOrder
    AckNotLost
    OkMeansAckedOrOverrun
CHECK_DEADLOCK FALSE
