SPECIFICATION Spec
CONSTANTS
    Interval = 2
    Timeout = 8
    Lag = 1
    Delay = 1
    Flight = 1
INVARIANTS
    TypeOK
    LiveConnectionStays
    SilenceNoticed
CHECK_DEADLOCK FALSE
