SPECIFICATION FairSpec
CONSTANTS
    MaxAttempts = 2
    Reconnectors = {r1}
    MaxLives = 2
    MaxBeats = 1
CHECK_DEADLOCK FALSE
INVARIANTS TypeOK ProxyHeld NoRefLeak
PROPERTIES ReconnectEnds DeadServiceNoticed
