SPECIFICATION Spec
CONSTANTS
    MaxConn = 2
    MaxMsgs <- TalkingServer
    MaxRestarts = 0
    MaxReplaced = 0
INVARIANTS
    ServerStillHeard
CHECK_DEADLOCK FALSE
