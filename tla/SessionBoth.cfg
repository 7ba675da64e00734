SPECIFICATION Spec
CONSTANTS
    MaxConn = 2
    MaxMsgs <- TalkingBoth
    MaxRestarts = 1
    MaxReplaced = 1
INVARIANTS
    TypeOK
    AtMostOnceInOrder
PROPERTIES
    NoFalseDuplicate
    ImplementsPromise
CHECK_DEADLOCK FALSE
