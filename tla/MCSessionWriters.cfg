SPECIFICATION Spec
CONSTANTS
    MaxConns = 2
    MaxSends = 2
    QueueCap = 2
INVARIANT SoleWriter
CHECK_DEADLOCK FALSE
