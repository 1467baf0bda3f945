SPECIFICATION FairSpec
CONSTANTS
    MaxConns = 2
    MaxSends = 2
    QueueCap = 1
INVARIANTS
    DoneMatchesSession
    NoLeakedSocket
    Served
PROPERTIES
    OnlyOwnLoopsEnd
    RetiredLoopsEnd
CHECK_DEADLOCK FALSE
