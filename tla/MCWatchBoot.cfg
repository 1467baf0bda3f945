SPECIFICATION Spec
CONSTANTS
    MaxEvents = 3
    RingCap = 2
    QueueCap = 2
INVARIANT BootsComplete
