SPECIFICATION BroadcastSpec
CONSTANTS
    Devices = {d1}
    MaxEnding = 1
    QueueCap = 1
INVARIANT UnownedIsQuiet
