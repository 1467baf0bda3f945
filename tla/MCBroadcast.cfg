SPECIFICATION FairBroadcastSpec
CONSTANTS
    Devices = {d1}
    MaxEnding = 1
    QueueCap = 1
INVARIANTS
    OwnersAreServed
    RunningIsLive
PROPERTIES
    OfflineIsAnnounced
    OnlineIsQuiet
