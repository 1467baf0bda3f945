SPECIFICATION Spec
CONSTANTS
    Users = {u1, u2}
    Handlers = {h1}
    AcceptRequests = "ask"
    LegacyPeer = FALSE
    MaxCommands = 2
    MaxPackets = 3
INVARIANT AnnouncedCodeIsTheirs
CHECK_DEADLOCK FALSE
