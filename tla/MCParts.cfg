SPECIFICATION PartsSpec
CONSTANTS
    Subjects = {"discovery", "handshake", "dispatch", "framing", "requests", "watch",
                "hooks", "status", "popups", "arming", "contacts", "clipboard", "inbox",
                "outbox", "mount", "commands", "lists", "players", "remotemedia", "sound", "lock",
                "touchpad", "presenter", "pen"}
    Entries = {x1, x2, x3}
    MaxEvents = 4
    RingCap = 2
    QueueCap = 2
    Handshakes = {h1, h2}
    DeviceObjs = {o1, o2}
    Certs = {k1, k2}
    Links = {d1, d2}
    PacketObjs = {p1, p2, p3}
    QueueMax = 1
    BufSize = 2
    LineLimit = 3
    MaxLength = 6
    MaxLines = 3
    Callers = {c1, c2}
    MaxCalls = 3
    HookDevices = {d1, d2}
    HookWorkers = {w1, w2}
    Debounce = 2
    MaxHookEvents = 3
    MaxTime = 3
    Signals = {g1, g2}
    Levels = {v1}
    MaxOnline = 2
    MaxHandlers = 2
    MaxPosts = 3
    MaxCancels = 2
    MaxSessions = 3
    Uids = {u1, u2}
    MaxEdits = 1
    Contents = {a, b}
    MaxCopies = 3
    Incoming = {f1, f2, f3}
    LastName = 2
    Outgoing = {f1, f2, f3}
    PortMax = 2
    Mounters = {m1, m2}
    MaxMounts = 2
    Execs = {e1, e2}
    StreamMaxLines = 1
    MaxLeavers = 1
    Askers = {a1, a2}
    PlayerNames = {n1, n2}
    MaxChanges = 3
    MaxFailures = 2
    MaxPollers = 3
    Songs = {a, b}
    MaxSwitches = 1
    MaxLinks = 1
    RingReqs = {r1, r2}
    VolumeReqs = {q1}
    Volumes = {1}
    LockReqs = {l1, l2}
    MaxInputs = 4
    MoveSizes = {1, 3}
    ScreenEnd = 2
    Tablets = {t1, t2}
    PenHands = {g1, g2, g3}
INVARIANTS
    PartsInvariant
    SignalIsTold
    TabletsAreReachable
    GapIsExact
    ResumeMissesNothing
    ResumedViewIsCurrent
    EphemeralAtMostOnce
    LinkIsPinned
    NoUseAfterRecycle
    FramedLines
    RepostSurvives
    WatchedIsArmed
    ReceivedIsKept
    OnePositionPoller
CHECK_DEADLOCK FALSE
