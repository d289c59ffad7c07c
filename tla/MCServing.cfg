SPECIFICATION MCSpec
CONSTANTS
    u1 = u1
    u2 = u2
    Sockets = {s1, s2}
    Holders = {u1}
    Members = {u2}
    TicketTTL = 1
    Limit = 1
    Loops = {l1, l2}
    HandoffTTL = 1
    None = None
    MaxTickets = 3
    MaxOutages = 1
    MaxTime = 2
    Workers = {w1, w2}
    Calls = {r1, r2}
    NoWorker = none
    DrainDelay = TRUE
    MaxAsks = 2
    SendBuffer = 1
    MaxIn = 2
    MaxOut = 2
    Buffer = 2
    MaxEvents = 4
    Pings = TRUE
    MaxEdits = 2
    MaxCrashes = 1
    Checks = {"db", "cache"}
    Files = {"a", "b"}
INVARIANTS Safety TicketsBounded ServeSafety HealthSafety WebSocketSafety SseSafety
PROPERTIES Promises SignalEnds ProbeEnds PeerGoneEnds SseLiveness ReloadLiveness
CHECK_DEADLOCK FALSE
