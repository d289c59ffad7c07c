SPECIFICATION MCSpec
CONSTANTS
    Pushers = {p1, p2}
    Loop = loop
    NoRequest = none
    Requests = {r1, r2}
    Raising = {}
    Notices = {"wakeup", "cancel"}
    Limit = 2
    MaxNotices = 1
    MaxTime = 0
    Calls = {c1, c2}
    NoCall = nocall
    Cancellable = {c1, c2}
    Stubborn = {c2}
    Slots = 2
    MaxStreams = 2
INVARIANT NoLostWakeup
PROPERTIES ImplementsMailbox SlotsFreed
CHECK_DEADLOCK FALSE
