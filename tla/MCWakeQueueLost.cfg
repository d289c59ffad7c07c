SPECIFICATION Spec
CONSTANTS
    Pushers = {p1, p2}
    Loop = loop
    NoRequest = none
    Requests = {r1, r2}
    Raising = {r1}
    Notices = {"wakeup", "cancel"}
    Limit = 2
    MaxNotices = 1
    MaxTime = 0
SYMMETRY Symmetry
INVARIANT NoLostWakeup
CHECK_DEADLOCK FALSE
