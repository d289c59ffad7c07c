SPECIFICATION Spec
CONSTANTS
    Pushers = {p1, p2}
    Loop = loop
    NoRequest = none
    Requests = {r1, r2, r3, r4}
    Raising = {r1}
    Notices = {"wakeup", "cancel"}
    Limit = 1
    MaxNotices = 1
    MaxTime = 1
SYMMETRY Symmetry
INVARIANTS WakesHonest LoadBounded
PROPERTY StallClockKept
CHECK_DEADLOCK FALSE
