SPECIFICATION MCSpec
CONSTANTS
    p1 = p1
    p2 = p2
    k1 = k1
    k2 = k2
    Processes = {p1, p2}
    Keys = {k1, k2}
    Reaches <- OneShared
    Requests = {r1, r2}
    Lag = 1
    Fine = 2
    Milli = 1
    Second = 1
    Period = 12
    Count = 3
    BurstGiven = 2
    MaxBurst = 4
    SweepFloor = 2
    None = None
    MaxTime = 8
    Browsers = {b1, b2}
    Tabs = {t1, t2}
    PendingLimit = 1
    PendingTTL = 0
    MaxAge = 1
    MaxLogins = 2
    MaxEdits = 1
    MaxOutages = 1
    LoginTime = 1
INVARIANTS Safety LoginSafety
PROPERTIES IsBucket
CONSTRAINT OneFault
SYMMETRY Symmetry
CHECK_DEADLOCK FALSE
