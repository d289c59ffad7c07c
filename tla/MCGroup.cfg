SPECIFICATION Spec
CONSTANTS
    Members = {m1, m2}
    Nobody = nobody
    Mortal = {m2}
    Count = 1
    ClaimAfter = 1
    MaxEntries = 2
    MaxTrims = 2
    MaxDeaths = 2
    MaxFails = 1
    MaxLost = 1
INVARIANT Safety
PROPERTY EventuallyAcked
CHECK_DEADLOCK FALSE
