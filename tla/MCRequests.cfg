SPECIFICATION Spec
CONSTANTS
    Requests = {r1, r2, r3}
    NoRequest = none
    Cancellable = {r1, r2}
    Stubborn = {r2}
    HasTimeout = TRUE
    Limit = 1
    MaxStreams = 2
INVARIANT Safety
PROPERTY LateAbandonHarmless
CHECK_DEADLOCK FALSE
