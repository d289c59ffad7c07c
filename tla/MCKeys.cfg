SPECIFICATION Spec
CONSTANTS
    old = old
    new = new
    tOld = tOld
    tNew = tNew
    None = None
    Loops = {l1, l2}
    Tokens = {tOld, tNew}
    Threads = {f1, f2}
    Header <- TwoHeaders
    Signer <- TwoSigners
    Unaccepted = {}
    FirstKeys = {old}
    LaterKeys = {new}
    Retry = 1
    Refetch = 1
    MaxAge = 0
    CacheSize = 1
    Mortal = {tOld}
    MaxOutages = 1
INVARIANT Safety
PROPERTY Liveness
CHECK_DEADLOCK FALSE
