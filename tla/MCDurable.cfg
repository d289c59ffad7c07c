SPECIFICATION Spec
CONSTANTS
    None = None
    a = a
    Subs = {a}
    Emitters = {a}
    Modes <- OneModes
    Policies <- OnePolicies
    MaxSize = 1
    Batch = 2
    Page = 1
    MaxEntries = 2
    MaxTrims = 1
    MaxOutages = 1
INVARIANT Safety
PROPERTY ArrivesLate
CHECK_DEADLOCK FALSE
