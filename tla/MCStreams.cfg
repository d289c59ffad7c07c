SPECIFICATION MCSpec
CONSTANTS
    Subs = {block}
    Emitters = {e1, e2, e3}
    Offers <- MCOffers
    Cancellable = {}
    NoWaiters = {}
    MaxSize = 1
    MaxEmits <- MCMaxEmits
    Again = {e1, e2}
    Iterators = {i1}
    Collectors = {c1, c2}
    Impatient = {i1}
    HasTimeout = TRUE
    Lingers = TRUE
    HighWater = 1
    MaxBody = 3
    MaxFrames = 4
INVARIANTS PutterNotStranded BodySafety
PROPERTIES BlockedEmitGoesOn ReadersAnswered
CHECK_DEADLOCK FALSE
