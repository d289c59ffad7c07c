SPECIFICATION MCSpec
CONSTANTS
    Subs = {any, block}
    Blocks = {block}
    Emitters = {e1, e2}
    Offers <- MCOffers
    Cancellable = {e1}
    NoWaiters = {e2}
    MaxSize = 1
    MaxEmits <- MCMaxEmits
    Ids = {s1, s2}
    Calls = {c1, c2}
    Feeds = {f1, f2}
    Streams = {g1}
    Listeners = {l1}
    NoFeed = NoFeed
SYMMETRY Symmetry
CONSTRAINT OneWire
INVARIANTS TopicSafety McpSafety
CHECK_DEADLOCK FALSE
