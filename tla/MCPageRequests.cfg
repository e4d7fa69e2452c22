SPECIFICATION MCSpec
CONSTANTS
    k1 = k1
    f1 = f1
    x1 = x1
    Nil = Nil
    None = None
    Fetches = {f1}
    Xhrs = {x1}
    FetchRanges = {"none", "closed"}
    XhrRanges = {"none", "closed", "open"}
    HonoursRanges = TRUE
    Calls = {1, 2}
    Flushers = {1}
    Keys = {k1}
    Attempts <- TheAttempts
    MaxDeferred = 2
INVARIANTS
    PendingAreAwaited
    OneLeaderPerKey
    RightBytes
    HeardOnce
PROPERTIES
    KeepsPromise
    EveryCallSettles
    EveryRequestEnds
CHECK_DEADLOCK FALSE
