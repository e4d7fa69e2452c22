SPECIFICATION MCSpec
CONSTANTS
    k1 = k1
    k2 = k2
    k3 = k3
    w1 = w1
    w2 = w2
    None = None
    Keys <- MCKeys
    Sizes = {1, 3, 5}
    Callers <- MCCallers
    NoKey = None
    MaxEntries = 2
    MaxBytes = 5
    MaxEntryBytes = 4
    MaxAliases = 2
    MaxWaitersPerKey = 1
    MaxWaiterKeys = 1
    RefreshAge = 1
    Ttl = 1
    Urls = {"a", "b", "c"}
    SegmentKeys = {"ka", "kc"}
    Playlists <- MCPlaylists
    KeyOf <- MCKeyOf
    Segs <- MCSegs
    Near <- MCNear
    Episode <- MCEpisode
    Runways = {"low", "healthy"}
    Asking = {"chunk-observed"}
    Objects = {1, 2}
    GlobalCap = 1
    BatchCap = 1
    MaxGen = 1
    MaxLine = 2
    MaxStrays = 1
INVARIANTS
    WithinLimits
    SleepersHaveNoBytes
    GenerationsAgree
    MarksAreAccountedFor
