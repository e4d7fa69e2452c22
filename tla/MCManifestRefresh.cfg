SPECIFICATION MCSpec
CONSTANTS
    f1 = f1
    None = None
    Frames = {f1}
    MaxRetries = 1
    MaxProbes = 1
    Target = 1
    MaxObjects = 2
    MaxRequests = 1
    Segments = 40
    Places <- MCPlaces
INVARIANTS
    OwnTimersEnd
    ParkedForACause
    OldEpisodeIsLeftBehind
PROPERTIES
    RefreshEnds
    JumpsAreProven
CHECK_DEADLOCK FALSE
