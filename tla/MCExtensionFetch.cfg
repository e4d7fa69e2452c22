SPECIFICATION MCSpec
CONSTANTS
    prefetch = prefetch
    warmup = warmup
    player = player
    clip = clip
    Requests = {prefetch, warmup, player, clip}
    Streams = {player, clip}
    Intact = {prefetch, player}
    Speculative = {prefetch}
    TwitchMedia = {player}
    Body <- MCBody
    MaxCalls = 1
    MaxLost = 2
    MaxStops = 1
    MaxResets = 1
    Documents <- MCDocuments
    MaxScan = 14
    HoldBack = 2
    MinBeforeHead = 3
INVARIANTS
    NobodyForgotten
    WholeBody
    HintsFitTheHead
PROPERTIES
    AbortStopsFetch
    SettledStays
    EveryCallSettles
CHECK_DEADLOCK FALSE
