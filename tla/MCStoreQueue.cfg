CONSTANTS
    t1 = t1
    t2 = t2
    t3 = t3
    t4 = t4
    t5 = t5
    k1 = k1
    k2 = k2
    k3 = k3
    Nil = Nil
    Tasks = {t1, t2, t3, t4, t5}
    Keys = {k1, k2}
    KeyOf <- MCKeyOf
    Priority <- MCPriority
    Concurrency = 1
    Depth = 2
    MaxTails = 3
    RegKeys = {k1, k2, k3}
    OwnKeys = {k1}
    LastTab = 2
    Flushes = {1, 2}
    PayloadLimit = 2
    PageLimit = 1
    MaxInbox = 1
    Watched = {2}
SPECIFICATION MCSpec
INVARIANTS SameKeySerializes NoIdleSlot DenialsAreCorrected
PROPERTY EveryCallIsAnswered
CHECK_DEADLOCK FALSE
