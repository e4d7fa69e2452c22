SPECIFICATION LiveSpec
CONSTANTS
    l1 = l1
    l2 = l2
    s1 = s1
    tabA = tabA
    tabB = tabB
    seg = seg
    Lookups = {l1, l2}
    Stores = {s1}
    Tabs = {tabA, tabB}
    Keys = {seg}
    KeyOf <- MCKeyOf
    TabOf <- MCTabOf
    StoreKey <- MCStoreKey
    Ranged = {l2}
    Drops = TRUE
    Nil = Nil
INVARIANTS HitsAreServed WaitersWait LocksAreHeld
PROPERTY EveryLookupEnds
CHECK_DEADLOCK FALSE
