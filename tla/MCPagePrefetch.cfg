SPECIFICATION Spec
CONSTANTS
    a1 = a1
    a2 = a2
    a3 = a3
    seg = seg
    None = None
    Urls = {a1, a2, a3}
    Keys = {seg}
    KeyOf <- MCKeyOf
    Players = {p1, p2}
    Batches <- MCBatches
    Keeps <- MCKeeps
    MaxGen = 1
    MaxQueue = 2
    BaseWorkers = 1
    MaxWorkers = 1
INVARIANTS
    WireNamesFetch
    SettledWireIsAwaited
    NoWorkerSleepsOnWork
PROPERTIES
    EveryQueuedUrlLeaves
