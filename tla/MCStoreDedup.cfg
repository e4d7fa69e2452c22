CONSTANTS
    w1 = w1
    w2 = w2
    e1 = e1
    e2 = e2
    a = a
    b = b
    p = p
    b1 = b1
    b2 = b2
    Nil = Nil
    Urls = {a, b}
    Keys = {a, b, p}
    Variants <- KeyedVariants
    RegKey <- KeyedRegKey
    Bytes = {b1, b2}
    Size <- MCSize
    Scopes = {}
    BytesOf <- OneBytes
    RowScopes = {Nil}
    Writers = {w1, w2}
    Passes = {e1, e2}
    SoftEntries = 2
    Target <- MCTarget
    MaxDeletes = 1
    MaxSweep = 1
    MaxListed = 1
    Faults = {"error", "late", "abort"}
SPECIFICATION MCSpec
INVARIANT DedupHitIsOnDisk
