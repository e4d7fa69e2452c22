CONSTANTS
    a = a
    p = p
    d = d
    e = e
    q1 = q1
    q2 = q2
    b1 = b1
    b2 = b2
    w1 = w1
    r1 = r1
    Nil = Nil
    Urls = {a, p, d, e}
    Keys = {a, p, d, e}
    Variants <- MCVariants
    RegKey <- SelfRegKey
    Bytes = {b1, b2}
    Size <- MCSize
    BytesOf <- TwoSegments
    Scopes = {q1, q2}
    RowScopes = {q1, Nil}
    Writers = {w1}
    Passes = {}
    SoftEntries = 1
    Target <- MCTarget
    MaxDeletes = 1
    MaxSweep = 1
    MaxListed = 1
    Faults = {"error", "late"}
    Readers = {r1}
    BridgePairs <- RotatedPair
SPECIFICATION MCSpec
INVARIANTS NoFalseMiss ServesOwnSegment
