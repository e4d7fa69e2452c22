SPECIFICATION PlayerSpec
CONSTANTS
    f1 = f1
    x1 = x1
    None = None
    Fetches = {f1}
    Xhrs = {x1}
    FetchRanges = {"none", "open"}
    XhrRanges = {"none"}
    HonoursRanges = TRUE
CHECK_DEADLOCK FALSE
INVARIANT RightBytes
