SPECIFICATION HeadSpec
CONSTANTS
    Documents <- MCDocuments
    MaxScan = 14
    HoldBack = 2
    MinBeforeHead = 3
INVARIANT DocumentIsKept
CHECK_DEADLOCK FALSE
