SPECIFICATION Spec
CONSTANTS
    LaneBits = 2
    Lanes = 2
    RttiName <- Name
    LookBehind = 2
    LookAhead = 2
    MaxMethods = 2
    Images <- ImageSet
    Pages = 7
    PageSize = 4
    Word = 2
    ScanChunk = 8
    Secondary = 3
    Deadline = 6
    Slots = {10, 20}
    Private <- PrivatePages
    Volatile = {3, 4, 6}
    Attempts = 2
INVARIANTS
    LayoutIsProven
    SweepIsExact
    RecoveryIsTwoRequests
PROPERTIES
    WriteIsFresh
    RescanReturns
CHECK_DEADLOCK FALSE
