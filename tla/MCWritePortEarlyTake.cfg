\* A backend that takes an op as soon as its metadata is queued.
SPECIFICATION Spec
CONSTANTS
    b1 = b1
    b2 = b2
    p1 = p1
    Threads <- OneBlock
    BlockThreads <- OneBlock
    Kinds <- BothKinds
    Sizes <- OneByte
    MaxOps = 3
    InfoCap = 2
    DataCap = 3
    Streams = FALSE
    Discards = FALSE
    SyncStart = FALSE
    EarlyTake = TRUE
    MaxResets = 0
INVARIANT FinishExpected
CHECK_DEADLOCK FALSE
