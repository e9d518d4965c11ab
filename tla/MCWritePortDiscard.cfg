\* A Stream that is discarded after it has pushed bytes.
SPECIFICATION Spec
CONSTANTS
    b1 = b1
    b2 = b2
    p1 = p1
    Threads <- BlockAndPolling
    BlockThreads <- OneBlock
    Kinds <- BothKinds
    Sizes <- OneOrTwo
    MaxOps = 2
    InfoCap = 2
    DataCap = 3
    Streams = TRUE
    Discards = TRUE
    SyncStart = FALSE
    EarlyTake = FALSE
    MaxResets = 0
INVARIANT PayloadIsOwn
CHECK_DEADLOCK FALSE
