\* The same threads against a backend that scans queue_info_ by itself and one
\* that answers inside write_fun_, with discarded streams and without Reset().
SPECIFICATION Spec
CONSTANTS
    b1 = b1
    b2 = b2
    p1 = p1
    Threads <- BlockAndPolling
    BlockThreads <- OneBlock
    Kinds <- BothKinds
    Sizes <- OneOrTwo
    MaxOps = 3
    InfoCap = 2
    DataCap = 3
    Streams = TRUE
    Discards = TRUE
    SyncStart = TRUE
    EarlyTake = TRUE
    MaxResets = 0
INVARIANTS NoStaleToken BlockReturnIsOwn
CHECK_DEADLOCK FALSE
