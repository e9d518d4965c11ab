\* Two threads of BLOCK writes on one port: block_result_ is read after the
\* port was released.
SPECIFICATION Spec
CONSTANTS
    b1 = b1
    b2 = b2
    p1 = p1
    Threads <- TwoBlock
    BlockThreads <- TwoBlock
    Kinds <- BothKinds
    Sizes <- OneByte
    MaxOps = 2
    InfoCap = 2
    DataCap = 3
    Streams = FALSE
    Discards = FALSE
    SyncStart = FALSE
    EarlyTake = FALSE
    MaxResets = 0
INVARIANT BlockReturnIsOwn
CHECK_DEADLOCK FALSE
