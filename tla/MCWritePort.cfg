\* One thread of BLOCK writes and one of POLLING and CALLBACK writes, with
\* streams, timeouts and Reset() between completions; the backend learns of a
\* write from write_fun_ and answers asynchronously.
SPECIFICATION FiniteTimeoutSpec
CONSTANTS
    b1 = b1
    b2 = b2
    p1 = p1
    Threads <- BlockAndPolling
    BlockThreads <- OneBlock
    Kinds <- PollingOnly
    Sizes <- OneOrTwo
    MaxOps = 3
    InfoCap = 2
    DataCap = 3
    Streams = TRUE
    Discards = FALSE
    SyncStart = FALSE
    EarlyTake = FALSE
    MaxResets = 1
INVARIANTS TypeOK QueueOwnership QueuesAligned NoLostCompletion
PROPERTIES ImplementsService CallReturns PortReopens
CHECK_DEADLOCK FALSE
