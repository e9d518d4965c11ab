\* One instance of every component that hands something over.
SPECIFICATION MCSpec
CONSTANTS
    N = 2
    NSlots = 3
    Cap = 3
    Envs <- MCEnvs
    None = None
    thread = thread
    isr1 = isr1
    p1 = p1
    p2 = p2
    nobody = nobody
INVARIANTS
    SlotsAccounted
    HeldDataStable
    NothingLost
    ReadyCountsQueue
    FramesAccounted
    OwnResult
    Delivery
    JobsRunOnce
PROPERTIES
    FullIsTrue
    WaiterServed
    NothingWaitsAlone
\* Publishes, frames, operations and jobs are bounded: the system stops when
\* they are used up.
CHECK_DEADLOCK FALSE
