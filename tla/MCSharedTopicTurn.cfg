\* A subscriber that stalls inside TryPopDescriptor for a turn of its ring of
\* two cells.
SPECIFICATION FairSpec
CONSTANTS
    N = 2
    NSlots = 3
    Cap = 2
    Envs <- TurnEnvs
    None = None
INVARIANT ReleaseExpected
CHECK_DEADLOCK FALSE
