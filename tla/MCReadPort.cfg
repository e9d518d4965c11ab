\* Every read mode in the environments the handoff is sound in.
SPECIFICATION FairSpec
CONSTANTS
    Kinds <- BothKinds
    Sizes <- UpToTwo
    MaxReads = 3
    MaxBytes = 4
    Cap = 3
    Envs <- SafeEnvs
INVARIANTS TypeOK BytesInOrder BufferMatchesStatus NoLostWakeup CallLeavesClean
PROPERTIES StatusIsFinal ServableReadCompletes
CHECK_DEADLOCK FALSE
