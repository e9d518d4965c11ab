\* A receive thread, and a reader whose next request differs after a timeout.
SPECIFICATION Spec
CONSTANTS
    Kinds <- BlockOnly
    Sizes <- OneOrTwo
    MaxReads = 2
    MaxBytes = 2
    Cap = 3
    Envs <- ThreadEnv
INVARIANT PopServed
CHECK_DEADLOCK FALSE
