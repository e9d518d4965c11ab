\* Two consumers that pop single items.
SPECIFICATION Spec
CONSTANTS
    c1 = c1
    c2 = c2
    N = 4
    Consumers <- TwoConsumers
    Batches <- One
    Calls <- PopOnly
    Resets = FALSE
    MaxItems = 5
INVARIANT NoItemTwice
CHECK_DEADLOCK FALSE
