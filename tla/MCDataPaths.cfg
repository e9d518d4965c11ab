\* One consumer on a ring of four slots that wraps around; a tree of six nodes;
\* writes and transfers of one to three bytes, packets of two, batches that cut
\* packets in two.
SPECIFICATION MCSpec
CONSTANTS
    Null = Null
    c1 = c1
    c2 = c2
    N = 4
    Consumers <- OneConsumer
    Batches <- ZeroOneOrThree
    Calls <- AllCalls
    Resets = TRUE
    MaxItems = 5
INVARIANTS TypeOK SlotOwnership TreeCorrect WritesGoOut ReceivesAll TransfersEnd ParsesAnyBatches
PROPERTY ImplementsFifo
CHECK_DEADLOCK FALSE
