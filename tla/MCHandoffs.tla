----------------------------- MODULE MCHandoffs -----------------------------
(***************************************************************************)
(* The places where the library hands something from one context to        *)
(* another: the shared-memory topic, a topic inside a process, a driver's  *)
(* waiting caller, the CAN transmit pool and an asynchronous job.  They    *)
(* share no state; which of them runs is chosen at the start.              *)
(***************************************************************************)
EXTENDS MCSharedTopic

CONSTANTS thread, isr1, p1, p2, nobody

VARIABLES
    part,
    slots, looks, tx_pend, tx_lock, ctx, mailboxes, irq, offered, sent, rejected, dropped,
    state, result, sem, hardware, caller, isr, ops, early,
    mutex, at, begun, log, queue, async, sync, reader, waiter,
    count, blocked, status, job, worker, actx, jobs, accepted, ran, raced

Can == INSTANCE CanTransmit WITH
          Callers <- {thread}, Isr <- isr1, PoolSize <- 2, Mailboxes <- 1, MaxMessages <- 5
Block == INSTANCE AsyncBlockWait WITH MaxOps <- 3
Dispatch == INSTANCE TopicDispatch WITH
          Publishers <- {p1, p2}, Nobody <- nobody, QueueSize <- 2, MaxPublishes <- 3
Job == INSTANCE ASync WITH
          Tasks <- {p1, p2}, Callback <- isr1, MaxJobs <- 2,
          waiter <- blocked, ctx <- actx, offered <- jobs

ASSUME Can!CanAssumption /\ Block!BlockAssumption
ASSUME Dispatch!DispatchAssumption /\ Job!ASyncAssumption

canVars == <<slots, looks, tx_pend, tx_lock, ctx, mailboxes, irq, offered, sent, rejected,
             dropped>>
blockVars == <<state, result, sem, hardware, caller, isr, ops, early>>
topicVars == <<mutex, at, begun, log, queue, async, sync, reader, waiter>>
jobVars == <<count, blocked, status, job, worker, actx, jobs, accepted, ran, raced>>
allVars == <<part, vars, canVars, blockVars, topicVars, jobVars>>

MCInit ==
    /\ Init /\ Can!Init /\ Block!Init /\ Dispatch!Init /\ Job!Init
    /\ part \in {"shared", "can", "block", "topic", "job"}
    /\ part # "shared" => left.joins = 1
    /\ part # "can" => looks

Shared(A) ==
    part = "shared" /\ A /\ UNCHANGED <<part, canVars, blockVars, topicVars, jobVars>>
InCan(A) == part = "can" /\ A /\ UNCHANGED <<part, vars, blockVars, topicVars, jobVars>>
InBlock(A) == part = "block" /\ A /\ UNCHANGED <<part, vars, canVars, topicVars, jobVars>>
InTopic(A) == part = "topic" /\ A /\ UNCHANGED <<part, vars, canVars, blockVars, jobVars>>
InJob(A) == part = "job" /\ A /\ UNCHANGED <<part, vars, canVars, blockVars, topicVars>>

MCNext ==
    \/ Shared(Next) \/ InCan(Can!Next) \/ InBlock(Block!Next)
    \/ InTopic(Dispatch!Next) \/ InJob(Job!Next)

\* The fairness of each component: only one of them runs, so that their fair
\* actions share the conditions.
Thread1 == Shared(PublisherStep) \/ InCan(Can!Transmit) \/ InJob(Job!Worker)
Thread2 == Shared(SubscriberStep(1)) \/ InCan(Can!Running(thread)) \/ InJob(Job!Running(p1))
Thread3 == Shared(SubscriberStep(2)) \/ InCan(Can!Running(isr1)) \/ InJob(Job!Running(p2))
Thread4 == InCan(Can!Interrupt) \/ InJob(Job!Running(isr1))

MCSpec ==
    /\ MCInit /\ [][MCNext]_allVars
    /\ WF_allVars(Thread1) /\ WF_allVars(Thread2) /\ WF_allVars(Thread3) /\ WF_allVars(Thread4)

\* A CAN frame is in one place, and an accepted one is dropped only by the
\* driver that takes it from the pool before it looks for a mailbox.
FramesAccounted == part = "can" => Can!TypeOK /\ Can!FramesAccounted

\* A BLOCK wait of a driver ends with its own operation's result.
OwnResult == part = "block" => Block!TypeOK /\ Block!OwnResult

\* Subscribers of a topic get whole messages, fresh ones, in order.
Delivery == part = "topic" => Dispatch!TypeOK /\ Dispatch!Delivery

\* A job runs once, and is over when the status says so.
JobsRunOnce == part = "job" => Job!TypeOK /\ Job!JobsRunOnce

\* Frames in the CAN driver's pool get to the controller without another call,
\* and a semaphore's token wakes the thread that waits for it.
NothingWaitsAlone == Can!PoolDrains /\ Job!PostsAreTaken
=============================================================================
