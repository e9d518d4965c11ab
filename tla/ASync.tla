------------------------------- MODULE ASync -------------------------------
(***************************************************************************)
(* ASync: a worker thread that runs one job at a time, tasks that assign   *)
(* jobs and ask for the status, and a callback context that assigns jobs   *)
(* without asking.  The semaphore between them is the one of Linux.        *)
(***************************************************************************)
EXTENDS Semaphore, Sequences

CONSTANTS
    Tasks, Callback,  \* threads, and the context of AssignJobFromCallback
    MaxJobs           \* bound: jobs that are ever offered

Contexts == Tasks \cup {Callback}

ASyncAssumption == Callback \notin Tasks /\ MaxJobs \in Nat

VARIABLES
    status, job,    \* status_, job_ (a job is its number)
    worker,         \* what the worker does when it is away from the semaphore
    ctx,            \* each context: its place, and the job it assigns
    offered,
    accepted, ran,  \* jobs that were accepted, and that were run, in order
    raced           \* a call that may not overlap another one did

vars == <<count, waiter, status, job, worker, ctx, offered, accepted, ran, raced>>
semaphore == <<count, waiter>>

Jobs == 0..MaxJobs  \* 0: none

TypeOK ==
    /\ count \in Jobs /\ waiter \in WaiterPlaces
    /\ status \in {"READY", "BUSY", "DONE"} /\ job \in Jobs /\ worker \in {"wait", "run", "done"}
    /\ waiter = "away" <=> worker # "wait"
    /\ ctx \in [Contexts -> [pc : {"idle", "job", "busy", "post", "wake", "ready"}, job : Jobs]]
    /\ offered \in Jobs /\ accepted \in Seq(Jobs) /\ ran \in Seq(Jobs) /\ raced \in BOOLEAN

Init ==
    /\ SemaphoreInit /\ status = "READY" /\ job = 0 /\ worker = "wait"
    /\ ctx = [c \in Contexts |-> [pc |-> "idle", job |-> 0]]
    /\ offered = 0 /\ accepted = <<>> /\ ran = <<>> /\ raced = FALSE

At(c, p) == ctx[c].pc = p
Goto(c, p) == ctx' = [ctx EXCEPT ![c].pc = p]
Calling(p) == \E c \in Contexts : At(c, p)
Offer == offered < MaxJobs /\ offered' = offered + 1

----------------------------------------------------------------------------
(* AssignJob.                                                                 *)

ClaimAlways == TRUE  \* mutant: the status is stored, not compared
ClaimReady == status = "READY"

\* A call that finds another status returns BUSY and changes nothing.
AssignJob(t) ==
    /\ At(t, "idle") /\ ClaimReady /\ Offer
    /\ status' = "BUSY" /\ accepted' = Append(accepted, offered + 1)
    /\ ctx' = [ctx EXCEPT ![t] = [pc |-> "job", job |-> offered + 1]]
    /\ raced' = (raced \/ ~At(Callback, "idle"))
    /\ UNCHANGED <<semaphore, job, worker, ran>>

(* AssignJobFromCallback: it must not meet a job in progress or a task's call. *)
AssignJobFromCallback ==
    /\ At(Callback, "idle") /\ Offer
    /\ raced' = (raced \/ status = "BUSY" \/ \E t \in Tasks : ~At(t, "idle"))
    /\ ctx' = [ctx EXCEPT ![Callback] = [pc |-> "job", job |-> offered + 1]]
    /\ UNCHANGED <<semaphore, status, job, worker, accepted, ran>>

StoreJob(c) ==
    /\ At(c, "job") /\ job' = ctx[c].job /\ Goto(c, IF c = Callback THEN "busy" ELSE "post")
    /\ UNCHANGED <<semaphore, status, worker, offered, accepted, ran, raced>>

StoreBusy ==
    /\ At(Callback, "busy") /\ status' = "BUSY" /\ Goto(Callback, "post")
    /\ accepted' = Append(accepted, ctx[Callback].job)
    /\ UNCHANGED <<semaphore, job, worker, offered, ran, raced>>

Post(c) ==
    /\ At(c, "post") /\ Add /\ Goto(c, IF NeedsWake(count) THEN "wake" ELSE "idle")
    /\ UNCHANGED <<waiter, status, job, worker, offered, accepted, ran, raced>>

PostWake(c) ==
    /\ At(c, "wake") /\ Wake /\ Goto(c, "idle")
    /\ UNCHANGED <<count, status, job, worker, offered, accepted, ran, raced>>

----------------------------------------------------------------------------
(* GetStatus: a status that is not DONE changes nothing.                      *)

GetStatus(t) ==
    /\ At(t, "idle") /\ status = "DONE" /\ Goto(t, "ready")
    /\ raced' = (raced \/ Calling("ready") \/ ~At(Callback, "idle"))
    /\ UNCHANGED <<semaphore, status, job, worker, offered, accepted, ran>>

StoreReady(t) ==
    /\ At(t, "ready") /\ status' = "READY" /\ Goto(t, "idle")
    /\ UNCHANGED <<semaphore, job, worker, offered, accepted, ran, raced>>

----------------------------------------------------------------------------
(* ThreadFun.                                                                 *)

Waiting ==
    /\ FindNone \/ FutexWait
    /\ UNCHANGED <<status, job, worker, ctx, offered, accepted, ran, raced>>

Signal == Interrupted /\ UNCHANGED <<status, job, worker, ctx, offered, accepted, ran, raced>>

Woken ==
    /\ TakeOne /\ worker' = "run"
    /\ UNCHANGED <<status, job, ctx, offered, accepted, ran, raced>>

RunJob ==
    /\ worker = "run" /\ worker' = "done" /\ ran' = Append(ran, job)
    /\ UNCHANGED <<semaphore, status, job, ctx, offered, accepted, raced>>

Done ==
    /\ worker = "done" /\ worker' = "wait" /\ waiter' = "try" /\ status' = "DONE"
    /\ UNCHANGED <<count, job, ctx, offered, accepted, ran, raced>>

----------------------------------------------------------------------------
Running(c) == StoreJob(c) \/ (c = Callback /\ StoreBusy) \/ Post(c) \/ PostWake(c) \/ StoreReady(c)
Worker == Waiting \/ Woken \/ RunJob \/ Done

Next ==
    \/ Worker \/ Signal \/ AssignJobFromCallback
    \/ \E c \in Contexts : Running(c)
    \/ \E t \in Tasks : AssignJob(t) \/ GetStatus(t)

Spec == Init /\ [][Next]_vars
\* Threads run; nobody has to assign a job, and no signal has to come.
Fairness ==
    /\ WF_vars(Worker) /\ \A c \in Contexts : WF_vars(Running(c))
FairSpec == Spec /\ Fairness

----------------------------------------------------------------------------
(* Properties.                                                                *)

\* Jobs run once each, in the order they were accepted, and none is waiting or
\* running when the status says so; only AssignJobFromCallback during a job or
\* a task's call, and two tasks in GetStatus at once, can break it.
JobsRunOnce ==
    ~raced =>
        /\ Len(ran) <= Len(accepted) /\ \A k \in DOMAIN ran : ran[k] = accepted[k]
        /\ status # "BUSY" /\ At(Callback, "idle") => ran = accepted /\ count = 0
        /\ Len(accepted) <= Len(ran) + 1

\* A posted job wakes the worker, however the posts, the load, the futex and a
\* signal fall together.
PostsAreTaken == count > 0 ~> count = 0
=============================================================================
