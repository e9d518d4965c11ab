--------------------------- MODULE TopicDispatch ---------------------------
(***************************************************************************)
(* A topic inside one process: publishers that take its mutex and hand     *)
(* each message to the subscribers of the list in turn (a callback, a      *)
(* queue, an asynchronous and a synchronous subscriber), and the threads   *)
(* that use the last two.  A message is its number; the data and the       *)
(* timestamp a subscriber is given are two stores.                         *)
(***************************************************************************)
EXTENDS Integers, Sequences

CONSTANTS
    Publishers, Nobody,
    QueueSize,     \* room in the subscribed queue
    MaxPublishes   \* bound: publishes that are ever begun

DispatchAssumption ==
    /\ Nobody \notin Publishers /\ QueueSize \in Nat \ {0} /\ MaxPublishes \in Nat

VARIABLES
    mutex,          \* who holds the topic's mutex
    at,             \* each publisher: where in the list it is, and its message
    begun,          \* messages begun
    log, queue,     \* what the callback was run with, and the subscribed queue
    async, sync,    \* ASyncBlock and SyncBlock
    reader, waiter  \* the threads of the asynchronous and synchronous subscriber

vars == <<mutex, at, begun, log, queue, async, sync, reader, waiter>>

Messages == 0..MaxPublishes  \* 0: none yet
Places == {"idle", "lock", "callback", "queue", "async", "asyncdata", "asynctime", "asyncready",
           "sync", "syncdata", "synctime", "syncpost", "unlock"}

\* passed: the messages already dispatched to the subscriber, when it began to wait.
Thread(places) == [pc : places, passed : SUBSET Messages]

TypeOK ==
    /\ mutex \in Publishers \cup {Nobody}
    /\ at \in [Publishers -> [pc : Places, msg : Messages]] /\ begun \in Messages
    /\ log \in Seq(Messages) /\ queue \in Seq(Messages) /\ Len(queue) <= QueueSize
    /\ async \in [state : {"IDLE", "WAITING", "DATA_READY"}, data : Messages, time : Messages,
                  passed : SUBSET Messages]
    /\ sync \in [state : {"WAIT_IDLE", "WAITING", "WAIT_CLAIMED"}, data : Messages,
                 time : Messages, sem : 0..1, passed : SUBSET Messages]
    /\ reader \in Thread({"idle", "waiting", "reading"})
    /\ waiter \in Thread({"idle", "wait", "abandon", "late", "return"})

Init ==
    /\ mutex = Nobody /\ at = [p \in Publishers |-> [pc |-> "idle", msg |-> 0]] /\ begun = 0
    /\ log = <<>> /\ queue = <<>>
    /\ async = [state |-> "IDLE", data |-> 0, time |-> 0, passed |-> {}]
    /\ sync = [state |-> "WAIT_IDLE", data |-> 0, time |-> 0, sem |-> 0, passed |-> {}]
    /\ reader = [pc |-> "idle", passed |-> {}] /\ waiter = reader

----------------------------------------------------------------------------
(* Publish.                                                                   *)

In(p, place) == at[p].pc = place
Move(p, from, to) == In(p, from) /\ at' = [at EXCEPT ![p].pc = to]

Publish(p) ==
    /\ In(p, "idle") /\ begun < MaxPublishes /\ begun' = begun + 1
    /\ at' = [at EXCEPT ![p] = [pc |-> "lock", msg |-> begun + 1]]
    /\ UNCHANGED <<mutex, log, queue, async, sync, reader, waiter>>

Lock(p) ==
    /\ Move(p, "lock", "callback") /\ mutex = Nobody /\ mutex' = p
    /\ UNCHANGED <<begun, log, queue, async, sync, reader, waiter>>

RunCallback(p) ==
    /\ Move(p, "callback", "queue") /\ log' = Append(log, at[p].msg)
    /\ UNCHANGED <<mutex, begun, queue, async, sync, reader, waiter>>

PushQueue(p) ==
    /\ Move(p, "queue", "async")
    /\ queue' = IF Len(queue) < QueueSize THEN Append(queue, at[p].msg) ELSE queue
    /\ UNCHANGED <<mutex, begun, log, async, sync, reader, waiter>>

AsyncCheck(p) ==
    /\ Move(p, "async", IF async.state = "WAITING" THEN "asyncdata" ELSE "sync")
    /\ async' = [async EXCEPT !.passed = @ \cup {at[p].msg}]
    /\ UNCHANGED <<mutex, begun, log, queue, sync, reader, waiter>>

AsyncStore(p) ==
    /\ \/ Move(p, "asyncdata", "asynctime") /\ async' = [async EXCEPT !.data = at[p].msg]
       \/ Move(p, "asynctime", "asyncready") /\ async' = [async EXCEPT !.time = at[p].msg]
       \/ Move(p, "asyncready", "sync") /\ async' = [async EXCEPT !.state = "DATA_READY"]
    /\ UNCHANGED <<mutex, begun, log, queue, sync, reader, waiter>>

SyncClaim(p) ==
    LET claimed == sync.state = "WAITING"
    IN  /\ Move(p, "sync", IF claimed THEN "syncdata" ELSE "unlock")
        /\ sync' = [sync EXCEPT !.passed = @ \cup {at[p].msg},
                                !.state = IF claimed THEN "WAIT_CLAIMED" ELSE @]
        /\ UNCHANGED <<mutex, begun, log, queue, async, reader, waiter>>

SyncStore(p) ==
    /\ \/ Move(p, "syncdata", "synctime") /\ sync' = [sync EXCEPT !.data = at[p].msg]
       \/ Move(p, "synctime", "syncpost") /\ sync' = [sync EXCEPT !.time = at[p].msg]
       \/ Move(p, "syncpost", "unlock") /\ sync' = [sync EXCEPT !.sem = @ + 1]
    /\ UNCHANGED <<mutex, begun, log, queue, async, reader, waiter>>

Unlock(p) ==
    /\ Move(p, "unlock", "idle") /\ mutex' = Nobody
    /\ UNCHANGED <<begun, log, queue, async, sync, reader, waiter>>

----------------------------------------------------------------------------
(* SyncSubscriber::Wait.                                                      *)

SyncWait ==
    /\ waiter.pc = "idle" /\ sync.state = "WAIT_IDLE"
    /\ sync' = [sync EXCEPT !.state = "WAITING"]
    /\ waiter' = [pc |-> "wait", passed |-> sync.passed]
    /\ UNCHANGED <<mutex, at, begun, log, queue, async, reader>>

Woken ==
    /\ waiter.pc \in {"wait", "late"} /\ sync.sem > 0 /\ sync' = [sync EXCEPT !.sem = @ - 1]
    /\ waiter' = [waiter EXCEPT !.pc = "return"]
    /\ UNCHANGED <<mutex, at, begun, log, queue, async, reader>>

Timeout ==
    /\ waiter.pc = "wait" /\ waiter' = [waiter EXCEPT !.pc = "abandon"]
    /\ UNCHANGED <<mutex, at, begun, log, queue, async, sync, reader>>

AlwaysAbandons == TRUE  \* mutant: the state is stored, not compared
NotClaimed == sync.state = "WAITING"

Abandon ==
    /\ waiter.pc = "abandon"
    /\ IF NotClaimed
       THEN /\ sync' = [sync EXCEPT !.state = "WAIT_IDLE"]
            /\ waiter' = [pc |-> "idle", passed |-> {}]
       ELSE waiter' = [waiter EXCEPT !.pc = "late"] /\ UNCHANGED sync
    /\ UNCHANGED <<mutex, at, begun, log, queue, async, reader>>

Return ==
    /\ waiter.pc = "return" /\ sync' = [sync EXCEPT !.state = "WAIT_IDLE"]
    /\ waiter' = [pc |-> "idle", passed |-> {}]
    /\ UNCHANGED <<mutex, at, begun, log, queue, async, reader>>

----------------------------------------------------------------------------
(* ASyncSubscriber: StartWaiting, Available and then GetData.                 *)

StartWaiting ==
    /\ reader.pc \in {"idle", "reading"} /\ async.state = "IDLE"
    /\ async' = [async EXCEPT !.state = "WAITING"]
    /\ reader' = [pc |-> "waiting", passed |-> async.passed]
    /\ UNCHANGED <<mutex, at, begun, log, queue, sync, waiter>>

\* The data is read in place from now on.
GetData ==
    /\ reader.pc = "waiting" /\ async.state = "DATA_READY"
    /\ async' = [async EXCEPT !.state = "IDLE"] /\ reader' = [reader EXCEPT !.pc = "reading"]
    /\ UNCHANGED <<mutex, at, begun, log, queue, sync, waiter>>

----------------------------------------------------------------------------
Step(p) ==
    \/ Lock(p) \/ RunCallback(p) \/ PushQueue(p) \/ AsyncCheck(p) \/ AsyncStore(p)
    \/ SyncClaim(p) \/ SyncStore(p) \/ Unlock(p)

Next ==
    \/ \E p \in Publishers : Publish(p) \/ Step(p)
    \/ SyncWait \/ Woken \/ Timeout \/ Abandon \/ Return \/ StartWaiting \/ GetData

Spec == Init /\ [][Next]_vars

----------------------------------------------------------------------------
(* Properties.                                                                *)

\* A Wait() that returns OK, and GetData() after Available(), see data and
\* timestamp of one message, and of one that was dispatched after they began
\* to wait; a wait leaves no token behind, whichever of it, the publisher and
\* the timeout comes first.  The queue gets the messages the callback gets, in
\* the same order, until it is full.
Delivery ==
    /\ waiter.pc = "return" =>
          sync.data = sync.time /\ sync.data \notin waiter.passed \cup {0}
    /\ waiter.pc = "idle" =>
          sync.sem = 0 /\ \A p \in Publishers : at[p].pc \notin {"syncdata", "synctime", "syncpost"}
    /\ reader.pc = "reading" =>
          async.data = async.time /\ async.data \notin reader.passed \cup {0}
    /\ \A k \in DOMAIN queue : queue[k] = log[k]
    /\ \A k \in 1..Len(log) : k <= QueueSize /\ k \notin DOMAIN queue =>
          \E p \in Publishers : In(p, "queue") /\ log[k] = at[p].msg
=============================================================================
