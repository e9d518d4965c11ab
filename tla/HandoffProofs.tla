--------------------------- MODULE HandoffProofs ---------------------------
(***************************************************************************)
(* Proofs about four handoffs between threads and interrupts:              *)
(* TopicDispatch, for any publishers, room in the queue and number of      *)
(* publishes; AsyncBlockWait, for any number of operations; ASync, for any *)
(* number of tasks and jobs; and UartTransmit, for any writes, errors and  *)
(* urgent writes.                                                          *)
(***************************************************************************)
EXTENDS TopicDispatch, FiniteSetTheorems, SequenceTheorems, TLAPS

CONSTANTS MaxOps, Tasks, Callback, MaxJobs
VARIABLES
    state, result, sem, hardware, caller, isr, ops, early,
    count, blocked, status, job, worker, ctx, offered, accepted, ran, raced

Block == INSTANCE AsyncBlockWait
Job == INSTANCE ASync WITH waiter <- blocked

----------------------------------------------------------------------------
(* TopicDispatch: the inductive invariant.                                    *)

\* The mutex: whoever is past it holds it, and everyone has a message of its own.
Exclusion ==
    /\ \A p \in Publishers : at[p].pc \notin {"idle", "lock"} => mutex = p
    /\ \A p \in Publishers : at[p].pc # "idle" => at[p].msg \in 1..begun
    /\ \A p, q \in Publishers :
          p # q /\ at[p].pc # "idle" /\ at[q].pc # "idle" => at[p].msg # at[q].msg

\* A message has not passed a subscriber that is still ahead of its publisher.
Ahead ==
    /\ async.passed \subseteq 1..begun /\ sync.passed \subseteq 1..begun
    /\ reader.passed \subseteq async.passed /\ waiter.passed \subseteq sync.passed
    /\ \A p \in Publishers :
          /\ at[p].pc \in {"lock", "callback", "queue", "async"} =>
                at[p].msg \notin async.passed \cup sync.passed
          /\ at[p].pc \in {"asyncdata", "asynctime", "asyncready", "sync"} =>
                at[p].msg \notin sync.passed

\* The queue is as much of the log as it has room for, but for a message between
\* the callback and the queue.
Pushed(n) == Len(queue) = IF n <= QueueSize THEN n ELSE QueueSize
QueueKept ==
    /\ \A k \in 1..Len(queue) : queue[k] = log[k]
    /\ (\A p \in Publishers : ~In(p, "queue")) => Pushed(Len(log))
    /\ \A p \in Publishers : In(p, "queue") =>
          Len(log) > 0 /\ log[Len(log)] = at[p].msg /\ Pushed(Len(log) - 1)

\* What a publisher that claimed the wait has stored, and what the token says.
SyncWhole == sync.data = sync.time /\ sync.data \notin waiter.passed \cup {0}
SyncKept ==
    /\ waiter.pc = "idle" => sync.state = "WAIT_IDLE" /\ sync.sem = 0
    /\ waiter.pc \in {"wait", "abandon"} => sync.state \in {"WAITING", "WAIT_CLAIMED"}
    /\ waiter.pc \in {"late", "return"} => sync.state = "WAIT_CLAIMED"
    /\ sync.state = "WAITING" => sync.sem = 0 /\ waiter.pc \in {"wait", "abandon"}
    /\ sync.sem > 0 \/ waiter.pc = "return" => SyncWhole
    /\ waiter.pc = "return" => sync.sem = 0
    /\ \A p \in Publishers : at[p].pc \in {"syncdata", "synctime", "syncpost"} =>
          /\ sync.state = "WAIT_CLAIMED" /\ sync.sem = 0
          /\ waiter.pc \in {"wait", "abandon", "late"} /\ at[p].msg \notin waiter.passed
          /\ at[p].pc # "syncdata" => sync.data = at[p].msg
          /\ at[p].pc = "syncpost" => sync.time = at[p].msg

\* The same of the asynchronous subscriber, whose data is read in place.
AsyncWhole == async.data = async.time /\ async.data \notin reader.passed \cup {0}
AsyncKept ==
    /\ reader.pc # "waiting" => async.state = "IDLE"
    /\ async.state = "DATA_READY" \/ reader.pc = "reading" => AsyncWhole
    /\ \A p \in Publishers : at[p].pc \in {"asyncdata", "asynctime", "asyncready"} =>
          /\ async.state = "WAITING" /\ reader.pc = "waiting" /\ at[p].msg \notin reader.passed
          /\ at[p].pc # "asyncdata" => async.data = at[p].msg
          /\ at[p].pc = "asyncready" => async.time = at[p].msg

IInv == TypeOK /\ Exclusion /\ Ahead /\ QueueKept /\ SyncKept /\ AsyncKept

\* A publisher that moves on keeps the type.
LEMMA Moved ==
    ASSUME NEW p \in Publishers, NEW c \in Places,
           at \in [Publishers -> [pc : Places, msg : Messages]], at' = [at EXCEPT ![p].pc = c]
    PROVE  at' \in [Publishers -> [pc : Places, msg : Messages]]
OBVIOUS

LEMMA InvInit == DispatchAssumption /\ Init => IInv
<1> SUFFICES ASSUME DispatchAssumption, Init PROVE IInv
  OBVIOUS
<1>1. 0 \in Messages /\ <<>> \in Seq(Messages) /\ Len(<<>>) = 0
  BY DEF DispatchAssumption, Messages
<1>2. TypeOK
  BY <1>1 DEF DispatchAssumption, Init, TypeOK, Places, Thread
<1>3. Exclusion /\ Ahead /\ SyncKept /\ AsyncKept
  BY DEF Init, Exclusion, Ahead, SyncKept, AsyncKept
<1>4. QueueKept
  BY <1>1 DEF DispatchAssumption, Init, QueueKept, Pushed, In
<1>. QED BY <1>2, <1>3, <1>4 DEF IInv

LEMMA InvNext == DispatchAssumption /\ IInv /\ [Next]_vars => IInv'
<1> SUFFICES ASSUME DispatchAssumption, IInv, [Next]_vars PROVE IInv'
  OBVIOUS
<1> USE DEF DispatchAssumption, IInv, TypeOK, Messages, Places, Thread, Exclusion, In, Move
<1>1. ASSUME NEW p \in Publishers, Publish(p) PROVE IInv'
  <2>1. TypeOK'
    BY <1>1 DEF Publish
  <2>2. Exclusion'
    BY <1>1 DEF Publish
  <2>3. Ahead'
    BY <1>1 DEF Publish, Ahead
  <2>4. QueueKept'
    BY <1>1 DEF Publish, QueueKept, Pushed
  <2>5. SyncKept'
    BY <1>1 DEF Publish, SyncKept, SyncWhole, Ahead
  <2>6. AsyncKept'
    BY <1>1 DEF Publish, AsyncKept, AsyncWhole, Ahead
  <2>. QED BY <2>1, <2>2, <2>3, <2>4, <2>5, <2>6
<1>2. ASSUME NEW p \in Publishers, Lock(p) PROVE IInv'
  <2>1. TypeOK'
    <3>1. at' \in [Publishers -> [pc : Places, msg : Messages]]
      <4>1. at' = [at EXCEPT ![p].pc = "callback"] /\ "callback" \in Places
        BY <1>2 DEF Lock
      <4>. QED BY <4>1, Moved
    <3>. QED BY <1>2, <3>1 DEF Lock
  <2>2. Exclusion'
    BY <1>2 DEF Lock
  <2>3. Ahead'
    BY <1>2 DEF Lock, Ahead
  <2>4. QueueKept'
    BY <1>2 DEF Lock, QueueKept, Pushed
  <2>5. SyncKept'
    BY <1>2 DEF Lock, SyncKept, SyncWhole, Ahead
  <2>6. AsyncKept'
    BY <1>2 DEF Lock, AsyncKept, AsyncWhole, Ahead
  <2>. QED BY <2>1, <2>2, <2>3, <2>4, <2>5, <2>6
<1>3. ASSUME NEW p \in Publishers, RunCallback(p) PROVE IInv'
  <2>1. TypeOK'
    <3>1. at' \in [Publishers -> [pc : Places, msg : Messages]]
      <4>1. at' = [at EXCEPT ![p].pc = "queue"] /\ "queue" \in Places
        BY <1>3 DEF RunCallback
      <4>. QED BY <4>1, Moved
    <3>. QED BY SMTT(30), <1>3, <3>1 DEF RunCallback
  <2>2. Exclusion'
    BY <1>3 DEF RunCallback
  <2>3. Ahead'
    BY <1>3 DEF RunCallback, Ahead
  <2>4. QueueKept'
    <3>1. at'[p].pc = "queue" /\ at'[p].msg = at[p].msg
      BY <1>3 DEF RunCallback
    <3>2. \A q \in Publishers : ~In(q, "queue") /\ (q # p => ~In(q, "queue")')
      BY <1>3 DEF RunCallback
    <3>3. /\ Len(log') = Len(log) + 1 /\ log'[Len(log) + 1] = at[p].msg
          /\ \A k \in 1..Len(log) : log'[k] = log[k]
      BY <1>3 DEF RunCallback
    <3>4. Len(queue) <= Len(log) /\ queue' = queue /\ Pushed(Len(log)) /\ Len(log) \in Nat
      BY <1>3, <3>2 DEF RunCallback, QueueKept, Pushed
    <3>5. \A k \in 1..Len(queue') : queue'[k] = log'[k]
      BY <3>3, <3>4 DEF QueueKept
    <3>6. Pushed(Len(log) - 1)'
      BY <3>3, <3>4 DEF Pushed
    <3>. QED BY <3>1, <3>2, <3>3, <3>4, <3>5, <3>6 DEF QueueKept
  <2>5. SyncKept'
    BY <1>3 DEF RunCallback, SyncKept, SyncWhole, Ahead
  <2>6. AsyncKept'
    BY <1>3 DEF RunCallback, AsyncKept, AsyncWhole, Ahead
  <2>. QED BY <2>1, <2>2, <2>3, <2>4, <2>5, <2>6
<1>4. ASSUME NEW p \in Publishers, PushQueue(p) PROVE IInv'
  <2>1. CASE Len(queue) < QueueSize
    <3>1. TypeOK'
      <4>1. at[p].msg \in Messages /\ queue' = Append(queue, at[p].msg)
        BY <1>4, <2>1 DEF PushQueue
      <4>2. queue' \in Seq(Messages) /\ Len(queue') = Len(queue) + 1
        BY <4>1
      <4>3. Len(queue') <= QueueSize
        BY <2>1, <4>2
      <4>4. at' \in [Publishers -> [pc : Places, msg : Messages]]
        BY <1>4 DEF PushQueue
      <4>. QED BY <1>4, <4>2, <4>3, <4>4 DEF PushQueue
    <3>2. Exclusion'
      BY <1>4, <2>1 DEF PushQueue
    <3>3. Ahead'
      BY <1>4, <2>1 DEF PushQueue, Ahead
    <3>4. QueueKept'
      <4>1. \A q \in Publishers : ~In(q, "queue")'
        <5>1. at \in [Publishers -> [pc : Places, msg : Messages]]
          BY DEF TypeOK, Thread
        <5>2. at' = [at EXCEPT ![p].pc = "async"]
          BY <1>4 DEF PushQueue
        <5>3. at'[p].pc = "async" /\ \A q \in Publishers : q # p => at'[q] = at[q]
          BY ONLY <5>1, <5>2, p \in Publishers
        <5>4. \A q \in Publishers : q # p => at[q].pc # "queue"
          BY <1>4 DEF PushQueue
        <5>. QED BY <5>3, <5>4
      <4>2. /\ queue' = Append(queue, at[p].msg) /\ log' = log /\ Len(log) \in Nat
            /\ Len(log) > 0 /\ log[Len(log)] = at[p].msg /\ Pushed(Len(log) - 1)
        BY <1>4, <2>1 DEF PushQueue, QueueKept
      <4>3. Len(queue) = Len(log) - 1
        BY <2>1, <4>2 DEF Pushed
      <4>4. /\ Len(queue') = Len(log) /\ queue'[Len(log)] = at[p].msg
            /\ \A k \in 1..Len(queue) : queue'[k] = queue[k]
        BY <4>2, <4>3
      <4>5. \A k \in 1..Len(queue') : queue'[k] = log'[k]
        BY <4>2, <4>3, <4>4 DEF QueueKept
      <4>6. Len(log) <= QueueSize
        BY <2>1, <4>3
      <4>. QED BY <4>1, <4>2, <4>4, <4>5, <4>6 DEF QueueKept, Pushed
    <3>5. SyncKept'
      BY <1>4, <2>1 DEF PushQueue, SyncKept, SyncWhole, Ahead
    <3>6. AsyncKept'
      BY <1>4, <2>1 DEF PushQueue, AsyncKept, AsyncWhole, Ahead
    <3>. QED BY <3>1, <3>2, <3>3, <3>4, <3>5, <3>6
  <2>2. CASE ~(Len(queue) < QueueSize)
    <3>1. TypeOK'
      <4>1. at' \in [Publishers -> [pc : Places, msg : Messages]]
        <5>1. at' = [at EXCEPT ![p].pc = "async"] /\ "async" \in Places
          BY <1>4, <2>2 DEF PushQueue
        <5>. QED BY <5>1, Moved
      <4>. QED BY <1>4, <2>2, <4>1 DEF PushQueue
    <3>2. Exclusion'
      BY <1>4, <2>2 DEF PushQueue
    <3>3. Ahead'
      BY <1>4, <2>2 DEF PushQueue, Ahead
    <3>4. QueueKept'
      BY <1>4, <2>2 DEF PushQueue, QueueKept, Pushed
    <3>5. SyncKept'
      BY <1>4, <2>2 DEF PushQueue, SyncKept, SyncWhole, Ahead
    <3>6. AsyncKept'
      BY <1>4, <2>2 DEF PushQueue, AsyncKept, AsyncWhole, Ahead
    <3>. QED BY <3>1, <3>2, <3>3, <3>4, <3>5, <3>6
  <2>. QED BY <1>4, <2>1, <2>2 DEF PushQueue
<1>5. ASSUME NEW p \in Publishers, AsyncCheck(p) PROVE IInv'
  <2>1. CASE async.state = "WAITING"
    <3>1. TypeOK'
      <4>1. async.passed \cup {at[p].msg} \in SUBSET Messages
        OBVIOUS
      <4>2. at' \in [Publishers -> [pc : Places, msg : Messages]]
        <5>1. at' = [at EXCEPT ![p].pc = "asyncdata"]
          BY <1>5, <2>1 DEF AsyncCheck
        <5>2. "asyncdata" \in Places
          OBVIOUS
        <5>. QED BY <5>1, <5>2, Moved
      <4>. QED BY <1>5, <2>1, <4>1, <4>2 DEF AsyncCheck
    <3>2. Exclusion'
      BY <1>5, <2>1 DEF AsyncCheck
    <3>3. Ahead'
      <4>1. async'.passed = async.passed \cup {at[p].msg} /\ at[p].msg \in 1..begun
        BY <1>5 DEF AsyncCheck
      <4>2. /\ at'[p].msg = at[p].msg /\ at'[p].pc \in {"asyncdata", "sync"}
            /\ \A q \in Publishers : q # p => at'[q] = at[q] /\ mutex # q
        BY <1>5, <2>1, ZenonT(60) DEF AsyncCheck
      <4>3. \A q \in Publishers : q # p /\ at[q].pc # "idle" =>
               at[q].msg # at[p].msg /\ at[q].pc = "lock"
        BY <1>5, <4>2 DEF AsyncCheck
      <4>. QED BY <1>5, <4>1, <4>2, <4>3 DEF AsyncCheck, Ahead
    <3>4. QueueKept'
      BY <1>5, <2>1 DEF AsyncCheck, QueueKept, Pushed
    <3>5. SyncKept'
      BY <1>5, <2>1 DEF AsyncCheck, SyncKept, SyncWhole, Ahead
    <3>6. AsyncKept'
      BY <1>5, <2>1 DEF AsyncCheck, AsyncKept, AsyncWhole, Ahead
    <3>. QED BY <3>1, <3>2, <3>3, <3>4, <3>5, <3>6
  <2>2. CASE async.state # "WAITING"
    <3>1. TypeOK'
      <4>1. async.passed \cup {at[p].msg} \in SUBSET Messages
        OBVIOUS
      <4>2. at' \in [Publishers -> [pc : Places, msg : Messages]]
        <5>1. at' = [at EXCEPT ![p].pc = "sync"]
          BY <1>5, <2>2 DEF AsyncCheck
        <5>2. "sync" \in Places
          OBVIOUS
        <5>. QED BY <5>1, <5>2, Moved
      <4>. QED BY <1>5, <2>2, <4>1, <4>2 DEF AsyncCheck
    <3>2. Exclusion'
      BY <1>5, <2>2 DEF AsyncCheck
    <3>3. Ahead'
      <4>1. async'.passed = async.passed \cup {at[p].msg} /\ at[p].msg \in 1..begun
        BY <1>5 DEF AsyncCheck
      <4>2. /\ at'[p].msg = at[p].msg /\ at'[p].pc \in {"asyncdata", "sync"}
            /\ \A q \in Publishers : q # p => at'[q] = at[q] /\ mutex # q
        BY <1>5, <2>2, ZenonT(60) DEF AsyncCheck
      <4>3. \A q \in Publishers : q # p /\ at[q].pc # "idle" =>
               at[q].msg # at[p].msg /\ at[q].pc = "lock"
        BY <1>5, <4>2 DEF AsyncCheck
      <4>. QED BY <1>5, <4>1, <4>2, <4>3 DEF AsyncCheck, Ahead
    <3>4. QueueKept'
      BY <1>5, <2>2 DEF AsyncCheck, QueueKept, Pushed
    <3>5. SyncKept'
      BY <1>5, <2>2 DEF AsyncCheck, SyncKept, SyncWhole, Ahead
    <3>6. AsyncKept'
      BY <1>5, <2>2 DEF AsyncCheck, AsyncKept, AsyncWhole, Ahead
    <3>. QED BY <3>1, <3>2, <3>3, <3>4, <3>5, <3>6
  <2>. QED BY <1>5, <2>1, <2>2 DEF AsyncCheck
<1>6. ASSUME NEW p \in Publishers, AsyncStore(p) PROVE IInv'
  <2>1. CASE Move(p, "asyncdata", "asynctime") /\ async' = [async EXCEPT !.data = at[p].msg]
    <3>1. TypeOK'
      <4>1. at' \in [Publishers -> [pc : Places, msg : Messages]]
        <5>1. at' = [at EXCEPT ![p].pc = "asynctime"] /\ "asynctime" \in Places
          BY <2>1
        <5>. QED BY <5>1, Moved
      <4>2. async' \in [state : {"IDLE", "WAITING", "DATA_READY"}, data : Messages,
                        time : Messages, passed : SUBSET Messages]
        BY <2>1
      <4>. QED BY <1>6, <4>1, <4>2 DEF AsyncStore
    <3>2. Exclusion'
      BY <1>6, <2>1 DEF AsyncStore
    <3>3. Ahead'
      BY <1>6, <2>1 DEF AsyncStore, Ahead
    <3>4. QueueKept'
      BY <1>6, <2>1 DEF AsyncStore, QueueKept, Pushed
    <3>5. SyncKept'
      BY <1>6, <2>1 DEF AsyncStore, SyncKept, SyncWhole, Ahead
    <3>6. AsyncKept'
      <4>1. /\ at[p].pc = "asyncdata" /\ at'[p].pc = "asynctime" /\ at'[p].msg = at[p].msg
            /\ \A q \in Publishers : q # p => at'[q] = at[q] /\ at[q].pc \in {"idle", "lock"}
        BY <2>1, <1>6
      <4>2. async'.data = at[p].msg /\ async'.state = async.state
        BY <2>1
      <4>. QED BY ZenonT(40), <1>6, <4>1, <4>2 DEF AsyncStore, AsyncKept, AsyncWhole, Ahead
    <3>. QED BY <3>1, <3>2, <3>3, <3>4, <3>5, <3>6
  <2>2. CASE Move(p, "asynctime", "asyncready") /\ async' = [async EXCEPT !.time = at[p].msg]
    <3>1. TypeOK'
      <4>1. at' \in [Publishers -> [pc : Places, msg : Messages]]
        <5>1. at' = [at EXCEPT ![p].pc = "asyncready"] /\ "asyncready" \in Places
          BY <2>2
        <5>. QED BY <5>1, Moved
      <4>2. async' \in [state : {"IDLE", "WAITING", "DATA_READY"}, data : Messages,
                        time : Messages, passed : SUBSET Messages]
        BY <2>2
      <4>. QED BY <1>6, <4>1, <4>2 DEF AsyncStore
    <3>2. Exclusion'
      BY <1>6, <2>2 DEF AsyncStore
    <3>3. Ahead'
      BY <1>6, <2>2 DEF AsyncStore, Ahead
    <3>4. QueueKept'
      BY <1>6, <2>2 DEF AsyncStore, QueueKept, Pushed
    <3>5. SyncKept'
      BY <1>6, <2>2 DEF AsyncStore, SyncKept, SyncWhole, Ahead
    <3>6. AsyncKept'
      BY <1>6, <2>2 DEF AsyncStore, AsyncKept, AsyncWhole, Ahead
    <3>. QED BY <3>1, <3>2, <3>3, <3>4, <3>5, <3>6
  <2>3. CASE Move(p, "asyncready", "sync") /\ async' = [async EXCEPT !.state = "DATA_READY"]
    <3>1. TypeOK'
      <4>1. at' \in [Publishers -> [pc : Places, msg : Messages]]
        <5>1. at' = [at EXCEPT ![p].pc = "sync"] /\ "sync" \in Places
          BY <2>3
        <5>. QED BY <5>1, Moved
      <4>2. async' \in [state : {"IDLE", "WAITING", "DATA_READY"}, data : Messages,
                        time : Messages, passed : SUBSET Messages]
        BY <2>3
      <4>. QED BY <1>6, <4>1, <4>2 DEF AsyncStore
    <3>2. Exclusion'
      BY <1>6, <2>3 DEF AsyncStore
    <3>3. Ahead'
      BY <1>6, <2>3 DEF AsyncStore, Ahead
    <3>4. QueueKept'
      BY <1>6, <2>3 DEF AsyncStore, QueueKept, Pushed
    <3>5. SyncKept'
      BY <1>6, <2>3 DEF AsyncStore, SyncKept, SyncWhole, Ahead
    <3>6. AsyncKept'
      <4>1. /\ at[p].pc = "asyncready" /\ at'[p].pc = "sync" /\ at'[p].msg = at[p].msg
            /\ \A q \in Publishers : q # p => at'[q] = at[q] /\ at[q].pc \in {"idle", "lock"}
        BY SMTT(30), <2>3, <1>6
      <4>2. async'.data = async.data /\ async'.time = async.time /\ async'.state = "DATA_READY"
        BY <2>3
      <4>3. /\ async.data = at[p].msg /\ async.time = at[p].msg /\ at[p].msg \in 1..begun
            /\ at[p].msg \notin reader.passed /\ reader.pc = "waiting" /\ reader' = reader
        BY <1>6, <4>1 DEF AsyncStore, AsyncKept
      <4>4. AsyncWhole'
        BY <4>2, <4>3 DEF AsyncWhole
      <4>5. \A q \in Publishers : at'[q].pc \notin {"asyncdata", "asynctime", "asyncready"}
        BY <4>1
      <4>. QED BY <4>3, <4>4, <4>5 DEF AsyncKept
    <3>. QED BY <3>1, <3>2, <3>3, <3>4, <3>5, <3>6
  <2>. QED BY <1>6, <2>1, <2>2, <2>3 DEF AsyncStore
<1>7. ASSUME NEW p \in Publishers, SyncClaim(p) PROVE IInv'
  <2>1. CASE sync.state = "WAITING"
    <3>1. TypeOK'
      <4>1. sync.passed \cup {at[p].msg} \in SUBSET Messages
        OBVIOUS
      <4>2. at' \in [Publishers -> [pc : Places, msg : Messages]]
        <5>1. at' = [at EXCEPT ![p].pc = "syncdata"]
          BY <1>7, <2>1 DEF SyncClaim
        <5>2. "syncdata" \in Places
          OBVIOUS
        <5>. QED BY <5>1, <5>2, Moved
      <4>. QED BY <1>7, <2>1, <4>1, <4>2 DEF SyncClaim
    <3>2. Exclusion'
      BY <1>7, <2>1 DEF SyncClaim
    <3>3. Ahead'
      <4>1. sync'.passed = sync.passed \cup {at[p].msg} /\ at[p].msg \in 1..begun
        BY <1>7 DEF SyncClaim
      <4>2. /\ at'[p].msg = at[p].msg /\ at'[p].pc \in {"syncdata"}
            /\ \A q \in Publishers : q # p => at'[q] = at[q] /\ mutex # q
        BY ZenonT(40), <1>7, <2>1 DEF SyncClaim
      <4>3. \A q \in Publishers : q # p /\ at[q].pc # "idle" =>
               at[q].msg # at[p].msg /\ at[q].pc = "lock"
        BY <1>7, <4>2 DEF SyncClaim
      <4>. QED BY <1>7, <4>1, <4>2, <4>3 DEF SyncClaim, Ahead
    <3>4. QueueKept'
      BY <1>7, <2>1 DEF SyncClaim, QueueKept, Pushed
    <3>5. SyncKept'
      BY <1>7, <2>1 DEF SyncClaim, SyncKept, SyncWhole, Ahead
    <3>6. AsyncKept'
      BY <1>7, <2>1 DEF SyncClaim, AsyncKept, AsyncWhole, Ahead
    <3>. QED BY <3>1, <3>2, <3>3, <3>4, <3>5, <3>6
  <2>2. CASE sync.state # "WAITING"
    <3>1. TypeOK'
      <4>1. sync.passed \cup {at[p].msg} \in SUBSET Messages
        OBVIOUS
      <4>2. at' \in [Publishers -> [pc : Places, msg : Messages]]
        <5>1. at' = [at EXCEPT ![p].pc = "unlock"]
          BY <1>7, <2>2 DEF SyncClaim
        <5>2. "unlock" \in Places
          OBVIOUS
        <5>. QED BY <5>1, <5>2, Moved
      <4>. QED BY <1>7, <2>2, <4>1, <4>2 DEF SyncClaim
    <3>2. Exclusion'
      BY <1>7, <2>2 DEF SyncClaim
    <3>3. Ahead'
      <4>1. sync'.passed = sync.passed \cup {at[p].msg} /\ at[p].msg \in 1..begun
        BY <1>7 DEF SyncClaim
      <4>2. /\ at'[p].msg = at[p].msg /\ at'[p].pc = "unlock"
            /\ \A q \in Publishers : q # p => at'[q] = at[q] /\ mutex # q
        BY ZenonT(40), <1>7, <2>2 DEF SyncClaim
      <4>3. \A q \in Publishers : q # p /\ at[q].pc # "idle" =>
               at[q].msg # at[p].msg /\ at[q].pc = "lock"
        BY <1>7, <4>2 DEF SyncClaim
      <4>. QED BY <1>7, <4>1, <4>2, <4>3 DEF SyncClaim, Ahead
    <3>4. QueueKept'
      BY <1>7, <2>2 DEF SyncClaim, QueueKept, Pushed
    <3>5. SyncKept'
      BY <1>7, <2>2 DEF SyncClaim, SyncKept, SyncWhole, Ahead
    <3>6. AsyncKept'
      BY <1>7, <2>2 DEF SyncClaim, AsyncKept, AsyncWhole, Ahead
    <3>. QED BY <3>1, <3>2, <3>3, <3>4, <3>5, <3>6
  <2>. QED BY <1>7, <2>1, <2>2 DEF SyncClaim
<1>8. ASSUME NEW p \in Publishers, SyncStore(p) PROVE IInv'
  <2>1. CASE Move(p, "syncdata", "synctime") /\ sync' = [sync EXCEPT !.data = at[p].msg]
    <3>1. TypeOK'
      <4>1. at' \in [Publishers -> [pc : Places, msg : Messages]]
        <5>1. at' = [at EXCEPT ![p].pc = "synctime"] /\ "synctime" \in Places
          BY <1>8, <2>1 DEF SyncStore
        <5>. QED BY <5>1, Moved
      <4>2. sync' \in [state : {"WAIT_IDLE", "WAITING", "WAIT_CLAIMED"}, data : Messages,
                       time : Messages, sem : 0..1, passed : SUBSET Messages]
        BY <2>1
      <4>. QED BY <1>8, <2>1, <4>1, <4>2 DEF SyncStore
    <3>2. Exclusion'
      BY <1>8, <2>1 DEF SyncStore
    <3>3. Ahead'
      BY <1>8, <2>1 DEF SyncStore, Ahead
    <3>4. QueueKept'
      BY <1>8, <2>1 DEF SyncStore, QueueKept, Pushed
    <3>5. SyncKept'
      <4>1. /\ at[p].pc = "syncdata" /\ at'[p].pc = "synctime" /\ at'[p].msg = at[p].msg
            /\ \A q \in Publishers : q # p => at'[q] = at[q] /\ at[q].pc \in {"idle", "lock"}
        BY <2>1, <1>8
      <4>2. sync'.data = at[p].msg /\ sync'.state = sync.state /\ sync'.sem = sync.sem
        BY <2>1
      <4>3. /\ sync.state = "WAIT_CLAIMED" /\ sync.sem = 0 /\ waiter' = waiter
            /\ waiter.pc \in {"wait", "abandon", "late"} /\ at[p].msg \notin waiter.passed
        BY <1>8, <4>1 DEF SyncStore, SyncKept
      <4>4. \A q \in Publishers : at'[q].pc \in {"syncdata", "synctime", "syncpost"} => q = p
        BY <4>1
      <4>. QED BY <4>1, <4>2, <4>3, <4>4 DEF SyncKept
    <3>6. AsyncKept'
      BY <1>8, <2>1 DEF SyncStore, AsyncKept, AsyncWhole, Ahead
    <3>. QED BY <3>1, <3>2, <3>3, <3>4, <3>5, <3>6
  <2>2. CASE Move(p, "synctime", "syncpost") /\ sync' = [sync EXCEPT !.time = at[p].msg]
    <3>1. TypeOK'
      <4>1. at' \in [Publishers -> [pc : Places, msg : Messages]]
        <5>1. at' = [at EXCEPT ![p].pc = "syncpost"] /\ "syncpost" \in Places
          BY <1>8, <2>2 DEF SyncStore
        <5>. QED BY <5>1, Moved
      <4>2. sync' \in [state : {"WAIT_IDLE", "WAITING", "WAIT_CLAIMED"}, data : Messages,
                       time : Messages, sem : 0..1, passed : SUBSET Messages]
        BY <2>2
      <4>. QED BY <1>8, <2>2, <4>1, <4>2 DEF SyncStore
    <3>2. Exclusion'
      BY <1>8, <2>2 DEF SyncStore
    <3>3. Ahead'
      BY <1>8, <2>2 DEF SyncStore, Ahead
    <3>4. QueueKept'
      BY <1>8, <2>2 DEF SyncStore, QueueKept, Pushed
    <3>5. SyncKept'
      BY <1>8, <2>2 DEF SyncStore, SyncKept, SyncWhole, Ahead
    <3>6. AsyncKept'
      BY <1>8, <2>2 DEF SyncStore, AsyncKept, AsyncWhole, Ahead
    <3>. QED BY <3>1, <3>2, <3>3, <3>4, <3>5, <3>6
  <2>3. CASE Move(p, "syncpost", "unlock") /\ sync' = [sync EXCEPT !.sem = @ + 1]
    <3>1. TypeOK'
      <4>1. sync.sem + 1 \in 0..1
        BY <2>3 DEF SyncKept
      <4>2. at' \in [Publishers -> [pc : Places, msg : Messages]]
        <5>1. at' = [at EXCEPT ![p].pc = "unlock"]
          BY <2>3
        <5>2. "unlock" \in Places
          OBVIOUS
        <5>. QED BY <5>1, <5>2, Moved
      <4>. QED BY <1>8, <2>3, <4>1, <4>2 DEF SyncStore
    <3>2. Exclusion'
      BY <1>8, <2>3 DEF SyncStore
    <3>3. Ahead'
      BY <1>8, <2>3 DEF SyncStore, Ahead
    <3>4. QueueKept'
      BY <1>8, <2>3 DEF SyncStore, QueueKept, Pushed
    <3>5. SyncKept'
      <4>1. /\ at[p].pc = "syncpost" /\ at'[p].pc = "unlock" /\ at'[p].msg = at[p].msg
            /\ \A q \in Publishers : q # p => at'[q] = at[q] /\ at[q].pc \in {"idle", "lock"}
        <5>1. at \in [Publishers -> [pc : Places, msg : Messages]] /\ at[p].pc = "syncpost"
          BY <2>3 DEF TypeOK, Thread
        <5>2. at' = [at EXCEPT ![p].pc = "unlock"]
          BY <2>3
        <5>3. /\ at'[p].pc = "unlock" /\ at'[p].msg = at[p].msg
              /\ \A q \in Publishers : q # p => at'[q] = at[q]
          BY ONLY <5>1, <5>2, p \in Publishers
        <5>4. \A q \in Publishers : q # p => at[q].pc \in {"idle", "lock"}
          BY <5>1
        <5>. QED BY <5>1, <5>3, <5>4
      <4>2. /\ sync'.data = sync.data /\ sync'.time = sync.time /\ sync'.state = sync.state
            /\ sync'.sem = sync.sem + 1
        BY <2>3
      <4>3. /\ sync.state = "WAIT_CLAIMED" /\ sync.sem = 0 /\ waiter' = waiter
            /\ waiter.pc \in {"wait", "abandon", "late"} /\ at[p].msg \notin waiter.passed
            /\ sync.data = at[p].msg /\ sync.time = at[p].msg /\ at[p].msg \in 1..begun
        BY <1>8, <4>1 DEF SyncStore, SyncKept
      <4>4. SyncWhole'
        BY <4>2, <4>3 DEF SyncWhole
      <4>. QED BY <4>1, <4>2, <4>3, <4>4 DEF SyncKept
    <3>6. AsyncKept'
      BY <1>8, <2>3 DEF SyncStore, AsyncKept, AsyncWhole, Ahead
    <3>. QED BY <3>1, <3>2, <3>3, <3>4, <3>5, <3>6
  <2>. QED BY <1>8, <2>1, <2>2, <2>3 DEF SyncStore
<1>9. ASSUME NEW p \in Publishers, Unlock(p) PROVE IInv'
  <2>1. TypeOK'
    <3>1. at' \in [Publishers -> [pc : Places, msg : Messages]]
      <4>1. at' = [at EXCEPT ![p].pc = "idle"] /\ "idle" \in Places
        BY <1>9 DEF Unlock
      <4>. QED BY <4>1, Moved
    <3>. QED BY <1>9, <3>1 DEF Unlock
  <2>2. Exclusion'
    BY <1>9 DEF Unlock
  <2>3. Ahead'
    BY <1>9 DEF Unlock, Ahead
  <2>4. QueueKept'
    BY <1>9 DEF Unlock, QueueKept, Pushed
  <2>5. SyncKept'
    BY <1>9 DEF Unlock, SyncKept, SyncWhole, Ahead
  <2>6. AsyncKept'
    BY <1>9 DEF Unlock, AsyncKept, AsyncWhole, Ahead
  <2>. QED BY <2>1, <2>2, <2>3, <2>4, <2>5, <2>6
<1>10. CASE SyncWait
  <2>1. TypeOK'
    BY <1>10 DEF SyncWait
  <2>2. Exclusion'
    BY <1>10 DEF SyncWait
  <2>3. Ahead'
    BY <1>10 DEF SyncWait, Ahead
  <2>4. QueueKept'
    BY <1>10 DEF SyncWait, QueueKept, Pushed
  <2>5. SyncKept'
    BY <1>10 DEF SyncWait, SyncKept, SyncWhole, Ahead
  <2>6. AsyncKept'
    BY <1>10 DEF SyncWait, AsyncKept, AsyncWhole, Ahead
  <2>. QED BY <2>1, <2>2, <2>3, <2>4, <2>5, <2>6
<1>11. CASE Woken
  <2>1. TypeOK'
    <3>1. sync.sem - 1 \in 0..1
      BY <1>11 DEF Woken
    <3>. QED BY <1>11, <3>1 DEF Woken
  <2>2. Exclusion'
    BY <1>11 DEF Woken
  <2>3. Ahead'
    BY <1>11 DEF Woken, Ahead
  <2>4. QueueKept'
    BY <1>11 DEF Woken, QueueKept, Pushed
  <2>5. SyncKept'
    BY <1>11 DEF Woken, SyncKept, SyncWhole, Ahead
  <2>6. AsyncKept'
    BY <1>11 DEF Woken, AsyncKept, AsyncWhole, Ahead
  <2>. QED BY <2>1, <2>2, <2>3, <2>4, <2>5, <2>6
<1>12. CASE Timeout
  <2>1. TypeOK'
    BY <1>12 DEF Timeout
  <2>2. Exclusion'
    BY <1>12 DEF Timeout
  <2>3. Ahead'
    BY <1>12 DEF Timeout, Ahead
  <2>4. QueueKept'
    BY <1>12 DEF Timeout, QueueKept, Pushed
  <2>5. SyncKept'
    BY <1>12 DEF Timeout, SyncKept, SyncWhole, Ahead
  <2>6. AsyncKept'
    BY <1>12 DEF Timeout, AsyncKept, AsyncWhole, Ahead
  <2>. QED BY <2>1, <2>2, <2>3, <2>4, <2>5, <2>6
<1>13. CASE Abandon
  <2>1. CASE NotClaimed
    <3>1. TypeOK'
      <4>1. sync' = [sync EXCEPT !.state = "WAIT_IDLE"] /\ waiter' = [pc |-> "idle", passed |-> {}]
        BY <1>13, <2>1 DEF Abandon
      <4>2. sync' \in [state : {"WAIT_IDLE", "WAITING", "WAIT_CLAIMED"}, data : Messages,
                       time : Messages, sem : 0..1, passed : SUBSET Messages]
        BY <4>1
      <4>. QED BY <1>13, <4>1, <4>2 DEF Abandon
    <3>2. Exclusion'
      BY <1>13, <2>1 DEF Abandon, NotClaimed
    <3>3. Ahead'
      <4>1. sync'.passed = sync.passed /\ waiter'.passed = {}
        BY <1>13, <2>1 DEF Abandon, NotClaimed
      <4>. QED BY <1>13, <4>1 DEF Abandon, Ahead
    <3>4. QueueKept'
      BY <1>13, <2>1 DEF Abandon, NotClaimed, QueueKept, Pushed
    <3>5. SyncKept'
      BY <1>13, <2>1 DEF Abandon, NotClaimed, SyncKept, SyncWhole, Ahead
    <3>6. AsyncKept'
      BY <1>13, <2>1 DEF Abandon, NotClaimed, AsyncKept, AsyncWhole, Ahead
    <3>. QED BY <3>1, <3>2, <3>3, <3>4, <3>5, <3>6
  <2>2. CASE ~NotClaimed
    <3>1. TypeOK'
      BY <1>13, <2>2 DEF Abandon, NotClaimed
    <3>2. Exclusion'
      BY <1>13, <2>2 DEF Abandon, NotClaimed
    <3>3. Ahead'
      BY <1>13, <2>2 DEF Abandon, NotClaimed, Ahead
    <3>4. QueueKept'
      BY <1>13, <2>2 DEF Abandon, NotClaimed, QueueKept, Pushed
    <3>5. SyncKept'
      <4>1. waiter'.pc = "late" /\ waiter'.passed = waiter.passed
        BY <1>13, <2>2 DEF Abandon
      <4>2. sync.state = "WAIT_CLAIMED" /\ waiter.pc = "abandon"
        BY <1>13, <2>2 DEF Abandon, NotClaimed, SyncKept
      <4>. QED BY <1>13, <2>2, <4>1, <4>2 DEF Abandon, SyncKept, SyncWhole
    <3>6. AsyncKept'
      BY <1>13, <2>2 DEF Abandon, NotClaimed, AsyncKept, AsyncWhole, Ahead
    <3>. QED BY <3>1, <3>2, <3>3, <3>4, <3>5, <3>6
  <2>. QED BY <1>13, <2>1, <2>2 DEF Abandon, NotClaimed
<1>14. CASE Return
  <2>1. TypeOK'
    BY <1>14 DEF Return
  <2>2. Exclusion'
    BY <1>14 DEF Return
  <2>3. Ahead'
    BY <1>14 DEF Return, Ahead
  <2>4. QueueKept'
    BY <1>14 DEF Return, QueueKept, Pushed
  <2>5. SyncKept'
    BY <1>14 DEF Return, SyncKept, SyncWhole, Ahead
  <2>6. AsyncKept'
    BY <1>14 DEF Return, AsyncKept, AsyncWhole, Ahead
  <2>. QED BY <2>1, <2>2, <2>3, <2>4, <2>5, <2>6
<1>15. CASE StartWaiting
  <2>1. TypeOK'
    BY <1>15 DEF StartWaiting
  <2>2. Exclusion'
    BY <1>15 DEF StartWaiting
  <2>3. Ahead'
    BY <1>15 DEF StartWaiting, Ahead
  <2>4. QueueKept'
    BY <1>15 DEF StartWaiting, QueueKept, Pushed
  <2>5. SyncKept'
    BY <1>15 DEF StartWaiting, SyncKept, SyncWhole, Ahead
  <2>6. AsyncKept'
    BY <1>15 DEF StartWaiting, AsyncKept, AsyncWhole, Ahead
  <2>. QED BY <2>1, <2>2, <2>3, <2>4, <2>5, <2>6
<1>16. CASE GetData
  <2>1. TypeOK'
    BY <1>16 DEF GetData
  <2>2. Exclusion'
    BY <1>16 DEF GetData
  <2>3. Ahead'
    BY <1>16 DEF GetData, Ahead
  <2>4. QueueKept'
    BY <1>16 DEF GetData, QueueKept, Pushed
  <2>5. SyncKept'
    BY <1>16 DEF GetData, SyncKept, SyncWhole, Ahead
  <2>6. AsyncKept'
    BY <1>16 DEF GetData, AsyncKept, AsyncWhole, Ahead
  <2>. QED BY <2>1, <2>2, <2>3, <2>4, <2>5, <2>6
<1>17. CASE UNCHANGED vars
  BY <1>17 DEF vars, Ahead, QueueKept, Pushed, SyncKept, SyncWhole, AsyncKept, AsyncWhole
<1>. QED BY <1>1, <1>2, <1>3, <1>4, <1>5, <1>6, <1>7, <1>8, <1>9, <1>10, <1>11, <1>12, <1>13,
         <1>14, <1>15, <1>16, <1>17 DEF Next, Step

LEMMA Invariance == ASSUME DispatchAssumption PROVE Spec => []IInv
<1>1. Init => IInv
  BY InvInit
<1>2. IInv /\ [Next]_vars => IInv'
  BY InvNext
<1>. QED BY <1>1, <1>2, PTL DEF Spec

\* Types: the asynchronous and the synchronous block stay in their states, the
\* queue within its room, and the semaphore of a Wait() at one token at most.
THEOREM DispatchTypes == ASSUME DispatchAssumption PROVE Spec => []TypeOK
<1>1. IInv => TypeOK
  BY DEF IInv
<1>. QED BY <1>1, Invariance, PTL

\* Whatever publishers, timeouts and new waits come between two stores: Wait()
\* and GetData() hand out the data and timestamp of one message, dispatched
\* after they began to wait, no wait leaves a token or a claim to the next one,
\* and the queue gets what the callback gets, in order, until it is full.
THEOREM MessagesArrive == ASSUME DispatchAssumption PROVE Spec => []Delivery
<1>1. DispatchAssumption /\ IInv => Delivery
  <2> SUFFICES ASSUME DispatchAssumption, IInv PROVE Delivery
    OBVIOUS
  <2> USE DEF IInv
  <2>1. /\ waiter.pc = "return" =>
              sync.data = sync.time /\ sync.data \notin waiter.passed \cup {0}
        /\ waiter.pc = "idle" => /\ sync.sem = 0
                                 /\ \A p \in Publishers :
                                      at[p].pc \notin {"syncdata", "synctime", "syncpost"}
    BY DEF SyncKept, SyncWhole
  <2>2. reader.pc = "reading" =>
           async.data = async.time /\ async.data \notin reader.passed \cup {0}
    BY DEF AsyncKept, AsyncWhole
  <2>3. \A k \in DOMAIN queue : queue[k] = log[k]
    BY DEF QueueKept, TypeOK
  <2>4. ASSUME NEW k \in 1..Len(log), k <= QueueSize, k \notin DOMAIN queue
        PROVE  \E p \in Publishers : In(p, "queue") /\ log[k] = at[p].msg
    <3>1. Len(queue) < k /\ Len(log) \in Nat /\ Len(queue) \in Nat
      BY <2>4 DEF TypeOK
    <3>2. ~Pushed(Len(log))
      BY <2>4, <3>1 DEF Pushed, DispatchAssumption
    <3>3. PICK p \in Publishers : In(p, "queue")
      BY <3>2 DEF QueueKept
    <3>4. log[Len(log)] = at[p].msg /\ Pushed(Len(log) - 1)
      BY <3>3 DEF QueueKept
    <3>5. k = Len(log)
      BY <2>4, <3>1, <3>4 DEF Pushed, DispatchAssumption
    <3>. QED BY <3>3, <3>4, <3>5
  <2>. QED BY <2>1, <2>2, <2>3, <2>4 DEF Delivery
<1>. QED BY <1>1, Invariance, PTL

----------------------------------------------------------------------------
(* AsyncBlockWait: the inductive invariant.                                   *)

\* A token is posted for an operation that was started and, from then on, is at
\* the hardware, in the interrupt or in the semaphore.
One(cond) == IF cond THEN 1 ELSE 0
Budget ==
    /\ sem + One(isr.pc # "idle") + One(hardware # 0) + One(caller.pc = "begin") <= ops
    /\ caller.pc = "begin" => hardware = 0

\* Who is given what, in the behaviours without an early start.
Untouched == sem = 0 /\ isr.pc \in {"idle", "claim"}
InHands ==  \* the operation is claimed: its result is on the way, or it is posted
    /\ state = "CLAIMED" /\ hardware = 0 /\ isr.pc \in {"idle", "result", "post"}
    /\ isr.pc # "idle" => sem = 0 /\ isr.op = caller.op
    /\ isr.pc = "idle" => sem = 1
    /\ isr.pc # "result" => result = caller.op

Handover ==
    /\ caller.pc \in {"idle", "timedout"} => Untouched /\ state \in {"IDLE", "DETACHED"}
    /\ caller.pc = "begin" => Untouched /\ isr.pc = "idle" /\ state = "PENDING"
    /\ caller.pc \in {"wait", "detach"} => InHands \/ (Untouched /\ state = "PENDING")
    /\ caller.pc = "late" => InHands
    /\ caller.pc = "finish" =>
          /\ state = "CLAIMED" /\ hardware = 0 /\ sem = 0 /\ isr.pc = "idle"
          /\ result = caller.op
    /\ caller.pc \notin {"idle", "begin"} =>
          /\ hardware \in {0, caller.op}
          /\ isr.pc # "idle" => isr.op = caller.op /\ hardware = 0

BlockInv == Block!TypeOK /\ Budget /\ (~early => Handover)

LEMMA BlockInit == Block!BlockAssumption /\ Block!Init => BlockInv
<1> SUFFICES ASSUME Block!BlockAssumption, Block!Init PROVE BlockInv
  OBVIOUS
<1>1. caller.pc = "idle" /\ isr.pc = "idle" /\ 0 \in Block!Ops
  BY DEF Block!BlockAssumption, Block!Init, Block!Ops
<1>2. Block!TypeOK
  BY <1>1 DEF Block!Init, Block!TypeOK, Block!Ops
<1>3. Budget /\ Handover
  BY <1>1 DEF Block!Init, Budget, One, Handover, Untouched
<1>. QED BY <1>2, <1>3 DEF BlockInv

LEMMA BlockNext == Block!BlockAssumption /\ BlockInv /\ [Block!Next]_Block!vars => BlockInv'
<1> SUFFICES ASSUME Block!BlockAssumption, BlockInv, [Block!Next]_Block!vars PROVE BlockInv'
  OBVIOUS
<1> USE DEF Block!BlockAssumption, BlockInv, Block!TypeOK, Block!Ops, Budget, One, Handover,
            Untouched, InHands, Block!Goto, Block!Return
<1>1. CASE Block!Start
  <2>1. Block!TypeOK'
    BY <1>1 DEF Block!Start
  <2>2. Budget'
    BY <1>1 DEF Block!Start
  <2>3. ~early' => Handover'
    BY <1>1 DEF Block!Start
  <2>. QED BY <2>1, <2>2, <2>3
<1>2. CASE Block!Begin
  <2>1. Block!TypeOK'
    BY <1>2 DEF Block!Begin
  <2>2. Budget'
    BY <1>2 DEF Block!Begin
  <2>3. ~early' => Handover'
    BY <1>2 DEF Block!Begin
  <2>. QED BY <2>1, <2>2, <2>3
<1>3. CASE Block!Woken
  <2>1. Block!TypeOK'
    BY <1>3 DEF Block!Woken
  <2>2. Budget'
    BY <1>3 DEF Block!Woken
  <2>3. ~early' => Handover'
    BY <1>3 DEF Block!Woken
  <2>. QED BY <2>1, <2>2, <2>3
<1>4. CASE Block!Timeout
  <2>1. Block!TypeOK'
    BY <1>4 DEF Block!Timeout
  <2>2. Budget'
    BY <1>4 DEF Block!Timeout
  <2>3. ~early' => Handover'
    BY <1>4 DEF Block!Timeout
  <2>. QED BY <2>1, <2>2, <2>3
<1>5. CASE Block!Detach
  <2>1. Block!TypeOK'
    BY <1>5 DEF Block!Detach
  <2>2. Budget'
    BY <1>5 DEF Block!Detach
  <2>3. ~early' => Handover'
    BY <1>5 DEF Block!Detach
  <2>. QED BY <2>1, <2>2, <2>3
<1>6. CASE Block!TimedOut
  <2>1. Block!TypeOK'
    BY <1>6 DEF Block!TimedOut
  <2>2. Budget'
    BY <1>6 DEF Block!TimedOut
  <2>3. ~early' => Handover'
    BY <1>6 DEF Block!TimedOut
  <2>. QED BY <2>1, <2>2, <2>3
<1>7. CASE Block!Finish
  <2>1. Block!TypeOK'
    BY <1>7 DEF Block!Finish
  <2>2. Budget'
    BY <1>7 DEF Block!Finish
  <2>3. ~early' => Handover'
    BY <1>7 DEF Block!Finish
  <2>. QED BY <2>1, <2>2, <2>3
<1>8. CASE Block!Complete
  <2>1. Block!TypeOK'
    BY <1>8 DEF Block!Complete
  <2>2. Budget'
    BY <1>8 DEF Block!Complete
  <2>3. ~early' => Handover'
    BY <1>8 DEF Block!Complete
  <2>. QED BY <2>1, <2>2, <2>3
<1>9. CASE Block!Claim
  <2>1. Block!TypeOK'
    BY <1>9 DEF Block!Claim, Block!Claimable
  <2>2. Budget'
    BY <1>9 DEF Block!Claim, Block!Claimable
  <2>3. ~early' => Handover'
    <3>1. CASE state = "PENDING"
      BY <1>9, <3>1 DEF Block!Claim, Block!Claimable
    <3>2. CASE state # "PENDING"
      BY <1>9, <3>2 DEF Block!Claim, Block!Claimable
    <3>. QED BY <3>1, <3>2
  <2>. QED BY <2>1, <2>2, <2>3
<1>10. CASE Block!SetResult
  <2>1. Block!TypeOK'
    BY <1>10 DEF Block!SetResult
  <2>2. Budget'
    BY <1>10 DEF Block!SetResult
  <2>3. ~early' => Handover'
    BY <1>10 DEF Block!SetResult
  <2>. QED BY <2>1, <2>2, <2>3
<1>11. CASE Block!Post
  <2>1. Block!TypeOK'
    BY <1>11 DEF Block!Post
  <2>2. Budget'
    BY <1>11 DEF Block!Post
  <2>3. ~early' => Handover'
    BY <1>11 DEF Block!Post
  <2>. QED BY <2>1, <2>2, <2>3
<1>12. CASE UNCHANGED Block!vars
  BY <1>12 DEF Block!vars
<1>. QED BY <1>1, <1>2, <1>3, <1>4, <1>5, <1>6, <1>7, <1>8, <1>9, <1>10, <1>11,
         <1>12 DEF Block!Next

LEMMA BlockInvariance == ASSUME Block!BlockAssumption PROVE Block!Spec => []BlockInv
<1>1. Block!Init => BlockInv
  BY BlockInit
<1>2. BlockInv /\ [Block!Next]_Block!vars => BlockInv'
  BY BlockNext
<1>. QED BY <1>1, <1>2, PTL DEF Block!Spec

\* Types, and with them the bound of the semaphore: TryPost() posts at most once
\* for an operation, whatever timed out or was refused, early starts included.
THEOREM BlockTypes == ASSUME Block!BlockAssumption PROVE Block!Spec => []Block!TypeOK
<1>1. BlockInv => Block!TypeOK
  BY DEF BlockInv
<1>. QED BY <1>1, BlockInvariance, PTL

\* Wait() ends with the result of its own operation and leaves no token for the
\* next one, as long as no operation starts while the interrupt is between the
\* release of the driver and the end of TryPost().
THEOREM ResultIsOwn == ASSUME Block!BlockAssumption PROVE Block!Spec => []Block!OwnResult
<1>1. BlockInv => Block!OwnResult
  BY DEF BlockInv, Block!TypeOK, Handover, Untouched, InHands, Block!OwnResult
<1>. QED BY <1>1, BlockInvariance, PTL

----------------------------------------------------------------------------
(* ASync: the inductive invariant.                                            *)

\* The contexts that have a job to post.
Posters == {c \in Job!Contexts : ctx[c].pc \in {"job", "busy", "post"}}

\* Every token was offered as a job.
JobBudget == IsFiniteSet(Posters) /\ count + Cardinality(Posters) <= offered

JobPlaces ==
    /\ \A t \in Tasks : ctx[t].pc # "busy"
    /\ ctx[Callback].pc # "ready"

\* Where the job is while the status is BUSY: with the context that assigns it,
\* in job_ under a token, run by the worker, or run.
InCall ==
    /\ count = 0 /\ worker = "wait"
    /\ \E c \in Posters :
          /\ ctx[c].pc # "busy" /\ accepted = Append(ran, ctx[c].job)
          /\ IF ctx[c].pc = "post" THEN job = ctx[c].job ELSE c \in Tasks
InQueue == Posters = {} /\ count = 1 /\ worker = "wait" /\ accepted = Append(ran, job)
InWorker ==
    /\ Posters = {} /\ count = 0
    /\ \/ worker = "run" /\ accepted = Append(ran, job)
       \/ worker = "done" /\ accepted = ran

OneJob ==
    /\ \A c, d \in Posters : c = d
    /\ status = "BUSY" => InCall \/ InQueue \/ InWorker
    /\ status # "BUSY" =>
          /\ count = 0 /\ worker = "wait" /\ accepted = ran
          /\ Posters \subseteq {Callback} /\ ctx[Callback].pc # "post"
          /\ ctx[Callback].pc = "busy" => job = ctx[Callback].job

\* A task that found DONE has the status for itself until it stores READY.
OneReader ==
    \A t \in Job!Contexts : ctx[t].pc = "ready" =>
        /\ status = "DONE" /\ ctx[Callback].pc = "idle"
        /\ \A u \in Job!Contexts : ctx[u].pc = "ready" => u = t

JobInv == Job!TypeOK /\ JobBudget /\ JobPlaces /\ (~raced => OneJob /\ OneReader)

LEMMA JobInit == Job!ASyncAssumption /\ Job!Init => JobInv
<1> SUFFICES ASSUME Job!ASyncAssumption, Job!Init PROVE JobInv
  OBVIOUS
<1>1. Job!TypeOK
  <2>1. 0 \in Job!Jobs /\ accepted \in Seq(Job!Jobs) /\ ran \in Seq(Job!Jobs)
    BY DEF Job!ASyncAssumption, Job!Init, Job!Jobs
  <2>2. ctx \in [Job!Contexts -> [pc : {"idle", "job", "busy", "post", "wake", "ready"},
                                  job : Job!Jobs]]
    BY <2>1 DEF Job!Init
  <2>. QED BY <2>1, <2>2 DEF Job!Init, Job!SemaphoreInit, Job!TypeOK, Job!WaiterPlaces
<1>2. Posters = {}
  BY DEF Job!Init, Posters
<1>3. JobBudget
  BY <1>2, FS_EmptySet DEF Job!Init, Job!SemaphoreInit, JobBudget
<1>4. JobPlaces /\ OneJob /\ OneReader
  BY <1>2 DEF Job!Init, Job!SemaphoreInit, JobPlaces, OneJob, OneReader, Job!Contexts
<1>. QED BY <1>1, <1>3, <1>4 DEF JobInv

\* What becomes of the contexts that have a job to post.
LEMMA PostersGrow ==
    ASSUME JobBudget, NEW c \in Job!Contexts, c \notin Posters, Posters' = Posters \cup {c},
           UNCHANGED count, offered' = offered + 1, count \in Nat, offered \in Nat
    PROVE  JobBudget'
<1>1. Cardinality(Posters') = Cardinality(Posters) + 1 /\ IsFiniteSet(Posters')
  BY FS_AddElement DEF JobBudget
<1>2. Cardinality(Posters) \in Nat
  BY FS_CardinalityType DEF JobBudget
<1>. QED BY <1>1, <1>2 DEF JobBudget

LEMMA PostersShrink ==
    ASSUME JobBudget, NEW c \in Posters, Posters' = Posters \ {c}, UNCHANGED offered,
           count' = count + 1, count \in Nat, offered \in Nat
    PROVE  JobBudget' /\ count' <= offered
<1>1. Cardinality(Posters') = Cardinality(Posters) - 1 /\ IsFiniteSet(Posters')
  BY FS_RemoveElement DEF JobBudget
<1>2. Cardinality(Posters) \in Nat /\ Cardinality(Posters') \in Nat
  BY <1>1, FS_CardinalityType DEF JobBudget
<1>. QED BY <1>1, <1>2 DEF JobBudget

LEMMA JobNext == Job!ASyncAssumption /\ JobInv /\ [Job!Next]_Job!vars => JobInv'
<1> SUFFICES ASSUME Job!ASyncAssumption, JobInv, [Job!Next]_Job!vars PROVE JobInv'
  OBVIOUS
<1> USE DEF Job!ASyncAssumption, JobInv, Job!TypeOK, Job!WaiterPlaces, Job!Jobs, Job!At, Job!Goto,
            Job!Calling, Job!Offer, Job!semaphore, JobPlaces
<1>0. Callback \in Job!Contexts /\ Callback \notin Tasks /\ \A t \in Tasks : t \in Job!Contexts
  BY DEF Job!Contexts
<1>1. ASSUME NEW t \in Tasks, Job!AssignJob(t) PROVE JobInv'
  <2>1. Posters' = Posters \cup {t} /\ t \notin Posters
    BY <1>0, <1>1 DEF Job!AssignJob, Posters
  <2>2. JobBudget'
    BY <1>0, <1>1, <2>1, PostersGrow DEF Job!AssignJob, Posters
  <2>3. Job!TypeOK'
    BY <1>0, <1>1 DEF Job!AssignJob, Job!ClaimReady
  <2>4. JobPlaces'
    BY <1>0, <1>1 DEF Job!AssignJob
  <2>5. ~raced' => OneJob'
    BY ZenonT(40), <1>0, <1>1, <2>1 DEF Job!AssignJob, Job!ClaimReady, OneJob, InCall, InQueue, InWorker,
                               Posters
  <2>6. ~raced' => OneReader'
    <3> SUFFICES ASSUME ~raced' PROVE OneReader'
      OBVIOUS
    <3>1. ~raced /\ \A u \in Job!Contexts : ctx[u].pc # "ready"
      BY <1>1 DEF Job!AssignJob, Job!ClaimReady, OneReader
    <3>2. \A u \in Job!Contexts : ctx'[u].pc # "ready"
      BY <1>0, <1>1, <3>1 DEF Job!AssignJob
    <3>. QED BY <3>2 DEF OneReader
  <2>. QED BY <2>2, <2>3, <2>4, <2>5, <2>6
<1>2. CASE Job!AssignJobFromCallback
  <2>1. Posters' = Posters \cup {Callback} /\ Callback \notin Posters
    BY <1>0, <1>2 DEF Job!AssignJobFromCallback, Posters
  <2>2. JobBudget'
    BY <1>0, <1>2, <2>1, PostersGrow DEF Job!AssignJobFromCallback, Posters
  <2>3. Job!TypeOK'
    BY <1>0, <1>2 DEF Job!AssignJobFromCallback
  <2>4. JobPlaces'
    BY <1>0, <1>2 DEF Job!AssignJobFromCallback
  <2>5. ~raced' => OneJob'
    BY ZenonT(40), <1>0, <1>2, <2>1 DEF Job!AssignJobFromCallback, OneJob, InCall, InQueue, InWorker, Posters
  <2>6. ~raced' => OneReader'
    BY <1>0, <1>2 DEF Job!AssignJobFromCallback, OneReader, Job!Contexts
  <2>. QED BY <2>2, <2>3, <2>4, <2>5, <2>6
<1>3. ASSUME NEW c \in Job!Contexts, Job!StoreJob(c) PROVE JobInv'
  <2>1. Posters' = Posters
    BY <1>0, <1>3 DEF Job!StoreJob, Posters
  <2>2. JobBudget'
    BY <1>3, <2>1 DEF Job!StoreJob, JobBudget
  <2>3. Job!TypeOK'
    BY <1>0, <1>3 DEF Job!StoreJob
  <2>4. JobPlaces'
    BY <1>0, <1>3 DEF Job!StoreJob
  <2>5. ~raced' => OneJob'
    BY <1>0, <1>3, <2>1, ZenonT(60) DEF Job!StoreJob, OneJob, InCall, InQueue, InWorker, Posters
  <2>6. ~raced' => OneReader'
    BY <1>0, <1>3 DEF Job!StoreJob, OneReader, Job!Contexts
  <2>. QED BY <2>2, <2>3, <2>4, <2>5, <2>6
<1>4. CASE Job!StoreBusy
  <2>1. Posters' = Posters
    BY <1>0, <1>4 DEF Job!StoreBusy, Posters
  <2>2. JobBudget'
    BY <1>4, <2>1 DEF Job!StoreBusy, JobBudget
  <2>3. Job!TypeOK'
    BY <1>0, <1>4 DEF Job!StoreBusy
  <2>4. JobPlaces'
    BY <1>0, <1>4 DEF Job!StoreBusy
  <2>5. ~raced' => OneJob'
    BY <1>0, <1>4, <2>1 DEF Job!StoreBusy, OneJob, InCall, InQueue, InWorker, Posters
  <2>6. ~raced' => OneReader'
    BY <1>0, <1>4 DEF Job!StoreBusy, OneReader, Job!Contexts
  <2>. QED BY <2>2, <2>3, <2>4, <2>5, <2>6
<1>5. ASSUME NEW c \in Job!Contexts, Job!Post(c) PROVE JobInv'
  <2>1. Posters' = Posters \ {c} /\ c \in Posters
    BY <1>0, <1>5 DEF Job!Post, Posters
  <2>2. JobBudget'
    BY <1>5, <2>1, PostersShrink DEF Job!Post, Job!Add
  <2>3. Job!TypeOK'
    <3>1. count' <= offered /\ count' \in Nat
      BY <1>5, <2>1, PostersShrink DEF Job!Post, Job!Add
    <3>2. count' \in Job!Jobs
      BY <3>1
    <3>. QED BY <1>0, <1>5, <3>2 DEF Job!Post, Job!NeedsWake
  <2>4. JobPlaces'
    BY <1>0, <1>5 DEF Job!Post
  <2>5. ~raced' => OneJob'
    BY <1>0, <1>5, <2>1 DEF Job!Post, Job!Add, Job!NeedsWake, OneJob, InCall, InQueue, InWorker,
                               Posters
  <2>6. ~raced' => OneReader'
    BY <1>0, <1>5 DEF Job!Post, OneReader, Job!Contexts
  <2>. QED BY <2>2, <2>3, <2>4, <2>5, <2>6
<1>6. ASSUME NEW c \in Job!Contexts, Job!PostWake(c) PROVE JobInv'
  <2>1. Posters' = Posters
    BY <1>0, <1>6 DEF Job!PostWake, Posters
  <2>2. JobBudget'
    BY <1>6, <2>1 DEF Job!PostWake, JobBudget
  <2>3. Job!TypeOK'
    BY <1>0, <1>6 DEF Job!PostWake, Job!Wake
  <2>4. JobPlaces'
    BY <1>0, <1>6 DEF Job!PostWake
  <2>5. ~raced' => OneJob'
    BY <1>0, <1>6, <2>1 DEF Job!PostWake, Job!Wake, OneJob, InCall, InQueue, InWorker, Posters
  <2>6. ~raced' => OneReader'
    BY <1>0, <1>6 DEF Job!PostWake, OneReader, Job!Contexts
  <2>. QED BY <2>2, <2>3, <2>4, <2>5, <2>6
<1>7. ASSUME NEW t \in Tasks, Job!GetStatus(t) PROVE JobInv'
  <2>1. Posters' = Posters
    BY <1>0, <1>7 DEF Job!GetStatus, Posters
  <2>2. JobBudget'
    BY <1>7, <2>1 DEF Job!GetStatus, JobBudget
  <2>3. Job!TypeOK'
    BY <1>0, <1>7 DEF Job!GetStatus
  <2>4. JobPlaces'
    BY <1>0, <1>7 DEF Job!GetStatus
  <2>5. ~raced' => OneJob'
    BY <1>0, <1>7, <2>1 DEF Job!GetStatus, OneJob, InCall, InQueue, InWorker, Posters
  <2>6. ~raced' => OneReader'
    BY <1>0, <1>7 DEF Job!GetStatus, OneReader, Job!Contexts
  <2>. QED BY <2>2, <2>3, <2>4, <2>5, <2>6
<1>8. ASSUME NEW t \in Job!Contexts, Job!StoreReady(t) PROVE JobInv'
  <2>1. Posters' = Posters
    BY <1>0, <1>8 DEF Job!StoreReady, Posters
  <2>2. JobBudget'
    BY <1>8, <2>1 DEF Job!StoreReady, JobBudget
  <2>3. Job!TypeOK'
    BY <1>0, <1>8 DEF Job!StoreReady
  <2>4. JobPlaces'
    BY <1>0, <1>8 DEF Job!StoreReady
  <2>5. ~raced' => OneJob'
    <3>1. ~raced => status = "DONE"
      BY <1>8 DEF Job!StoreReady, OneReader
    <3>. QED BY <1>8, <2>1, <3>1 DEF Job!StoreReady, OneJob, Posters
  <2>6. ~raced' => OneReader'
    BY <1>0, <1>8 DEF Job!StoreReady, OneReader, Job!Contexts
  <2>. QED BY <2>2, <2>3, <2>4, <2>5, <2>6
<1>9. CASE Job!Waiting
  <2>1. Posters' = Posters
    BY <1>0, <1>9 DEF Job!Waiting, Posters
  <2>2. JobBudget'
    BY <1>9, <2>1 DEF Job!Waiting, JobBudget, Job!FindNone, Job!FutexWait
  <2>3. Job!TypeOK'
    BY <1>0, <1>9 DEF Job!Waiting, Job!FindNone, Job!FutexWait
  <2>4. JobPlaces'
    BY <1>0, <1>9 DEF Job!Waiting
  <2>5. ~raced' => OneJob'
    BY <1>0, <1>9, <2>1 DEF Job!Waiting, Job!FindNone, Job!FutexWait, OneJob, InCall, InQueue,
                               InWorker, Posters
  <2>6. ~raced' => OneReader'
    BY <1>0, <1>9 DEF Job!Waiting, OneReader, Job!Contexts
  <2>. QED BY <2>2, <2>3, <2>4, <2>5, <2>6
<1>10. CASE Job!Signal
  <2>1. Posters' = Posters
    BY <1>0, <1>10 DEF Job!Signal, Posters
  <2>2. JobBudget'
    BY <1>10, <2>1 DEF Job!Signal, JobBudget, Job!Interrupted
  <2>3. Job!TypeOK'
    BY <1>0, <1>10 DEF Job!Signal, Job!Interrupted
  <2>4. JobPlaces'
    BY <1>0, <1>10 DEF Job!Signal
  <2>5. ~raced' => OneJob'
    BY <1>0, <1>10, <2>1 DEF Job!Signal, Job!Interrupted, OneJob, InCall, InQueue, InWorker, Posters
  <2>6. ~raced' => OneReader'
    BY <1>0, <1>10 DEF Job!Signal, OneReader, Job!Contexts
  <2>. QED BY <2>2, <2>3, <2>4, <2>5, <2>6
<1>11. CASE Job!Woken
  <2>1. Posters' = Posters
    BY <1>0, <1>11 DEF Job!Woken, Posters
  <2>2. JobBudget'
    BY <1>11, <2>1, FS_CardinalityType DEF Job!Woken, JobBudget, Job!TakeOne
  <2>3. Job!TypeOK'
    BY <1>0, <1>11 DEF Job!Woken, Job!TakeOne
  <2>4. JobPlaces'
    BY <1>0, <1>11 DEF Job!Woken
  <2>5. ~raced' => OneJob'
    BY <1>0, <1>11, <2>1 DEF Job!Woken, Job!TakeOne, OneJob, InCall, InQueue, InWorker, Posters
  <2>6. ~raced' => OneReader'
    BY <1>0, <1>11 DEF Job!Woken, OneReader, Job!Contexts
  <2>. QED BY <2>2, <2>3, <2>4, <2>5, <2>6
<1>12. CASE Job!RunJob
  <2>1. Posters' = Posters
    BY <1>0, <1>12 DEF Job!RunJob, Posters
  <2>2. JobBudget'
    BY <1>12, <2>1 DEF Job!RunJob, JobBudget
  <2>3. Job!TypeOK'
    BY <1>0, <1>12 DEF Job!RunJob
  <2>4. JobPlaces'
    BY <1>0, <1>12 DEF Job!RunJob
  <2>5. ~raced' => OneJob'
    BY <1>0, <1>12, <2>1 DEF Job!RunJob, OneJob, InCall, InQueue, InWorker, Posters
  <2>6. ~raced' => OneReader'
    BY <1>0, <1>12 DEF Job!RunJob, OneReader, Job!Contexts
  <2>. QED BY <2>2, <2>3, <2>4, <2>5, <2>6
<1>13. CASE Job!Done
  <2>1. Posters' = Posters
    BY <1>0, <1>13 DEF Job!Done, Posters
  <2>2. JobBudget'
    BY <1>13, <2>1 DEF Job!Done, JobBudget
  <2>3. Job!TypeOK'
    BY <1>0, <1>13 DEF Job!Done
  <2>4. JobPlaces'
    BY <1>0, <1>13 DEF Job!Done
  <2>5. ~raced' => OneJob'
    BY <1>0, <1>13, <2>1 DEF Job!Done, OneJob, InCall, InQueue, InWorker, Posters
  <2>6. ~raced' => OneReader'
    BY <1>0, <1>13 DEF Job!Done, OneReader, Job!Contexts
  <2>. QED BY <2>2, <2>3, <2>4, <2>5, <2>6
<1>14. CASE UNCHANGED Job!vars
  BY <1>14 DEF Job!vars, JobBudget, OneJob, InCall, InQueue, InWorker, OneReader, Posters
<1>. QED BY <1>1, <1>2, <1>3, <1>4, <1>5, <1>6, <1>7, <1>8, <1>9, <1>10, <1>11, <1>12, <1>13, <1>14
     DEF Job!Next, Job!Running, Job!Worker

LEMMA JobInvariance == ASSUME Job!ASyncAssumption PROVE Job!Spec => []JobInv
<1>1. Job!Init => JobInv
  BY JobInit
<1>2. JobInv /\ [Job!Next]_Job!vars => JobInv'
  BY JobNext
<1>. QED BY <1>1, <1>2, PTL DEF Job!Spec

\* Types, and with them that no more tokens are posted than jobs were offered,
\* whatever calls overlap.
THEOREM JobTypes == ASSUME Job!ASyncAssumption PROVE Job!Spec => []Job!TypeOK
<1>1. JobInv => Job!TypeOK
  BY DEF JobInv
<1>. QED BY <1>1, JobInvariance, PTL

\* Every accepted job runs once and in order, and the status is BUSY from the
\* claim until it has run, unless AssignJobFromCallback meets a job or a call,
\* or two tasks are in GetStatus at once.
THEOREM JobsOnce == ASSUME Job!ASyncAssumption PROVE Job!Spec => []Job!JobsRunOnce
<1>1. JobInv => Job!JobsRunOnce
  <2> SUFFICES ASSUME JobInv, ~raced PROVE Job!JobsRunOnce
    BY DEF Job!JobsRunOnce
  <2>1. ran \in Seq(Job!Jobs)
    BY DEF JobInv, Job!TypeOK
  <2>2. accepted = ran \/ \E j \in Job!Jobs : accepted = Append(ran, j)
    BY DEF JobInv, Job!TypeOK, OneJob, InCall, InQueue, InWorker, Posters
  <2>3. /\ Len(ran) <= Len(accepted) /\ \A k \in DOMAIN ran : ran[k] = accepted[k]
        /\ Len(accepted) <= Len(ran) + 1
    BY <2>1, <2>2, AppendProperties, LenProperties
  <2>4. status # "BUSY" => ran = accepted /\ count = 0
    BY DEF JobInv, OneJob
  <2>. QED BY <2>3, <2>4 DEF Job!JobsRunOnce
<1>. QED BY <1>1, JobInvariance, PTL

----------------------------------------------------------------------------
(* UartTransmit: the inductive invariant.                                     *)

CONSTANTS None, MaxWrites, MaxErrors, MaxUrgent
VARIABLES
    chip, queue_info, queue_data, buffer, active, pending_valid, pending_len, active_len,
    wire, irq, tx_busy, write_info_active, thread, handler, writes, errors, urgent, left_wire,
    finished, outrun

Uart == INSTANCE UartTransmit WITH isr <- handler, sent <- left_wire, raced <- outrun

Preparing == {"fill", "length", "enable", "pop", "busy", "start"}
ThreadType ==
    [pc : {"idle", "look", "fill", "length", "enable", "again", "switch", "pop", "busy", "start"},
     into : {0, 1}, op : Uart!WritesOrNone, info : Uart!WritesOrNone]

\* The two queues differ by what is in the pending buffer, or on the way to a
\* buffer: whoever takes from them finds something there.
QueuesPaired ==
    /\ thread.pc # "pop" \/ queue_info # <<>> =>
          Len(queue_info) = Len(queue_data) + One(pending_valid)
                                + One(thread.pc \in {"length", "enable", "pop"})
    /\ thread.pc = "pop" /\ queue_info = <<>> => queue_data = <<>>
    /\ thread.pc \in Preparing => ~pending_valid /\ handler \notin {"restart", "peek", "load"}
    /\ thread.pc = "fill" => queue_info # <<>>
    /\ thread.pc # "idle" => thread.op \in Uart!Writes
    /\ thread.pc = "switch" /\ handler \notin {"peek", "load"} => pending_valid \/ queue_info = <<>>
    /\ handler = "restart" => pending_valid
    /\ handler \in {"peek", "load"} => ~pending_valid
    /\ handler = "load" => queue_info # <<>>

\* The writes whose transfer was started so far.
Begun == Len(left_wire) + One(~Uart!Ready)
Holds(q, a, b) == Len(q) = b - a /\ \A k \in 1..Len(q) : q[k] = a + k

InfoFrom == Begun + One(thread.pc \in {"busy", "start"})
DataFrom == Begun + One(pending_valid) + One(thread.pc \in Preparing \ {"fill"})

\* Where the writes are, in order: started, in a buffer, in the queues.
InPlace ==
    /\ \A i \in 1..Len(left_wire) : left_wire[i] = [what |-> i, len |-> i]
    /\ Holds(finished, 0, Begun)
    /\ Holds(queue_info, InfoFrom, writes) /\ Holds(queue_data, DataFrom, writes)
    /\ ~Uart!Ready => wire = [from |-> active, len |-> Begun]
                 /\ buffer[active] = Begun /\ active_len = Begun
    /\ pending_valid => pending_len = Begun + 1 /\ buffer[1 - active] = Begun + 1

\* A write that the thread takes to a buffer is the only one that is not started.
OwnWrite ==
    /\ thread.pc \in Preparing \cup {"switch"} =>
          thread.info = thread.op /\ thread.op = writes /\ Begun + 1 = writes
    /\ thread.pc \in {"length", "enable"} => buffer[1 - active] = writes
    /\ thread.pc = "enable" => pending_len = writes
    /\ thread.pc = "look" => thread.op = writes
    /\ thread.pc = "fill" /\ thread.into = active => Uart!Ready
    /\ thread.pc \in {"length", "enable"} => thread.into # active
    /\ thread.pc = "again" =>
          thread.info = thread.op /\ thread.op = writes /\ Begun = writes - One(pending_valid)
    /\ thread.pc = "switch" => pending_valid /\ Uart!Ready /\ handler = "idle"
    /\ thread.pc \in {"pop", "busy", "start"} => Uart!Ready /\ buffer[active] = writes
    /\ thread.pc \in {"busy", "start"} => active_len = writes

\* No write is left without somebody who will look at it.
Watched ==
    /\ thread.pc = "look" /\ handler \notin {"peek", "load"} => pending_valid \/ Begun >= writes - 1
    /\ thread.pc = "idle" /\ handler = "idle" => pending_valid \/ Begun = writes
    /\ handler \in {"check", "restart"} => Uart!Ready
    /\ handler \in {"peek", "load"} => ~Uart!Ready \/ irq
    /\ handler = "leave" /\ pending_valid => ~Uart!Ready \/ irq
    /\ Uart!Ready /\ pending_valid /\ handler = "idle" => irq \/ thread.pc \in {"again", "switch"}

BusyFlag ==
    /\ irq => chip = "ch32"
    /\ chip = "stm32" /\ thread.pc # "start" => (tx_busy <=> ~Uart!Ready)
    /\ chip = "stm32" /\ thread.pc = "start" => handler = "idle" /\ tx_busy
    /\ chip = "stm32" /\ handler # "idle" => thread.pc \notin {"pop", "busy", "start"}

UartInv ==
    /\ Uart!TypeOK /\ thread \in ThreadType /\ QueuesPaired
    /\ ~outrun => InPlace /\ OwnWrite /\ Watched /\ BusyFlag

----------------------------------------------------------------------------
(* UartTransmit: the sequences and the thread's record.                       *)

LEMMA FirstTaken ==
    ASSUME NEW S, NEW q \in Seq(S), NEW a \in Nat, NEW b \in Nat, Holds(q, a, b), q # <<>>
    PROVE  Head(q) = a + 1 /\ Holds(Tail(q), a + 1, b) /\ a + 1 <= b /\ Len(q) = b - a
<1>1. Len(q) \in Nat /\ Len(q) # 0
  BY EmptySeq
<1>2. Head(q) = q[1] /\ q[1] = a + 1
  BY <1>1 DEF Holds
<1>3. Len(Tail(q)) = Len(q) - 1 /\ \A k \in 1..Len(Tail(q)) : Tail(q)[k] = q[k + 1]
  BY HeadTailProperties
<1>4. ASSUME NEW k \in 1..Len(Tail(q)) PROVE Tail(q)[k] = a + 1 + k
  <2>1. k + 1 \in 1..Len(q)
    BY <1>1, <1>3, <1>4
  <2>2. q[k + 1] = a + (k + 1)
    BY <2>1 DEF Holds
  <2>. QED BY <1>3, <1>4, <2>2
<1>. QED BY <1>1, <1>2, <1>3, <1>4 DEF Holds

LEMMA LastAdded ==
    ASSUME NEW S, NEW q \in Seq(S), NEW a \in Nat, NEW b \in Nat, Holds(q, a, b), b + 1 \in S
    PROVE  Holds(Append(q, b + 1), a, b + 1)
<1>1. /\ Len(Append(q, b + 1)) = Len(q) + 1 /\ Len(q) \in Nat
      /\ \A k \in 1..Len(q) : Append(q, b + 1)[k] = q[k]
      /\ Append(q, b + 1)[Len(q) + 1] = b + 1
  BY AppendProperties
<1>2. ASSUME NEW k \in 1..Len(q) + 1 PROVE Append(q, b + 1)[k] = a + k
  <2>1. CASE k \in 1..Len(q)
    BY <1>1, <2>1 DEF Holds
  <2>2. CASE k = Len(q) + 1
    BY <1>1, <2>2 DEF Holds
  <2>. QED BY <1>1, <1>2, <2>1, <2>2
<1>. QED BY <1>1, <1>2 DEF Holds

ThreadPlaces ==
    {"idle", "look", "fill", "length", "enable", "again", "switch", "pop", "busy", "start"}

LEMMA ThreadMoved ==
    ASSUME thread \in ThreadType, NEW p \in ThreadPlaces, Uart!Goto(p)
    PROVE  /\ thread' \in ThreadType /\ thread'.pc = p /\ thread'.into = thread.into
           /\ thread'.op = thread.op /\ thread'.info = thread.info
BY DEF ThreadType, ThreadPlaces, Uart!Goto

LEMMA ThreadReturned ==
    ASSUME Uart!Return
    PROVE  thread' \in ThreadType /\ thread'.pc = "idle"
BY DEF ThreadType, Uart!Return, Uart!Resting, Uart!WritesOrNone

----------------------------------------------------------------------------
(* UartTransmit: the invariant is inductive.                                  *)

LEMMA UartInit == Uart!UartAssumption /\ Uart!Init => UartInv
<1> SUFFICES ASSUME Uart!UartAssumption, Uart!Init PROVE UartInv
  OBVIOUS
<1>1. /\ <<>> \in Seq(Uart!Writes)
      /\ <<>> \in Seq([what : Uart!WritesOrNone, len : Uart!WritesOrNone])
      /\ Len(<<>>) = 0 /\ MaxWrites \in Nat /\ MaxErrors \in Nat /\ MaxUrgent \in Nat
  BY DEF Uart!UartAssumption
<1>2. thread = Uart!Resting /\ Uart!Resting \in ThreadType /\ thread.pc = "idle"
  BY DEF Uart!Init, Uart!Resting, ThreadType, Uart!WritesOrNone
<1>3. Uart!TypeOK
  <2>1. buffer \in [{0, 1} -> Uart!WritesOrNone]
    BY DEF Uart!Init, Uart!WritesOrNone
  <2>2. 0 \in 0..MaxWrites /\ 0 \in 0..MaxErrors /\ 0 \in 0..MaxUrgent
    BY <1>1
  <2>3. /\ thread.pc = "idle" /\ thread.into = 0 /\ thread.op = None /\ thread.info = None
    BY <1>2 DEF Uart!Resting
  <2>. QED BY <1>1, <2>1, <2>2, <2>3 DEF Uart!Init, Uart!TypeOK, Uart!WritesOrNone
<1>4. QueuesPaired
  BY <1>1, <1>2 DEF Uart!Init, QueuesPaired, Preparing, One
<1>5. Begun = 0 /\ Uart!Ready
  BY <1>1 DEF Uart!Init, Begun, Uart!Ready, One
<1>6. InPlace /\ OwnWrite /\ Watched /\ BusyFlag
  BY <1>1, <1>2, <1>5
     DEF Uart!Init, InPlace, OwnWrite, Watched, BusyFlag, Holds, One, Preparing, InfoFrom,
         DataFrom
<1>. QED BY <1>2, <1>3, <1>4, <1>6 DEF UartInv

LEMMA UartNext == Uart!UartAssumption /\ UartInv /\ [Uart!Next]_Uart!vars => UartInv'
<1> SUFFICES ASSUME Uart!UartAssumption, UartInv, [Uart!Next]_Uart!vars PROVE UartInv'
  OBVIOUS
<1> DEFINE Good == InPlace /\ OwnWrite /\ Watched /\ BusyFlag
           Types == Uart!TypeOK /\ thread \in ThreadType
<1>a. Uart!TypeOK /\ thread \in ThreadType /\ QueuesPaired /\ (~outrun => Good)
  BY DEF UartInv
<1>b. /\ MaxWrites \in Nat /\ MaxErrors \in Nat /\ MaxUrgent \in Nat /\ None \notin Nat
      /\ queue_info \in Seq(Uart!Writes) /\ queue_data \in Seq(Uart!Writes)
      /\ finished \in Seq(Uart!Writes)
      /\ left_wire \in Seq([what : Uart!WritesOrNone, len : Uart!WritesOrNone])
      /\ Len(queue_info) \in Nat /\ Len(queue_data) \in Nat /\ Len(left_wire) \in Nat
      /\ Len(finished) \in Nat
      /\ buffer \in [{0, 1} -> Uart!WritesOrNone] /\ active \in {0, 1} /\ 1 - active \in {0, 1}
      /\ pending_valid \in BOOLEAN
      /\ irq \in BOOLEAN /\ tx_busy \in BOOLEAN /\ outrun \in BOOLEAN
      /\ pending_len \in Uart!WritesOrNone /\ active_len \in Uart!WritesOrNone
      /\ write_info_active \in Uart!WritesOrNone
      /\ wire \in [from : {0, 1}, len : Uart!WritesOrNone] \cup {None}
      /\ writes \in 0..MaxWrites /\ writes \in Nat /\ Begun \in Nat /\ Uart!Writes = 1..MaxWrites
  BY <1>a DEF Uart!TypeOK, Uart!UartAssumption, Begun, One, Uart!Writes
<1>c. /\ thread.pc \in ThreadPlaces /\ thread.into \in {0, 1}
      /\ thread.op \in Uart!WritesOrNone /\ thread.info \in Uart!WritesOrNone
  BY <1>a DEF ThreadType, ThreadPlaces
<1>f. None \notin [from : {0, 1}, len : Uart!WritesOrNone]
  BY DEF Uart!UartAssumption, Uart!WritesOrNone, Uart!Writes
<1>d. Begun = Len(left_wire) + One(wire # None)
  BY DEF Begun, Uart!Ready
<1>e. ASSUME Types', QueuesPaired', outrun' \in BOOLEAN, ~outrun' => Good' PROVE UartInv'
  BY <1>e DEF UartInv
<1> HIDE DEF Good, Types
<1>1. CASE Uart!Write
  <2>0. /\ thread' = [Uart!Resting EXCEPT !.pc = "look", !.op = writes + 1]
        /\ writes < MaxWrites
    BY <1>1 DEF Uart!Write
  <2>1. /\ thread.pc = "idle" /\ handler = "idle"
        /\ writes' = writes + 1 /\ writes + 1 \in Uart!Writes
        /\ queue_info' = Append(queue_info, writes + 1)
        /\ queue_data' = Append(queue_data, writes + 1)
        /\ thread'.pc = "look" /\ thread'.op = writes + 1 /\ thread' \in ThreadType
        /\ UNCHANGED <<chip, buffer, active, pending_valid, pending_len, active_len, wire,
                       irq, tx_busy, write_info_active, handler, errors, urgent, left_wire,
                       finished, outrun>>
    <3>1. writes + 1 \in Uart!Writes
      BY <1>b, <2>0
    <3>2. thread'.pc = "look" /\ thread'.op = writes + 1 /\ thread' \in ThreadType
      BY <2>0, <3>1 DEF Uart!Resting, ThreadType, Uart!WritesOrNone
    <3>. QED BY <1>1, <3>1, <3>2
       DEF Uart!Write, Uart!Enqueue, Uart!Thread, Uart!port, Uart!double, Uart!hardware,
           Uart!outside, Uart!seen
  <2>a. /\ queue_info' \in Seq(Uart!Writes) /\ Len(queue_info') = Len(queue_info) + 1
        /\ queue_data' \in Seq(Uart!Writes) /\ Len(queue_data') = Len(queue_data) + 1
        /\ queue_info' # <<>> /\ writes' \in 0..MaxWrites
    <3>1. writes' \in 0..MaxWrites
      BY <1>b, <2>1
    <3>2. \A q \in Seq(Uart!Writes) : /\ Append(q, writes + 1) \in Seq(Uart!Writes)
                               /\ Len(Append(q, writes + 1)) = Len(q) + 1
                               /\ Append(q, writes + 1) # <<>>
      BY <2>1, AppendProperties
    <3>. QED BY <1>b, <2>1, <3>1, <3>2
  <2>b. ~outrun => /\ Holds(queue_info', Begun, writes')
                  /\ Holds(queue_data', Begun + One(pending_valid), writes')
    <3>1. ASSUME ~outrun
          PROVE  /\ Holds(queue_info, Begun, writes)
                 /\ Holds(queue_data, Begun + One(pending_valid), writes)
      BY <1>a, <1>b, <2>1, <3>1 DEF Good, InPlace, InfoFrom, DataFrom, One, Preparing
    <3>2. Begun + One(pending_valid) \in Nat
      BY <1>b DEF One
    <3>. QED BY <1>b, <2>1, <3>1, <3>2, LastAdded
  <2>2. Types'
    BY <1>a, <1>b, <2>1, <2>a DEF Types, Uart!TypeOK, ThreadType
  <2>3. QueuesPaired'
    <3>1. Len(queue_info) = Len(queue_data) + One(pending_valid)
      BY <1>a, <1>b, <2>1 DEF QueuesPaired, One
    <3>2. Len(queue_info') = Len(queue_data') + One(pending_valid') /\ thread'.pc = "look"
      BY <1>b, <2>1, <2>a, <3>1 DEF One
    <3>. QED BY <1>b, <2>1, <2>a, <3>2 DEF QueuesPaired, Preparing, One
  <2>4. Begun' = Begun /\ Uart!Ready' = Uart!Ready
    BY <1>b, <2>1 DEF Begun, Uart!Ready, One
  <2>5. ASSUME ~outrun' PROVE Good'
    <3>1. InPlace /\ OwnWrite /\ Watched /\ BusyFlag /\ QueuesPaired
      BY <1>a, <2>1, <2>5 DEF Good
    <3>2. InPlace'
      BY <1>b, <1>c, <2>1, <2>4, <2>5, <3>1, <2>a, <2>b
         DEF InPlace, InfoFrom, DataFrom, One, Preparing, QueuesPaired
    <3>3. OwnWrite'
      BY <1>b, <1>c, <2>1, <2>4, <2>5, <3>1
         DEF OwnWrite, Watched, InPlace, One, Preparing, QueuesPaired
    <3>4. Watched'
      BY <1>b, <1>c, <2>1, <2>4, <2>5, <3>1
         DEF Watched, OwnWrite, QueuesPaired, Preparing, InPlace, Holds, InfoFrom, DataFrom, One
    <3>5. BusyFlag'
      BY <1>b, <1>c, <2>1, <2>4, <3>1 DEF BusyFlag, OwnWrite, QueuesPaired, Preparing
    <3>. QED BY <3>2, <3>3, <3>4, <3>5 DEF Good
  <2>. QED BY <1>b, <1>e, <2>1, <2>2, <2>3, <2>5
<1>2. CASE Uart!Look
  <2>0. Head(queue_info) \in Uart!Writes \/ queue_info = <<>>
    BY <1>b
  <2>1. /\ thread.pc = "look" /\ handler = "idle" /\ thread' \in ThreadType
        /\ \/ /\ pending_valid \/ queue_info = <<>>
              /\ thread'.pc = "idle"
           \/ /\ ~pending_valid /\ queue_info # <<>>
              /\ thread'.pc = "fill" /\ thread'.info = Head(queue_info) /\ thread'.op = thread.op
              /\ thread'.into = active => Uart!Ready
        /\ UNCHANGED <<queue_info, queue_data, buffer, active, pending_valid, pending_len,
                       active_len, wire, irq, tx_busy, write_info_active, handler, chip, writes,
                       errors, urgent, left_wire, finished, outrun>>
    <3>1. CASE pending_valid \/ queue_info = <<>>
      BY <1>2, <3>1, ThreadReturned
         DEF Uart!Look, Uart!Thread, Uart!port, Uart!double, Uart!hardware, Uart!outside,
             Uart!seen
    <3>2. CASE ~(pending_valid \/ queue_info = <<>>)
      <4>1. thread' = [thread EXCEPT !.pc = "fill", !.info = Head(queue_info),
                                     !.into = IF Uart!Ready THEN active ELSE 1 - active]
        BY <1>2, <3>2 DEF Uart!Look
      <4>2. thread' \in ThreadType
        BY <1>a, <1>b, <2>0, <3>2, <4>1 DEF ThreadType, Uart!WritesOrNone
      <4>3. thread'.pc = "fill" /\ thread'.info = Head(queue_info) /\ thread'.op = thread.op
            /\ thread'.into = IF Uart!Ready THEN active ELSE 1 - active
        BY <1>a, <4>1 DEF ThreadType
      <4>. QED BY <1>2, <1>b, <3>2, <4>2, <4>3
         DEF Uart!Look, Uart!Thread, Uart!port, Uart!double, Uart!hardware, Uart!outside,
             Uart!seen
    <3>. QED BY <3>1, <3>2
  <2>a. ~outrun /\ queue_info # <<>> => Head(queue_info) = Begun + 1 /\ Begun + 1 <= writes
    <3>1. ASSUME ~outrun, queue_info # <<>>
          PROVE  Head(queue_info) = Begun + 1 /\ Begun + 1 <= writes
      <4>1. Holds(queue_info, Begun, writes)
        BY <1>a, <1>b, <2>1, <3>1 DEF Good, InPlace, InfoFrom, DataFrom, One
      <4>2. queue_info \in Seq(Uart!Writes) /\ Begun \in Nat /\ writes \in Nat
        BY <1>b
      <4>. QED BY ONLY <3>1, <4>1, <4>2, FirstTaken
    <3>. QED BY <3>1
  <2>2. Types'
    BY <1>a, <1>b, <2>1 DEF Types, Uart!TypeOK, ThreadType
  <2>3. QueuesPaired'
    BY <1>a, <1>b, <1>c, <2>1 DEF QueuesPaired, Preparing, One
  <2>4. Begun' = Begun /\ Uart!Ready' = Uart!Ready
    BY <1>b, <2>1 DEF Begun, Uart!Ready, One
  <2>5. ASSUME ~outrun' PROVE Good'
    <3>1. InPlace /\ OwnWrite /\ Watched /\ BusyFlag /\ QueuesPaired
      BY <1>a, <2>1, <2>5 DEF Good
    <3>2. InPlace'
      BY <1>b, <1>c, <2>1, <2>4, <2>5, <3>1
         DEF InPlace, InfoFrom, DataFrom, One, Preparing, QueuesPaired
    <3>3. OwnWrite'
      <4>1. CASE thread'.pc = "idle"
        BY <4>1 DEF OwnWrite, Preparing
      <4>2. CASE thread'.pc # "idle"
        <5>1. Begun + 1 = writes /\ thread.op = writes
          BY <1>b, <2>1, <2>5, <2>a, <3>1, <4>2 DEF OwnWrite, Watched
        <5>. QED BY <2>1, <2>4, <2>5, <2>a, <4>2, <5>1 DEF OwnWrite, Preparing
      <4>. QED BY <4>1, <4>2
    <3>4. Watched'
      BY <1>b, <1>c, <2>1, <2>4, <2>5, <3>1, <2>a
         DEF Watched, OwnWrite, QueuesPaired, Preparing, InPlace, Holds, InfoFrom, DataFrom, One
    <3>5. BusyFlag'
      BY <1>b, <1>c, <2>1, <2>4, <3>1 DEF BusyFlag, OwnWrite, QueuesPaired, Preparing
    <3>. QED BY <3>2, <3>3, <3>4, <3>5 DEF Good
  <2>. QED BY <1>b, <1>e, <2>1, <2>2, <2>3, <2>5
<1>3. CASE Uart!Fill
  <2>0. queue_data # <<>> /\ queue_info # <<>>
    BY <1>3, <1>a, <1>b, EmptySeq DEF Uart!Fill, Uart!Thread, QueuesPaired, Preparing, One
  <2>1. /\ thread.pc = "fill" /\ handler = "idle"
        /\ thread' \in ThreadType /\ thread'.into = thread.into /\ thread'.op = thread.op
        /\ thread'.info = thread.info
        /\ thread'.pc = IF thread.into = active THEN "pop" ELSE "length"
        /\ buffer' = [buffer EXCEPT ![thread.into] = Head(queue_data)]
        /\ queue_data' = Tail(queue_data)
        /\ UNCHANGED <<queue_info, active, pending_valid, pending_len, active_len, wire, irq,
                       tx_busy, write_info_active, handler, chip, writes, errors, urgent, left_wire,
                       finished, outrun>>
    BY <1>3, <1>a, ThreadMoved
       DEF Uart!Fill, Uart!PopBatch, Uart!Thread, Uart!port, Uart!double, Uart!hardware,
           Uart!outside, Uart!seen, ThreadPlaces
  <2>a. /\ queue_data' \in Seq(Uart!Writes) /\ Len(queue_data') = Len(queue_data) - 1
        /\ Head(queue_data) \in Uart!Writes /\ buffer' \in [{0, 1} -> Uart!WritesOrNone]
        /\ buffer'[thread.into] = Head(queue_data)
        /\ \A b \in {0, 1} : b # thread.into => buffer'[b] = buffer[b]
    BY <1>b, <1>c, <2>0, <2>1, HeadTailProperties DEF Uart!WritesOrNone
  <2>b. ~outrun => /\ Holds(queue_data, Begun, writes) /\ Head(queue_data) = Begun + 1
                  /\ Holds(queue_data', Begun + 1, writes)
    <3>1. ASSUME ~outrun PROVE Holds(queue_data, Begun, writes)
      BY <1>a, <1>b, <2>1, <3>1
         DEF Good, InPlace, InfoFrom, DataFrom, One, Preparing, QueuesPaired
    <3>. QED BY <1>b, <2>0, <2>1, <3>1, FirstTaken
  <2>2. Types'
    BY <1>a, <1>b, <2>1, <2>a DEF Types, Uart!TypeOK, ThreadType
  <2>3. QueuesPaired'
    BY <1>a, <1>b, <1>c, <2>1, <2>0, <2>a DEF QueuesPaired, Preparing, One
  <2>4. Begun' = Begun /\ Uart!Ready' = Uart!Ready
    BY <1>b, <2>1 DEF Begun, Uart!Ready, One
  <2>5. ASSUME ~outrun' PROVE Good'
    <3>1. InPlace /\ OwnWrite /\ Watched /\ BusyFlag /\ QueuesPaired
      BY <1>a, <2>1, <2>5 DEF Good
    <3>x. InfoFrom' = InfoFrom /\ DataFrom' = Begun + 1
      BY <1>b, <1>c, <2>1, <2>4, <3>1 DEF InfoFrom, DataFrom, One, Preparing, QueuesPaired
    <3>2. InPlace'
      BY <1>b, <1>c, <2>1, <2>4, <2>5, <3>1, <3>x, <2>a, <2>b DEF InPlace, OwnWrite, Preparing
    <3>3. OwnWrite'
      BY <1>b, <1>c, <2>1, <2>4, <2>5, <3>1, <2>a, <2>b
         DEF OwnWrite, Watched, InPlace, One, Preparing, QueuesPaired
    <3>4. Watched'
      BY <1>b, <1>c, <2>1, <2>4, <2>5, <3>1
         DEF Watched, OwnWrite, QueuesPaired, Preparing, InPlace, Holds, InfoFrom, DataFrom, One
    <3>5. BusyFlag'
      BY <1>b, <1>c, <2>1, <2>4, <3>1 DEF BusyFlag, OwnWrite, QueuesPaired, Preparing
    <3>. QED BY <3>2, <3>3, <3>4, <3>5 DEF Good
  <2>. QED BY <1>b, <1>e, <2>1, <2>2, <2>3, <2>5
<1>4. CASE Uart!SetPendingLength
  <2>1. /\ thread.pc = "length" /\ handler = "idle"
        /\ thread'.pc = "enable" /\ pending_len' = thread.info
        /\ thread' \in ThreadType /\ thread'.into = thread.into /\ thread'.op = thread.op
        /\ thread'.info = thread.info
        /\ UNCHANGED <<queue_info, queue_data, buffer, active, pending_valid, active_len, wire,
                       irq, tx_busy, write_info_active, handler, chip, writes, errors, urgent,
                       left_wire, finished, outrun>>
    BY <1>4, <1>a, <1>b, <1>c, ThreadMoved, ThreadReturned
       DEF Uart!SetPendingLength, Uart!Thread, Uart!port, Uart!double, Uart!hardware,
           Uart!outside, Uart!seen, ThreadPlaces
  <2>2. Types'
    BY <1>a, <1>b, <2>1, <1>c DEF Types, Uart!TypeOK, ThreadType
  <2>3. QueuesPaired'
    BY <1>a, <1>b, <1>c, <2>1 DEF QueuesPaired, Preparing, One
  <2>4. Begun' = Begun /\ Uart!Ready' = Uart!Ready
    BY <1>b, <2>1 DEF Begun, Uart!Ready, One
  <2>5. ASSUME ~outrun' PROVE Good'
    <3>1. InPlace /\ OwnWrite /\ Watched /\ BusyFlag /\ QueuesPaired
      BY <1>a, <2>1, <2>5 DEF Good
    <3>2. InPlace'
      BY <1>b, <1>c, <2>1, <2>4, <2>5, <3>1
         DEF InPlace, InfoFrom, DataFrom, One, Preparing, QueuesPaired
    <3>3. OwnWrite'
      BY <1>b, <1>c, <2>1, <2>4, <2>5, <3>1
         DEF OwnWrite, Watched, InPlace, One, Preparing, QueuesPaired
    <3>4. Watched'
      BY <1>b, <1>c, <2>1, <2>4, <2>5, <3>1
         DEF Watched, OwnWrite, QueuesPaired, Preparing, InPlace, Holds, InfoFrom, DataFrom, One
    <3>5. BusyFlag'
      BY <1>b, <1>c, <2>1, <2>4, <3>1 DEF BusyFlag, OwnWrite, QueuesPaired, Preparing
    <3>. QED BY <3>2, <3>3, <3>4, <3>5 DEF Good
  <2>. QED BY <1>b, <1>e, <2>1, <2>2, <2>3, <2>5
<1>5. CASE Uart!EnablePending
  <2>1. /\ thread.pc = "enable" /\ handler = "idle"
        /\ thread'.pc = "again" /\ pending_valid' = TRUE
        /\ thread' \in ThreadType /\ thread'.into = thread.into /\ thread'.op = thread.op
        /\ thread'.info = thread.info
        /\ UNCHANGED <<queue_info, queue_data, buffer, active, pending_len, active_len, wire,
                       irq, tx_busy, write_info_active, handler, chip, writes, errors, urgent,
                       left_wire, finished, outrun>>
    BY <1>5, <1>a, <1>b, <1>c, ThreadMoved, ThreadReturned
       DEF Uart!EnablePending, Uart!Thread, Uart!port, Uart!double, Uart!hardware, Uart!outside,
           Uart!seen, ThreadPlaces
  <2>2. Types'
    BY <1>a, <1>b, <2>1 DEF Types, Uart!TypeOK, ThreadType
  <2>3. QueuesPaired'
    BY <1>a, <1>b, <1>c, <2>1 DEF QueuesPaired, Preparing, One
  <2>4. Begun' = Begun /\ Uart!Ready' = Uart!Ready
    BY <1>b, <2>1 DEF Begun, Uart!Ready, One
  <2>5. ASSUME ~outrun' PROVE Good'
    <3>1. InPlace /\ OwnWrite /\ Watched /\ BusyFlag /\ QueuesPaired
      BY <1>a, <2>1, <2>5 DEF Good
    <3>x. InfoFrom' = InfoFrom /\ DataFrom' = DataFrom
      BY <1>b, <1>c, <2>1, <2>4, <3>1 DEF InfoFrom, DataFrom, One, Preparing, QueuesPaired
    <3>2. InPlace'
      BY <1>b, <1>c, <2>1, <2>4, <2>5, <3>1, <3>x DEF InPlace, OwnWrite, Preparing
    <3>3. OwnWrite'
      BY <1>b, <1>c, <2>1, <2>4, <2>5, <3>1
         DEF OwnWrite, Watched, InPlace, One, Preparing, QueuesPaired
    <3>4. Watched'
      BY <1>b, <1>c, <2>1, <2>4, <2>5, <3>1
         DEF Watched, OwnWrite, QueuesPaired, Preparing, InPlace, Holds, InfoFrom, DataFrom, One
    <3>5. BusyFlag'
      BY <1>b, <1>c, <2>1, <2>4, <3>1 DEF BusyFlag, OwnWrite, QueuesPaired, Preparing
    <3>. QED BY <3>2, <3>3, <3>4, <3>5 DEF Good
  <2>. QED BY <1>b, <1>e, <2>1, <2>2, <2>3, <2>5
<1>6. CASE Uart!LookAgain
  <2>1. /\ thread.pc = "again" /\ handler = "idle" /\ thread' \in ThreadType
        /\ \/ /\ Uart!Ready /\ pending_valid /\ thread'.pc = "switch"
              /\ thread'.op = thread.op /\ thread'.info = thread.info
           \/ ~(Uart!Ready /\ pending_valid) /\ thread'.pc = "idle"
        /\ UNCHANGED <<queue_info, queue_data, buffer, active, pending_valid, pending_len,
                       active_len, wire, irq, tx_busy, write_info_active, handler, chip, writes,
                       errors, urgent, left_wire, finished, outrun>>
    <3>1. CASE Uart!Missed
      BY <1>6, <1>a, <3>1, ThreadMoved
         DEF Uart!LookAgain, Uart!Missed, Uart!Thread, Uart!port, Uart!double, Uart!hardware,
             Uart!outside, Uart!seen, ThreadPlaces
    <3>2. CASE ~Uart!Missed
      BY <1>6, <3>2, ThreadReturned
         DEF Uart!LookAgain, Uart!Missed, Uart!Thread, Uart!port, Uart!double, Uart!hardware,
             Uart!outside, Uart!seen
    <3>. QED BY <3>1, <3>2
  <2>2. Types'
    BY <1>a, <1>b, <2>1 DEF Types, Uart!TypeOK, ThreadType
  <2>3. QueuesPaired'
    BY <1>a, <1>b, <1>c, <2>1 DEF QueuesPaired, Preparing, One
  <2>4. Begun' = Begun /\ Uart!Ready' = Uart!Ready
    BY <1>b, <2>1 DEF Begun, Uart!Ready, One
  <2>5. ASSUME ~outrun' PROVE Good'
    <3>1. InPlace /\ OwnWrite /\ Watched /\ BusyFlag /\ QueuesPaired
      BY <1>a, <2>1, <2>5 DEF Good
    <3>2. InPlace'
      BY <1>b, <1>c, <2>1, <2>4, <2>5, <3>1
         DEF InPlace, InfoFrom, DataFrom, One, Preparing, QueuesPaired
    <3>3. OwnWrite'
      BY <1>b, <1>c, <2>1, <2>4, <2>5, <3>1, SMTT(60)
         DEF OwnWrite, Watched, InPlace, One, Preparing, QueuesPaired
    <3>4. Watched'
      BY <1>b, <1>c, <2>1, <2>4, <2>5, <3>1
         DEF Watched, OwnWrite, QueuesPaired, Preparing, InPlace, Holds, InfoFrom, DataFrom, One
    <3>5. BusyFlag'
      BY <1>b, <1>c, <2>1, <2>4, <3>1 DEF BusyFlag, OwnWrite, QueuesPaired, Preparing
    <3>. QED BY <3>2, <3>3, <3>4, <3>5 DEF Good
  <2>. QED BY <1>b, <1>e, <2>1, <2>2, <2>3, <2>5
<1>7. CASE Uart!SwitchToPending
  <2>1. /\ thread.pc = "switch" /\ handler = "idle"
        /\ thread'.pc = "pop" /\ pending_valid' = FALSE
        /\ active' = IF pending_valid THEN 1 - active ELSE active
        /\ thread' \in ThreadType /\ thread'.into = thread.into /\ thread'.op = thread.op
        /\ thread'.info = thread.info
        /\ UNCHANGED <<queue_info, queue_data, buffer, pending_len, active_len, wire, irq,
                       tx_busy, write_info_active, handler, chip, writes, errors, urgent, left_wire,
                       finished, outrun>>
    BY <1>7, <1>a, <1>b, <1>c, ThreadMoved, ThreadReturned
       DEF Uart!SwitchToPending, Uart!Switch, Uart!Thread, Uart!port, Uart!double,
           Uart!hardware, Uart!outside, Uart!seen, ThreadPlaces
  <2>2. Types'
    BY <1>a, <1>b, <2>1 DEF Types, Uart!TypeOK, ThreadType
  <2>3. QueuesPaired'
    BY <1>a, <1>b, <1>c, <2>1 DEF QueuesPaired, Preparing, One
  <2>4. Begun' = Begun /\ Uart!Ready' = Uart!Ready
    BY <1>b, <2>1 DEF Begun, Uart!Ready, One
  <2>5. ASSUME ~outrun' PROVE Good'
    <3>1. InPlace /\ OwnWrite /\ Watched /\ BusyFlag /\ QueuesPaired
      BY <1>a, <2>1, <2>5 DEF Good
    <3>x. InfoFrom' = InfoFrom /\ (pending_valid => DataFrom' = DataFrom)
      BY <1>b, <1>c, <2>1, <2>4, <3>1 DEF InfoFrom, DataFrom, One, Preparing, QueuesPaired
    <3>2. InPlace'
      BY <1>b, <1>c, <2>1, <2>4, <2>5, <3>1, <3>x DEF InPlace, OwnWrite, Preparing
    <3>3. OwnWrite'
      BY <1>b, <1>c, <2>1, <2>4, <2>5, <3>1
         DEF OwnWrite, Watched, InPlace, One, Preparing, QueuesPaired
    <3>4. Watched'
      BY <1>b, <1>c, <2>1, <2>4, <2>5, <3>1
         DEF Watched, OwnWrite, QueuesPaired, Preparing, InPlace, Holds, InfoFrom, DataFrom, One
    <3>5. BusyFlag'
      BY <1>b, <1>c, <2>1, <2>4, <3>1 DEF BusyFlag, OwnWrite, QueuesPaired, Preparing
    <3>. QED BY <3>2, <3>3, <3>4, <3>5 DEF Good
  <2>. QED BY <1>b, <1>e, <2>1, <2>2, <2>3, <2>5
<1>8. CASE Uart!PopInfo
  <2>1. /\ thread.pc = "pop" /\ handler = "idle" /\ active_len' = thread.info
        /\ thread'.pc = "busy"
        /\ thread' \in ThreadType /\ thread'.into = thread.into /\ thread'.op = thread.op
        /\ thread'.info = thread.info
        /\ IF queue_info = <<>> THEN UNCHANGED <<write_info_active, queue_info>>
           ELSE write_info_active' = Head(queue_info) /\ queue_info' = Tail(queue_info)
        /\ UNCHANGED <<queue_data, buffer, active, pending_valid, pending_len, wire, irq,
                       tx_busy, handler, chip, writes, errors, urgent, left_wire, finished, outrun>>
    BY <1>8, <1>a, ThreadMoved
       DEF Uart!PopInfo, Uart!Thread, Uart!port, Uart!double, Uart!hardware, Uart!outside,
           Uart!seen, ThreadPlaces
  <2>a. /\ queue_info' \in Seq(Uart!Writes) /\ write_info_active' \in Uart!WritesOrNone
        /\ queue_info # <<>> => Len(queue_info') = Len(queue_info) - 1
        /\ queue_info = <<>> => Len(queue_info') = 0
    <3>1. CASE queue_info = <<>>
      BY <1>b, <2>1, <3>1
    <3>2. CASE queue_info # <<>>
      <4>1. Head(queue_info) \in Uart!Writes /\ Tail(queue_info) \in Seq(Uart!Writes)
            /\ Len(Tail(queue_info)) = Len(queue_info) - 1
        BY <1>b, <3>2, HeadTailProperties
      <4>. QED BY <2>1, <3>2, <4>1 DEF Uart!WritesOrNone
    <3>. QED BY <3>1, <3>2
  <2>b. ~outrun => Holds(queue_info', Begun + 1, writes)
    <3>1. ASSUME ~outrun PROVE Holds(queue_info, Begun, writes) /\ Begun + 1 = writes
      BY <1>a, <1>b, <2>1, <3>1 DEF Good, InPlace, InfoFrom, DataFrom, OwnWrite, One, Preparing
    <3>2. ASSUME ~outrun PROVE queue_info # <<>>
      BY <1>b, <3>1, <3>2 DEF Holds
    <3>3. ASSUME ~outrun PROVE Holds(Tail(queue_info), Begun + 1, writes)
      BY <1>b, <3>1, <3>2, <3>3, FirstTaken
    <3>. QED BY <2>1, <3>2, <3>3
  <2>2. Types'
    BY <1>a, <1>b, <2>1, <1>c, <2>a DEF Types, Uart!TypeOK, ThreadType
  <2>3. QueuesPaired'
    BY <1>a, <1>b, <1>c, <2>1, <2>a, EmptySeq DEF QueuesPaired, Preparing, One
  <2>4. Begun' = Begun /\ Uart!Ready' = Uart!Ready
    BY <1>b, <2>1 DEF Begun, Uart!Ready, One
  <2>5. ASSUME ~outrun' PROVE Good'
    <3>1. InPlace /\ OwnWrite /\ Watched /\ BusyFlag /\ QueuesPaired
      BY <1>a, <2>1, <2>5 DEF Good
    <3>x. InfoFrom' = Begun + 1 /\ DataFrom' = DataFrom
      BY <1>b, <1>c, <2>1, <2>4, <3>1 DEF InfoFrom, DataFrom, One, Preparing, QueuesPaired
    <3>2. InPlace'
      BY <1>b, <1>c, <2>1, <2>4, <2>5, <3>1, <3>x, <2>a, <2>b DEF InPlace, OwnWrite, Preparing
    <3>3. OwnWrite'
      BY <1>b, <1>c, <2>1, <2>4, <2>5, <3>1
         DEF OwnWrite, Watched, InPlace, One, Preparing, QueuesPaired
    <3>4. Watched'
      BY <1>b, <1>c, <2>1, <2>4, <2>5, <3>1
         DEF Watched, OwnWrite, QueuesPaired, Preparing, InPlace, Holds, InfoFrom, DataFrom, One
    <3>5. BusyFlag'
      BY <1>b, <1>c, <2>1, <2>4, <3>1 DEF BusyFlag, OwnWrite, QueuesPaired, Preparing
    <3>. QED BY <3>2, <3>3, <3>4, <3>5 DEF Good
  <2>. QED BY <1>b, <1>e, <2>1, <2>2, <2>3, <2>5
<1>9. CASE Uart!SetBusy
  <2>1. /\ thread.pc = "busy" /\ handler = "idle"
        /\ thread'.pc = "start" /\ tx_busy' = TRUE
        /\ thread' \in ThreadType /\ thread'.into = thread.into /\ thread'.op = thread.op
        /\ thread'.info = thread.info
        /\ UNCHANGED <<queue_info, queue_data, buffer, active, pending_valid, pending_len,
                       active_len, wire, irq, write_info_active, handler, chip, writes, errors,
                       urgent, left_wire, finished, outrun>>
    BY <1>9, <1>a, <1>b, <1>c, ThreadMoved, ThreadReturned
       DEF Uart!SetBusy, Uart!Thread, Uart!port, Uart!double, Uart!hardware, Uart!outside,
           Uart!seen, ThreadPlaces
  <2>2. Types'
    BY <1>a, <1>b, <2>1 DEF Types, Uart!TypeOK, ThreadType
  <2>3. QueuesPaired'
    BY <1>a, <1>b, <1>c, <2>1 DEF QueuesPaired, Preparing, One
  <2>4. Begun' = Begun /\ Uart!Ready' = Uart!Ready
    BY <1>b, <2>1 DEF Begun, Uart!Ready, One
  <2>5. ASSUME ~outrun' PROVE Good'
    <3>1. InPlace /\ OwnWrite /\ Watched /\ BusyFlag /\ QueuesPaired
      BY <1>a, <2>1, <2>5 DEF Good
    <3>2. InPlace'
      BY <1>b, <1>c, <2>1, <2>4, <2>5, <3>1
         DEF InPlace, InfoFrom, DataFrom, One, Preparing, QueuesPaired
    <3>3. OwnWrite'
      BY <1>b, <1>c, <2>1, <2>4, <2>5, <3>1
         DEF OwnWrite, Watched, InPlace, One, Preparing, QueuesPaired
    <3>4. Watched'
      BY <1>b, <1>c, <2>1, <2>4, <2>5, <3>1
         DEF Watched, OwnWrite, QueuesPaired, Preparing, InPlace, Holds, InfoFrom, DataFrom, One
    <3>5. BusyFlag'
      BY <1>b, <1>c, <2>1, <2>4, <3>1 DEF BusyFlag, OwnWrite, QueuesPaired, Preparing
    <3>. QED BY <3>2, <3>3, <3>4, <3>5 DEF Good
  <2>. QED BY <1>b, <1>e, <2>1, <2>2, <2>3, <2>5
<1>10. CASE Uart!Start
  <2>1. /\ thread.pc = "start" /\ handler = "idle" /\ thread'.pc = "idle" /\ thread' \in ThreadType
        /\ \/ /\ Uart!Ready \/ chip = "ch32"
              /\ wire' = [from |-> active, len |-> thread.info]
              /\ finished' = Append(finished, thread.op) /\ UNCHANGED tx_busy
           \/ ~Uart!Ready /\ tx_busy' = FALSE /\ UNCHANGED <<wire, finished>>
        /\ UNCHANGED <<queue_info, queue_data, buffer, active, pending_valid, pending_len,
                       active_len, irq, write_info_active, handler, chip, writes, errors, urgent,
                       left_wire, outrun>>
    BY <1>10, ThreadReturned
       DEF Uart!Start, Uart!Transfer, Uart!Thread, Uart!port, Uart!double, Uart!hardware,
           Uart!outside, Uart!seen
  <2>a. /\ wire' \in [from : {0, 1}, len : Uart!WritesOrNone] \cup {None}
        /\ finished' \in Seq(Uart!Writes)
        /\ tx_busy' \in BOOLEAN
    <3>1. thread.op \in Uart!Writes
      BY <1>a, <2>1 DEF QueuesPaired
    <3>2. Append(finished, thread.op) \in Seq(Uart!Writes)
      BY <1>b, <3>1, AppendProperties
    <3>3. [from |-> active, len |-> thread.info] \in [from : {0, 1}, len : Uart!WritesOrNone]
      BY <1>b, <1>c
    <3>. QED BY <1>b, <2>1, <3>2, <3>3
  <2>b. ~outrun => /\ Uart!Ready /\ wire' = [from |-> active, len |-> writes] /\ UNCHANGED tx_busy
                  /\ finished' = Append(finished, writes) /\ Begun + 1 = writes
                  /\ buffer[active] = writes /\ active_len = writes
    BY <1>a, <2>1 DEF Good, OwnWrite, Preparing
  <2>2. Types'
    BY <1>a, <1>b, <2>1, <2>a DEF Types, Uart!TypeOK, ThreadType
  <2>3. QueuesPaired'
    BY <1>a, <1>b, <1>c, <2>1 DEF QueuesPaired, Preparing, One
  <2>5. ASSUME ~outrun' PROVE Good'
    <3>1. InPlace /\ OwnWrite /\ Watched /\ BusyFlag /\ QueuesPaired
      BY <1>a, <2>1, <2>5 DEF Good
    <3>a. wire' # None
      BY <1>b, <1>f, <2>1, <2>5, <2>b DEF Uart!WritesOrNone
    <3>b. Begun' = writes /\ ~Uart!Ready' /\ Uart!Ready
      BY <1>b, <2>1, <2>5, <2>b, <3>a DEF Begun, Uart!Ready, One
    <3>c. Holds(finished', 0, writes)
      <4>1. Holds(finished, 0, Begun)
        BY <3>1 DEF InPlace
      <4>2. Begun + 1 \in Uart!Writes
        BY <1>b, <2>1, <2>5, <2>b
      <4>3. Holds(Append(finished, Begun + 1), 0, Begun + 1)
        BY <1>b, <4>1, <4>2, LastAdded
      <4>. QED BY <2>1, <2>5, <2>b, <4>3
    <3>2. InPlace'
      BY <1>b, <1>c, <2>1, <2>5, <2>b, <3>1, <3>b, <3>c
         DEF InPlace, InfoFrom, DataFrom, One, Preparing, QueuesPaired
    <3>3. OwnWrite'
      BY <1>b, <1>c, <2>1, <3>1, <3>b DEF OwnWrite, One, Preparing, QueuesPaired
    <3>4. Watched'
      BY <1>b, <1>c, <2>1, <3>1, <3>b DEF Watched
    <3>5. BusyFlag'
      BY <1>b, <1>c, <2>1, <2>5, <2>b, <3>1, <3>b DEF BusyFlag
    <3>. QED BY <3>2, <3>3, <3>4, <3>5 DEF Good
  <2>. QED BY <1>b, <1>e, <2>1, <2>2, <2>3, <2>5
<1>11. CASE Uart!Complete
  <2>1. /\ ~Uart!Ready /\ (chip = "stm32" => handler = "idle")
        /\ left_wire' = Append(left_wire, [what |-> buffer[wire.from], len |-> wire.len])
        /\ wire' = None
        /\ IF chip = "ch32" THEN irq' = TRUE /\ UNCHANGED <<tx_busy, handler>>
           ELSE tx_busy' = FALSE /\ handler' = "check" /\ UNCHANGED irq
        /\ UNCHANGED <<queue_info, queue_data, buffer, active, pending_valid, pending_len,
                       active_len, write_info_active, thread, chip, writes, errors, urgent,
                       finished, outrun>>
    BY <1>11 DEF Uart!Complete, Uart!port, Uart!double, Uart!outside
  <2>a. chip \in {"stm32", "ch32"}
    BY <1>a DEF Uart!TypeOK
  <2>b. /\ [what |-> buffer[wire.from], len |-> wire.len]
             \in [what : Uart!WritesOrNone, len : Uart!WritesOrNone]
        /\ left_wire' \in Seq([what : Uart!WritesOrNone, len : Uart!WritesOrNone])
        /\ Len(left_wire') = Len(left_wire) + 1
        /\ \A i \in 1..Len(left_wire) : left_wire'[i] = left_wire[i]
        /\ left_wire'[Len(left_wire) + 1] = [what |-> buffer[wire.from], len |-> wire.len]
    <3>1. wire \in [from : {0, 1}, len : Uart!WritesOrNone]
      BY <1>b, <2>1 DEF Uart!Ready
    <3>2. [what |-> buffer[wire.from], len |-> wire.len]
             \in [what : Uart!WritesOrNone, len : Uart!WritesOrNone]
      BY <1>b, <3>1
    <3>. QED BY <1>b, <2>1, <3>2, AppendProperties
  <2>d. irq' \in BOOLEAN /\ tx_busy' \in BOOLEAN
        /\ handler' \in {"idle", "check", "restart", "peek", "load", "leave"}
    BY <1>a, <1>b, <2>1 DEF Uart!TypeOK
  <2>2. Types'
    BY <1>a, <1>b, <2>1, <2>a, <2>b, <2>d DEF Types, Uart!TypeOK, ThreadType
  <2>3. QueuesPaired'
    BY <1>a, <1>b, <1>c, <2>1, <2>a DEF QueuesPaired, Preparing, One
  <2>4. Begun' = Begun /\ Uart!Ready' /\ ~Uart!Ready
    BY <1>b, <2>1, <2>b DEF Begun, Uart!Ready, One
  <2>c. ~outrun => /\ left_wire'[Len(left_wire) + 1] = [what |-> Begun, len |-> Begun]
                  /\ Len(left_wire) + 1 = Begun
    BY <1>a, <1>b, <2>1, <2>b DEF Good, InPlace, Begun, One
  <2>5. ASSUME ~outrun' PROVE Good'
    <3>1. InPlace /\ OwnWrite /\ Watched /\ BusyFlag /\ QueuesPaired
      BY <1>a, <2>1, <2>5 DEF Good
    <3>2. InPlace'
      BY <1>b, <1>c, <2>1, <2>4, <2>5, <3>1, <2>b, <2>c
         DEF InPlace, InfoFrom, DataFrom, One, Preparing, QueuesPaired
    <3>3. OwnWrite'
      BY <1>b, <1>c, <2>1, <2>4, <2>5, <3>1
         DEF OwnWrite, Watched, InPlace, One, Preparing, QueuesPaired
    <3>4. Watched'
      BY <1>b, <1>c, <2>1, <2>4, <2>5, <3>1, <2>a
         DEF Watched, OwnWrite, QueuesPaired, Preparing, InPlace, Holds, InfoFrom, DataFrom, One
    <3>5. BusyFlag'
      BY <1>b, <1>c, <2>1, <2>4, <3>1 DEF BusyFlag, OwnWrite, QueuesPaired, Preparing
    <3>. QED BY <3>2, <3>3, <3>4, <3>5 DEF Good
  <2>. QED BY <1>b, <1>e, <2>1, <2>2, <2>3, <2>5
<1>12. CASE Uart!Enter
  <2>1. /\ irq /\ Uart!Ready /\ handler = "idle" /\ handler' = "check"
        /\ irq' = FALSE /\ tx_busy' = FALSE
        /\ outrun' = (outrun \/ thread.pc = "switch")
        /\ UNCHANGED <<queue_info, queue_data, buffer, active, pending_valid, pending_len,
                       active_len, wire, write_info_active, thread, chip, writes, errors,
                       urgent, left_wire, finished>>
    BY <1>12 DEF Uart!Enter, Uart!port, Uart!double, Uart!outside
  <2>2. Types'
    BY <1>a, <1>b, <2>1 DEF Types, Uart!TypeOK, ThreadType
  <2>3. QueuesPaired'
    BY <1>a, <1>b, <1>c, <2>1 DEF QueuesPaired, Preparing, One
  <2>4. Begun' = Begun /\ Uart!Ready' = Uart!Ready
    BY <1>b, <2>1 DEF Begun, Uart!Ready, One
  <2>5. ASSUME ~outrun' PROVE Good'
    <3>1. InPlace /\ OwnWrite /\ Watched /\ BusyFlag /\ QueuesPaired
      BY <1>a, <2>1, <2>5 DEF Good
    <3>2. InPlace'
      BY <1>b, <1>c, <2>1, <2>4, <2>5, <3>1
         DEF InPlace, InfoFrom, DataFrom, One, Preparing, QueuesPaired
    <3>3. OwnWrite'
      BY <1>b, <1>c, <2>1, <2>4, <2>5, <3>1
         DEF OwnWrite, Watched, InPlace, One, Preparing, QueuesPaired
    <3>4. Watched'
      BY <1>b, <1>c, <2>1, <2>4, <2>5, <3>1
         DEF Watched, OwnWrite, QueuesPaired, Preparing, InPlace, Holds, InfoFrom, DataFrom, One
    <3>5. BusyFlag'
      BY <1>b, <1>c, <2>1, <2>4, <3>1 DEF BusyFlag, OwnWrite, QueuesPaired, Preparing
    <3>. QED BY <3>2, <3>3, <3>4, <3>5 DEF Good
  <2>. QED BY <1>b, <1>e, <2>1, <2>2, <2>3, <2>5
<1>13. CASE Uart!CheckPending
  <2>1. /\ handler = "check" /\ handler' = IF pending_valid THEN "restart" ELSE "leave"
        /\ UNCHANGED <<queue_info, queue_data, buffer, active, pending_valid, pending_len,
                       active_len, wire, irq, tx_busy, write_info_active, thread, chip,
                       writes, errors, urgent, left_wire, finished, outrun>>
    BY <1>13 DEF Uart!CheckPending, Uart!port, Uart!double, Uart!hardware, Uart!outside, Uart!seen
  <2>2. Types'
    BY <1>a, <1>b, <2>1 DEF Types, Uart!TypeOK, ThreadType
  <2>3. QueuesPaired'
    BY <1>a, <1>b, <1>c, <2>1 DEF QueuesPaired, Preparing, One
  <2>4. Begun' = Begun /\ Uart!Ready' = Uart!Ready
    BY <1>b, <2>1 DEF Begun, Uart!Ready, One
  <2>5. ASSUME ~outrun' PROVE Good'
    <3>1. InPlace /\ OwnWrite /\ Watched /\ BusyFlag /\ QueuesPaired
      BY <1>a, <2>1, <2>5 DEF Good
    <3>2. InPlace'
      BY <1>b, <1>c, <2>1, <2>4, <2>5, <3>1
         DEF InPlace, InfoFrom, DataFrom, One, Preparing, QueuesPaired
    <3>3. OwnWrite'
      BY <1>b, <1>c, <2>1, <2>4, <2>5, <3>1
         DEF OwnWrite, Watched, InPlace, One, Preparing, QueuesPaired
    <3>4. Watched'
      BY <1>b, <1>c, <2>1, <2>4, <2>5, <3>1
         DEF Watched, OwnWrite, QueuesPaired, Preparing, InPlace, Holds, InfoFrom, DataFrom, One
    <3>5. BusyFlag'
      BY <1>b, <1>c, <2>1, <2>4, <3>1 DEF BusyFlag, OwnWrite, QueuesPaired, Preparing
    <3>. QED BY <3>2, <3>3, <3>4, <3>5 DEF Good
  <2>. QED BY <1>b, <1>e, <2>1, <2>2, <2>3, <2>5
<1>14. CASE Uart!Restart
  <2>0. pending_valid /\ queue_info # <<>> /\ thread.pc \notin Preparing /\ 1 - active \in {0, 1}
    BY <1>14, <1>a, <1>b, EmptySeq DEF Uart!Restart, QueuesPaired, One, Preparing
  <2>1. /\ handler = "restart" /\ handler' = "peek" /\ active' = 1 - active /\ pending_valid' = FALSE
        /\ active_len' = pending_len /\ tx_busy' = (chip = "stm32")
        /\ wire' = [from |-> 1 - active, len |-> pending_len] /\ wire' # None
        /\ write_info_active' = Head(queue_info) /\ queue_info' = Tail(queue_info)
        /\ finished' = Append(finished, Head(queue_info))
        /\ UNCHANGED <<queue_data, buffer, pending_len, irq, thread, chip, writes, errors,
                       urgent, left_wire, outrun>>
    <3>1. [from |-> 1 - active, len |-> pending_len] \in [from : {0, 1}, len : Uart!WritesOrNone]
      BY <1>b
    <3>2. wire' = [from |-> 1 - active, len |-> pending_len] /\ wire' # None
      BY <1>14, <1>f, <3>1 DEF Uart!Restart, Uart!Transfer
    <3>. QED BY <1>14, <2>0, <3>2 DEF Uart!Restart, Uart!Switch, Uart!outside
  <2>a. /\ queue_info' \in Seq(Uart!Writes) /\ Len(queue_info') = Len(queue_info) - 1
        /\ Head(queue_info) \in Uart!Writes /\ finished' \in Seq(Uart!Writes)
        /\ tx_busy' \in BOOLEAN /\ wire' \in [from : {0, 1}, len : Uart!WritesOrNone] \cup {None}
    BY <1>b, <2>0, <2>1, HeadTailProperties, AppendProperties
  <2>b. ~outrun => /\ Uart!Ready /\ Begun' = Begun + 1 /\ ~Uart!Ready' /\ Begun + 1 \in Uart!Writes
                  /\ Head(queue_info) = Begun + 1 /\ Holds(queue_info', Begun + 1, writes)
                  /\ Holds(finished', 0, Begun + 1) /\ Begun + 1 <= writes
    <3> SUFFICES ASSUME ~outrun
                 PROVE  /\ Uart!Ready /\ Begun' = Begun + 1 /\ ~Uart!Ready'
                        /\ Begun + 1 \in Uart!Writes
                        /\ Head(queue_info) = Begun + 1 /\ Holds(queue_info', Begun + 1, writes)
                        /\ Holds(finished', 0, Begun + 1) /\ Begun + 1 <= writes
      OBVIOUS
    <3>1. Uart!Ready /\ Holds(queue_info, Begun, writes) /\ Holds(finished, 0, Begun)
      BY <1>a, <1>b, <2>0, <2>1 DEF Good, Watched, InPlace, InfoFrom, DataFrom, One, Preparing
    <3>2. Begun' = Begun + 1 /\ ~Uart!Ready'
      BY <1>b, <2>1, <3>1 DEF Begun, Uart!Ready, One
    <3>3. /\ Head(queue_info) = Begun + 1 /\ Holds(Tail(queue_info), Begun + 1, writes)
          /\ Begun + 1 <= writes
      <4>1. queue_info \in Seq(Uart!Writes) /\ queue_info # <<>> /\ Begun \in Nat /\ writes \in Nat
        BY <1>b, <2>0, <3>1
      <4>. QED BY <3>1, <4>1, FirstTaken
    <3>4. Begun + 1 \in Uart!Writes
      BY <2>a, <3>3
    <3>5. Holds(Append(finished, Begun + 1), 0, Begun + 1)
      BY <1>b, <3>1, <3>4, LastAdded
    <3>. QED BY <2>1, <3>1, <3>2, <3>3, <3>4, <3>5
  <2>2. Types'
    <3>1. /\ active' \in {0, 1} /\ active_len' \in Uart!WritesOrNone
          /\ write_info_active' \in Uart!WritesOrNone
      BY <1>b, <2>0, <2>1, <2>a DEF Uart!WritesOrNone
    <3>2. /\ handler' \in {"idle", "check", "restart", "peek", "load", "leave"}
          /\ pending_valid' \in BOOLEAN
      BY <2>1
    <3>. QED BY <1>a, <2>1, <2>a, <3>1, <3>2 DEF Types, Uart!TypeOK
  <2>3. QueuesPaired'
    BY <1>a, <1>b, <1>c, <2>1, <2>0, <2>a DEF QueuesPaired, Preparing, One
  <2>5. ASSUME ~outrun' PROVE Good'
    <3>1. InPlace /\ OwnWrite /\ Watched /\ BusyFlag /\ QueuesPaired
      BY <1>a, <2>1, <2>5 DEF Good
    <3>2. InPlace'
      BY SMTT(30), <1>b, <1>c, <2>1, <2>5, <3>1, <2>0, <2>b
         DEF InPlace, InfoFrom, DataFrom, One, Preparing, QueuesPaired
    <3>3. OwnWrite'
      BY <1>b, <1>c, <2>1, <2>5, <3>1, <2>0, <2>b
         DEF OwnWrite, Watched, InPlace, One, Preparing, QueuesPaired
    <3>4. Watched'
      BY <1>b, <1>c, <2>1, <2>5, <3>1, <2>0, <2>b
         DEF Watched, OwnWrite, QueuesPaired, Preparing, InPlace, Holds, InfoFrom, DataFrom, One
    <3>5. BusyFlag'
      BY <1>b, <1>c, <2>0, <2>1, <2>b, <2>5, <3>1 DEF BusyFlag, OwnWrite, QueuesPaired, Preparing
    <3>. QED BY <3>2, <3>3, <3>4, <3>5 DEF Good
  <2>. QED BY <1>b, <1>e, <2>1, <2>2, <2>3, <2>5
<1>15. CASE Uart!PeekNext
  <2>1. /\ handler = "peek" /\ handler' = IF queue_info = <<>> THEN "leave" ELSE "load"
        /\ UNCHANGED <<queue_info, queue_data, buffer, active, pending_valid, pending_len,
                       active_len, wire, irq, tx_busy, write_info_active, thread, chip,
                       writes, errors, urgent, left_wire, finished, outrun>>
    BY <1>15 DEF Uart!PeekNext, Uart!port, Uart!double, Uart!hardware, Uart!outside, Uart!seen
  <2>2. Types'
    BY <1>a, <1>b, <2>1 DEF Types, Uart!TypeOK, ThreadType
  <2>3. QueuesPaired'
    BY <1>a, <1>b, <1>c, <2>1 DEF QueuesPaired, Preparing, One
  <2>4. Begun' = Begun /\ Uart!Ready' = Uart!Ready
    BY <1>b, <2>1 DEF Begun, Uart!Ready, One
  <2>5. ASSUME ~outrun' PROVE Good'
    <3>1. InPlace /\ OwnWrite /\ Watched /\ BusyFlag /\ QueuesPaired
      BY <1>a, <2>1, <2>5 DEF Good
    <3>2. InPlace'
      BY <1>b, <1>c, <2>1, <2>4, <2>5, <3>1
         DEF InPlace, InfoFrom, DataFrom, One, Preparing, QueuesPaired
    <3>3. OwnWrite'
      BY <1>b, <1>c, <2>1, <2>4, <2>5, <3>1
         DEF OwnWrite, Watched, InPlace, One, Preparing, QueuesPaired
    <3>4. Watched'
      BY <1>b, <1>c, <2>1, <2>4, <2>5, <3>1, EmptySeq
         DEF Watched, OwnWrite, QueuesPaired, Preparing, InPlace, Holds, InfoFrom, DataFrom, One
    <3>5. BusyFlag'
      BY <1>b, <1>c, <2>1, <2>4, <3>1 DEF BusyFlag, OwnWrite, QueuesPaired, Preparing
    <3>. QED BY <3>2, <3>3, <3>4, <3>5 DEF Good
  <2>. QED BY <1>b, <1>e, <2>1, <2>2, <2>3, <2>5
<1>16. CASE Uart!LoadNext
  <2>0. /\ queue_data # <<>> /\ queue_info # <<>> /\ ~pending_valid /\ thread.pc \notin Preparing
        /\ handler = "load"
    BY <1>16, <1>a, <1>b, EmptySeq DEF Uart!LoadNext, QueuesPaired, One, Preparing
  <2>1. /\ handler = "load" /\ handler' = "leave" /\ pending_valid' = TRUE
        /\ pending_len' = Head(queue_info)
        /\ buffer' = [buffer EXCEPT ![1 - active] = Head(queue_data)]
        /\ queue_data' = Tail(queue_data)
        /\ UNCHANGED <<queue_info, active, active_len, wire, irq, tx_busy, write_info_active,
                       thread, chip, writes, errors, urgent, left_wire, finished, outrun>>
    BY <1>16 DEF Uart!LoadNext, Uart!PopBatch, Uart!hardware, Uart!outside, Uart!seen
  <2>a. /\ queue_data' \in Seq(Uart!Writes) /\ Len(queue_data') = Len(queue_data) - 1
        /\ Head(queue_data) \in Uart!Writes /\ Head(queue_info) \in Uart!Writes
        /\ buffer' \in [{0, 1} -> Uart!WritesOrNone] /\ pending_len' \in Uart!WritesOrNone
        /\ buffer'[1 - active] = Head(queue_data) /\ buffer'[active] = buffer[active]
    <3>1. active # 1 - active
      BY <1>b
    <3>. QED BY <1>b, <2>0, <2>1, <3>1, HeadTailProperties DEF Uart!WritesOrNone
  <2>b. ~outrun => /\ Head(queue_data) = Begun + 1 /\ Holds(queue_data', Begun + 1, writes)
                  /\ Head(queue_info) = Begun + 1 /\ Begun + 1 <= writes
    <3>1. ASSUME ~outrun PROVE Holds(queue_data, Begun, writes) /\ Holds(queue_info, Begun, writes)
      BY <1>a, <1>b, <2>0, <3>1 DEF Good, InPlace, InfoFrom, DataFrom, One, Preparing
    <3>. QED BY <1>b, <2>0, <2>1, <3>1, FirstTaken
  <2>2. Types'
    BY <1>a, <1>b, <2>1, <2>a DEF Types, Uart!TypeOK, ThreadType
  <2>3. QueuesPaired'
    BY <1>a, <1>b, <1>c, <2>1, <2>0, <2>a DEF QueuesPaired, Preparing, One
  <2>4. Begun' = Begun /\ Uart!Ready' = Uart!Ready
    BY <1>b, <2>1 DEF Begun, Uart!Ready, One
  <2>5. ASSUME ~outrun' PROVE Good'
    <3>1. InPlace /\ OwnWrite /\ Watched /\ BusyFlag /\ QueuesPaired
      BY <1>a, <2>1, <2>5 DEF Good
    <3>2. InPlace'
      BY <1>b, <1>c, <2>1, <2>4, <2>5, <3>1, <2>0, <2>a, <2>b, SMTT(60)
         DEF InPlace, InfoFrom, DataFrom, One, Preparing, QueuesPaired
    <3>3. OwnWrite'
      BY <1>b, <1>c, <2>1, <2>4, <2>5, <3>1, <2>0, <2>b
         DEF OwnWrite, Watched, InPlace, One, Preparing, QueuesPaired
    <3>4. Watched'
      BY <1>b, <1>c, <2>1, <2>4, <2>5, <3>1, <2>0
         DEF Watched, OwnWrite, QueuesPaired, Preparing, InPlace, Holds, InfoFrom, DataFrom, One
    <3>5. BusyFlag'
      BY <1>b, <1>c, <2>1, <2>4, <3>1 DEF BusyFlag, OwnWrite, QueuesPaired, Preparing
    <3>. QED BY <3>2, <3>3, <3>4, <3>5 DEF Good
  <2>. QED BY <1>b, <1>e, <2>1, <2>2, <2>3, <2>5
<1>17. CASE Uart!Leave
  <2>1. /\ handler = "leave" /\ handler' = "idle"
        /\ outrun' = (outrun \/ (thread.pc = "idle" /\ queue_info # <<>> /\ ~pending_valid))
        /\ UNCHANGED <<queue_info, queue_data, buffer, active, pending_valid, pending_len,
                       active_len, wire, irq, tx_busy, write_info_active, thread, chip,
                       writes, errors, urgent, left_wire, finished>>
    BY <1>17 DEF Uart!Leave, Uart!port, Uart!double, Uart!hardware, Uart!outside
  <2>a. ASSUME ~outrun', thread.pc = "idle" PROVE pending_valid \/ Begun = writes
    <3>1. queue_info = <<>> => Len(queue_info) = 0
      OBVIOUS
    <3>2. Holds(queue_info, Begun, writes)
      BY <1>a, <1>b, <2>1, <2>a DEF Good, InPlace, InfoFrom, One
    <3>3. queue_info = <<>> \/ pending_valid
      BY <2>1, <2>a
    <3>4. Len(queue_info) = writes - Begun
      BY <3>2 DEF Holds
    <3>. QED BY <1>b, <3>1, <3>3, <3>4
  <2>2. Types'
    BY <1>a, <1>b, <2>1 DEF Types, Uart!TypeOK, ThreadType
  <2>3. QueuesPaired'
    BY <1>a, <1>b, <1>c, <2>1 DEF QueuesPaired, Preparing, One
  <2>4. Begun' = Begun /\ Uart!Ready' = Uart!Ready
    BY <1>b, <2>1 DEF Begun, Uart!Ready, One
  <2>5. ASSUME ~outrun' PROVE Good'
    <3>1. InPlace /\ OwnWrite /\ Watched /\ BusyFlag /\ QueuesPaired
      BY <1>a, <2>1, <2>5 DEF Good
    <3>2. InPlace'
      BY <1>b, <1>c, <2>1, <2>4, <2>5, <3>1
         DEF InPlace, InfoFrom, DataFrom, One, Preparing, QueuesPaired
    <3>3. OwnWrite'
      BY <1>b, <1>c, <2>1, <2>4, <2>5, <3>1
         DEF OwnWrite, Watched, InPlace, One, Preparing, QueuesPaired
    <3>4. Watched'
      BY <1>b, <1>c, <2>1, <2>4, <2>5, <3>1, <2>a DEF Watched
    <3>5. BusyFlag'
      BY <1>b, <1>c, <2>1, <2>4, <3>1 DEF BusyFlag, OwnWrite, QueuesPaired, Preparing
    <3>. QED BY <3>2, <3>3, <3>4, <3>5 DEF Good
  <2>. QED BY <1>b, <1>e, <2>1, <2>2, <2>3, <2>5
<1>18. CASE Uart!UrgentWrite
  <2>1. /\ handler # "idle" /\ thread.pc = "idle"
        /\ writes' = writes + 1 /\ writes + 1 \in Uart!Writes
        /\ queue_info' = Append(queue_info, writes + 1)
        /\ queue_data' = Append(queue_data, writes + 1)
        /\ urgent' \in 0..MaxUrgent
        /\ thread'.pc = thread.pc /\ handler' = handler /\ pending_valid' = pending_valid
        /\ UNCHANGED <<chip, buffer, active, pending_valid, pending_len, active_len, wire,
                       irq, tx_busy, write_info_active, thread, handler, errors, left_wire,
                       finished, outrun>>
    <3>1. writes + 1 \in Uart!Writes
      BY <1>18, <1>b DEF Uart!UrgentWrite
    <3>2. urgent' \in 0..MaxUrgent
      BY <1>18, <1>a, <1>b DEF Uart!UrgentWrite, Uart!TypeOK
    <3>. QED BY <1>18, <3>1, <3>2
       DEF Uart!UrgentWrite, Uart!Enqueue, Uart!double, Uart!hardware, Uart!seen
  <2>a. /\ queue_info' \in Seq(Uart!Writes) /\ Len(queue_info') = Len(queue_info) + 1
        /\ queue_data' \in Seq(Uart!Writes) /\ Len(queue_data') = Len(queue_data) + 1
        /\ queue_info' # <<>> /\ writes' \in 0..MaxWrites
    <3>1. writes' \in 0..MaxWrites
      BY <1>b, <2>1
    <3>2. \A q \in Seq(Uart!Writes) : /\ Append(q, writes + 1) \in Seq(Uart!Writes)
                               /\ Len(Append(q, writes + 1)) = Len(q) + 1
                               /\ Append(q, writes + 1) # <<>>
      BY <2>1, AppendProperties
    <3>. QED BY <1>b, <2>1, <3>1, <3>2
  <2>b. ~outrun => /\ Holds(queue_info', Begun, writes')
                  /\ Holds(queue_data', Begun + One(pending_valid), writes')
    <3>1. ASSUME ~outrun
          PROVE  /\ Holds(queue_info, Begun, writes)
                 /\ Holds(queue_data, Begun + One(pending_valid), writes)
      BY <1>a, <1>b, <2>1, <3>1 DEF Good, InPlace, InfoFrom, DataFrom, One, Preparing
    <3>2. Begun + One(pending_valid) \in Nat
      BY <1>b DEF One
    <3>. QED BY <1>b, <2>1, <3>1, <3>2, LastAdded
  <2>2. Types'
    BY <1>a, <1>b, <2>1, <2>a DEF Types, Uart!TypeOK, ThreadType
  <2>3. QueuesPaired'
    <3>1. Len(queue_info) = Len(queue_data) + One(pending_valid)
      BY <1>a, <1>b, <2>1 DEF QueuesPaired, One
    <3>2. Len(queue_info') = Len(queue_data') + One(pending_valid') /\ thread'.pc = "idle"
      BY <1>b, <2>1, <2>a, <3>1 DEF One
    <3>3. handler' = "restart" => pending_valid'
      BY <1>a, <2>1 DEF QueuesPaired
    <3>4. handler' \in {"peek", "load"} => ~pending_valid'
      BY <1>a, <2>1 DEF QueuesPaired
    <3>. QED BY SMTT(30), <1>b, <2>a, <3>2, <3>3, <3>4 DEF QueuesPaired, Preparing, One
  <2>4. Begun' = Begun /\ Uart!Ready' = Uart!Ready
    BY <1>b, <2>1 DEF Begun, Uart!Ready, One
  <2>5. ASSUME ~outrun' PROVE Good'
    <3>1. InPlace /\ OwnWrite /\ Watched /\ BusyFlag /\ QueuesPaired
      BY <1>a, <2>1, <2>5 DEF Good
    <3>x. InfoFrom' = Begun /\ DataFrom' = Begun + One(pending_valid)
      BY <1>b, <1>c, <2>1, <2>4, <3>1 DEF InfoFrom, DataFrom, One, Preparing, QueuesPaired
    <3>2. InPlace'
      BY <1>b, <1>c, <2>1, <2>4, <2>5, <3>1, <3>x, <2>a, <2>b DEF InPlace, OwnWrite, Preparing
    <3>3. OwnWrite'
      BY <1>b, <1>c, <2>1, <2>4, <2>5, <3>1
         DEF OwnWrite, Watched, InPlace, One, Preparing, QueuesPaired
    <3>4. Watched'
      BY <1>b, <1>c, <2>1, <2>4, <2>5, <3>1
         DEF Watched, OwnWrite, QueuesPaired, Preparing, InPlace, Holds, InfoFrom, DataFrom, One
    <3>5. BusyFlag'
      BY <1>b, <1>c, <2>1, <2>4, <3>1 DEF BusyFlag, OwnWrite, QueuesPaired, Preparing
    <3>. QED BY <3>2, <3>3, <3>4, <3>5 DEF Good
  <2>. QED BY <1>b, <1>e, <2>1, <2>2, <2>3, <2>5
<1>19. CASE Uart!Error
  <2>1. /\ chip = "stm32" /\ handler = "idle" /\ errors' \in 0..MaxErrors
        /\ wire' = IF tx_busy THEN [from |-> active, len |-> active_len] ELSE None
        /\ outrun' = (outrun \/ thread.pc = "start")
        /\ UNCHANGED <<queue_info, queue_data, buffer, active, pending_valid, pending_len,
                       active_len, irq, tx_busy, write_info_active, thread, handler, chip,
                       writes, urgent, left_wire, finished>>
    <3>1. errors' \in 0..MaxErrors
      BY <1>19, <1>a, <1>b DEF Uart!Error, Uart!TypeOK
    <3>. QED BY <1>19, <3>1 DEF Uart!Error, Uart!Transfer, Uart!port, Uart!double
  <2>2. Types'
    BY <1>a, <1>b, <2>1 DEF Types, Uart!TypeOK, ThreadType
  <2>3. QueuesPaired'
    BY <1>a, <1>b, <1>c, <2>1 DEF QueuesPaired, Preparing, One
  <2>5. ASSUME ~outrun' PROVE Good'
    <3>1. InPlace /\ OwnWrite /\ Watched /\ BusyFlag /\ thread.pc # "start"
      BY <1>a, <2>1, <2>5 DEF Good
    <3>2. wire' = wire
      BY <1>b, <2>1, <3>1 DEF BusyFlag, InPlace, Uart!Ready
    <3>3. Begun' = Begun /\ Uart!Ready' = Uart!Ready
      BY <2>1, <3>2 DEF Begun, Uart!Ready
    <3>4. InPlace' /\ OwnWrite'
      BY <2>1, <3>1, <3>2, <3>3 DEF InPlace, InfoFrom, DataFrom, OwnWrite
    <3>5. Watched' /\ BusyFlag'
      BY <2>1, <3>1, <3>2, <3>3 DEF Watched, BusyFlag
    <3>. QED BY <3>4, <3>5 DEF Good
  <2>. QED BY <1>b, <1>e, <2>1, <2>2, <2>3, <2>5
<1>20. CASE UNCHANGED Uart!vars
  <2>1. UNCHANGED <<queue_info, queue_data, buffer, active, pending_valid, pending_len,
                    active_len, wire, irq, tx_busy, write_info_active, thread, handler, chip,
                    writes, errors, urgent, left_wire, finished, outrun>>
    BY <1>20 DEF Uart!vars, Uart!port, Uart!double, Uart!hardware, Uart!outside, Uart!seen
  <2>2. Types'
    BY <1>a, <1>b, <2>1 DEF Types, Uart!TypeOK, ThreadType
  <2>3. QueuesPaired'
    BY <1>a, <1>b, <1>c, <2>1 DEF QueuesPaired, Preparing, One
  <2>4. Begun' = Begun /\ Uart!Ready' = Uart!Ready
    BY <1>b, <2>1 DEF Begun, Uart!Ready, One
  <2>5. ASSUME ~outrun' PROVE Good'
    <3>1. InPlace /\ OwnWrite /\ Watched /\ BusyFlag /\ QueuesPaired
      BY <1>a, <2>1, <2>5 DEF Good
    <3>2. InPlace'
      BY <1>b, <1>c, <2>1, <2>4, <2>5, <3>1
         DEF InPlace, InfoFrom, DataFrom, One, Preparing, QueuesPaired
    <3>3. OwnWrite'
      BY <1>b, <1>c, <2>1, <2>4, <2>5, <3>1
         DEF OwnWrite, Watched, InPlace, One, Preparing, QueuesPaired
    <3>4. Watched'
      BY <1>b, <1>c, <2>1, <2>4, <2>5, <3>1
         DEF Watched, OwnWrite, QueuesPaired, Preparing, InPlace, Holds, InfoFrom, DataFrom, One
    <3>5. BusyFlag'
      BY <1>b, <1>c, <2>1, <2>4, <3>1 DEF BusyFlag, OwnWrite, QueuesPaired, Preparing
    <3>. QED BY <3>2, <3>3, <3>4, <3>5 DEF Good
  <2>. QED BY <1>b, <1>e, <2>1, <2>2, <2>3, <2>5
<1>. QED BY <1>1, <1>2, <1>3, <1>4, <1>5, <1>6, <1>7, <1>8, <1>9, <1>10, <1>11, <1>12, <1>13,
   <1>14, <1>15, <1>16, <1>17, <1>18, <1>19, <1>20 DEF Uart!Next, Uart!WriteFun, Uart!Interrupt

LEMMA UartInvariance == ASSUME Uart!UartAssumption PROVE Uart!Spec => []UartInv
<1>1. Uart!Init => UartInv
  BY UartInit
<1>2. UartInv /\ [Uart!Next]_Uart!vars => UartInv'
  BY UartNext
<1>. QED BY <1>1, <1>2, PTL DEF Uart!Spec

\* Types of the UART's state, also in the windows where its transfers can fail.
THEOREM UartTypes == ASSUME Uart!UartAssumption PROVE Uart!Spec => []Uart!TypeOK
<1>1. UartInv => Uart!TypeOK
  BY DEF UartInv
<1>. QED BY <1>1, UartInvariance, PTL

\* The transfers of a UART carry the writes of its port in order, each once and
\* whole, although the interrupt preempts the thread at every step and either may
\* start them; each is reported once, none before its transfer is started; and
\* none stays behind: for any writes, errors and urgent writes, except where one
\* of the windows of Enter, Leave and Error was hit.
THEOREM UartWritesGoOut == ASSUME Uart!UartAssumption PROVE Uart!Spec => []Uart!WritesGoOut
<1>1. UartInv => Uart!WritesGoOut
  <2> SUFFICES ASSUME UartInv PROVE Uart!WritesGoOut
    OBVIOUS
  <2>1. Uart!TypeOK /\ thread \in ThreadType /\ QueuesPaired
    BY DEF UartInv
  <2>2. SUFFICES ASSUME ~outrun
                 PROVE  Uart!TransfersInOrder /\ Uart!ReportsInOrder /\ Uart!NothingLeft
    BY <2>1 DEF Uart!WritesGoOut
  <2>3. InPlace /\ OwnWrite /\ Watched
    BY <2>2 DEF UartInv
  <2>4. /\ left_wire \in Seq([what : Uart!WritesOrNone, len : Uart!WritesOrNone])
        /\ Len(left_wire) \in Nat
        /\ Len(finished) \in Nat /\ writes \in Nat /\ Len(queue_info) \in Nat
        /\ Len(queue_data) \in Nat
        /\ queue_info \in Seq(Uart!Writes) /\ queue_data \in Seq(Uart!Writes)
    BY <2>1 DEF Uart!TypeOK
  <2> DEFINE line == left_wire \o Uart!OnWire
  <2>5. Len(line) = Begun /\ \A i \in 1..Len(line) : line[i] = [what |-> i, len |-> i]
    <3>1. CASE Uart!Ready
      <4>1. Uart!OnWire = <<>> /\ Begun = Len(left_wire)
        BY <2>4, <3>1 DEF Uart!OnWire, Begun, One
      <4>2. line = left_wire
        BY <2>4, <4>1, ConcatEmptySeq
      <4>. QED BY <2>3, <4>1, <4>2 DEF InPlace
    <3>2. CASE ~Uart!Ready
      <4> DEFINE last == [what |-> Begun, len |-> Begun]
      <4>1. Begun = Len(left_wire) + 1
        BY <2>4, <3>2 DEF Begun, One
      <4>2. wire.from = active /\ wire.len = Begun /\ buffer[active] = Begun
        BY <2>3, <3>2 DEF InPlace
      <4>3. Uart!OnWire = <<last>>
        BY <3>2, <4>2 DEF Uart!OnWire
      <4>4. Begun \in Uart!WritesOrNone
        BY <2>1, <4>2, <3>2 DEF Uart!TypeOK, Uart!Ready
      <4>5. last \in [what : Uart!WritesOrNone, len : Uart!WritesOrNone]
        BY <4>4
      <4> HIDE DEF last
      <4>6. line = Append(left_wire, last)
        BY <2>4, <4>3, <4>5, AppendIsConcat
      <4> HIDE DEF line
      <4>7. /\ Len(line) = Len(left_wire) + 1 /\ line[Len(left_wire) + 1] = last
            /\ \A i \in 1..Len(left_wire) : line[i] = left_wire[i]
        BY <2>4, <4>5, <4>6, AppendProperties
      <4>8. ASSUME NEW i \in 1..Len(left_wire) + 1 PROVE line[i] = [what |-> i, len |-> i]
        <5>1. CASE i \in 1..Len(left_wire)
          BY <2>3, <4>7, <5>1 DEF InPlace
        <5>2. CASE i = Len(left_wire) + 1
          BY <4>1, <4>7, <5>2 DEF last
        <5>3. i \in 1..Len(left_wire) \/ i = Len(left_wire) + 1
          BY <2>4, <4>8
        <5>. QED BY <5>1, <5>2, <5>3
      <4>. QED BY <4>1, <4>7, <4>8
    <3>. QED BY <3>1, <3>2
  <2>6. Uart!TransfersInOrder
    BY <2>5 DEF Uart!TransfersInOrder
  <2>7. Uart!ReportsInOrder
    <3>1. Len(finished) = Begun /\ \A i \in 1..Len(finished) : finished[i] = i
      BY <2>3, <2>4 DEF InPlace, Holds, Begun, One
    <3>. QED BY <2>4, <2>5, <3>1 DEF Uart!ReportsInOrder
  <2>8. Uart!NothingLeft
    <3> SUFFICES ASSUME thread.pc = "idle", handler = "idle", Uart!Ready, ~irq
                 PROVE  /\ queue_info = <<>> /\ queue_data = <<>> /\ ~pending_valid
                        /\ Len(left_wire) = writes /\ Len(finished) = writes
      BY DEF Uart!NothingLeft
    <3>1. ~pending_valid /\ Begun = writes /\ Begun = Len(left_wire)
      BY <2>3, <2>4 DEF Watched, Begun, One
    <3>2. InfoFrom = writes /\ DataFrom = writes
      BY <2>4, <3>1 DEF InfoFrom, DataFrom, One, Preparing
    <3>3. Len(queue_info) = 0 /\ Len(queue_data) = 0 /\ Len(finished) = writes
      <4>1. Holds(queue_info, writes, writes) /\ Holds(queue_data, writes, writes)
            /\ Holds(finished, 0, writes)
        BY <2>3, <3>1, <3>2 DEF InPlace
      <4>2. /\ Len(queue_info) = writes - writes /\ Len(queue_data) = writes - writes
            /\ Len(finished) = writes - 0
        BY <4>1 DEF Holds
      <4>. QED BY <2>4, <4>2
    <3>. QED BY <2>4, <3>1, <3>3, EmptySeq
  <2>. QED BY <2>6, <2>7, <2>8
<1>. QED BY <1>1, UartInvariance, PTL
=============================================================================
