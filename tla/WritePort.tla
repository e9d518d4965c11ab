---------------------------- MODULE WritePort ----------------------------
(***************************************************************************)
(* LibXR::WritePort: the submission side of every stream device.  Threads  *)
(* submit writes (directly, or as a Stream batch), the driver backend      *)
(* takes them from queue_info_/queue_data_ and completes them, and Reset() *)
(* empties the queues.  The word busy_ is lock, waiter state and reset     *)
(* ownership at once; each action below is one access to shared memory, or *)
(* several that no other actor can tell apart.                             *)
(***************************************************************************)
EXTENDS Naturals, Sequences, SequencesExt

CONSTANTS
    Threads,       \* submitting threads; each owns one semaphore
    BlockThreads,  \* the threads that submit BLOCK writes
    Kinds,         \* non-BLOCK completion modes in use
    Sizes,         \* byte counts of a direct write and of a stream chunk
    MaxOps,        \* bound: writes admitted in a behaviour
    InfoCap,       \* capacity of queue_info_
    DataCap,       \* capacity of queue_data_
    Streams,       \* whether WritePort::Stream batches occur
    Discards,      \* whether Stream::Discard occurs
    SyncStart,     \* whether write_fun_ may complete a write synchronously
    EarlyTake,     \* whether the backend scans queue_info_ by itself
    MaxResets      \* bound: Reset() calls, made in the backend's context

ASSUME ConstantsAssumption ==
    /\ BlockThreads \subseteq Threads
    /\ Kinds \subseteq {"POLLING", "CALLBACK"}
    /\ Sizes \subseteq Nat \ {0}
    /\ MaxOps \in Nat /\ InfoCap \in Nat /\ DataCap \in Nat /\ MaxResets \in Nat
    /\ {Streams, Discards, SyncStart, EarlyTake} \subseteq BOOLEAN

Ops == 1..MaxOps
Answers == {"OK", "FAILED"}
NoOp == 0

BusyState == {"IDLE", "LOCKED", "BLOCK_PUBLISHING", "BLOCK_WAITING",
              "BLOCK_CLAIMED", "BLOCK_DETACHED", "RESETTING"}

VARIABLES
    busy,          \* busy_
    block_result,  \* block_result_
    queue_info,    \* queue_info_: the ops whose metadata is queued
    queue_data,    \* queue_data_: each byte is the op that pushed it
    pc,            \* where each thread is in its call
    cur,           \* the op of each thread's call
    sem,           \* count of the semaphore of each thread's BLOCK ops
    nops,          \* ops admitted so far
    kind,          \* kind[o]: operation type of op o
    batch,         \* the ops of the Stream calls in progress
    size,          \* size[o]: bytes pushed for o (buffered_size_ of a batch)
    owner,         \* owner[o]: the thread whose semaphore o carries
    status,        \* status[o]: the POLLING word, or what the callback was told
    result,        \* result[o]: what the backend reported for o
    ret,           \* ret[o]: what the call that submitted o returned
    armed,         \* ops whose write_fun_ returned PENDING
    bk,            \* where the backend is: a completion, or Reset()
    bop,           \* the op the backend holds
    resets         \* Reset() calls so far

port == <<busy, block_result>>
queues == <<queue_info, queue_data>>
calls == <<pc, cur, sem>>
ops == <<nops, kind, batch, size, owner, status, result, ret>>
backend == <<armed, bk, bop, resets>>
vars == <<port, queues, calls, ops, backend>>

ThreadPC == {"idle", "locked", "stream", "publish", "push", "mark", "start",
             "answer", "unlock", "answer_unlocked", "wait", "synced", "sync_store", "reap", "detached",
             "release", "result"}
BackendPC == {"idle", "taken", "popped", "claim", "claim_publishing",
              "undetach", "post", "unexpected", "reset", "reset_waiter"}

TypeOK ==
    /\ busy \in BusyState
    /\ block_result \in Answers
    /\ queue_info \in Seq(Ops)
    /\ queue_data \in Seq(Ops)
    /\ pc \in [Threads -> ThreadPC]
    /\ cur \in [Threads -> Ops \cup {NoOp}]
    /\ sem \in [Threads -> Nat]
    /\ nops \in 0..MaxOps
    /\ kind \in [Ops -> {"BLOCK", "POLLING", "CALLBACK"}]
    /\ batch \subseteq Ops
    /\ size \in [Ops -> Nat]
    /\ owner \in [Ops -> Threads \cup {"none"}]
    /\ status \in [Ops -> {"READY", "RUNNING", "DONE", "ERROR"}]
    /\ result \in [Ops -> Answers \cup {"none"}]
    /\ ret \in [Ops -> Answers \cup {"none", "TIMEOUT"}]
    /\ armed \subseteq Ops
    /\ bk \in BackendPC
    /\ bop \in Ops \cup {NoOp}
    /\ resets \in 0..MaxResets

Init ==
    /\ busy = "IDLE" /\ block_result = "OK"
    /\ queue_info = <<>> /\ queue_data = <<>>
    /\ pc = [t \in Threads |-> "idle"]
    /\ cur = [t \in Threads |-> NoOp]
    /\ sem = [t \in Threads |-> 0]
    /\ nops = 0
    /\ kind = [o \in Ops |-> "CALLBACK"] /\ batch = {}
    /\ size = [o \in Ops |-> 0]
    /\ owner = [o \in Ops |-> "none"]
    /\ status = [o \in Ops |-> "READY"]
    /\ result = [o \in Ops |-> "none"]
    /\ ret = [o \in Ops |-> "none"]
    /\ armed = {} /\ bk = "idle" /\ bop = NoOp /\ resets = 0

----------------------------------------------------------------------------
(* Submission: operator() and Stream::Acquire share the IDLE -> LOCKED CAS.   *)
(* A failed CAS returns BUSY and changes nothing, so it is no step here.      *)

Goto(t, l) == pc' = [pc EXCEPT ![t] = l]
Op(t) == cur[t]
IsBlock(o) == kind[o] = "BLOCK"
KindsOf(t) == IF t \in BlockThreads THEN {"BLOCK"} ELSE Kinds
Bytes(o, n) == [i \in 1..n |-> o]
StatusOf(ans) == IF ans = "OK" THEN "DONE" ELSE "ERROR"

Lock(t) ==
    /\ pc[t] = "idle" /\ busy = "IDLE" /\ nops < MaxOps
    /\ busy' = "LOCKED"
    /\ Goto(t, "locked")
    /\ UNCHANGED <<block_result, queues, cur, sem, ops, backend>>

\* The op of a call that got past the space checks.
NewOp(t, k, n) ==
    LET o == nops + 1 IN
    /\ nops' = o
    /\ cur' = [cur EXCEPT ![t] = o]
    /\ kind' = [kind EXCEPT ![o] = k]
    /\ size' = [size EXCEPT ![o] = n]
    /\ owner' = [owner EXCEPT ![o] = t]
    /\ queue_data' = queue_data \o Bytes(o, n)
    /\ UNCHANGED <<queue_info, status, result, ret>>

\* CommitWrite of a direct write: the payload goes in whole, or FULL below.
PushPayload(t, k, n) ==
    /\ pc[t] = "locked" /\ nops < MaxOps
    /\ Len(queue_info) < InfoCap
    /\ Len(queue_data) + n <= DataCap
    /\ NewOp(t, k, n) /\ UNCHANGED batch
    /\ Goto(t, IF k = "BLOCK" THEN "publish" ELSE "push")
    /\ UNCHANGED <<port, sem, backend>>

\* FULL: no metadata slot, or no room for the n bytes of the write.
Full(t, n) ==
    /\ pc[t] = "locked"
    /\ Len(queue_info) >= InfoCap \/ Len(queue_data) + n > DataCap
    /\ busy' = "IDLE"
    /\ Goto(t, "idle")
    /\ UNCHANGED <<block_result, queues, cur, sem, ops, backend>>

\* Stream::Acquire keeps the lock for a batch that is empty so far.
StreamAcquire(t, k) ==
    /\ Streams
    /\ pc[t] = "locked" /\ nops < MaxOps
    /\ Len(queue_info) < InfoCap
    /\ NewOp(t, k, 0) /\ batch' = batch \cup {nops + 1}
    /\ Goto(t, "stream")
    /\ UNCHANGED <<port, sem, backend>>

\* Stream::Write appends a chunk; FULL leaves the batch as it is.
StreamWrite(t, n) ==
    /\ pc[t] = "stream"
    /\ Len(queue_data) + n <= DataCap
    /\ queue_data' = queue_data \o Bytes(Op(t), n)
    /\ size' = [size EXCEPT ![Op(t)] = @ + n]
    /\ UNCHANGED <<port, queue_info, calls, nops, kind, batch, owner, status, result, ret,
                   backend>>

\* Stream::Commit, or the destructor.
StreamCommit(t) ==
    /\ pc[t] = "stream" /\ size[Op(t)] > 0
    /\ Goto(t, IF IsBlock(Op(t)) THEN "publish" ELSE "push")
    /\ UNCHANGED <<port, queues, cur, sem, ops, backend>>

\* Release without a submission: an empty batch, or Discard, which forgets
\* buffered_size_ and leaves what was pushed in queue_data_.
StreamRelease(t) ==
    /\ pc[t] = "stream"
    /\ size[Op(t)] = 0 \/ Discards
    /\ size' = [size EXCEPT ![Op(t)] = 0]
    /\ busy' = "IDLE"
    /\ Goto(t, "idle")
    /\ cur' = [cur EXCEPT ![t] = NoOp] /\ batch' = batch \ {Op(t)}
    /\ UNCHANGED <<block_result, queues, sem, nops, kind, owner, status, result, ret,
                   backend>>

----------------------------------------------------------------------------
(* CommitWrite and SubmitBuffered from the publication of the metadata on.    *)

Publish(t) ==
    /\ pc[t] = "publish"
    /\ busy' = "BLOCK_PUBLISHING"
    /\ Goto(t, "push")
    /\ UNCHANGED <<block_result, queues, cur, sem, ops, backend>>

PushInfo(t) ==
    /\ pc[t] = "push"
    /\ queue_info' = Append(queue_info, Op(t))
    /\ Goto(t, "mark")
    /\ UNCHANGED <<port, queue_data, cur, sem, ops, backend>>

Running(o) == [status EXCEPT ![o] = IF kind[o] = "POLLING" THEN "RUNNING" ELSE @]

\* MarkAsRunning of a non-BLOCK op, after the metadata is visible.
MarkRunning(t) ==
    /\ pc[t] = "mark" /\ ~IsBlock(Op(t))
    /\ status' = Running(Op(t))
    /\ Goto(t, "start")
    /\ UNCHANGED <<port, queues, cur, sem, nops, kind, batch, size, owner, result, ret, backend>>

\* The CAS BLOCK_PUBLISHING -> BLOCK_WAITING; a completion may have won.
ArmWaiter(t) ==
    /\ pc[t] = "mark" /\ IsBlock(Op(t))
    /\ busy' = IF busy = "BLOCK_PUBLISHING" THEN "BLOCK_WAITING" ELSE busy
    /\ Goto(t, "start")
    /\ UNCHANGED <<block_result, queues, cur, sem, ops, backend>>

Return(t, r) ==
    /\ ret' = [ret EXCEPT ![Op(t)] = r]
    /\ cur' = [cur EXCEPT ![t] = NoOp]
    /\ batch' = batch \ {Op(t)}
    /\ Goto(t, "idle")
    /\ UNCHANGED <<nops, kind, size, owner, result>>

\* The call goes on at l.
Stay(t, l) ==
    /\ Goto(t, l)
    /\ UNCHANGED <<cur, nops, kind, batch, size, owner, result, ret>>

\* write_fun_ returns PENDING: the backend now owns the completion.
WriteFunPending(t) ==
    /\ pc[t] = "start"
    /\ armed' = armed \cup {Op(t)}
    /\ Goto(t, IF IsBlock(Op(t)) THEN "wait" ELSE "unlock")
    /\ UNCHANGED <<port, queues, cur, sem, ops, bk, bop, resets>>

\* write_fun_ takes its own op off both queues and answers at once.
WriteFunSync(t, ans) ==
    LET o == Op(t) IN
    /\ SyncStart
    /\ pc[t] = "start" /\ bk = "idle"
    /\ queue_info = <<o>> /\ size[o] <= Len(queue_data)
    /\ queue_info' = <<>>
    /\ queue_data' = SubSeq(queue_data, size[o] + 1, Len(queue_data))
    /\ result' = [result EXCEPT ![o] = ans]
    /\ Goto(t, IF IsBlock(o) THEN "synced"
               ELSE IF o \in batch THEN "answer" ELSE "unlock")
    /\ UNCHANGED <<port, cur, sem, nops, kind, batch, size, owner, status, ret, backend>>

\* UpdateStatus of a non-BLOCK op that was answered at once: a direct write has
\* given the lock back by then, a Stream does so afterwards.
Answer(t) ==
    LET o == Op(t) IN
    /\ pc[t] \in {"answer", "answer_unlocked"}
    /\ status' = [status EXCEPT ![o] = StatusOf(result[o])]
    /\ IF pc[t] = "answer" THEN Stay(t, "unlock") ELSE Return(t, result[o])
    /\ UNCHANGED <<port, queues, sem, backend>>

MarkedLate(t) == Running(Op(t))  \* mutant: MarkAsRunning after write_fun_
Unmarked(t) == status

\* The lock of a non-BLOCK write goes back, from CommitWrite or from Release.
Unlock(t) ==
    LET o == Op(t) IN
    /\ pc[t] = "unlock"
    /\ busy' = "IDLE" /\ status' = Unmarked(t)
    /\ IF o \in armed THEN Return(t, "OK")
       ELSE IF o \in batch THEN Return(t, result[o])
       ELSE Stay(t, "answer_unlocked")
    /\ UNCHANGED <<block_result, queues, sem, backend>>

----------------------------------------------------------------------------
(* The BLOCK waiter after write_fun_.                                         *)

TakeToken(t) == sem[t] > 0 /\ sem' = [sem EXCEPT ![t] = @ - 1]

\* sem->Wait(timeout) returned OK: the waiter releases BLOCK_CLAIMED itself.
WaitPosted(t) ==
    /\ pc[t] = "wait" /\ TakeToken(t)
    /\ Goto(t, "release")
    /\ UNCHANGED <<port, queues, cur, ops, backend>>

DetachClaimed == {"BLOCK_WAITING", "BLOCK_CLAIMED"}  \* mutant: a store, not a CAS
Detachable == {"BLOCK_WAITING"}

\* The timeout won the CAS against the completion: the late Finish() will
\* reopen the port.
WaitTimeout(t) ==
    /\ pc[t] = "wait" /\ sem[t] = 0 /\ busy \in Detachable
    /\ busy' = "BLOCK_DETACHED"
    /\ Return(t, "TIMEOUT")
    /\ UNCHANGED <<block_result, queues, sem, status, backend>>

\* The timeout lost: to a completion that owes a post, or to Reset(), whose
\* RESETTING is waited out.  (BLOCK_PUBLISHING fails an ASSERT of debug builds.)
WaitTimeoutLost(t) ==
    /\ pc[t] = "wait" /\ sem[t] = 0
    /\ \/ busy = "BLOCK_CLAIMED" /\ Stay(t, "reap")
       \/ busy = "BLOCK_DETACHED" /\ Stay(t, "detached")
       \/ busy \in {"IDLE", "LOCKED", "BLOCK_PUBLISHING"} /\ Return(t, "TIMEOUT")
    /\ UNCHANGED <<port, queues, sem, status, backend>>

\* The load of busy_ after a synchronous answer (it spins on RESETTING).
SyncLoad(t) ==
    /\ pc[t] = "synced" /\ busy # "RESETTING"
    /\ Goto(t, CASE busy = "BLOCK_CLAIMED" -> "reap"
                 [] busy = "BLOCK_DETACHED" -> "detached"
                 [] OTHER -> "sync_store")
    /\ UNCHANGED <<port, queues, cur, sem, ops, backend>>

SyncStore(t) ==
    /\ pc[t] = "sync_store"
    /\ busy' = "IDLE"
    /\ Return(t, result[Op(t)])
    /\ UNCHANGED <<block_result, queues, sem, status, backend>>

\* sem->Wait(UINT32_MAX): the completion claimed the waiter, its post is due.
Reap(t) ==
    /\ pc[t] = "reap" /\ TakeToken(t)
    /\ Goto(t, "release")
    /\ UNCHANGED <<port, queues, cur, ops, backend>>

DetachedStore(t) ==
    /\ pc[t] = "detached"
    /\ busy' = "IDLE"
    /\ Return(t, "TIMEOUT")
    /\ UNCHANGED <<block_result, queues, sem, status, backend>>

\* busy_.store(IDLE) and then, separately, `return block_result_`.
Release(t) ==
    /\ pc[t] = "release"
    /\ busy' = "IDLE"
    /\ Goto(t, "result")
    /\ UNCHANGED <<block_result, queues, cur, sem, ops, backend>>

ReturnResult(t) ==
    /\ pc[t] = "result"
    /\ Return(t, block_result)
    /\ UNCHANGED <<port, queues, sem, status, backend>>

----------------------------------------------------------------------------
(* The backend: takes one op at a time and calls Finish().                    *)

Take ==
    /\ bk = "idle" /\ queue_info # <<>>
    /\ EarlyTake \/ Head(queue_info) \in armed
    /\ queue_info' = Tail(queue_info)
    /\ bop' = Head(queue_info)
    /\ bk' = "taken"
    /\ UNCHANGED <<port, queue_data, calls, ops, armed, resets>>

PopPayload ==
    /\ bk = "taken" /\ size[bop] <= Len(queue_data)
    /\ queue_data' = SubSeq(queue_data, size[bop] + 1, Len(queue_data))
    /\ bk' = "popped"
    /\ UNCHANGED <<port, queue_info, calls, ops, armed, bop, resets>>

\* Finish() of a non-BLOCK op: UpdateStatus.
FinishStatus(ans) ==
    /\ bk = "popped" /\ ~IsBlock(bop)
    /\ status' = [status EXCEPT ![bop] = StatusOf(ans)]
    /\ result' = [result EXCEPT ![bop] = ans]
    /\ bk' = "idle" /\ bop' = NoOp
    /\ UNCHANGED <<port, queues, calls, nops, kind, batch, size, owner, ret, armed, resets>>

StaleResult(ans) == block_result  \* mutant: block_result_ is not written
Stored(ans) == ans

\* Finish() of a BLOCK op: the result goes in before the waiter is claimed.
FinishStore(ans) ==
    /\ bk = "popped" /\ IsBlock(bop)
    /\ block_result' = Stored(ans)
    /\ result' = [result EXCEPT ![bop] = ans]
    /\ bk' = "claim"
    /\ UNCHANGED <<busy, queues, calls, nops, kind, batch, size, owner, status, ret, armed,
                   bop, resets>>

\* What Finish() does with the value its failed CAS loaded.
FinishUnclaimed ==
    /\ UNCHANGED busy
    /\ bk' = CASE busy = "BLOCK_DETACHED" -> "undetach"
               [] busy \in {"IDLE", "LOCKED", "RESETTING"} -> "idle"
               [] OTHER -> "unexpected"
    /\ bop' = IF bk' = "idle" THEN NoOp ELSE bop

FinishClaim ==
    /\ bk = "claim"
    /\ \/ /\ busy = "BLOCK_WAITING"
          /\ busy' = "BLOCK_CLAIMED" /\ bk' = "post" /\ UNCHANGED bop
       \/ /\ busy = "BLOCK_PUBLISHING"
          /\ bk' = "claim_publishing" /\ UNCHANGED <<busy, bop>>
       \/ /\ busy \notin {"BLOCK_WAITING", "BLOCK_PUBLISHING"}
          /\ FinishUnclaimed
    /\ UNCHANGED <<block_result, queues, calls, ops, armed, resets>>

FinishClaimPublishing ==
    /\ bk = "claim_publishing"
    /\ \/ /\ busy = "BLOCK_PUBLISHING"
          /\ busy' = "BLOCK_CLAIMED" /\ bk' = "post" /\ UNCHANGED bop
       \/ /\ busy # "BLOCK_PUBLISHING"
          /\ FinishUnclaimed
    /\ UNCHANGED <<block_result, queues, calls, ops, armed, resets>>

StillDetached == busy  \* mutant: the late completion does not reopen the port
Undetached == IF busy = "BLOCK_DETACHED" THEN "IDLE" ELSE busy

\* The late completion of a detached waiter reopens the port.
FinishUndetach ==
    /\ bk = "undetach"
    /\ busy' = Undetached
    /\ bk' = "idle" /\ bop' = NoOp
    /\ UNCHANGED <<block_result, queues, calls, ops, armed, resets>>

NotPosted(o) == sem  \* mutant: the claimed waiter gets no token
Posted(o) == [sem EXCEPT ![owner[o]] = @ + 1]

FinishPost ==
    /\ bk = "post"
    /\ sem' = Posted(bop)
    /\ bk' = "idle" /\ bop' = NoOp
    /\ UNCHANGED <<port, queues, pc, cur, ops, armed, resets>>

\* The ASSERT of Finish() failed; a release build falls through and returns.
FinishUnexpected ==
    /\ bk = "unexpected"
    /\ bk' = "idle" /\ bop' = NoOp
    /\ UNCHANGED <<port, queues, calls, ops, armed, resets>>

----------------------------------------------------------------------------
(* Reset(), called where the backend runs, between two completions.  It       *)
(* leaves a port alone that is LOCKED, publishing, claimed or detached.       *)

ResettableToo == {"IDLE", "LOCKED", "BLOCK_WAITING"}  \* mutant: a lock is ignored
Resettable == {"IDLE", "BLOCK_WAITING"}

\* The CAS to RESETTING, from a free port or from under an armed waiter.
ResetClaim ==
    /\ bk = "idle" /\ resets < MaxResets
    /\ busy \in Resettable
    /\ busy' = "RESETTING"
    /\ bk' = IF busy = "IDLE" THEN "reset" ELSE "reset_waiter"
    /\ resets' = resets + 1
    /\ UNCHANGED <<block_result, queues, calls, ops, armed, bop>>

DataAfterReset == queue_data  \* mutant: only the metadata is dropped
ResetData == <<>>
ResultAfterReset == "TIMEOUT"  \* mutant: the detached call's answer is kept
ResetResult == "OK"

\* The queues are emptied and the port is reopened, or left to its waiter.
ResetClear ==
    /\ bk \in {"reset", "reset_waiter"}
    /\ queue_data' = ResetData /\ queue_info' = <<>>
    /\ block_result' = ResetResult
    /\ busy' = IF bk = "reset" THEN "IDLE" ELSE "BLOCK_DETACHED"
    /\ bk' = "idle"
    /\ UNCHANGED <<calls, ops, armed, bop, resets>>

----------------------------------------------------------------------------

StartCall(t) ==
    \/ \E k \in KindsOf(t) : StreamAcquire(t, k)
    \/ \E n \in Sizes : Full(t, n) \/ StreamWrite(t, n)
    \/ \E k \in KindsOf(t), n \in Sizes : PushPayload(t, k, n)
    \/ StreamCommit(t) \/ StreamRelease(t)
    \/ Publish(t) \/ PushInfo(t) \/ MarkRunning(t) \/ ArmWaiter(t)
    \/ WriteFunPending(t) \/ \E ans \in Answers : WriteFunSync(t, ans)

EndCall(t) ==
    \/ WaitPosted(t) \/ SyncLoad(t) \/ SyncStore(t)
    \/ Answer(t) \/ Reap(t) \/ DetachedStore(t) \/ Release(t) \/ ReturnResult(t) \/ Unlock(t)

ThreadStep(t) == StartCall(t) \/ EndCall(t)

Completion ==
    \/ Take \/ PopPayload
    \/ \E ans \in Answers : FinishStatus(ans) \/ FinishStore(ans)
    \/ FinishClaim \/ FinishClaimPublishing \/ FinishUndetach
    \/ FinishPost \/ FinishUnexpected

Next ==
    \/ \E t \in Threads :
          Lock(t) \/ ThreadStep(t) \/ WaitTimeout(t) \/ WaitTimeoutLost(t)
    \/ Completion \/ ResetClaim \/ ResetClear

Spec == Init /\ [][Next]_vars

\* A thread that is in a call keeps running it, and the backend keeps
\* completing; nothing makes a thread call, a timeout expire or a Reset come.
Fairness ==
    /\ \A t \in Threads : WF_vars(ThreadStep(t))
    /\ WF_vars(Completion) /\ WF_vars(ResetClear)

FairSpec == Spec /\ Fairness

\* BLOCK writes with a finite timeout: a waiter detached by Reset() wakes up.
FiniteTimeoutSpec == FairSpec /\ \A t \in Threads : WF_vars(WaitTimeoutLost(t))

----------------------------------------------------------------------------
(* Properties.                                                                *)

Submitting == {"locked", "stream", "publish", "push", "mark", "answer", "unlock"}

\* LOCKED and BLOCK_PUBLISHING give one submitter the queues (queue_data_ and
\* queue_info_ allow one producer), and RESETTING takes them from everyone.
QueueOwnership ==
    /\ \A t, u \in Threads :
          pc[t] \in Submitting /\ pc[u] \in Submitting => t = u
    /\ bk \in {"reset", "reset_waiter"} =>
          busy = "RESETTING" /\ \A t \in Threads : pc[t] \notin Submitting

\* The ops whose bytes are in queue_data_: taken, queued, or being submitted.
Pushing(t) == pc[t] \in {"stream", "publish", "push"}
Stocked ==
    (IF bk = "taken" THEN {bop} ELSE {}) \cup ToSet(queue_info)
    \cup {Op(t) : t \in {u \in Threads : Pushing(u)}}
Share(o) == IF o \in Stocked THEN size[o] ELSE 0

\* queue_info_ is in the order of the submissions, from the op the backend has
\* taken to the one that is being submitted.
InfoOrdered ==
    /\ \A i, j \in 1..Len(queue_info) : i < j => queue_info[i] < queue_info[j]
    /\ bk = "taken" => \A i \in 1..Len(queue_info) : bop < queue_info[i]
    /\ \A t \in Threads : Pushing(t) =>
          /\ \A i \in 1..Len(queue_info) : queue_info[i] < Op(t)
          /\ bk = "taken" => bop < Op(t)

\* queue_data_ is in that order too, and has of each op one run of its bytes.
DataOrdered ==
    /\ \A i, j \in 1..Len(queue_data) : i < j => queue_data[i] <= queue_data[j]
    /\ \A o \in Ops : \E n \in 0..Len(queue_data) :
          {i \in 1..Len(queue_data) : queue_data[i] = o} = (n + 1)..(n + Share(o))

\* queue_info_ and queue_data_ stay aligned: the payload is the concatenation
\* of the queued batches, so a backend that pops `size` bytes for an op gets
\* exactly the bytes that op pushed.
QueuesAligned == InfoOrdered /\ DataOrdered

\* "Discards the current uncommitted batch": what a backend pops for an op is
\* never what a Stream pushed and then discarded.
PayloadIsOwn ==
    bk = "taken" => \A i \in 1..size[bop] :
        i <= Len(queue_data) => queue_data[i] = bop

\* "sem must be dedicated to one live BLOCK call at a time": a call leaves no
\* token behind that would wake the next one, and a wakeup is never a second
\* one.
NoStaleToken ==
    \A t \in Threads :
        /\ sem[t] <= 1
        /\ sem[t] = 1 => pc[t] \in {"mark", "start", "synced", "wait", "reap"}
                         /\ busy = "BLOCK_CLAIMED" /\ result[Op(t)] # "none"

\* The result a BLOCK call returns is the one the backend reported for its own
\* op (block_result_ is one word for all the calls on the port).
BlockReturnIsOwn ==
    \A o \in Ops : IsBlock(o) /\ ret[o] \in Answers => ret[o] = result[o]

\* A completion is never lost: a waiter whose op was finished has its token, or
\* the backend is on its way to post it, or the waiter was detached.
NoLostCompletion ==
    \A t \in Threads :
        pc[t] \in {"wait", "reap"} /\ result[Op(t)] # "none" =>
            \/ sem[t] = 1
            \/ bop = Op(t) /\ bk \in {"claim", "claim_publishing", "post", "undetach"}
            \/ pc[t] = "wait" /\ busy \in {"BLOCK_DETACHED", "RESETTING"}

\* The ASSERT of Finish(): a completion finds the port in a state it knows.
FinishExpected == bk # "unexpected"

\* The port as its callers see it: a write is accepted when its metadata is
\* queued, and answered when the backend has got to Finish().
Told(o) ==
    IF IsBlock(o) THEN ret[o]
    ELSE CASE status[o] = "DONE" -> "OK"
           [] status[o] = "ERROR" -> "FAILED"
           [] OTHER -> "none"

Admitted ==
    {o \in 1..nops : size[o] > 0 /\ \A t \in Threads :
        Op(t) = o => pc[t] \notin {"stream", "publish", "push"}}

Service == INSTANCE WriteService WITH
    Writes <- Ops,
    accepted <- Admitted,
    line <- (IF bk \in {"taken", "popped"} THEN <<bop>> ELSE <<>>) \o queue_info,
    answered <- result,
    told <- [o \in Ops |-> Told(o)],
    misled <- {Op(t) : t \in {u \in Threads : pc[u] = "result" /\ block_result # result[Op(u)]}}

\* Writes are served in order, none twice; each caller is told the answer to his
\* own write, once, whether he polls, is called back or waits, and whatever
\* timeout or Reset() comes in between, but that a Reset() between the release of
\* the port and `return block_result_` turns the answer into OK.  What was accepted
\* is answered or dropped.
ImplementsService == Service!FairSpec

\* Every call returns, BLOCK calls without a timeout included.
CallReturns == \A t \in Threads : pc[t] # "idle" ~> pc[t] = "idle"

\* The port accepts writes again after every call, a timed-out or a reset one
\* included: no path leaves busy_ in a state that nobody clears.
PortReopens == busy # "IDLE" ~> busy = "IDLE"
=============================================================================
