-------------------------- MODULE WritePortProofs --------------------------
(* Proofs about WritePort: type correctness, and who owns the port, its queues *)
(* and its semaphores, for any number of threads and operations, any queue     *)
(* sizes and any backend.                                                      *)
EXTENDS WritePort, SequenceTheorems, TLAPS

LEMMA Bounds == Sizes \subseteq Nat /\ MaxOps \in Nat /\ MaxResets \in Nat
BY ConstantsAssumption

\* The payload queue holds ops, whatever is appended to it or popped from it.
LEMMA BytesType ==
    ASSUME NEW o \in Ops, NEW n \in Nat, NEW q \in Seq(Ops)
    PROVE  q \o Bytes(o, n) \in Seq(Ops)
<1>1. Bytes(o, n) \in Seq(Ops)
  BY DEF Bytes
<1>. QED BY <1>1, ConcatProperties

LEMMA PopType ==
    ASSUME NEW n \in Nat, NEW q \in Seq(Ops), n <= Len(q)
    PROVE  SubSeq(q, n + 1, Len(q)) \in Seq(Ops)
<1>1. n + 1 \in Int /\ Len(q) \in Int
  OBVIOUS
<1>2. \A i \in (n + 1)..Len(q) : q[i] \in Ops
  <2>1. \A i \in (n + 1)..Len(q) : i \in 1..Len(q)
    OBVIOUS
  <2>. QED BY <2>1, ElementOfSeq
<1>. QED BY <1>1, <1>2, SubSeqProperties

----------------------------------------------------------------------------
(* The inductive invariant: types, and that a call or a completion under way  *)
(* has an op.                                                                 *)

CallHasOp == \A t \in Threads : pc[t] \notin {"idle", "locked"} => cur[t] \in Ops
CompletionHasOp == bk \notin {"idle", "reset", "reset_waiter"} => bop \in Ops

IInv == TypeOK /\ CallHasOp /\ CompletionHasOp

LEMMA InvInit == Init => IInv
<1> SUFFICES ASSUME Init PROVE IInv
  OBVIOUS
<1>1. 0 \in 0..MaxOps /\ 0 \in 0..MaxResets
  BY Bounds
<1>2. TypeOK
  BY <1>1 DEF Init, TypeOK, BusyState, Answers, ThreadPC, BackendPC
<1>3. CallHasOp /\ CompletionHasOp
  BY DEF Init, CallHasOp, CompletionHasOp
<1>. QED BY <1>2, <1>3 DEF IInv

\* Submission up to write_fun_.
LEMMA SubmitStep ==
    ASSUME IInv, NEW t \in Threads, Lock(t) \/ StartCall(t)
    PROVE  IInv'
<1> USE DEF IInv, CallHasOp, CompletionHasOp, TypeOK, BusyState, Answers, ThreadPC, BackendPC,
            Goto, Op, IsBlock, port, queues, calls, ops, backend
<1>1. CASE Lock(t)
  BY <1>1 DEF Lock
<1>2. ASSUME NEW k \in KindsOf(t), NEW n \in Sizes, PushPayload(t, k, n) PROVE IInv'
  <2>1. nops + 1 \in Ops /\ nops + 1 \in 0..MaxOps /\ n \in Nat
    BY <1>2, Bounds DEF PushPayload, Ops
  <2>2. k \in {"BLOCK", "POLLING", "CALLBACK"}
    BY ConstantsAssumption DEF KindsOf
  <2>3. queue_data \o Bytes(nops + 1, n) \in Seq(Ops)
    BY <2>1, BytesType
  <2>. QED BY <1>2, <2>1, <2>2, <2>3 DEF PushPayload, NewOp
<1>3. ASSUME NEW n \in Sizes, Full(t, n) PROVE IInv'
  BY <1>3 DEF Full
<1>4. ASSUME NEW k \in KindsOf(t), StreamAcquire(t, k) PROVE IInv'
  <2>1. nops + 1 \in Ops /\ nops + 1 \in 0..MaxOps
    BY <1>4, Bounds DEF StreamAcquire, Ops
  <2>2. k \in {"BLOCK", "POLLING", "CALLBACK"}
    BY ConstantsAssumption DEF KindsOf
  <2>3. queue_data \o Bytes(nops + 1, 0) \in Seq(Ops)
    BY <2>1, BytesType
  <2>. QED BY <1>4, <2>1, <2>2, <2>3 DEF StreamAcquire, NewOp
<1>5. ASSUME NEW n \in Sizes, StreamWrite(t, n) PROVE IInv'
  <2>1. cur[t] \in Ops /\ n \in Nat
    BY <1>5, Bounds DEF StreamWrite
  <2>2. queue_data \o Bytes(cur[t], n) \in Seq(Ops)
    BY <2>1, BytesType
  <2>3. size' \in [Ops -> Nat]
    <3>1. size[cur[t]] \in Nat /\ size[cur[t]] + n \in Nat
      BY <2>1
    <3>. QED BY <1>5, <2>1, <3>1 DEF StreamWrite
  <2>. QED BY <1>5, <2>2, <2>3 DEF StreamWrite
<1>6. CASE StreamCommit(t)
  BY <1>6 DEF StreamCommit
<1>7. CASE StreamRelease(t)
  BY <1>7 DEF StreamRelease
<1>8. CASE Publish(t)
  BY <1>8 DEF Publish
<1>9. CASE PushInfo(t)
  <2>0. cur[t] \in Ops /\ queue_info \in Seq(Ops)
    BY <1>9 DEF PushInfo
  <2>1. Append(queue_info, cur[t]) \in Seq(Ops)
    BY <2>0
  <2>. QED BY <1>9, <2>1 DEF PushInfo
<1>10. CASE MarkRunning(t)
  BY <1>10 DEF MarkRunning, Running
<1>11. CASE ArmWaiter(t)
  BY <1>11 DEF ArmWaiter
<1>12. CASE WriteFunPending(t)
  BY <1>12 DEF WriteFunPending
<1>13. ASSUME NEW ans \in Answers, WriteFunSync(t, ans) PROVE IInv'
  <2>1. size[cur[t]] \in Nat /\ size[cur[t]] <= Len(queue_data)
    BY <1>13 DEF WriteFunSync
  <2>2. SubSeq(queue_data, size[cur[t]] + 1, Len(queue_data)) \in Seq(Ops)
    BY <2>1, PopType
  <2>. QED BY <1>13, <2>2 DEF WriteFunSync
<1>. QED BY <1>1, <1>2, <1>3, <1>4, <1>5, <1>6, <1>7, <1>8, <1>9, <1>10, <1>11, <1>12, <1>13
     DEF StartCall

\* What a call's return, and a call that goes on, do to the books of the ops.
LEMMA ReturnType ==
    ASSUME IInv, NEW t \in Threads, NEW r \in Answers \cup {"none", "TIMEOUT"}, Return(t, r)
    PROVE  /\ pc' \in [Threads -> ThreadPC] /\ cur' \in [Threads -> Ops \cup {NoOp}]
           /\ batch' \subseteq Ops /\ ret' \in [Ops -> Answers \cup {"none", "TIMEOUT"}]
           /\ UNCHANGED <<nops, kind, size, owner, result>> /\ CallHasOp'
BY DEF IInv, TypeOK, CallHasOp, Return, Goto, Op, ThreadPC

LEMMA StayType ==
    ASSUME IInv, NEW t \in Threads, NEW l \in ThreadPC, pc[t] \notin {"idle", "locked"}, Stay(t, l)
    PROVE  /\ pc' \in [Threads -> ThreadPC]
           /\ UNCHANGED <<cur, nops, kind, batch, size, owner, result, ret>> /\ CallHasOp'
BY DEF IInv, TypeOK, CallHasOp, Stay, Goto

\* The call's way back.
LEMMA ReturnStep ==
    ASSUME IInv, NEW t \in Threads,
           EndCall(t) \/ WaitTimeout(t) \/ WaitTimeoutLost(t)
    PROVE  IInv'
<1> USE DEF IInv, CallHasOp, CompletionHasOp, TypeOK, BusyState, Answers, ThreadPC, BackendPC,
            Goto, Op, port, queues, calls, ops, backend
<1>1. CASE WaitPosted(t)
  BY <1>1 DEF WaitPosted, TakeToken
<1>2. CASE SyncLoad(t)
  BY <1>2 DEF SyncLoad
<1>3. CASE SyncStore(t)
  BY <1>3 DEF SyncStore, Return
<1>4. CASE Answer(t)
  <2>1. cur[t] \in Ops /\ result[cur[t]] \in Answers \cup {"none"}
    BY <1>4 DEF Answer
  <2>2. status' \in [Ops -> {"READY", "RUNNING", "DONE", "ERROR"}]
    BY <1>4, <2>1 DEF Answer, StatusOf
  <2>3. CASE pc[t] = "answer"
    <3>1. Stay(t, "unlock")
      BY <1>4, <2>3 DEF Answer
    <3>2. /\ pc' \in [Threads -> ThreadPC]
          /\ UNCHANGED <<cur, nops, kind, batch, size, owner, result, ret>> /\ CallHasOp'
      <4>1. "unlock" \in ThreadPC /\ pc[t] \notin {"idle", "locked"}
        BY <2>3
      <4>. QED BY <3>1, <4>1, StayType
    <3>. QED BY <1>4, <2>2, <3>2 DEF Answer
  <2>4. CASE pc[t] # "answer"
    <3>1. Return(t, result[cur[t]])
      BY <1>4, <2>4 DEF Answer
    <3>2. /\ pc' \in [Threads -> ThreadPC] /\ cur' \in [Threads -> Ops \cup {NoOp}]
          /\ batch' \subseteq Ops /\ ret' \in [Ops -> Answers \cup {"none", "TIMEOUT"}]
          /\ UNCHANGED <<nops, kind, size, owner, result>> /\ CallHasOp'
      BY <2>1, <3>1, ReturnType
    <3>. QED BY <1>4, <2>2, <3>2 DEF Answer
  <2>. QED BY <2>3, <2>4
<1>5. CASE Reap(t)
  BY <1>5 DEF Reap, TakeToken
<1>6. CASE DetachedStore(t)
  BY <1>6 DEF DetachedStore, Return
<1>7. CASE Release(t)
  BY <1>7 DEF Release
<1>8. CASE ReturnResult(t)
  BY <1>8 DEF ReturnResult, Return
<1>9. CASE Unlock(t)
  <2>1. cur[t] \in Ops /\ status' = status /\ busy' = "IDLE"
    BY <1>9 DEF Unlock, Unmarked
  <2>2. result[cur[t]] \in Answers \cup {"none"}
    BY <2>1
  <2>3. \/ \E r \in Answers \cup {"none", "TIMEOUT"} : Return(t, r)
        \/ Stay(t, "answer_unlocked")
    BY <1>9, <2>2 DEF Unlock
  <2>4. ASSUME NEW r \in Answers \cup {"none", "TIMEOUT"}, Return(t, r) PROVE IInv'
    BY <1>9, <2>1, <2>4, ReturnType DEF Unlock
  <2>5. CASE Stay(t, "answer_unlocked")
    BY <1>9, <2>1, <2>5, StayType DEF Unlock
  <2>. QED BY <2>3, <2>4, <2>5
<1>10. CASE WaitTimeout(t)
  BY <1>10 DEF WaitTimeout, Return
<1>11. CASE WaitTimeoutLost(t)
  <2>1. cur[t] \in Ops /\ UNCHANGED <<busy, block_result, queue_info, queue_data, sem, status,
                                      armed, bk, bop, resets>>
    BY <1>11 DEF WaitTimeoutLost
  <2>2. ASSUME NEW l \in {"reap", "detached"}, Stay(t, l), pc[t] = "wait" PROVE IInv'
    <3>1. l \in ThreadPC
      OBVIOUS
    <3>2. /\ pc' \in [Threads -> ThreadPC]
          /\ UNCHANGED <<cur, nops, kind, batch, size, owner, result, ret>> /\ CallHasOp'
      BY <2>2, <3>1, StayType
    <3>. QED BY <2>1, <3>2
  <2>3. CASE Return(t, "TIMEOUT")
    BY <2>1, <2>3, ReturnType
  <2>. QED BY <1>11, <2>2, <2>3 DEF WaitTimeoutLost
<1>. QED BY <1>1, <1>2, <1>3, <1>4, <1>5, <1>6, <1>7, <1>8, <1>9, <1>10, <1>11 DEF EndCall

LEMMA CompletionStep ==
    ASSUME IInv, Completion
    PROVE  IInv'
<1> USE DEF IInv, CallHasOp, CompletionHasOp, TypeOK, BusyState, Answers, BackendPC,
            IsBlock, port, queues, calls, ops
<1>1. CASE Take
  <2>1. queue_info \in Seq(Ops) /\ queue_info # <<>>
    BY <1>1 DEF Take
  <2>2. Head(queue_info) \in Ops /\ Tail(queue_info) \in Seq(Ops)
    BY <2>1, HeadTailProperties
  <2>. QED BY <1>1, <2>2 DEF Take
<1>2. CASE PopPayload
  <2>1. bop \in Ops /\ size[bop] \in Nat /\ size[bop] <= Len(queue_data)
    BY <1>2 DEF PopPayload
  <2>2. SubSeq(queue_data, size[bop] + 1, Len(queue_data)) \in Seq(Ops)
    BY <2>1, PopType
  <2>. QED BY <1>2, <2>2 DEF PopPayload
<1>3. ASSUME NEW ans \in Answers, FinishStatus(ans) PROVE IInv'
  <2>1. StatusOf(ans) \in {"READY", "RUNNING", "DONE", "ERROR"}
    BY DEF StatusOf
  <2>. QED BY <1>3, <2>1 DEF FinishStatus, NoOp
<1>4. ASSUME NEW ans \in Answers, FinishStore(ans) PROVE IInv'
  BY <1>4 DEF FinishStore, Stored
<1>5. CASE FinishClaim
  BY <1>5 DEF FinishClaim, FinishUnclaimed, NoOp
<1>6. CASE FinishClaimPublishing
  BY <1>6 DEF FinishClaimPublishing, FinishUnclaimed, NoOp
<1>7. CASE FinishUndetach
  BY <1>7 DEF FinishUndetach, Undetached, NoOp
<1>8. CASE FinishPost
  <2>1. \A t \in Threads : sem[t] \in Nat /\ sem[t] + 1 \in Nat
    OBVIOUS
  <2>2. [sem EXCEPT ![owner[bop]] = @ + 1] \in [Threads -> Nat]
    BY <2>1
  <2>. QED BY <1>8, <2>2 DEF FinishPost, Posted, NoOp
<1>9. CASE FinishUnexpected
  BY <1>9 DEF FinishUnexpected, NoOp
<1>. QED BY <1>1, <1>2, <1>3, <1>4, <1>5, <1>6, <1>7, <1>8, <1>9 DEF Completion

LEMMA ResetStep ==
    ASSUME IInv, ResetClaim \/ ResetClear
    PROVE  IInv'
<1> USE DEF IInv, CallHasOp, CompletionHasOp, TypeOK, BusyState, Answers, BackendPC,
            port, queues, calls, ops
<1>1. CASE ResetClaim
  <2>1. resets + 1 \in 0..MaxResets
    BY <1>1, Bounds DEF ResetClaim
  <2>. QED BY <1>1, <2>1 DEF ResetClaim
<1>2. CASE ResetClear
  BY <1>2 DEF ResetClear, ResetData, ResetResult
<1>. QED BY <1>1, <1>2

LEMMA InvStep == IInv /\ [Next]_vars => IInv'
<1>1. ASSUME IInv, UNCHANGED vars PROVE IInv'
  BY <1>1 DEF IInv, TypeOK, CallHasOp, CompletionHasOp, vars, port, queues, calls, ops, backend
<1>. QED BY <1>1, SubmitStep, ReturnStep, CompletionStep, ResetStep DEF Next, ThreadStep

\* Every word of the port, of its calls and of the backend keeps its type, for
\* any threads, queue sizes and backend behaviour: whatever a completion or a
\* Reset() leaves in block_result_ is an answer a call may return.
THEOREM TypeCorrect == Spec => []TypeOK
<1>1. IInv => TypeOK
  BY DEF IInv
<1>. QED BY <1>1, InvInit, InvStep, PTL DEF Spec

----------------------------------------------------------------------------
(* Ownership.  busy_ and the program counters always fit, for any number of   *)
(* threads, unless write_fun_ may answer at once on a port that is also reset *)
(* (SyncLoad then races RESETTING).                                           *)

SyncOrReset == ~SyncStart \/ MaxResets = 0

\* The calls that hold the port in one way or another.
Holding == Submitting \cup {"start", "wait", "synced", "sync_store", "reap", "detached",
                            "release"}
Holds(t) == pc[t] \in Holding
OneHolder == \A t, u \in Threads : Holds(t) /\ Holds(u) => t = u

\* What a call at each place may find in busy_.
BusyFits(t) ==
    LET b == IsBlock(cur[t]) IN
    /\ pc[t] \in {"locked", "stream", "publish", "answer", "unlock"} => busy = "LOCKED"
    /\ pc[t] \in {"push", "mark", "start"} /\ ~b => busy = "LOCKED"
    /\ pc[t] = "push" /\ b => busy = "BLOCK_PUBLISHING"
    /\ pc[t] = "mark" /\ b => busy \in {"BLOCK_PUBLISHING", "BLOCK_CLAIMED"}
    /\ pc[t] \in {"start", "wait"} /\ b =>
          \/ busy \in {"BLOCK_WAITING", "BLOCK_CLAIMED", "BLOCK_DETACHED"}
          \/ busy = "RESETTING" /\ bk = "reset_waiter"
    /\ pc[t] \in {"publish", "wait"} => b
    /\ pc[t] \in {"synced", "sync_store"} => busy = "BLOCK_WAITING" /\ MaxResets = 0
    /\ pc[t] \in {"reap", "release"} => busy = "BLOCK_CLAIMED"
    /\ pc[t] = "detached" => busy = "BLOCK_DETACHED"
BusyMatches == \A t \in Threads : BusyFits(t)

\* The BLOCK ops that a completion is still due for.
Handing == {"taken", "popped", "claim", "claim_publishing", "undetach"}
Queued(o) == \E i \in 1..Len(queue_info) : queue_info[i] = o
Live(o) == IsBlock(o) /\ (Queued(o) \/ (bop = o /\ bk \in Handing))

\* The call that submitted o is past the publication and may be posted.
Calling(o, where) == owner[o] \in Threads /\ cur[owner[o]] = o /\ pc[owner[o]] \in where

LiveKnown ==
    \A o \in Ops : Live(o) =>
        \/ /\ busy \in {"BLOCK_PUBLISHING", "BLOCK_WAITING", "RESETTING"}
           /\ Calling(o, {"mark", "start", "wait"})
        \/ busy = "BLOCK_DETACHED" /\ \A t \in Threads : ~Holds(t)

OneLive ==
    /\ \A i, j \in 1..Len(queue_info) :
          IsBlock(queue_info[i]) /\ IsBlock(queue_info[j]) => i = j
    /\ bk \in Handing /\ IsBlock(bop) =>
          \A i \in 1..Len(queue_info) : ~IsBlock(queue_info[i])

\* The steps of Finish() after the result was stored.
Finishing ==
    /\ bk \in {"claim", "claim_publishing", "undetach", "post"} =>
          IsBlock(bop) /\ result[bop] # "none"
    /\ bk = "undetach" => busy = "BLOCK_DETACHED"
    /\ bk = "post" => busy = "BLOCK_CLAIMED" /\ Calling(bop, {"mark", "start", "wait", "reap"})

Tokens ==
    \A t \in Threads : sem[t] # 0 =>
        /\ sem[t] = 1 /\ busy = "BLOCK_CLAIMED" /\ bk # "post"
        /\ pc[t] \in {"mark", "start", "wait", "reap"}
        /\ IsBlock(cur[t]) /\ result[cur[t]] # "none"

ResetHolds == bk \in {"reset", "reset_waiter"} => busy = "RESETTING"

\* Ops that are in use have been admitted, and know the thread they belong to.
OpsKnown ==
    /\ \A t \in Threads : pc[t] \notin {"idle", "locked"} =>
          cur[t] \in 1..nops /\ owner[cur[t]] = t
    /\ \A i \in 1..Len(queue_info) : queue_info[i] \in 1..nops
    /\ bk \notin {"idle", "reset", "reset_waiter"} => bop \in 1..nops

OInv == OneHolder /\ BusyMatches /\ LiveKnown /\ OneLive /\ Finishing /\ Tokens
        /\ ResetHolds /\ OpsKnown

----------------------------------------------------------------------------
(* What follows from a holder's place.                                        *)

\* A free port is held by no call.
LEMMA FreeIsFree == ASSUME OInv, busy = "IDLE" PROVE \A t \in Threads : ~Holds(t)
BY DEF OInv, BusyMatches, BusyFits, Holds, Holding, Submitting

\* No completion is due while a call is at a place where its op is not waited for.
LEMMA NoneLive ==
    ASSUME OInv, NEW t \in Threads, Holds(t), pc[t] \notin {"mark", "start", "wait"}
    PROVE  \A o \in Ops : ~Live(o)
BY DEF OInv, OneHolder, LiveKnown, Calling, Holds, Holding, Submitting

\* Then no token is out or on its way either, unless the call is reaping its own.
LEMMA NoTokens ==
    ASSUME OInv, NEW t \in Threads, Holds(t), pc[t] \notin {"mark", "start", "wait", "reap"}
    PROVE  bk # "post" /\ \A u \in Threads : sem[u] = 0
BY DEF OInv, OneHolder, Tokens, Finishing, Calling, Holds, Holding, Submitting

\* The op in the backend's hand is live, if it is a BLOCK op.
LEMMA HandLive ==
    ASSUME OInv, IInv, bk \in Handing, IsBlock(bop)
    PROVE  bop \in Ops /\ Live(bop)
BY DEF IInv, CompletionHasOp, Handing, Live

\* A completion is due: the call waits for it, or was detached.
LEMMA Due ==
    ASSUME OInv, NEW o \in Ops, Live(o)
    PROVE  \/ /\ busy \in {"BLOCK_PUBLISHING", "BLOCK_WAITING", "RESETTING"}
              /\ \A u \in Threads : Holds(u) => u = owner[o] /\ pc[u] \in {"mark", "start", "wait"}
           \/ busy = "BLOCK_DETACHED" /\ \A u \in Threads : ~Holds(u)
BY DEF OInv, OneHolder, LiveKnown, Calling, Holds, Holding, Submitting

\* A new op is not live: no queue and no hand knows it.
LEMMA NewOpUnknown ==
    ASSUME IInv, OInv, nops < MaxOps, NEW k, kind' = [kind EXCEPT ![nops + 1] = k],
           UNCHANGED <<queue_info, bk, bop>>
    PROVE  OneLive' /\ \A o \in Ops : Live(o)' => Live(o)
<1>1. nops \in Nat /\ nops + 1 \in Ops /\ kind \in [Ops -> {"BLOCK", "POLLING", "CALLBACK"}]
  BY Bounds DEF IInv, TypeOK, Ops
<1>2. \A i \in 1..Len(queue_info) : queue_info[i] \in Ops /\ queue_info[i] # nops + 1
  <2>1. \A i \in 1..Len(queue_info) : queue_info[i] \in 1..nops
    BY DEF OInv, OpsKnown
  <2>2. \A x \in 1..nops : x \in Ops /\ x # nops + 1
    BY <1>1, Bounds DEF Ops
  <2>. QED BY <2>1, <2>2
<1>3. bk \in Handing => bop \in Ops /\ bop # nops + 1
  BY <1>1, Bounds DEF OInv, OpsKnown, Handing, Ops
<1>4. \A o \in Ops : o # nops + 1 => kind'[o] = kind[o]
  BY <1>1
<1>5. OneLive'
  BY <1>2, <1>3, <1>4 DEF OInv, OneLive, IsBlock
<1>6. ASSUME NEW o \in Ops, Live(o)' PROVE Live(o)
  <2>1. o # nops + 1
    BY <1>2, <1>3, <1>6 DEF Live, Queued
  <2>. QED BY <1>4, <1>6, <2>1 DEF Live, Queued, IsBlock
<1>. QED BY <1>5, <1>6

\* The metadata of an op goes in while no completion is due.
LEMMA AppendedAlone ==
    ASSUME IInv, OInv, \A o \in Ops : ~Live(o), NEW p \in 1..nops,
           queue_info' = Append(queue_info, p), UNCHANGED <<kind, bk, bop, nops>>
    PROVE  /\ OneLive' /\ \A i \in 1..Len(queue_info') : queue_info'[i] \in 1..nops
           /\ \A o \in Ops : Live(o)' => o = p
<1>1. nops \in 0..MaxOps /\ p \in Ops /\ queue_info \in Seq(Ops)
  BY Bounds DEF IInv, TypeOK, Ops
<1>2. /\ Len(queue_info') = Len(queue_info) + 1 /\ queue_info'[Len(queue_info) + 1] = p
      /\ \A i \in 1..Len(queue_info) : queue_info'[i] = queue_info[i]
  BY <1>1, AppendProperties
<1>3. Len(queue_info) \in Nat
  BY <1>1
<1>4. \A i \in 1..Len(queue_info') : i \in 1..Len(queue_info) \/ i = Len(queue_info) + 1
  BY <1>2, <1>3
<1>5. \A i \in 1..Len(queue_info) : queue_info[i] \in 1..nops /\ queue_info[i] \in Ops
  BY <1>1, Bounds DEF OInv, OpsKnown, Ops
<1>6. \A i \in 1..Len(queue_info) : ~IsBlock(queue_info[i])
  BY <1>5 DEF Live, Queued
<1>7. bk \in Handing => ~IsBlock(bop)
  BY HandLive
<1>8. OneLive'
  BY <1>2, <1>4, <1>6, <1>7 DEF OneLive, IsBlock
<1>9. \A i \in 1..Len(queue_info') : queue_info'[i] \in 1..nops
  BY <1>2, <1>4, <1>5
<1>10. \A o \in Ops : Live(o)' => o = p
  BY <1>2, <1>4, <1>6, <1>7 DEF Live, Queued, IsBlock
<1>. QED BY <1>8, <1>9, <1>10

----------------------------------------------------------------------------
(* One thread moves on, and nothing else is disturbed.                        *)

LEMMA MoveKeepsHolder ==
    ASSUME OneHolder, IInv, NEW t \in Threads, NEW l, pc' = [pc EXCEPT ![t] = l],
           Holds(t) \/ l \notin Holding
    PROVE  OneHolder'
<1>1. \A u \in Threads : u # t => pc'[u] = pc[u]
  BY DEF IInv, TypeOK
<1>2. pc'[t] = l
  BY DEF IInv, TypeOK
<1>3. \A u \in Threads : Holds(u)' => Holds(u)
  BY <1>1, <1>2 DEF Holds
<1>. QED BY <1>3 DEF OneHolder

LEMMA MoveKeepsOps ==
    ASSUME OpsKnown, IInv, NEW t \in Threads, NEW l, pc' = [pc EXCEPT ![t] = l],
           \/ cur' = cur /\ pc[t] \notin {"idle", "locked"}
           \/ cur' = [cur EXCEPT ![t] = NoOp] /\ l = "idle",
           UNCHANGED <<owner, nops, queue_info, bk, bop>>
    PROVE  OpsKnown'
<1>1. \A u \in Threads : u # t => pc'[u] = pc[u] /\ cur'[u] = cur[u]
  BY DEF IInv, TypeOK
<1>2. pc'[t] = l
  BY DEF IInv, TypeOK
<1>3. ASSUME NEW u \in Threads, pc'[u] \notin {"idle", "locked"}
      PROVE  cur'[u] \in 1..nops /\ owner[cur'[u]] = u
  <2>1. pc[u] \notin {"idle", "locked"} /\ cur'[u] = cur[u]
    BY <1>1, <1>2, <1>3
  <2>. QED BY <2>1 DEF OpsKnown
<1>. QED BY <1>3 DEF OpsKnown

LEMMA MoveKeepsTokens ==
    ASSUME Tokens, IInv, NEW t \in Threads, sem[t] = 0, NEW l, pc' = [pc EXCEPT ![t] = l],
           cur' = cur \/ cur' = [cur EXCEPT ![t] = NoOp],
           UNCHANGED <<busy, bk, sem, kind, result>>
    PROVE  Tokens'
<1>1. \A u \in Threads : u # t => pc'[u] = pc[u] /\ cur'[u] = cur[u]
  BY DEF IInv, TypeOK
<1>. QED BY <1>1 DEF Tokens, IsBlock

LEMMA MoveKeepsLive ==
    ASSUME LiveKnown, IInv, NEW t \in Threads, pc[t] \notin {"mark", "start", "wait"},
           NEW l, pc' = [pc EXCEPT ![t] = l], Holds(t) \/ l \notin Holding,
           cur' = cur \/ cur' = [cur EXCEPT ![t] = NoOp],
           UNCHANGED <<busy, kind, queue_info, bk, bop, owner>>
    PROVE  LiveKnown'
<1>1. \A u \in Threads : u # t => pc'[u] = pc[u] /\ cur'[u] = cur[u]
  BY DEF IInv, TypeOK
<1>2. pc'[t] = l
  BY DEF IInv, TypeOK
<1>3. ASSUME NEW o \in Ops, Live(o)'
      PROVE  \/ /\ busy \in {"BLOCK_PUBLISHING", "BLOCK_WAITING", "RESETTING"}
                /\ Calling(o, {"mark", "start", "wait"})'
             \/ busy = "BLOCK_DETACHED" /\ \A u \in Threads : ~Holds(u)'
  <2>1. Live(o)
    BY <1>3 DEF Live, Queued, IsBlock
  <2>2. CASE /\ busy \in {"BLOCK_PUBLISHING", "BLOCK_WAITING", "RESETTING"}
             /\ Calling(o, {"mark", "start", "wait"})
    BY <2>2, <1>1 DEF Calling
  <2>3. CASE busy = "BLOCK_DETACHED" /\ \A u \in Threads : ~Holds(u)
    BY <2>3, <1>1, <1>2 DEF Holds
  <2>. QED BY <2>1, <2>2, <2>3 DEF LiveKnown
<1>. QED BY <1>3 DEF LiveKnown

\* The call whose metadata went in is the one to be posted.
LEMMA PushedIsCalling ==
    ASSUME IInv, OInv, NEW t \in Threads, pc[t] = "push", owner[cur[t]] = t,
           \A o \in Ops : Live(o)' => o = cur[t],
           pc' = [pc EXCEPT ![t] = "mark"], UNCHANGED <<busy, cur, owner, kind>>
    PROVE  LiveKnown'
<1>1. pc'[t] = "mark"
  BY DEF IInv, TypeOK
<1>2. ASSUME NEW o \in Ops, Live(o)'
      PROVE  busy = "BLOCK_PUBLISHING" /\ Calling(o, {"mark", "start", "wait"})'
  <2>1. o = cur[t] /\ IsBlock(cur[t])
    BY <1>2 DEF Live, IsBlock
  <2>2. busy = "BLOCK_PUBLISHING"
    BY <2>1 DEF OInv, BusyMatches, BusyFits
  <2>. QED BY <1>1, <2>1, <2>2 DEF Calling
<1>. QED BY <1>2 DEF LiveKnown

\* Submission, up to write_fun_.
LEMMA SubmitOwns ==
    ASSUME SyncOrReset, IInv, IInv', OInv, NEW t \in Threads, Lock(t) \/ StartCall(t)
    PROVE  OInv'
<1> USE DEF OInv, OneHolder, BusyMatches, BusyFits, LiveKnown, OneLive, Finishing, Tokens,
            ResetHolds, OpsKnown, Live, Queued, Calling, Holds, Holding, Submitting,
            Handing, IsBlock, Goto, Op, IInv, TypeOK, port, queues, calls, ops, backend
<1>1. CASE Lock(t)
  <2>1. \A u \in Threads : ~Holds(u)
    BY <1>1, FreeIsFree DEF Lock
  <2>2. \A u \in Threads : Holds(u)' => u = t
    BY <2>1, <1>1 DEF Lock
  <2>3. OneHolder'
    BY <2>2
  <2>4. BusyMatches' /\ LiveKnown' /\ OneLive' /\ Finishing' /\ Tokens' /\ ResetHolds' /\ OpsKnown'
    BY <1>1 DEF Lock
  <2>. QED BY <2>3, <2>4
<1>2. ASSUME NEW k \in KindsOf(t), NEW n \in Sizes, PushPayload(t, k, n) PROVE OInv'
  <2>1. \A o \in Ops : ~Live(o)
    BY <1>2, NoneLive DEF PushPayload, NewOp
  <2>2. nops < MaxOps /\ kind' = [kind EXCEPT ![nops + 1] = k] /\ UNCHANGED <<queue_info, bk, bop>>
    BY <1>2 DEF PushPayload, NewOp
  <2>3. OneLive' /\ \A o \in Ops : ~Live(o)'
    <3>. HIDE DEF IInv, OneHolder, BusyMatches, LiveKnown, OneLive, Finishing,
                Tokens, ResetHolds, OpsKnown, Live
    <3>. QED BY <2>1, <2>2, NewOpUnknown
  <2>4. OneLive' /\ LiveKnown'
    BY <2>3
  <2>5. OneHolder' /\ BusyMatches'
    BY <1>2 DEF PushPayload, NewOp
  <2>6. Finishing' /\ ResetHolds'
    BY <1>2 DEF PushPayload, NewOp
  <2>7. Tokens'
    BY <1>2 DEF PushPayload, NewOp
  <2>8. OpsKnown'
    BY <1>2 DEF PushPayload, NewOp, Ops
  <2>. QED BY <2>4, <2>5, <2>6, <2>7, <2>8
<1>3. ASSUME NEW n \in Sizes, Full(t, n) PROVE OInv'
  <2>1. \A o \in Ops : ~Live(o)
    BY <1>3, NoneLive DEF Full
  <2>2. LiveKnown'
    BY <2>1, <1>3 DEF Full
  <2>3. OneHolder' /\ BusyMatches' /\ OneLive' /\ Finishing' /\ Tokens' /\ ResetHolds' /\ OpsKnown'
    BY <1>3 DEF Full
  <2>. QED BY <2>2, <2>3
<1>4. ASSUME NEW k \in KindsOf(t), StreamAcquire(t, k) PROVE OInv'
  <2>1. \A o \in Ops : ~Live(o)
    BY <1>4, NoneLive DEF StreamAcquire, NewOp
  <2>2. nops < MaxOps /\ kind' = [kind EXCEPT ![nops + 1] = k] /\ UNCHANGED <<queue_info, bk, bop>>
    BY <1>4 DEF StreamAcquire, NewOp
  <2>3. OneLive' /\ \A o \in Ops : ~Live(o)'
    <3>. HIDE DEF IInv, OneHolder, BusyMatches, LiveKnown, OneLive, Finishing,
                Tokens, ResetHolds, OpsKnown, Live
    <3>. QED BY <2>1, <2>2, NewOpUnknown
  <2>4. OneLive' /\ LiveKnown'
    BY <2>3
  <2>5. OneHolder' /\ BusyMatches'
    BY <1>4 DEF StreamAcquire, NewOp
  <2>6. Finishing' /\ ResetHolds'
    BY <1>4 DEF StreamAcquire, NewOp
  <2>7. Tokens'
    BY <1>4 DEF StreamAcquire, NewOp
  <2>8. OpsKnown'
    BY <1>4 DEF StreamAcquire, NewOp, Ops
  <2>. QED BY <2>4, <2>5, <2>6, <2>7, <2>8
<1>5. ASSUME NEW n \in Sizes, StreamWrite(t, n) PROVE OInv'
  BY <1>5 DEF StreamWrite
<1>6. CASE StreamCommit(t)
  BY <1>6 DEF StreamCommit
<1>7. CASE StreamRelease(t)
  BY <1>7 DEF StreamRelease
<1>8. CASE Publish(t)
  BY <1>8 DEF Publish
<1>9. CASE PushInfo(t)
  <2>1. pc[t] = "push" /\ cur[t] \in 1..nops /\ owner[cur[t]] = t
    BY <1>9 DEF PushInfo
  <2>2. \A o \in Ops : ~Live(o)
    BY <2>1, NoneLive
  <2>3. /\ queue_info' = Append(queue_info, cur[t]) /\ pc' = [pc EXCEPT ![t] = "mark"]
        /\ UNCHANGED <<busy, sem, kind, result, bk, bop, nops, cur, owner>>
    BY <1>9 DEF PushInfo
  <2>4. /\ OneLive' /\ \A i \in 1..Len(queue_info') : queue_info'[i] \in 1..nops
        /\ \A o \in Ops : Live(o)' => o = cur[t]
    BY <2>1, <2>2, <2>3, AppendedAlone
  <2>5. OneLive'
    BY <2>4
  <2>6. \A i \in 1..Len(queue_info)' : queue_info'[i] \in 1..nops'
    BY <2>3, <2>4
  <2>7. LiveKnown'
    <3>. HIDE DEF IInv, OneHolder, BusyMatches, LiveKnown, OneLive, Finishing,
                Tokens, ResetHolds, OpsKnown, Live
    <3>. QED BY <2>1, <2>3, <2>4, PushedIsCalling
  <2>8. OneHolder'
    BY <2>1, <2>3, MoveKeepsHolder
  <2>9. BusyMatches'
    BY <1>9 DEF PushInfo
  <2>10. OpsKnown'
    BY <1>9, <2>6 DEF PushInfo
  <2>11. Finishing' /\ Tokens' /\ ResetHolds'
    BY <2>3
  <2>. QED BY <2>5, <2>7, <2>8, <2>9, <2>10, <2>11
<1>10. CASE MarkRunning(t)
  BY <1>10 DEF MarkRunning
<1>11. CASE ArmWaiter(t)
  BY <1>11 DEF ArmWaiter
<1>12. CASE WriteFunPending(t)
  BY <1>12 DEF WriteFunPending
<1>13. ASSUME NEW ans \in Answers, WriteFunSync(t, ans) PROVE OInv'
  BY <1>13 DEF WriteFunSync, SyncOrReset, Answers
<1>. QED BY <1>1, <1>2, <1>3, <1>4, <1>5, <1>6, <1>7, <1>8, <1>9, <1>10, <1>11, <1>12, <1>13 DEF StartCall

\* The answer, the wait and the release.
LEMMA ReturnOwns ==
    ASSUME SyncOrReset, IInv, IInv', OInv, NEW t \in Threads, EndCall(t) \/ WaitTimeout(t) \/ WaitTimeoutLost(t)
    PROVE  OInv'
<1> USE DEF OInv, OneHolder, BusyMatches, BusyFits, LiveKnown, OneLive, Finishing, Tokens,
            ResetHolds, OpsKnown, Live, Queued, Calling, Holds, Holding, Submitting,
            Handing, IsBlock, Goto, Op, IInv, TypeOK, port, queues, calls, ops, backend
<1>1. CASE WaitPosted(t)
  BY <1>1 DEF WaitPosted, TakeToken
<1>2. CASE SyncLoad(t)
  BY <1>2 DEF SyncLoad
<1>3. CASE SyncStore(t)
  <2>1. \A o \in Ops : ~Live(o)
    BY <1>3, NoneLive DEF SyncStore, Return
  <2>2. LiveKnown'
    BY <2>1, <1>3 DEF SyncStore, Return
  <2>3. OneHolder' /\ BusyMatches' /\ OneLive' /\ Finishing' /\ Tokens' /\ ResetHolds' /\ OpsKnown'
    BY <1>3 DEF SyncStore, Return
  <2>. QED BY <2>2, <2>3
<1>4. CASE Answer(t)
  <2>1. pc[t] = "answer" => pc' = [pc EXCEPT ![t] = "unlock"] /\ cur' = cur
    BY <1>4 DEF Answer, Stay, Return
  <2>2. pc[t] = "answer_unlocked" =>
            pc' = [pc EXCEPT ![t] = "idle"] /\ cur' = [cur EXCEPT ![t] = NoOp]
    BY <1>4 DEF Answer, Stay, Return
  <2>3. UNCHANGED <<busy, queue_info, sem, kind, owner, result, nops, bk, bop>>
    BY <1>4 DEF Answer, Stay, Return
  <2>4. pc[t] = "answer" \/ pc[t] = "answer_unlocked"
    BY <1>4 DEF Answer, Stay, Return
  <2>5. \/ pc[t] = "answer" /\ pc' = [pc EXCEPT ![t] = "unlock"] /\ cur' = cur
        \/ pc[t] = "answer_unlocked" /\ pc' = [pc EXCEPT ![t] = "idle"]
           /\ cur' = [cur EXCEPT ![t] = NoOp]
    <3>. HIDE DEF IInv, OneHolder, BusyMatches, LiveKnown, OneLive, Finishing,
                Tokens, ResetHolds, OpsKnown, Live
    <3>. QED BY <2>1, <2>2, <2>4
  <2>6. sem[t] = 0
    BY <2>4
  <2>7. OneHolder'
    <3>. HIDE DEF IInv, OneHolder, BusyMatches, LiveKnown, OneLive, Finishing,
                Tokens, ResetHolds, OpsKnown, Live
    <3>. QED BY <2>5, MoveKeepsHolder DEF Holds, Holding, Submitting
  <2>8. LiveKnown'
    <3>. HIDE DEF IInv, OneHolder, BusyMatches, LiveKnown, OneLive, Finishing,
                Tokens, ResetHolds, OpsKnown, Live
    <3>. QED BY <2>5, <2>3, MoveKeepsLive DEF Holds, Holding, Submitting
  <2>9. OpsKnown'
    <3>. HIDE DEF IInv, OneHolder, BusyMatches, LiveKnown, OneLive, Finishing,
                Tokens, ResetHolds, OpsKnown, Live
    <3>. QED BY <2>5, <2>3, MoveKeepsOps DEF Holds, Holding, Submitting
  <2>10. Tokens'
    <3>. HIDE DEF IInv, OneHolder, BusyMatches, LiveKnown, OneLive, Finishing,
                Tokens, ResetHolds, OpsKnown, Live
    <3>. QED BY <2>5, <2>3, <2>6, MoveKeepsTokens DEF Holds, Holding, Submitting
  <2>11. BusyMatches'
    BY <2>5, <2>3
  <2>12. OneLive'
    BY <2>3
  <2>13. Finishing'
    BY <2>5, <2>3
  <2>14. ResetHolds'
    BY <2>3
  <2>. QED BY <2>7, <2>8, <2>9, <2>10, <2>11, <2>12, <2>13, <2>14
<1>5. CASE Reap(t)
  BY <1>5 DEF Reap, TakeToken
<1>6. CASE DetachedStore(t)
  <2>1. \A o \in Ops : ~Live(o)
    BY <1>6, NoneLive DEF DetachedStore, Return
  <2>2. LiveKnown'
    BY <2>1, <1>6 DEF DetachedStore, Return
  <2>3. bk # "undetach" /\ bk # "post"
    BY <2>1, HandLive, NoTokens, <1>6 DEF DetachedStore, Return
  <2>4. Finishing'
    BY <2>3, <1>6 DEF DetachedStore, Return
  <2>5. OneHolder' /\ BusyMatches' /\ OneLive' /\ Tokens' /\ ResetHolds' /\ OpsKnown'
    BY <1>6 DEF DetachedStore, Return
  <2>. QED BY <2>2, <2>4, <2>5
<1>7. CASE Release(t)
  <2>1. \A o \in Ops : ~Live(o)
    BY <1>7, NoneLive DEF Release
  <2>2. LiveKnown'
    BY <2>1, <1>7 DEF Release
  <2>3. \A u \in Threads : sem[u] = 0
    BY <1>7, NoTokens DEF Release
  <2>4. Tokens'
    BY <2>3, <1>7 DEF Release
  <2>5. OneHolder' /\ BusyMatches' /\ OneLive' /\ Finishing' /\ ResetHolds' /\ OpsKnown'
    BY <1>7 DEF Release
  <2>. QED BY <2>2, <2>4, <2>5
<1>8. CASE ReturnResult(t)
  BY <1>8 DEF ReturnResult, Return
<1>9. CASE Unlock(t)
  <2>1. /\ pc[t] = "unlock" /\ busy' = "IDLE"
        /\ \/ pc' = [pc EXCEPT ![t] = "answer_unlocked"] /\ cur' = cur
           \/ pc' = [pc EXCEPT ![t] = "idle"] /\ cur' = [cur EXCEPT ![t] = NoOp]
        /\ UNCHANGED <<queue_info, sem, kind, owner, result, nops, bk, bop>>
    BY <1>9 DEF Unlock, Stay, Return
  <2>2. \A o \in Ops : ~Live(o)
    BY <2>1, NoneLive
  <2>3. bk # "post" /\ \A u \in Threads : sem[u] = 0
    BY <2>1, NoTokens
  <2>4. OneHolder'
    <3>. HIDE DEF IInv, OneHolder, BusyMatches, LiveKnown, OneLive, Finishing,
                Tokens, ResetHolds, OpsKnown, Live
    <3>. QED BY <2>1, MoveKeepsHolder DEF Holds, Holding, Submitting
  <2>5. BusyMatches'
    BY <2>1
  <2>6. LiveKnown'
    BY <2>1, <2>2
  <2>7. OneLive' /\ Finishing'
    BY <2>1, <2>3
  <2>8. Tokens'
    BY <2>1, <2>3
  <2>9. ResetHolds'
    BY <2>1
  <2>10. OpsKnown'
    <3>. HIDE DEF IInv, OneHolder, BusyMatches, LiveKnown, OneLive, Finishing,
                Tokens, ResetHolds, OpsKnown, Live
    <3>. QED BY <2>1, MoveKeepsOps DEF Holds, Holding, Submitting
  <2>. QED BY <2>4, <2>5, <2>6, <2>7, <2>8, <2>9, <2>10
<1>10. CASE WaitTimeout(t)
  BY <1>10 DEF WaitTimeout, Return, Detachable
<1>11. CASE WaitTimeoutLost(t)
  <2>1. /\ pc[t] = "wait" /\ sem[t] = 0
        /\ \/ busy = "BLOCK_CLAIMED" /\ pc' = [pc EXCEPT ![t] = "reap"]
           \/ busy = "BLOCK_DETACHED" /\ pc' = [pc EXCEPT ![t] = "detached"]
        /\ UNCHANGED <<busy, cur, queue_info, sem, kind, owner, result, nops, bk, bop>>
    BY <1>11 DEF WaitTimeoutLost, Stay
  <2>2. OneHolder'
    <3>. HIDE DEF IInv, OneHolder, BusyMatches, LiveKnown, OneLive, Finishing,
                Tokens, ResetHolds, OpsKnown, Live
    <3>. QED BY <2>1, MoveKeepsHolder DEF Holds, Holding, Submitting
  <2>3. BusyMatches'
    BY <2>1
  <2>4. Holds(t) /\ busy \in {"BLOCK_CLAIMED", "BLOCK_DETACHED"}
    BY <2>1
  <2>5. \A o \in Ops : ~Live(o)
    <3>. HIDE DEF IInv, OneHolder, BusyMatches, LiveKnown, OneLive, Finishing,
                Tokens, ResetHolds, OpsKnown, Live
    <3>. QED BY <2>4, Due
  <2>6. LiveKnown'
    BY <2>1, <2>5
  <2>7. OneLive' /\ Finishing'
    BY <2>1
  <2>8. Tokens'
    <3>. HIDE DEF IInv, OneHolder, BusyMatches, LiveKnown, OneLive, Finishing,
                Tokens, ResetHolds, OpsKnown, Live
    <3>. QED BY <2>1, MoveKeepsTokens DEF Holds, Holding, Submitting
  <2>9. ResetHolds'
    BY <2>1
  <2>10. OpsKnown'
    <3>. HIDE DEF IInv, OneHolder, BusyMatches, LiveKnown, OneLive, Finishing,
                Tokens, ResetHolds, OpsKnown, Live
    <3>. QED BY <2>1, MoveKeepsOps DEF Holds, Holding, Submitting
  <2>. QED BY <2>2, <2>3, <2>6, <2>7, <2>8, <2>9, <2>10
<1>. QED BY <1>1, <1>2, <1>3, <1>4, <1>5, <1>6, <1>7, <1>8, <1>9, <1>10, <1>11 DEF EndCall

\* A completion.
LEMMA CompletionOwns ==
    ASSUME SyncOrReset, IInv, IInv', OInv, Completion
    PROVE  OInv'
<1> USE DEF OInv, OneHolder, BusyMatches, BusyFits, LiveKnown, OneLive, Finishing, Tokens,
            ResetHolds, OpsKnown, Live, Queued, Calling, Holds, Holding, Submitting,
            Handing, IsBlock, Goto, Op, IInv, TypeOK, port, queues, calls, ops, backend
<1>1. CASE Take
  BY <1>1 DEF Take
<1>2. CASE PopPayload
  BY <1>2 DEF PopPayload
<1>3. ASSUME NEW ans \in Answers, FinishStatus(ans) PROVE OInv'
  BY <1>3 DEF FinishStatus, Answers
<1>4. ASSUME NEW ans \in Answers, FinishStore(ans) PROVE OInv'
  BY <1>4 DEF FinishStore, Stored, Answers
<1>5. CASE FinishClaim
  <2>1. bop \in Ops /\ Live(bop) /\ IsBlock(bop) /\ result[bop] # "none"
    BY <1>5, HandLive DEF FinishClaim, FinishUnclaimed
  <2>2. BusyMatches'
    BY <2>1, Due, <1>5 DEF FinishClaim, FinishUnclaimed
  <2>3. Finishing'
    BY <2>1, <1>5 DEF FinishClaim, FinishUnclaimed
  <2>4. OneHolder' /\ LiveKnown' /\ OneLive' /\ Tokens' /\ ResetHolds' /\ OpsKnown'
    BY <1>5 DEF FinishClaim, FinishUnclaimed
  <2>. QED BY <2>2, <2>3, <2>4
<1>6. CASE FinishClaimPublishing
  <2>1. bop \in Ops /\ Live(bop) /\ IsBlock(bop) /\ result[bop] # "none"
    BY <1>6, HandLive DEF FinishClaimPublishing, FinishUnclaimed
  <2>2. BusyMatches'
    BY <2>1, Due, <1>6 DEF FinishClaimPublishing, FinishUnclaimed
  <2>3. Finishing'
    BY <2>1, <1>6 DEF FinishClaimPublishing, FinishUnclaimed
  <2>4. OneHolder' /\ LiveKnown' /\ OneLive' /\ Tokens' /\ ResetHolds' /\ OpsKnown'
    BY <1>6 DEF FinishClaimPublishing, FinishUnclaimed
  <2>. QED BY <2>2, <2>3, <2>4
<1>7. CASE FinishUndetach
  <2>1. \A u \in Threads : ~Holds(u)
    BY HandLive, Due, <1>7 DEF FinishUndetach, Undetached
  <2>2. BusyMatches'
    BY <2>1, <1>7 DEF FinishUndetach, Undetached
  <2>3. OneHolder' /\ LiveKnown' /\ OneLive' /\ Finishing' /\ Tokens' /\ ResetHolds' /\ OpsKnown'
    BY <1>7 DEF FinishUndetach, Undetached
  <2>. QED BY <2>2, <2>3
<1>8. CASE FinishPost
  BY <1>8 DEF FinishPost, Posted
<1>9. CASE FinishUnexpected
  BY <1>9 DEF FinishUnexpected
<1>. QED BY <1>1, <1>2, <1>3, <1>4, <1>5, <1>6, <1>7, <1>8, <1>9 DEF Completion

\* Reset().
LEMMA ResetOwns ==
    ASSUME SyncOrReset, IInv, IInv', OInv, ResetClaim \/ ResetClear
    PROVE  OInv'
<1> USE DEF OInv, OneHolder, BusyMatches, BusyFits, LiveKnown, OneLive, Finishing, Tokens,
            ResetHolds, OpsKnown, Live, Queued, Calling, Holds, Holding, Submitting,
            Handing, IsBlock, Goto, Op, IInv, TypeOK, port, queues, calls, ops, backend
<1>1. CASE ResetClaim
  <2>1. \A o \in Ops : Live(o) => busy = "BLOCK_WAITING"
    BY <1>1, Due DEF ResetClaim, Resettable
  <2>2. LiveKnown'
    BY <2>1, <1>1 DEF ResetClaim, Resettable
  <2>3. OneHolder' /\ BusyMatches' /\ OneLive' /\ Finishing' /\ Tokens' /\ ResetHolds' /\ OpsKnown'
    BY <1>1 DEF ResetClaim, Resettable
  <2>. QED BY <2>2, <2>3
<1>2. CASE ResetClear
  BY <1>2 DEF ResetClear
<1>. QED BY <1>1, <1>2

----------------------------------------------------------------------------
(* The invariant and the two properties.                                      *)

LEMMA OInvInit == Init => OInv
<1> SUFFICES ASSUME Init PROVE OInv
  OBVIOUS
<1> USE DEF Init, NoOp
<1>1. OneHolder /\ BusyMatches
  BY DEF OneHolder, BusyMatches, BusyFits, Holds, Holding, Submitting
<1>2. LiveKnown /\ OneLive
  BY DEF LiveKnown, OneLive, Live, Queued, Handing
<1>3. Finishing /\ Tokens /\ ResetHolds
  BY DEF Finishing, Tokens, ResetHolds
<1>4. OpsKnown
  BY DEF OpsKnown
<1>. QED BY <1>1, <1>2, <1>3, <1>4 DEF OInv

LEMMA OInvStutter == ASSUME OInv, UNCHANGED vars PROVE OInv'
<1> USE DEF vars, port, queues, calls, ops, backend
<1>1. OneHolder' /\ BusyMatches'
  BY DEF OInv, OneHolder, BusyMatches, BusyFits, Holds, IsBlock
<1>2. LiveKnown' /\ OneLive'
  BY DEF OInv, LiveKnown, OneLive, Live, Queued, Calling, Holds, IsBlock
<1>3. Finishing' /\ Tokens' /\ ResetHolds' /\ OpsKnown'
  BY DEF OInv, Finishing, Tokens, ResetHolds, OpsKnown, Calling, IsBlock
<1>. QED BY <1>1, <1>2, <1>3 DEF OInv

LEMMA OInvStep == ASSUME SyncOrReset, IInv, IInv', OInv, [Next]_vars PROVE OInv'
BY SubmitOwns, ReturnOwns, CompletionOwns, ResetOwns, OInvStutter DEF Next, ThreadStep

LEMMA OwnedInv == ASSUME SyncOrReset PROVE Spec => [](IInv /\ OInv)
<1>1. Init => IInv /\ OInv
  BY InvInit, OInvInit
<1>2. IInv /\ OInv /\ [Next]_vars => (IInv /\ OInv)'
  BY InvStep, OInvStep
<1>. QED BY <1>1, <1>2, PTL DEF Spec

\* At most one call is between the claim of busy_ and its release of the queues,
\* and none is while Reset() clears them, for any threads, queue sizes and
\* backend: WritePort needs no lock besides busy_. SyncOrReset excludes a
\* write_fun_ that answers at once on a port that is also reset.
THEOREM QueuesOwned == ASSUME SyncOrReset PROVE Spec => []QueueOwnership
<1>1. OInv => QueueOwnership
  BY DEF OInv, OneHolder, BusyMatches, BusyFits, ResetHolds, QueueOwnership, Holds,
         Holding, Submitting
<1>. QED BY <1>1, OwnedInv, PTL

\* A caller's semaphore holds at most one token, and only while its own BLOCK call
\* is claimed with its result stored: no token of a completion that lost the race
\* with the timeout is left for the caller's next wait.
THEOREM TokensOwned == ASSUME SyncOrReset PROVE Spec => []NoStaleToken
<1>1. IInv /\ OInv => NoStaleToken
  BY DEF IInv, TypeOK, OInv, Tokens, NoStaleToken, Op, port, queues, calls, ops
<1>. QED BY <1>1, OwnedInv, PTL
=============================================================================
