-------------------------- MODULE WritePortDelivery --------------------------
(* Proofs about WritePort: that completions, results and payloads get to those *)
(* they are for, and that WritePort implements WriteService.                   *)
EXTENDS WritePortProofs

----------------------------------------------------------------------------
(* Completions.  A backend that learns of a write from write_fun_ (~EarlyTake) *)
(* takes an op only when its call has armed the waiter, so Finish() finds the  *)
(* waiter waiting, or detached.                                                *)

\* Which calls carry a BLOCK op.
KindFits(t) ==
    /\ pc[t] \in {"publish", "wait", "synced", "sync_store", "reap", "detached", "release",
                  "result"} => IsBlock(cur[t])
    /\ pc[t] \in {"unlock", "answer", "answer_unlocked"} => ~IsBlock(cur[t])
KindsFit == \A t \in Threads : KindFits(t)

\* BLOCK calls and the others go different ways.
LEMMA KindsInit == Init => KindsFit
BY DEF Init, KindsFit, KindFits

LEMMA KindsStep == ASSUME IInv, OInv, KindsFit, [Next]_vars PROVE KindsFit'
<1> SUFFICES ASSUME NEW t \in Threads PROVE KindFits(t)'
  BY DEF KindsFit
<1> USE DEF IInv, TypeOK, CallHasOp, OInv, KindFits, IsBlock, Goto, Op, port, queues, calls,
     ops, backend
<1>0. KindFits(t) /\ (pc[t] = "wait" => IsBlock(cur[t]))
  BY DEF KindsFit
<1> HIDE DEF KindsFit
<1>1. ASSUME NEW u \in Threads, Lock(u) PROVE KindFits(t)'
  BY <1>0, <1>1 DEF Lock
<1>2. ASSUME NEW u \in Threads, StartCall(u) PROVE KindFits(t)'
  <2>1. ASSUME NEW k \in KindsOf(u), NEW n \in Sizes, PushPayload(u, k, n) PROVE KindFits(t)'
    <3>1. CASE t = u
      BY <1>0, <2>1, <3>1, Bounds DEF PushPayload, NewOp, Ops
    <3>2. CASE t # u
      <4>1. pc'[t] = pc[t] /\ cur'[t] = cur[t]
        BY <2>1, <3>2 DEF PushPayload, NewOp
      <4>2. pc[t] \notin {"idle", "locked"} => cur[t] \in 1..nops
        BY DEF OpsKnown
      <4>3. pc[t] \notin {"idle", "locked"} => kind'[cur[t]] = kind[cur[t]]
        BY <2>1, <4>2, Bounds DEF PushPayload, NewOp, Ops
      <4>. QED BY <1>0, <4>1, <4>3
    <3>. QED BY <3>1, <3>2
  <2>2. ASSUME NEW k \in KindsOf(u), StreamAcquire(u, k) PROVE KindFits(t)'
    <3>1. CASE t = u
      BY <1>0, <2>2, <3>1, Bounds DEF StreamAcquire
    <3>2. CASE t # u
      <4>1. pc'[t] = pc[t] /\ cur'[t] = cur[t]
        BY <2>2, <3>2 DEF StreamAcquire, NewOp
      <4>2. pc[t] \notin {"idle", "locked"} => cur[t] \in 1..nops
        BY DEF OpsKnown
      <4>3. pc[t] \notin {"idle", "locked"} => kind'[cur[t]] = kind[cur[t]]
        BY <2>2, <4>2, Bounds DEF StreamAcquire, NewOp, Ops
      <4>. QED BY <1>0, <4>1, <4>3
    <3>. QED BY <3>1, <3>2
  <2>3. ASSUME NEW n \in Sizes, Full(u, n) \/ StreamWrite(u, n) PROVE KindFits(t)'
    BY <1>0, <2>3 DEF Full, StreamWrite
  <2>4. CASE StreamCommit(u) \/ StreamRelease(u)
    BY <1>0, <2>4 DEF StreamCommit, StreamRelease
  <2>5. CASE Publish(u) \/ PushInfo(u)
    BY <1>0, <2>5 DEF Publish, PushInfo
  <2>6. CASE MarkRunning(u) \/ ArmWaiter(u)
    BY <1>0, <2>6 DEF MarkRunning, ArmWaiter
  <2>7. CASE WriteFunPending(u)
    BY <1>0, <2>7 DEF WriteFunPending
  <2>8. ASSUME NEW ans \in Answers, WriteFunSync(u, ans) PROVE KindFits(t)'
    BY <1>0, <2>8 DEF WriteFunSync
  <2>. QED BY <1>2, <2>1, <2>2, <2>3, <2>4, <2>5, <2>6, <2>7, <2>8 DEF StartCall
<1>3. ASSUME NEW u \in Threads, EndCall(u) \/ WaitTimeout(u) \/ WaitTimeoutLost(u) PROVE KindFits(t)'
  <2>1. CASE WaitPosted(u) \/ Reap(u) \/ Release(u)
    BY <1>0, <2>1 DEF WaitPosted, Reap, Release
  <2>2. CASE SyncLoad(u)
    BY <1>0, <2>2 DEF SyncLoad
  <2>3. CASE SyncStore(u) \/ DetachedStore(u) \/ ReturnResult(u) \/ WaitTimeout(u)
    BY <1>0, <2>3 DEF SyncStore, DetachedStore, ReturnResult, WaitTimeout, Return
  <2>4. CASE Answer(u)
    BY <1>0, <2>4 DEF Answer, Stay, Return
  <2>5. CASE Unlock(u)
    BY <1>0, <2>5 DEF Unlock, Stay, Return
  <2>6. CASE WaitTimeoutLost(u)
    BY <1>0, <2>6 DEF WaitTimeoutLost, Stay, Return
  <2>. QED BY <1>3, <2>1, <2>2, <2>3, <2>4, <2>5, <2>6 DEF EndCall
<1>4. CASE Completion \/ ResetClaim \/ ResetClear
  <2>1. UNCHANGED <<pc, cur, kind>>
    BY <1>4 DEF Completion, Take, PopPayload, FinishStatus, FinishStore, FinishClaim,
       FinishClaimPublishing,
       FinishUndetach, FinishPost, FinishUnexpected, FinishUnclaimed, ResetClaim, ResetClear
  <2>. QED BY <1>0, <2>1
<1>5. CASE UNCHANGED vars
  BY <1>0, <1>5 DEF vars
<1>. QED BY <1>1, <1>2, <1>3, <1>4, <1>5 DEF Next, ThreadStep

\* A call that has started write_fun_ leaves the submission behind and moves alone.
LEMMA EndMoves ==
    ASSUME TypeOK, NEW u \in Threads, EndCall(u) \/ WaitTimeout(u) \/ WaitTimeoutLost(u)
    PROVE  /\ UNCHANGED <<nops, result, armed, bk, bop>>
           /\ pc'[u] \notin {"locked", "stream", "publish", "push", "mark", "start"}
           /\ \A v \in Threads : v # u => pc'[v] = pc[v] /\ cur'[v] = cur[v] /\ sem'[v] = sem[v]
<1>0. pc = [v \in Threads |-> pc[v]] /\ cur = [v \in Threads |-> cur[v]]
      /\ sem = [v \in Threads |-> sem[v]]
  BY DEF TypeOK
<1> USE DEF Goto, Return, Stay, TakeToken, queues, ops, backend, calls
<1>1. CASE WaitPosted(u) \/ Reap(u)
  BY <1>0, <1>1 DEF WaitPosted, Reap
<1>2. CASE SyncLoad(u) \/ Release(u)
  BY <1>0, <1>2 DEF SyncLoad, Release
<1>3. CASE SyncStore(u) \/ DetachedStore(u) \/ ReturnResult(u)
  BY <1>0, <1>3 DEF SyncStore, DetachedStore, ReturnResult
<1>4. CASE Answer(u)
  BY <1>0, <1>4 DEF Answer
<1>5. CASE Unlock(u)
  BY <1>0, <1>5 DEF Unlock
<1>6. CASE WaitTimeout(u)
  BY <1>0, <1>6 DEF WaitTimeout
<1>7. CASE WaitTimeoutLost(u)
  BY <1>0, <1>7 DEF WaitTimeoutLost
<1>. QED BY <1>1, <1>2, <1>3, <1>4, <1>5, <1>6, <1>7 DEF EndCall

\* A call that submits moves alone.
LEMMA StartMoves ==
    ASSUME TypeOK, NEW u \in Threads, StartCall(u)
    PROVE  /\ pc[u] \in {"locked", "stream", "publish", "push", "mark", "start"}
           /\ \A v \in Threads : v # u => pc'[v] = pc[v]
<1>0. pc = [v \in Threads |-> pc[v]]
  BY DEF TypeOK
<1> USE DEF Goto, calls
<1>1. CASE \E k \in KindsOf(u) : StreamAcquire(u, k)
  BY <1>0, <1>1 DEF StreamAcquire
<1>2. CASE \E n \in Sizes : Full(u, n) \/ StreamWrite(u, n)
  BY <1>0, <1>2 DEF Full, StreamWrite
<1>3. CASE \E k \in KindsOf(u), n \in Sizes : PushPayload(u, k, n)
  BY <1>0, <1>3 DEF PushPayload
<1>4. CASE StreamCommit(u) \/ StreamRelease(u) \/ Publish(u) \/ PushInfo(u)
  BY <1>0, <1>4 DEF StreamCommit, StreamRelease, Publish, PushInfo
<1>5. CASE MarkRunning(u) \/ ArmWaiter(u) \/ WriteFunPending(u)
  BY <1>0, <1>5 DEF MarkRunning, ArmWaiter, WriteFunPending
<1>6. CASE \E ans \in Answers : WriteFunSync(u, ans)
  BY <1>0, <1>6 DEF WriteFunSync
<1>. QED BY <1>1, <1>2, <1>3, <1>4, <1>5, <1>6 DEF StartCall

\* No call that has yet to arm is finished, and the backend has armed ops only.
BeforeArming == {"stream", "publish", "push", "mark", "start"}

ArmedKnown ==
    /\ armed \subseteq 1..nops
    /\ \A o \in Ops : o > nops => result[o] = "none"
    /\ \A t \in Threads : pc[t] \in BeforeArming => cur[t] \notin armed /\ result[cur[t]] = "none"
    /\ bk \notin {"idle", "reset", "reset_waiter"} => bop \in armed
    /\ bk \notin {"claim_publishing", "unexpected"}

LEMMA ArmedStep ==
    ASSUME ~EarlyTake, IInv, IInv', OInv, ArmedKnown, [Next]_vars PROVE ArmedKnown'
<1> USE DEF ArmedKnown, BeforeArming, IInv, TypeOK, OInv, OpsKnown,
            Goto, Op, IsBlock, port, queues, calls, ops, backend
<1>1. ASSUME NEW t \in Threads, Lock(t) PROVE ArmedKnown'
  BY <1>1 DEF Lock
<1>2. ASSUME NEW t \in Threads, NEW k \in KindsOf(t), NEW n \in Nat, NewOp(t, k, n),
             \/ pc' = [pc EXCEPT ![t] = IF k = "BLOCK" THEN "publish" ELSE "push"]
             \/ pc' = [pc EXCEPT ![t] = "stream"],
             UNCHANGED backend, Holds(t), nops < MaxOps
      PROVE ArmedKnown'
  <2>1. \A u \in Threads : u # t => ~Holds(u)
    BY <1>2 DEF OneHolder
  <2>2. nops \in Nat /\ nops + 1 \in Ops /\ nops' = nops + 1 /\ nops + 1 \notin armed /\ result' = result
    BY <1>2, Bounds DEF NewOp, Ops
  <2>3. result[nops + 1] = "none" /\ cur'[t] = nops + 1
    BY <1>2, <2>2 DEF NewOp
  <2>4. \A u \in Threads : pc'[u] \in BeforeArming => u = t
    BY <1>2, <2>1 DEF Holds, Holding, Submitting
  <2>. QED BY <1>2, <2>2, <2>3, <2>4, Bounds DEF Ops
<1>3. ASSUME NEW t \in Threads, StartCall(t) PROVE ArmedKnown'
  <2>1. ASSUME NEW k \in KindsOf(t), NEW n \in Sizes, PushPayload(t, k, n) PROVE ArmedKnown'
    BY <1>2, <2>1, Bounds DEF PushPayload, Holds, Holding, Submitting
  <2>2. ASSUME NEW k \in KindsOf(t), StreamAcquire(t, k) PROVE ArmedKnown'
    BY <1>2, <2>2 DEF StreamAcquire, Holds, Holding, Submitting
  <2>3. ASSUME NEW n \in Sizes, Full(t, n) \/ StreamWrite(t, n) PROVE ArmedKnown'
    BY <2>3 DEF Full, StreamWrite
  <2>4. CASE StreamCommit(t) \/ StreamRelease(t)
    BY <2>4 DEF StreamCommit, StreamRelease
  <2>8. CASE Publish(t) \/ PushInfo(t)
    BY <2>8 DEF Publish, PushInfo
  <2>5. CASE MarkRunning(t) \/ ArmWaiter(t)
    BY <2>5 DEF MarkRunning, ArmWaiter
  <2>6. CASE WriteFunPending(t)
    <3>1. \A u \in Threads : u # t => pc[u] \notin BeforeArming
      BY <2>6 DEF WriteFunPending, OneHolder, Holds, Holding, Submitting
    <3>2. cur[t] \in 1..nops /\ armed' = armed \cup {cur[t]}
      BY <2>6 DEF WriteFunPending
    <3>3. pc'[t] \notin BeforeArming /\ \A u \in Threads : u # t => pc'[u] \notin BeforeArming
      BY <2>6, <3>1 DEF WriteFunPending
    <3>4. UNCHANGED <<bk, bop, nops, result>>
      BY <2>6 DEF WriteFunPending
    <3>5. armed \subseteq 1..nops
      OBVIOUS
    <3>6. armed' \subseteq 1..nops'
      <4>1. armed \cup {cur[t]} \subseteq 1..nops
        <5> HIDE DEF IInv, TypeOK, OInv, OpsKnown, ArmedKnown
        <5>1. {cur[t]} \subseteq 1..nops
          BY <3>2
        <5>. QED BY <3>5, <5>1
      <4>. QED BY <3>2, <3>4, <4>1
    <3>. QED BY <3>2, <3>3, <3>4, <3>6
  <2>7. ASSUME NEW ans \in Answers, WriteFunSync(t, ans) PROVE ArmedKnown'
    <3>1. \A u \in Threads : u # t => pc[u] \notin BeforeArming
      BY <2>7 DEF WriteFunSync, OneHolder, Holds, Holding, Submitting
    <3>. QED BY <2>7, <3>1, Bounds DEF WriteFunSync, Ops
  <2>. QED BY <1>3, <2>1, <2>2, <2>3, <2>4, <2>5, <2>6, <2>7, <2>8 DEF StartCall
<1>4. ASSUME NEW t \in Threads, EndCall(t) \/ WaitTimeout(t) \/ WaitTimeoutLost(t) PROVE ArmedKnown'
  <2>1. UNCHANGED <<nops, result, armed, bk, bop>>
    BY <1>4, EndMoves
  <2>2. \A u \in Threads : pc'[u] \in BeforeArming => pc'[u] = pc[u] /\ cur'[u] = cur[u]
    <3>1. TypeOK
      BY DEF IInv
    <3> HIDE DEF IInv, TypeOK, OInv, ArmedKnown
    <3>2. /\ pc'[t] \notin {"locked", "stream", "publish", "push", "mark", "start"}
          /\ \A v \in Threads : v # t => pc'[v] = pc[v] /\ cur'[v] = cur[v]
      BY <1>4, <3>1, EndMoves
    <3>. QED BY <3>2
  <2> HIDE DEF IInv, TypeOK, OInv, OpsKnown
  <2>. QED BY <2>1, <2>2
<1>5. CASE Completion
  <2>1. CASE Take
    <3>1. Head(queue_info) \in armed
      BY <2>1 DEF Take
    <3>. QED BY <2>1, <3>1 DEF Take
  <2>2. CASE PopPayload
    BY <2>2 DEF PopPayload
  <2>3. ASSUME NEW ans \in Answers, FinishStatus(ans) \/ FinishStore(ans) PROVE ArmedKnown'
    <3>1. bop \in armed /\ bop \in Ops /\ bop <= nops /\ result' = [result EXCEPT ![bop] = ans]
      BY <2>3, Bounds DEF FinishStatus, FinishStore, Ops
    <3>. QED BY <2>3, <3>1 DEF FinishStatus, FinishStore, Ops
  <2>4. CASE FinishClaim
    <3>1. bop \in Ops /\ Live(bop)
      BY <2>4, HandLive DEF FinishClaim, Handing, Finishing
    <3>2. busy # "BLOCK_PUBLISHING"
      <4>1. SUFFICES ASSUME busy = "BLOCK_PUBLISHING" PROVE FALSE
        OBVIOUS
      <4>2. Calling(bop, {"mark", "start", "wait"})
        BY <3>1, <4>1 DEF LiveKnown
      <4>3. pc[owner[bop]] = "wait"
        BY <2>4, <4>2 DEF FinishClaim, Calling
      <4>. QED BY <4>1, <4>2, <4>3 DEF BusyMatches, BusyFits, Calling
    <3>3. busy \in {"BLOCK_PUBLISHING", "BLOCK_WAITING", "RESETTING", "BLOCK_DETACHED"}
      BY <3>1, Due
    <3>. QED BY <2>4, <3>2, <3>3 DEF FinishClaim, FinishUnclaimed
  <2>5. CASE FinishClaimPublishing \/ FinishUndetach \/ FinishPost \/ FinishUnexpected
    BY <2>5 DEF FinishClaimPublishing, FinishUndetach, FinishPost, FinishUnexpected
  <2>. QED BY <1>5, <2>1, <2>2, <2>3, <2>4, <2>5 DEF Completion
<1>6. CASE ResetClaim \/ ResetClear
  BY <1>6 DEF ResetClaim, ResetClear
<1>7. CASE UNCHANGED vars
  BY <1>7 DEF vars
<1>. QED BY <1>1, <1>3, <1>4, <1>5, <1>6, <1>7 DEF Next, ThreadStep

\* A call that waits has its result announced, in one of these ways.
Announced(t) ==
    \/ sem[t] = 1
    \/ bop = cur[t] /\ bk \in {"claim", "claim_publishing", "post", "undetach"}
    \/ pc[t] = "wait" /\ busy \in {"BLOCK_DETACHED", "RESETTING"}

\* No step takes the announcement from a call that waits for it.
LEMMA LostStep ==
    ASSUME ~EarlyTake, IInv, IInv', OInv, KindsFit, ArmedKnown, NoLostCompletion, [Next]_vars
    PROVE  NoLostCompletion'
<1> SUFFICES ASSUME NEW t \in Threads, pc'[t] \in {"wait", "reap"}, result'[cur'[t]] # "none"
             PROVE  Announced(t)'
  BY DEF NoLostCompletion, Announced, Op
<1> USE DEF Announced, IInv, TypeOK, OInv, Goto, Op, port, queues, calls, ops, backend
<1>1. pc[t] \in {"wait", "reap"} /\ result[cur[t]] # "none" => Announced(t)
  BY DEF NoLostCompletion
<1>2. ASSUME NEW u \in Threads, Lock(u) PROVE Announced(t)'
  BY <1>1, <1>2 DEF Lock
<1>3. ASSUME NEW u \in Threads, StartCall(u) PROVE Announced(t)'
  <2>1. ~WriteFunPending(u) => pc'[u] \notin {"wait", "reap"}
    <3>1. ASSUME NEW k \in KindsOf(u), StreamAcquire(u, k) PROVE pc'[u] \notin {"wait", "reap"}
      BY <3>1 DEF StreamAcquire
    <3>2. ASSUME NEW n \in Sizes, Full(u, n) \/ StreamWrite(u, n) PROVE pc'[u] \notin {"wait", "reap"}
      BY <3>2 DEF Full, StreamWrite
    <3>3. ASSUME NEW k \in KindsOf(u), NEW n \in Sizes, PushPayload(u, k, n)
          PROVE  pc'[u] \notin {"wait", "reap"}
      BY <3>3 DEF PushPayload
    <3>4. CASE StreamCommit(u) \/ StreamRelease(u) \/ Publish(u) \/ PushInfo(u)
      BY <3>4 DEF StreamCommit, StreamRelease, Publish, PushInfo
    <3>5. CASE MarkRunning(u) \/ ArmWaiter(u)
      BY <3>5 DEF MarkRunning, ArmWaiter
    <3>6. ASSUME NEW ans \in Answers, WriteFunSync(u, ans) PROVE pc'[u] \notin {"wait", "reap"}
      BY <3>6 DEF WriteFunSync
    <3>. QED BY <1>3, <3>1, <3>2, <3>3, <3>4, <3>5, <3>6 DEF StartCall
  <2>2. Holds(u) /\ pc[u] \notin {"wait", "reap"} /\ \A v \in Threads : v # u => pc'[v] = pc[v]
    <3>1. /\ pc[u] \in {"locked", "stream", "publish", "push", "mark", "start"}
          /\ \A v \in Threads : v # u => pc'[v] = pc[v]
      BY <1>3, StartMoves
    <3> HIDE DEF IInv, TypeOK, OInv
    <3>. QED BY <3>1 DEF Holds, Holding, Submitting
  <2>3. t = u
    BY <2>2 DEF OneHolder, Holds, Holding, Submitting
  <2>. QED BY <2>1, <2>3 DEF WriteFunPending, ArmedKnown, BeforeArming
<1>4. ASSUME NEW u \in Threads, EndCall(u) \/ WaitTimeout(u) PROVE Announced(t)'
  <2>1. pc'[u] \notin {"wait", "reap"}
    <3>1. CASE SyncLoad(u)
      BY <3>1 DEF SyncLoad, BusyMatches, BusyFits
    <3>2. CASE WaitPosted(u) \/ Reap(u) \/ Release(u)
      BY <3>2 DEF WaitPosted, Reap, Release
    <3>3. CASE SyncStore(u) \/ DetachedStore(u) \/ ReturnResult(u) \/ WaitTimeout(u)
      BY <3>3 DEF SyncStore, DetachedStore, ReturnResult, WaitTimeout, Return
    <3>4. CASE Answer(u)
      BY <3>4 DEF Answer, Stay, Return
    <3>5. CASE Unlock(u)
      BY <3>5 DEF Unlock, Stay, Return
    <3>. QED BY <1>4, <3>1, <3>2, <3>3, <3>4, <3>5 DEF EndCall
  <2>2. t # u /\ pc'[t] = pc[t] /\ cur'[t] = cur[t] /\ sem'[t] = sem[t]
    <3>1. t # u
      BY <2>1
    <3> HIDE DEF OInv, Announced
    <3>. QED BY <1>4, <3>1, EndMoves
  <2>3. UNCHANGED <<result, bk, bop>>
    BY <1>4, EndMoves
  <2>4. ~Holds(u)
    BY <2>2 DEF OneHolder, Holds, Holding, Submitting
  <2>5. UNCHANGED busy
    BY <1>4, <2>4 DEF EndCall, WaitPosted, SyncLoad, SyncStore, Answer, Reap, DetachedStore,
       Release,
       ReturnResult, Unlock, WaitTimeout, Holds, Holding, Submitting
  <2>. QED BY <1>1, <2>2, <2>3, <2>5
<1>5. ASSUME NEW u \in Threads, WaitTimeoutLost(u) PROVE Announced(t)'
  <2>1. pc[u] = "wait" /\ pc[t] \in {"wait", "reap"} /\ UNCHANGED <<busy, sem, result, bk, bop>>
    BY <1>5 DEF WaitTimeoutLost, Stay, Return
  <2>2. t = u
    BY <2>1 DEF OneHolder, Holds, Holding
  <2>3. pc'[t] = "reap" /\ busy = "BLOCK_CLAIMED" /\ cur'[t] = cur[t]
    BY <1>5, <2>2 DEF WaitTimeoutLost, Stay, Return
  <2>. QED BY <1>1, <2>1, <2>2, <2>3
<1>6. CASE Completion
  <2>1. pc[t] \in {"wait", "reap"} /\ Holds(t) /\ cur[t] \in Ops /\ UNCHANGED <<pc, cur>>
    BY <1>6 DEF Completion, Take, PopPayload, FinishStatus, FinishStore, FinishClaim,
       FinishClaimPublishing,
       FinishUndetach, FinishPost, FinishUnexpected, FinishUnclaimed, CallHasOp, Holds, Holding
  <2>2. CASE Take \/ PopPayload
    BY <1>1, <2>1, <2>2 DEF Take, PopPayload
  <2>3. ASSUME NEW ans \in Answers, FinishStatus(ans) \/ FinishStore(ans) PROVE Announced(t)'
    <3>1. bop \in Ops
      BY <2>3 DEF FinishStatus, FinishStore, CompletionHasOp
    <3>2. CASE bop = cur[t] /\ FinishStatus(ans)
      BY <2>1, <3>2 DEF FinishStatus, KindsFit, KindFits
    <3>3. CASE bop = cur[t] /\ FinishStore(ans)
      BY <2>1, <3>3 DEF FinishStore
    <3>4. CASE bop # cur[t]
      BY <1>1, <2>1, <2>3, <3>1, <3>4 DEF FinishStatus, FinishStore
    <3>. QED BY <2>3, <3>2, <3>3, <3>4
  <2>4. CASE FinishClaim
    <3>1. bop \in Ops /\ Live(bop)
      BY <2>4, HandLive DEF FinishClaim, Handing, Finishing
    <3>2. busy \in {"BLOCK_PUBLISHING", "BLOCK_WAITING", "RESETTING"}
      BY <2>1, <3>1, Due
    <3>3. busy = "BLOCK_WAITING" 
      BY <2>1, <2>4, <3>1, <3>2, Due DEF FinishClaim, BusyMatches, BusyFits
    <3>. QED BY <1>1, <2>1, <2>4, <3>3 DEF FinishClaim
  <2>5. CASE FinishUndetach
    BY <2>1, <2>5, HandLive, Due DEF FinishUndetach, Finishing, Handing
  <2>6. CASE FinishPost
    <3>1. bop = cur[t]
      BY <2>1, <2>6 DEF FinishPost, Finishing, Calling, OneHolder, Holds, Holding, Submitting
    <3>2. sem[t] = 0 /\ owner[bop] = t
      BY <2>1, <2>6, <3>1 DEF FinishPost, Tokens, OpsKnown
    <3>. QED BY <2>6, <3>2 DEF FinishPost, Posted
  <2>7. CASE FinishClaimPublishing \/ FinishUnexpected
    BY <2>7 DEF FinishClaimPublishing, FinishUnexpected, ArmedKnown
  <2>. QED BY <1>6, <2>2, <2>3, <2>4, <2>5, <2>6, <2>7 DEF Completion
<1>7. CASE ResetClaim \/ ResetClear
  BY <1>1, <1>7 DEF ResetClaim, ResetClear, Resettable, BusyMatches, BusyFits, ResetHolds
<1>8. CASE UNCHANGED vars
  BY <1>1, <1>8 DEF vars
<1>. QED BY <1>2, <1>3, <1>4, <1>5, <1>6, <1>7, <1>8 DEF Next, ThreadStep

\* A BLOCK call that waits for a finished write finds its token, or the backend is
\* about to post it, or the call was detached: no completion is lost, for any
\* number of threads, timeouts and resets, if the backend waits for write_fun_.
THEOREM CompletionsArrive ==
    ASSUME SyncOrReset, ~EarlyTake PROVE Spec => []NoLostCompletion
<1>1. Init => IInv /\ OInv /\ KindsFit /\ ArmedKnown /\ NoLostCompletion
  <2>1. Init => ArmedKnown
    BY DEF Init, ArmedKnown, BeforeArming
  <2>2. Init => NoLostCompletion
    BY DEF Init, NoLostCompletion
  <2>. QED BY <2>1, <2>2, InvInit, OInvInit, KindsInit
<1>2. IInv /\ OInv /\ KindsFit /\ ArmedKnown /\ NoLostCompletion /\ [Next]_vars
        => (IInv /\ OInv /\ KindsFit /\ ArmedKnown /\ NoLostCompletion)'
  BY InvStep, OInvStep, KindsStep, ArmedStep, LostStep
<1>. QED BY <1>1, <1>2, PTL DEF Spec

\* With such a backend the ASSERT of Finish() never fails: the failure that a
\* backend that takes ops early runs into is out of its reach.
THEOREM AssertHolds == ASSUME SyncOrReset, ~EarlyTake PROVE Spec => []FinishExpected
<1>1. Init => IInv /\ OInv /\ ArmedKnown
  <2>1. Init => ArmedKnown
    BY DEF Init, ArmedKnown, BeforeArming
  <2>. QED BY <2>1, InvInit, OInvInit
<1>2. IInv /\ OInv /\ ArmedKnown /\ [Next]_vars => (IInv /\ OInv /\ ArmedKnown)'
  BY InvStep, OInvStep, ArmedStep
<1>3. ArmedKnown => FinishExpected
  BY DEF ArmedKnown, FinishExpected
<1>. QED BY <1>1, <1>2, <1>3, PTL DEF Spec

----------------------------------------------------------------------------
(* What BLOCK calls return.  block_result_ is one word and is read after the   *)
(* port was released, so it takes that one thread makes the BLOCK calls and    *)
(* that nothing resets the port.                                               *)

OneBlockThread == MaxResets = 0 /\ \A t, u \in BlockThreads : t = u

\* Who makes the BLOCK ops.
BlockOwners == \A o \in 1..nops : IsBlock(o) => owner[o] \in BlockThreads

\* The op's answer is in block_result_.
ResultStands(t) == block_result = result[cur[t]]
ResultsStand ==
    /\ \A t \in Threads : pc[t] \in {"release", "result"} \/ sem[t] # 0 => ResultStands(t)
    /\ \A t \in Threads : pc[t] = "result" => busy \in {"IDLE", "LOCKED"}
    /\ bk \in {"claim", "claim_publishing", "post"} => block_result = result[bop]
    /\ bk \notin {"reset", "reset_waiter"}

\* What has not been returned.
Unreturned ==
    /\ \A t \in Threads : pc[t] \notin {"idle", "locked"} => ret[cur[t]] = "none"
    /\ \A o \in Ops : o > nops => ret[o] = "none"
    /\ \A o \in Ops : Live(o) => ret[o] \notin Answers

RInv == KindsFit /\ BlockOwners /\ ResultsStand /\ Unreturned /\ BlockReturnIsOwn

\* BLOCK ops belong to the threads that make BLOCK calls.
LEMMA OwnersStep == ASSUME IInv, IInv', OInv, BlockOwners, [Next]_vars PROVE BlockOwners'
<1> USE DEF IInv, TypeOK, CallHasOp, OInv, BlockOwners, IsBlock, Goto, Op, port, queues,
     calls, ops, backend
<1>1. ASSUME NEW t \in Threads, NEW k \in KindsOf(t), NEW n, NewOp(t, k, n), nops < MaxOps
      PROVE  BlockOwners'
  <2>1. k = "BLOCK" => t \in BlockThreads
    BY ConstantsAssumption DEF KindsOf
  <2>2. nops \in Nat /\ nops' = nops + 1 /\ nops + 1 \in Ops
    BY <1>1, Bounds DEF NewOp, Ops
  <2>3. kind'[nops + 1] = k /\ owner'[nops + 1] = t
    BY <1>1, <2>2 DEF NewOp
  <2>4. \A o \in 1..nops : kind'[o] = kind[o] /\ owner'[o] = owner[o]
    BY <1>1, <2>2 DEF NewOp
  <2>5. \A o \in 1..nops' : o \in 1..nops \/ o = nops + 1
    BY <2>2
  <2>. QED BY <2>1, <2>3, <2>4, <2>5
<1>2. ASSUME UNCHANGED <<nops, kind, owner>> PROVE BlockOwners'
  BY <1>2
<1>3. ASSUME NEW t \in Threads, Lock(t) \/ StartCall(t) PROVE BlockOwners'
  <2>1. ASSUME NEW k \in KindsOf(t), NEW n \in Sizes, PushPayload(t, k, n) PROVE BlockOwners'
    BY <1>1, <2>1 DEF PushPayload
  <2>2. ASSUME NEW k \in KindsOf(t), StreamAcquire(t, k) PROVE BlockOwners'
    BY <1>1, <2>2 DEF StreamAcquire
  <2>. QED BY <1>2, <1>3, <2>1, <2>2 DEF StartCall, Lock, Full, StreamWrite, StreamCommit,
       StreamRelease,
         Publish, PushInfo, MarkRunning, ArmWaiter, WriteFunPending, WriteFunSync
<1>4. ASSUME NEW t \in Threads, EndCall(t) \/ WaitTimeout(t) \/ WaitTimeoutLost(t) PROVE BlockOwners'
  BY <1>2, <1>4 DEF EndCall, WaitPosted, SyncLoad, SyncStore, Answer, Reap, DetachedStore,
     Release,
       ReturnResult, Unlock, WaitTimeout, WaitTimeoutLost, Return, Stay
<1>5. CASE Completion \/ ResetClaim \/ ResetClear
  BY <1>2, <1>5 DEF Completion, Take, PopPayload, FinishStatus, FinishStore, FinishClaim,
     FinishClaimPublishing,
       FinishUndetach, FinishPost, FinishUnexpected, FinishUnclaimed, ResetClaim, ResetClear
<1>6. CASE UNCHANGED vars
  BY <1>2, <1>6 DEF vars
<1>. QED BY <1>3, <1>4, <1>5, <1>6 DEF Next, ThreadStep

\* block_result_ is not written between a call's wakeup and its return.
LEMMA StandStep ==
    ASSUME OneBlockThread, IInv, IInv', OInv, OInv', KindsFit, BlockOwners, ResultsStand, [Next]_vars
    PROVE  ResultsStand'
<1> USE DEF IInv, TypeOK, CallHasOp, OInv, ResultsStand, ResultStands, IsBlock, Goto, Op,
     port, queues, calls, ops, backend
\* The thread at "result" is the only one that makes BLOCK calls.
<1>0. ASSUME NEW t \in Threads, NEW u \in Threads, pc[t] = "result", pc[u] \notin {"idle", "locked"},
             IsBlock(cur[u])
      PROVE  t = u
  <2>1. cur[t] \in 1..nops /\ owner[cur[t]] = t /\ cur[u] \in 1..nops /\ owner[cur[u]] = u
    BY <1>0 DEF OpsKnown
  <2>2. IsBlock(cur[t])
    BY <1>0 DEF KindsFit, KindFits
  <2>3. t \in BlockThreads /\ u \in BlockThreads
    BY <1>0, <2>1, <2>2 DEF BlockOwners
  <2>. QED BY <2>3 DEF OneBlockThread
\* A call leaves without a result, or goes on to a place where it has none yet.
<1> DEFINE Leaves(u, l) ==
          /\ sem[u] = 0 /\ pc' = [pc EXCEPT ![u] = l] /\ l \notin {"release", "result"}
          /\ cur' = cur \/ cur' = [cur EXCEPT ![u] = NoOp]
          /\ \/ busy' \in {busy, "IDLE"}
             \/ IsBlock(cur[u]) /\ pc[u] \notin {"idle", "locked", "result"}
          /\ UNCHANGED <<block_result, sem, result, bk, bop>>
<1>leave. ASSUME NEW u \in Threads, NEW l, Leaves(u, l) PROVE ResultsStand'
  <2>1. \A t \in Threads : t # u => pc'[t] = pc[t] /\ cur'[t] = cur[t]
    BY <1>leave
  <2>2. pc'[u] \notin {"release", "result"}
    BY <1>leave
  <2>3. \A t \in Threads : pc'[t] = "result" => busy' \in {"IDLE", "LOCKED"}
    BY <1>0, <1>leave, <2>1, <2>2
  <2>. QED BY <1>leave, <2>1, <2>2, <2>3
<1>1. ASSUME NEW u \in Threads, Lock(u) PROVE ResultsStand'
  BY <1>1 DEF Lock
<1>2. ASSUME NEW u \in Threads, NEW k \in KindsOf(u), NEW n, NewOp(u, k, n), nops < MaxOps,
             pc[u] = "locked", pc' = [pc EXCEPT ![u] = "push"] \/ pc' = [pc EXCEPT ![u] = "publish"]
             \/ pc' = [pc EXCEPT ![u] = "stream"],
             UNCHANGED <<port, sem, backend>> PROVE ResultsStand'
  <2>1. result' = result /\ \A t \in Threads : t # u => cur'[t] = cur[t]
    BY <1>2 DEF NewOp
  <2>2. sem[u] = 0
    BY <1>2 DEF Tokens
  <2>3. pc'[u] \notin {"release", "result"} /\ \A t \in Threads : t # u => pc'[t] = pc[t]
    BY <1>2
  <2> HIDE DEF IInv, TypeOK, OInv, CallHasOp
  <2>. QED BY <1>2, <2>1, <2>2, <2>3
<1>3. ASSUME NEW u \in Threads, StartCall(u) PROVE ResultsStand'
  <2>1. ASSUME NEW k \in KindsOf(u), NEW n \in Sizes, PushPayload(u, k, n) PROVE ResultsStand'
    <3> HIDE DEF IInv, TypeOK, OInv, ResultsStand, CallHasOp
    <3>1. /\ NewOp(u, k, n) /\ nops < MaxOps /\ pc[u] = "locked"
          /\ pc' = [pc EXCEPT ![u] = IF k = "BLOCK" THEN "publish" ELSE "push"]
          /\ UNCHANGED <<port, sem, backend>>
      BY <2>1 DEF PushPayload
    <3>2. pc' = [pc EXCEPT ![u] = "push"] \/ pc' = [pc EXCEPT ![u] = "publish"]
      BY <3>1
    <3>. QED BY <1>2, <3>1, <3>2
  <2>2. ASSUME NEW k \in KindsOf(u), StreamAcquire(u, k) PROVE ResultsStand'
    BY <1>2, <2>2 DEF StreamAcquire
  <2>3. ASSUME NEW n \in Sizes, Full(u, n) \/ StreamWrite(u, n) PROVE ResultsStand'
    BY <2>3 DEF Full, StreamWrite
  <2>4. CASE StreamCommit(u)
    BY <2>4 DEF StreamCommit
  <2>5. CASE StreamRelease(u)
    BY <2>5 DEF StreamRelease, Tokens
  <2>6. CASE Publish(u)
    <3>1. Leaves(u, "push")
      BY <2>6 DEF Publish, KindsFit, KindFits, Tokens
    <3>. QED BY <1>leave, <3>1
  <2>7. CASE PushInfo(u) \/ MarkRunning(u)
    BY <2>7 DEF PushInfo, MarkRunning
  <2>8. CASE ArmWaiter(u)
    BY <1>0, <2>8 DEF ArmWaiter
  <2>9. CASE WriteFunPending(u)
    BY <2>9 DEF WriteFunPending
  <2>10. ASSUME NEW ans \in Answers, WriteFunSync(u, ans) PROVE ResultsStand'
    <3>1. bk = "idle" /\ cur[u] \in Ops /\ Len(queue_info) = 1 /\ queue_info[1] = cur[u]
      BY <2>10 DEF WriteFunSync
    <3>2. IsBlock(cur[u]) => Live(cur[u])
      BY <3>1 DEF Live, Queued
    <3>3. sem[u] = 0
      BY <2>10, <3>1, <3>2, Due DEF WriteFunSync, Tokens
    <3>4. \A t \in Threads : t # u /\ pc[t] \notin {"idle", "locked"} => cur[t] # cur[u]
      BY <2>10 DEF OpsKnown, WriteFunSync
    <3>5. \A t \in Threads : t # u => pc'[t] = pc[t]
      BY <2>10 DEF WriteFunSync
    <3>6. pc'[u] \notin {"release", "result"}
      BY <2>10 DEF WriteFunSync
    <3>7. result' = [result EXCEPT ![cur[u]] = ans] /\ UNCHANGED <<busy, block_result, sem, bk, cur>>
      BY <2>10 DEF WriteFunSync
    <3>8. ASSUME NEW t \in Threads, pc'[t] \in {"release", "result"} \/ sem'[t] # 0
          PROVE  t # u /\ pc[t] \notin {"idle", "locked"} /\ cur[t] \in Ops
      BY <3>3, <3>5, <3>6, <3>7, <3>8 DEF Tokens
    <3>9. \A t \in Threads : pc'[t] \in {"release", "result"} \/ sem'[t] # 0 =>
              result'[cur[t]] = result[cur[t]]
      BY <3>4, <3>7, <3>8
    <3>. QED BY <3>1, <3>5, <3>6, <3>7, <3>8, <3>9
  <2>. QED BY <1>3, <2>1, <2>2, <2>3, <2>4, <2>5, <2>6, <2>7, <2>8, <2>9, <2>10 DEF StartCall
<1>4. ASSUME NEW u \in Threads, EndCall(u) \/ WaitTimeout(u) \/ WaitTimeoutLost(u) PROVE ResultsStand'
  <2>1. CASE WaitPosted(u) \/ Reap(u)
    BY <2>1 DEF WaitPosted, Reap, TakeToken
  <2>2. CASE SyncLoad(u)
    BY <2>2 DEF SyncLoad
  <2>3. CASE SyncStore(u) \/ DetachedStore(u)
    <3>1. Leaves(u, "idle")
      BY <2>3 DEF SyncStore, DetachedStore, Return, Tokens
    <3>. QED BY <1>leave, <3>1
  <2>4. CASE Release(u)
    BY <2>4, NoTokens DEF Release, Holds, Holding
  <2>5. CASE ReturnResult(u)
    BY <2>5 DEF ReturnResult, Return, Tokens
  <2>6. CASE WaitTimeout(u)
    <3>1. Leaves(u, "idle")
      BY <2>6 DEF WaitTimeout, Return, KindsFit, KindFits
    <3>. QED BY <1>leave, <3>1
  <2>7. CASE Answer(u)
    <3>1. Leaves(u, "idle") \/ Leaves(u, "unlock")
      BY <2>7 DEF Answer, Stay, Return, Tokens
    <3>. QED BY <1>leave, <3>1
  <2>8. CASE Unlock(u)
    <3>1. Leaves(u, "idle") \/ Leaves(u, "answer_unlocked")
      BY <2>8 DEF Unlock, Stay, Return, Tokens
    <3>. QED BY <1>leave, <3>1
  <2>9. CASE WaitTimeoutLost(u)
    <3>1. Leaves(u, "idle") \/ Leaves(u, "reap") \/ Leaves(u, "detached")
      BY <2>9 DEF WaitTimeoutLost, Stay, Return
    <3>. QED BY <1>leave, <3>1
  <2>. QED BY <1>4, <2>1, <2>2, <2>3, <2>4, <2>5, <2>6, <2>7, <2>8, <2>9 DEF EndCall
<1>5. CASE Completion
  <2>1. CASE Take \/ PopPayload
    BY <2>1 DEF Take, PopPayload
  <2>2. ASSUME NEW ans \in Answers, FinishStatus(ans) PROVE ResultsStand'
    <3>1. bop \in Ops /\ result' = [result EXCEPT ![bop] = ans] /\ ~IsBlock(bop)
      BY <2>2 DEF FinishStatus, CompletionHasOp
    <3>2. \A t \in Threads : pc[t] \in {"release", "result"} \/ sem[t] # 0 =>
              IsBlock(cur[t]) /\ cur[t] \in Ops
      BY DEF KindsFit, KindFits, Tokens
    <3>. QED BY <2>2, <3>1, <3>2 DEF FinishStatus
  <2>3. ASSUME NEW ans \in Answers, FinishStore(ans) PROVE ResultsStand'
    <3>1. bop \in Ops /\ Live(bop) /\ result' = [result EXCEPT ![bop] = ans] /\ block_result' = ans
      BY <2>3, HandLive DEF FinishStore, Handing, Stored
    <3>2. \A t \in Threads : sem[t] = 0 /\ pc[t] # "release"
      BY <3>1, Due DEF Tokens, Holds, Holding
    <3>3. \A t \in Threads : pc[t] # "result"
      <4>1. SUFFICES ASSUME NEW t \in Threads, pc[t] = "result" PROVE FALSE
        OBVIOUS
      <4>. QED BY <3>1, <4>1, Due
    <3>. QED BY <2>3, <3>1, <3>2, <3>3 DEF FinishStore
  <2>4. CASE FinishClaim
    BY <2>4 DEF FinishClaim, FinishUnclaimed
  <2>5. CASE FinishClaimPublishing
    BY <2>5 DEF FinishClaimPublishing, FinishUnclaimed
  <2>6. CASE FinishUndetach
    BY <2>6 DEF FinishUndetach, Undetached
  <2>7. CASE FinishPost
    BY <2>7 DEF FinishPost, Posted, Finishing, Calling
  <2>8. CASE FinishUnexpected
    BY <2>8 DEF FinishUnexpected
  <2>. QED BY <1>5, <2>1, <2>2, <2>3, <2>4, <2>5, <2>6, <2>7, <2>8 DEF Completion
<1>6. ~ResetClaim /\ ~ResetClear
  BY DEF ResetClaim, ResetClear, OneBlockThread
<1>7. CASE UNCHANGED vars
  BY <1>7 DEF vars
<1>. QED BY <1>1, <1>3, <1>4, <1>5, <1>6, <1>7 DEF Next, ThreadStep

\* A call whose answer is already given carries no live op.
LEMMA AnswerKnown ==
    ASSUME OneBlockThread, IInv, OInv, KindsFit, ResultsStand, Unreturned, NEW t \in Threads,
           pc[t] \in {"sync_store", "result", "unlock", "answer_unlocked"}
    PROVE  cur[t] \in Ops /\ ~Live(cur[t])
<1>1. cur[t] \in Ops
  BY DEF IInv, CallHasOp
<1>2. CASE pc[t] \in {"unlock", "answer_unlocked"}
  BY <1>1, <1>2 DEF KindsFit, KindFits, Live
<1>3. CASE pc[t] = "sync_store"
  BY <1>1, <1>3, NoneLive DEF Holds, Holding
<1>4. CASE pc[t] = "result"
  BY <1>1, <1>4, Due DEF ResultsStand
<1>. QED BY <1>1, <1>2, <1>3, <1>4

\* An op that is still to be finished was not answered, so its answer does not
\* change after it was returned.
LEMMA UnreturnedStep ==
    ASSUME OneBlockThread, IInv, IInv', OInv, OInv', RInv, [Next]_vars
    PROVE  Unreturned' /\ BlockReturnIsOwn'
<1> USE DEF IInv, TypeOK, CallHasOp, OInv, RInv, Unreturned, BlockReturnIsOwn, Op, port,
     queues, calls, ops, backend
\* No call returns: it goes on, and its op stays without a return value.
<1>stay. ASSUME UNCHANGED <<ret, result, nops, kind>>,
             \A t \in Threads : pc'[t] \notin {"idle", "locked"} =>
                  pc[t] \notin {"idle", "locked"} /\ cur'[t] = cur[t],
             \A o \in Ops : Live(o)' => Live(o) \/ ret[o] = "none"
      PROVE  Unreturned' /\ BlockReturnIsOwn'
  <2>1. \A t \in Threads : pc'[t] \notin {"idle", "locked"} => ret'[cur'[t]] = "none"
    BY <1>stay
  <2>2. \A o \in Ops : o > nops' => ret'[o] = "none"
    BY <1>stay
  <2>3. \A o \in Ops : Live(o)' => ret'[o] \notin Answers
    BY <1>stay DEF Answers
  <2>4. BlockReturnIsOwn'
    BY <1>stay DEF IsBlock
  <2>. QED BY <2>1, <2>2, <2>3, <2>4
\* A call returns r.
<1>return. ASSUME NEW t \in Threads, NEW r, cur[t] \in Ops,
             pc[t] \notin {"idle", "locked"}, Return(t, r),
             r # "TIMEOUT" => ~Live(cur[t]) /\ (IsBlock(cur[t]) => r = result[cur[t]]),
             UNCHANGED <<queue_info, bk, bop>>
      PROVE  Unreturned' /\ BlockReturnIsOwn'
  <2>1. /\ ret' = [ret EXCEPT ![cur[t]] = r] /\ cur' = [cur EXCEPT ![t] = NoOp]
        /\ pc' = [pc EXCEPT ![t] = "idle"] /\ UNCHANGED <<nops, kind, result, owner>>
    BY <1>return DEF Return, Goto
  <2>2. \A o \in Ops : Live(o)' <=> Live(o)
    BY <1>return, <2>1 DEF Live, Queued, IsBlock
  <2>3. \A u \in Threads : pc'[u] \notin {"idle", "locked"} => u # t /\ pc'[u] = pc[u] /\ cur'[u] = cur[u]
    BY <2>1
  <2>4. \A u \in Threads : u # t /\ pc[u] \notin {"idle", "locked"} => cur[u] # cur[t]
    BY <1>return DEF OpsKnown
  <2>5. \A o \in Ops : o # cur[t] => ret'[o] = ret[o]
    BY <2>1
  <2>6. \A u \in Threads : pc'[u] \notin {"idle", "locked"} => ret'[cur'[u]] = "none"
    BY <2>3, <2>4, <2>5
  <2>7. cur[t] \in 1..nops /\ nops \in Nat
    BY <1>return, Bounds DEF OpsKnown
  <2>8. \A o \in Ops : o > nops' => ret'[o] = "none"
    BY <2>1, <2>5, <2>7 DEF Ops
  <2>9. \A o \in Ops : Live(o)' => ret'[o] \notin Answers
    BY <1>return, <2>1, <2>2, <2>5 DEF Answers
  <2>10. BlockReturnIsOwn'
    BY <1>return, <2>1, <2>5 DEF IsBlock, Answers
  <2>. QED BY <2>6, <2>8, <2>9, <2>10
<1>timeout. ASSUME NEW t \in Threads, pc[t] \in {"wait", "detached"}, Return(t, "TIMEOUT"),
             UNCHANGED <<queue_info, bk, bop>>
      PROVE  Unreturned' /\ BlockReturnIsOwn'
  <2>1. cur[t] \in Ops
    BY <1>timeout
  <2> DEFINE r == "TIMEOUT"
  <2>2. r = "TIMEOUT" /\ Return(t, r)
    BY <1>timeout
  <2> HIDE DEF r
  <2>3. r # "TIMEOUT" => ~Live(cur[t]) /\ (IsBlock(cur[t]) => r = result[cur[t]])
    BY <2>2
  <2>4. pc[t] \notin {"idle", "locked"} /\ UNCHANGED <<queue_info, bk, bop>>
    BY <1>timeout
  <2>5. Return(t, r)
    BY <2>2
  <2> HIDE DEF IInv, OInv, RInv, Unreturned, BlockReturnIsOwn
  <2>. QED BY <1>return, <2>1, <2>3, <2>4, <2>5
<1>1. ASSUME NEW u \in Threads, Lock(u) PROVE Unreturned' /\ BlockReturnIsOwn'
  BY <1>stay, <1>1 DEF Lock, Goto, Live, Queued, IsBlock
<1>2. ASSUME NEW u \in Threads, StartCall(u) PROVE Unreturned' /\ BlockReturnIsOwn'
  <2>0. ASSUME NEW k \in KindsOf(u), NEW n, NewOp(u, k, n), nops < MaxOps,
               NEW l, pc' = [pc EXCEPT ![u] = l],
               UNCHANGED backend PROVE Unreturned' /\ BlockReturnIsOwn'
    <3>1. nops \in Nat /\ nops + 1 \in Ops /\ nops' = nops + 1 /\ cur' = [cur EXCEPT ![u] = nops + 1]
          /\ kind' = [kind EXCEPT ![nops + 1] = k] /\ UNCHANGED <<ret, result, queue_info>>
      BY <2>0, Bounds DEF NewOp, Ops
    <3>2. ret[nops + 1] = "none"
      BY <3>1
    <3>3. \A o \in Ops : Live(o)' => Live(o)
      BY <2>0, <3>1, NewOpUnknown
    <3>4. \A t \in Threads : t # u => pc'[t] = pc[t] /\ cur'[t] = cur[t]
      BY <2>0, <3>1
    <3>5. cur'[u] = nops + 1
      BY <3>1
    <3>6. \A t \in Threads : pc'[t] \notin {"idle", "locked"} => ret'[cur'[t]] = "none"
      BY <3>1, <3>2, <3>4, <3>5
    <3>7. BlockReturnIsOwn'
      BY <3>1, <3>2 DEF IsBlock, Answers
    <3>8. \A o \in Ops : o > nops' => ret'[o] = "none"
      BY <3>1 DEF Ops
    <3>9. \A o \in Ops : Live(o)' => ret'[o] \notin Answers
      BY <3>1, <3>3
    <3>. QED BY <3>6, <3>7, <3>8, <3>9
  <2>1. ASSUME NEW k \in KindsOf(u), NEW n \in Sizes, PushPayload(u, k, n)
        PROVE  Unreturned' /\ BlockReturnIsOwn'
    BY <2>0, <2>1 DEF PushPayload, Goto
  <2>2. ASSUME NEW k \in KindsOf(u), StreamAcquire(u, k) PROVE Unreturned' /\ BlockReturnIsOwn'
    BY <2>0, <2>2 DEF StreamAcquire, Goto
  <2>3. ASSUME NEW n \in Sizes, Full(u, n) \/ StreamWrite(u, n) PROVE Unreturned' /\ BlockReturnIsOwn'
    BY <1>stay, <2>3 DEF Full, StreamWrite, Goto, Live, Queued, IsBlock
  <2>4. CASE StreamCommit(u) \/ StreamRelease(u)
    BY <1>stay, <2>4 DEF StreamCommit, StreamRelease, Goto, Live, Queued, IsBlock
  <2>5. CASE Publish(u) \/ MarkRunning(u) \/ ArmWaiter(u)
    BY <1>stay, <2>5 DEF Publish, MarkRunning, ArmWaiter, Goto, Live, Queued, IsBlock
  <2>6. CASE WriteFunPending(u)
    BY <1>stay, <2>6 DEF WriteFunPending, Goto, Live, Queued, IsBlock
  <2>7. CASE PushInfo(u)
    <3>1. cur[u] \in Ops /\ ret[cur[u]] = "none" /\ queue_info' = Append(queue_info, cur[u])
      BY <2>7 DEF PushInfo
    <3>2. \A o \in Ops : Live(o)' => Live(o) \/ o = cur[u]
      <4>1. Len(queue_info') = Len(queue_info) + 1 /\ queue_info'[Len(queue_info) + 1] = cur[u]
            /\ \A i \in 1..Len(queue_info) : queue_info'[i] = queue_info[i]
        BY <3>1, AppendProperties
      <4>2. \A i \in 1..Len(queue_info') : i \in 1..Len(queue_info) \/ i = Len(queue_info) + 1
        BY <4>1
      <4>. QED BY <2>7, <4>1, <4>2 DEF PushInfo, Live, Queued, IsBlock
    <3>. QED BY <1>stay, <2>7, <3>1, <3>2 DEF PushInfo, Goto
  <2>8. ASSUME NEW ans \in Answers, WriteFunSync(u, ans) PROVE Unreturned' /\ BlockReturnIsOwn'
    <3>1. /\ cur[u] \in Ops /\ ret[cur[u]] = "none" /\ queue_info' = <<>>
          /\ result' = [result EXCEPT ![cur[u]] = ans]
          /\ UNCHANGED <<ret, nops, kind, cur, bk, bop>>
      BY <2>8 DEF WriteFunSync
    <3>2. \A o \in Ops : Live(o)' => Live(o)
      BY <3>1 DEF Live, Queued, IsBlock
    <3>3. \A t \in Threads : pc'[t] \notin {"idle", "locked"} => pc[t] \notin {"idle", "locked"}
      BY <2>8 DEF WriteFunSync, Goto
    <3>4. BlockReturnIsOwn'
      BY <3>1 DEF Answers, IsBlock
    <3>. QED BY <3>1, <3>2, <3>3, <3>4
  <2>. QED BY <1>2, <2>1, <2>2, <2>3, <2>4, <2>5, <2>6, <2>7, <2>8 DEF StartCall
<1>3. ASSUME NEW u \in Threads, EndCall(u) \/ WaitTimeout(u) \/ WaitTimeoutLost(u)
      PROVE  Unreturned' /\ BlockReturnIsOwn'
  <2>1. CASE WaitPosted(u) \/ Reap(u) \/ Release(u)
    BY <1>stay, <2>1 DEF WaitPosted, Reap, Release, Goto, Live, Queued, IsBlock
  <2>2. CASE SyncLoad(u)
    BY <1>stay, <2>2 DEF SyncLoad, Goto, Live, Queued, IsBlock
  <2>3. CASE SyncStore(u)
    BY <1>return, <2>3, AnswerKnown DEF SyncStore
  <2>4. CASE DetachedStore(u) \/ WaitTimeout(u)
    <3>1. /\ pc[u] \in {"detached", "wait"} /\ Return(u, "TIMEOUT")
          /\ UNCHANGED <<queue_info, bk, bop>>
      BY <2>4 DEF DetachedStore, WaitTimeout
    <3>. QED BY <1>timeout, <3>1
  <2>5. CASE ReturnResult(u)
    BY <1>return, <2>5, AnswerKnown DEF ReturnResult, ResultsStand, ResultStands
  <2>6. ASSUME NEW l, Stay(u, l), pc[u] \notin {"idle", "locked"}, UNCHANGED <<queue_info, bk, bop>>
        PROVE  Unreturned' /\ BlockReturnIsOwn'
    BY <1>stay, <2>6 DEF Stay, Goto, Live, Queued, IsBlock
  <2>7. CASE Answer(u)
    BY <1>return, <2>6, <2>7, AnswerKnown DEF Answer, KindsFit, KindFits
  <2>8. CASE Unlock(u)
    BY <1>return, <2>6, <2>8, AnswerKnown DEF Unlock, KindsFit, KindFits
  <2>9. CASE WaitTimeoutLost(u)
    <3>1. /\ pc[u] = "wait" /\ UNCHANGED <<queue_info, bk, bop>>
          /\ Stay(u, "reap") \/ Stay(u, "detached") \/ Return(u, "TIMEOUT")
      BY <2>9 DEF WaitTimeoutLost
    <3>. QED BY <1>timeout, <2>6, <3>1
  <2>. QED BY <1>3, <2>1, <2>2, <2>3, <2>4, <2>5, <2>7, <2>8, <2>9 DEF EndCall
<1>4. CASE Completion
  <2>1. CASE Take
    <3>1. queue_info # <<>> /\ queue_info' = Tail(queue_info) /\ bop' = Head(queue_info)
      BY <2>1 DEF Take
    <3>2. bop' = queue_info[1] /\ Len(queue_info) \in Nat \ {0} /\ Len(queue_info') = Len(queue_info) - 1
          /\ \A i \in 1..Len(queue_info') : queue_info'[i] = queue_info[i + 1]
      BY <3>1, HeadTailProperties
    <3>3. \A i \in 1..Len(queue_info') : i + 1 \in 1..Len(queue_info)
      BY <3>2
    <3>4. \A o \in Ops : Live(o)' => Live(o)
      BY <2>1, <3>2, <3>3 DEF Take, Live, Queued, IsBlock
    <3>. QED BY <1>stay, <2>1, <3>4 DEF Take
  <2>2. CASE PopPayload
    BY <1>stay, <2>2 DEF PopPayload, Live, Queued, IsBlock, Handing
  <2>3. ASSUME NEW ans \in Answers, FinishStatus(ans) PROVE Unreturned' /\ BlockReturnIsOwn'
    <3>1. bop \in Ops /\ ~IsBlock(bop) /\ result' = [result EXCEPT ![bop] = ans]
          /\ UNCHANGED <<ret, nops, kind, pc, cur, queue_info>> /\ bk' = "idle"
      BY <2>3 DEF FinishStatus
    <3>2. \A o \in Ops : Live(o)' => Live(o)
      BY <3>1 DEF Live, Queued, IsBlock, Handing
    <3>3. BlockReturnIsOwn'
      BY <3>1 DEF IsBlock
    <3>. QED BY <3>1, <3>2, <3>3
  <2>4. ASSUME NEW ans \in Answers, FinishStore(ans) PROVE Unreturned' /\ BlockReturnIsOwn'
    <3>1. bop \in Ops /\ Live(bop) /\ result' = [result EXCEPT ![bop] = ans]
          /\ UNCHANGED <<ret, nops, kind, pc, cur, queue_info, bop>> /\ bk' = "claim" /\ bk = "popped"
      BY <2>4, HandLive DEF FinishStore, Handing
    <3>2. \A o \in Ops : Live(o)' => Live(o)
      BY <3>1 DEF Live, Queued, IsBlock, Handing
    <3>3. BlockReturnIsOwn'
      BY <3>1 DEF IsBlock
    <3>. QED BY <3>1, <3>2, <3>3
  <2>5. CASE FinishClaim
    BY <1>stay, <2>5 DEF FinishClaim, FinishUnclaimed, Live, Queued, IsBlock, Handing
  <2>6. CASE FinishClaimPublishing
    BY <1>stay, <2>6 DEF FinishClaimPublishing, FinishUnclaimed, Live, Queued, IsBlock, Handing
  <2>7. CASE FinishUndetach \/ FinishPost \/ FinishUnexpected
    BY <1>stay, <2>7 DEF FinishUndetach, FinishPost, FinishUnexpected, Live, Queued, IsBlock,
       Handing
  <2>. QED BY <1>4, <2>1, <2>2, <2>3, <2>4, <2>5, <2>6, <2>7 DEF Completion
<1>5. ~ResetClaim /\ ~ResetClear
  BY DEF ResetClaim, ResetClear, OneBlockThread, ResultsStand
<1>6. CASE UNCHANGED vars
  BY <1>stay, <1>6 DEF vars, Live, Queued, IsBlock
<1>. QED BY <1>1, <1>2, <1>3, <1>4, <1>5, <1>6 DEF Next, ThreadStep

LEMMA ReturnsInit == Init => RInv
<1> SUFFICES ASSUME Init PROVE RInv
  OBVIOUS
<1>1. KindsFit /\ BlockOwners
  BY KindsInit DEF Init, BlockOwners, IsBlock
<1>2. ResultsStand
  BY DEF Init, ResultsStand
<1>3. Unreturned
  BY DEF Init, Unreturned, Live, IsBlock
<1>4. BlockReturnIsOwn
  BY DEF Init, BlockReturnIsOwn, Answers
<1>. QED BY <1>1, <1>2, <1>3, <1>4 DEF RInv

\* A BLOCK call returns the result that the backend reported for its own write,
\* and never that of one that timed out before it, however late that completes,
\* and whether the backend answers early, late or within write_fun_.
THEOREM ReturnsOwn == ASSUME OneBlockThread PROVE Spec => []BlockReturnIsOwn
<1>0. SyncOrReset
  BY DEF OneBlockThread, SyncOrReset
<1>1. Init => IInv /\ OInv /\ RInv
  BY InvInit, OInvInit, ReturnsInit
<1>2. IInv /\ OInv /\ RInv /\ [Next]_vars => (IInv /\ OInv /\ RInv)'
  <2>1. SUFFICES ASSUME IInv, OInv, RInv, [Next]_vars PROVE (IInv /\ OInv /\ RInv)'
    OBVIOUS
  <2>2. IInv' /\ OInv'
    BY <1>0, <2>1, InvStep, OInvStep
  <2>3. KindsFit' /\ BlockOwners' /\ ResultsStand'
    BY <2>1, <2>2, KindsStep, OwnersStep, StandStep DEF RInv
  <2>4. Unreturned' /\ BlockReturnIsOwn'
    BY <2>1, <2>2, UnreturnedStep
  <2>. QED BY <2>2, <2>3, <2>4 DEF RInv
<1>3. RInv => BlockReturnIsOwn
  BY DEF RInv
<1>. QED BY <1>1, <1>2, <1>3, PTL DEF Spec

----------------------------------------------------------------------------
(* Payloads.  queue_data_ is laid out as the ops in queue_info_ are.           *)

\* q holds sh[o] bytes of each op o, in one run each, in the order of the ops.
Laid(q, sh) ==
    /\ \A i, j \in 1..Len(q) : i < j => q[i] <= q[j]
    /\ \A o \in Ops : \E n \in 0..Len(q) : {i \in 1..Len(q) : q[i] = o} = (n + 1)..(n + sh[o])

LEMMA OpsAreNat == \A o \in Ops : o \in Nat
BY Bounds DEF Ops

\* The run of an op, position by position.
LEMMA RunOf ==
    ASSUME NEW q \in Seq(Ops), NEW sh \in [Ops -> Nat], Laid(q, sh), NEW o \in Ops
    PROVE  \E n \in 0..Len(q) : /\ n + sh[o] <= Len(q)
                               /\ \A i \in 1..Len(q) : q[i] = o <=> n < i /\ i <= n + sh[o]
<1>0. Len(q) \in Nat /\ sh[o] \in Nat
  OBVIOUS
<1>1. PICK n \in 0..Len(q) : {i \in 1..Len(q) : q[i] = o} = (n + 1)..(n + sh[o])
  BY DEF Laid
<1>2. \A i \in 1..Len(q) : q[i] = o <=> i \in (n + 1)..(n + sh[o])
  BY <1>1
<1>3. \A i \in (n + 1)..(n + sh[o]) : i \in 1..Len(q)
  BY <1>1
<1>4. n + sh[o] <= Len(q)
  <2>1. CASE sh[o] = 0
    BY <1>0, <2>1
  <2>2. CASE sh[o] > 0
    <3>1. n + sh[o] \in (n + 1)..(n + sh[o])
      BY <1>0, <2>2
    <3>. QED BY <1>3, <3>1
  <2>. QED BY <1>0, <2>1, <2>2
<1>5. \A i \in 1..Len(q) : q[i] = o <=> n < i /\ i <= n + sh[o]
  BY <1>0, <1>2
<1>. QED BY <1>4, <1>5

\* Every byte belongs to an op that has a share.
LEMMA ByteHasOwner ==
    ASSUME NEW q \in Seq(Ops), NEW sh \in [Ops -> Nat], Laid(q, sh), NEW i \in 1..Len(q)
    PROVE  q[i] \in Ops /\ sh[q[i]] > 0
<1>1. q[i] \in Ops
  OBVIOUS
<1>2. PICK n \in 0..Len(q) : {j \in 1..Len(q) : q[j] = q[i]} = (n + 1)..(n + sh[q[i]])
  BY <1>1 DEF Laid
<1>3. i \in (n + 1)..(n + sh[q[i]])
  BY <1>2
<1>. QED BY <1>1, <1>3

\* The bytes of the last op are at the end, those of the first at the front.
LEMMA LastAtEnd ==
    ASSUME NEW q \in Seq(Ops), NEW sh \in [Ops -> Nat], Laid(q, sh), NEW o \in Ops,
           \A i \in 1..Len(q) : q[i] <= o
    PROVE  sh[o] <= Len(q) /\ \A i \in 1..Len(q) : q[i] = o <=> i > Len(q) - sh[o]
<1>0. Len(q) \in Nat /\ sh[o] \in Nat /\ o \in Nat /\ \A i \in 1..Len(q) : q[i] \in Nat
  BY OpsAreNat
<1>1. PICK n \in 0..Len(q) : /\ n + sh[o] <= Len(q)
                            /\ \A i \in 1..Len(q) : q[i] = o <=> n < i /\ i <= n + sh[o]
  BY RunOf
<1>2. CASE sh[o] = 0
  BY <1>0, <1>1, <1>2
<1>3. CASE sh[o] > 0
  <2>1. n + sh[o] \in 1..Len(q) /\ q[n + sh[o]] = o
    BY <1>0, <1>1, <1>3
  <2>2. n + sh[o] = Len(q)
    <3>1. SUFFICES ASSUME n + sh[o] < Len(q) PROVE FALSE
      BY <1>0, <2>1
    <3>2. o <= q[Len(q)] /\ q[Len(q)] <= o /\ Len(q) \in 1..Len(q)
      BY <1>0, <2>1, <3>1 DEF Laid
    <3>3. q[Len(q)] = o
      BY <1>0, <3>2
    <3>4. Len(q) <= n + sh[o]
      BY <1>1, <3>2, <3>3
    <3>. QED BY <1>0, <3>1, <3>4
  <2>. QED BY <1>0, <1>1, <2>2
<1>. QED BY <1>0, <1>2, <1>3

LEMMA FirstAtFront ==
    ASSUME NEW q \in Seq(Ops), NEW sh \in [Ops -> Nat], Laid(q, sh), NEW o \in Ops,
           \A i \in 1..Len(q) : o <= q[i]
    PROVE  sh[o] <= Len(q) /\ \A i \in 1..Len(q) : q[i] = o <=> i <= sh[o]
<1>0. Len(q) \in Nat /\ sh[o] \in Nat /\ o \in Nat /\ \A i \in 1..Len(q) : q[i] \in Nat
  BY OpsAreNat
<1>1. PICK n \in 0..Len(q) : /\ n + sh[o] <= Len(q)
                            /\ \A i \in 1..Len(q) : q[i] = o <=> n < i /\ i <= n + sh[o]
  BY RunOf
<1>2. CASE sh[o] = 0
  BY <1>0, <1>1, <1>2
<1>3. CASE sh[o] > 0
  <2>1. n + 1 \in 1..Len(q) /\ q[n + 1] = o /\ n + sh[o] \in 1..Len(q)
    BY <1>0, <1>1, <1>3
  <2>2. n = 0
    <3>1. SUFFICES ASSUME n > 0 PROVE FALSE
      BY <1>0
    <3>2. q[1] <= o /\ o <= q[1] /\ 1 \in 1..Len(q)
      BY <1>0, <2>1, <3>1 DEF Laid
    <3>3. q[1] = o
      BY <1>0, <3>2
    <3>4. n < 1
      BY <1>1, <3>2, <3>3
    <3>. QED BY <1>0, <3>1, <3>4
  <2>. QED BY <1>0, <1>1, <2>1, <2>2
<1>. QED BY <1>0, <1>2, <1>3

\* Bytes appended for the last op, and the bytes of the first op popped.
LEMMA PushLays ==
    ASSUME NEW q \in Seq(Ops), NEW sh \in [Ops -> Nat], Laid(q, sh), NEW o \in Ops, NEW n \in Nat,
           \A i \in 1..Len(q) : q[i] <= o
    PROVE  Laid(q \o Bytes(o, n), [sh EXCEPT ![o] = @ + n])
<1> DEFINE p == q \o Bytes(o, n)
<1> DEFINE t == [sh EXCEPT ![o] = @ + n]
<1>0. Len(q) \in Nat /\ sh[o] \in Nat /\ o \in Nat /\ \A i \in 1..Len(q) : q[i] \in Nat
  BY OpsAreNat
<1>1. Len(p) = Len(q) + n /\ \A i \in 1..Len(p) : p[i] = IF i <= Len(q) THEN q[i] ELSE o
  <2>1. Bytes(o, n) \in Seq(Ops) /\ Len(Bytes(o, n)) = n /\ \A i \in 1..n : Bytes(o, n)[i] = o
    BY DEF Bytes
  <2>2. /\ Len(p) = Len(q) + n
        /\ \A i \in 1..Len(p) : p[i] = IF i <= Len(q) THEN q[i] ELSE Bytes(o, n)[i - Len(q)]
    BY <2>1, ConcatProperties
  <2>3. \A i \in 1..Len(p) : i > Len(q) => i - Len(q) \in 1..n
    BY <1>0, <2>2
  <2>. QED BY <1>0, <2>1, <2>2, <2>3
<1> HIDE DEF p
<1>2. ASSUME NEW i \in 1..Len(p), NEW j \in 1..Len(p), i < j PROVE p[i] <= p[j]
  <2>1. CASE j <= Len(q)
    BY <1>0, <1>1, <1>2, <2>1 DEF Laid
  <2>2. CASE j > Len(q)
    BY <1>0, <1>1, <1>2, <2>2
  <2>. QED BY <1>0, <2>1, <2>2
<1>3. ASSUME NEW x \in Ops PROVE \E m \in 0..Len(p) : {i \in 1..Len(p) : p[i] = x} = (m + 1)..(m + t[x])
  <2>1. CASE x = o
    <3>1. sh[o] <= Len(q) /\ \A i \in 1..Len(q) : q[i] = o <=> i > Len(q) - sh[o]
      BY LastAtEnd
    <3>2. \A i \in 1..Len(p) : p[i] = o <=> i > Len(q) - sh[o]
      BY <1>0, <1>1, <3>1
    <3>3. t[x] = sh[o] + n /\ Len(q) - sh[o] \in 0..Len(p)
      BY <1>0, <1>1, <2>1, <3>1
    <3>4. {i \in 1..Len(p) : p[i] = x} = ((Len(q) - sh[o]) + 1)..((Len(q) - sh[o]) + t[x])
      BY <1>0, <1>1, <2>1, <3>1, <3>2, <3>3
    <3>. QED BY <3>3, <3>4
  <2>2. CASE x # o
    <3>1. PICK m \in 0..Len(q) : {i \in 1..Len(q) : q[i] = x} = (m + 1)..(m + sh[x])
      BY DEF Laid
    <3>2. {i \in 1..Len(p) : p[i] = x} = {i \in 1..Len(q) : q[i] = x}
      BY <1>0, <1>1, <2>2
    <3>3. t[x] = sh[x] /\ m \in 0..Len(p)
      BY <1>0, <1>1, <2>2
    <3>. QED BY <3>1, <3>2, <3>3
  <2>. QED BY <2>1, <2>2
<1>. QED BY <1>2, <1>3 DEF Laid, p

LEMMA PopLays ==
    ASSUME NEW q \in Seq(Ops), NEW sh \in [Ops -> Nat], Laid(q, sh), NEW o \in Ops,
           \A i \in 1..Len(q) : o <= q[i]
    PROVE  Laid(SubSeq(q, sh[o] + 1, Len(q)), [sh EXCEPT ![o] = 0])
<1> DEFINE p == SubSeq(q, sh[o] + 1, Len(q))
<1> DEFINE t == [sh EXCEPT ![o] = 0]
<1>0. Len(q) \in Nat /\ sh[o] \in Nat /\ o \in Nat /\ \A i \in 1..Len(q) : q[i] \in Nat
  BY OpsAreNat
<1>1. sh[o] <= Len(q) /\ \A i \in 1..Len(q) : q[i] = o <=> i <= sh[o]
  BY FirstAtFront
<1>2. Len(p) = Len(q) - sh[o] /\ \A i \in 1..Len(p) : p[i] = q[i + sh[o]]
  <2>1. sh[o] + 1 \in Int /\ Len(q) \in Int /\ \A i \in (sh[o] + 1)..Len(q) : q[i] \in Ops
    BY <1>0
  <2>2. /\ Len(p) = IF sh[o] + 1 <= Len(q) THEN Len(q) - (sh[o] + 1) + 1 ELSE 0
        /\ \A i \in 1..Len(p) : p[i] = q[(sh[o] + 1) + i - 1]
    <3> DEFINE m == sh[o] + 1
    <3>1. /\ Len(SubSeq(q, m, Len(q))) = IF m <= Len(q) THEN Len(q) - m + 1 ELSE 0
          /\ \A i \in 1..Len(q) - m + 1 : SubSeq(q, m, Len(q))[i] = q[m + i - 1]
      <4>1. m \in Int /\ Len(q) \in Int /\ \A i \in m..Len(q) : q[i] \in Ops
        BY <2>1
      <4> HIDE DEF m
      <4>. QED BY <4>1, SubSeqProperties
    <3>2. \A i \in 1..Len(p) : i \in 1..Len(q) - m + 1
      <4> HIDE DEF m
      <4>. QED BY <1>0, <2>1, <3>1 DEF m
    <3>. QED BY <3>1, <3>2
  <2> HIDE DEF p
  <2>3. sh[o] <= Len(q)
    BY <1>1
  <2>4. Len(p) = Len(q) - sh[o]
    BY <1>0, <2>2, <2>3
  <2>5. ASSUME NEW i \in 1..Len(p) PROVE p[i] = q[i + sh[o]]
    <3>1. (sh[o] + 1) + i - 1 = i + sh[o]
      BY <1>0, <2>4
    <3>. QED BY <2>2, <3>1
  <2>. QED BY <2>4, <2>5
<1> HIDE DEF p
<1>3. \A i \in 1..Len(p) : i + sh[o] \in 1..Len(q)
  BY <1>0, <1>1, <1>2
<1>4. ASSUME NEW i \in 1..Len(p), NEW j \in 1..Len(p), i < j PROVE p[i] <= p[j]
  <2>1. i + sh[o] \in 1..Len(q) /\ j + sh[o] \in 1..Len(q) /\ i + sh[o] < j + sh[o]
    BY <1>0, <1>2, <1>3, <1>4
  <2>2. q[i + sh[o]] <= q[j + sh[o]]
    BY <2>1 DEF Laid
  <2>. QED BY <1>2, <2>2
<1>5. ASSUME NEW x \in Ops PROVE \E m \in 0..Len(p) : {i \in 1..Len(p) : p[i] = x} = (m + 1)..(m + t[x])
  <2>1. \A i \in 1..Len(p) : p[i] # o
    BY <1>0, <1>1, <1>2, <1>3
  <2>2. PICK m \in 0..Len(q) : /\ m + sh[x] <= Len(q)
                              /\ \A i \in 1..Len(q) : q[i] = x <=> m < i /\ i <= m + sh[x]
    BY RunOf
  <2>0. sh[x] \in Nat /\ t[x] \in Nat /\ (x # o => t[x] = sh[x]) /\ (x = o => t[x] = 0)
    OBVIOUS
  <2>3. CASE t[x] = 0
    <3>1. ASSUME NEW i \in 1..Len(p) PROVE p[i] # x
      <4>1. CASE x = o
        BY <2>1, <4>1
      <4>2. CASE x # o
        <5>1. i + sh[o] \in 1..Len(q) /\ sh[x] = 0
          BY <1>3, <2>0, <2>3, <4>2
        <5>2. q[i + sh[o]] # x
          BY <2>2, <5>1
        <5>. QED BY <1>2, <5>2
      <4>. QED BY <4>1, <4>2
    <3>2. {i \in 1..Len(p) : p[i] = x} = {}
      BY <3>1
    <3>3. (0 + 1)..(0 + t[x]) = {} /\ 0 \in 0..Len(p)
      BY <1>0, <1>1, <1>2, <2>3
    <3>. QED BY <3>2, <3>3
  <2>4. CASE t[x] # 0
    <3>1. x # o /\ t[x] = sh[x] /\ sh[x] > 0
      BY <2>0, <2>4
    <3>2. m + 1 \in 1..Len(q) /\ q[m + 1] = x
      BY <1>0, <2>0, <2>2, <3>1
    <3>3. m >= sh[o] /\ m - sh[o] \in 0..Len(p)
      BY <1>0, <1>1, <1>2, <3>1, <3>2
    <3>4. ASSUME NEW i \in 1..Len(p) PROVE p[i] = x <=> i \in ((m - sh[o]) + 1)..((m - sh[o]) + t[x])
      <4>1. q[i + sh[o]] = x <=> m < i + sh[o] /\ i + sh[o] <= m + sh[x]
        BY <1>3, <2>2
      <4>. QED BY <1>0, <1>2, <2>0, <3>1, <4>1
    <3>5. \A i \in ((m - sh[o]) + 1)..((m - sh[o]) + t[x]) : i \in 1..Len(p)
      BY <1>0, <1>2, <2>0, <2>2, <3>1, <3>3
    <3>6. {i \in 1..Len(p) : p[i] = x} = ((m - sh[o]) + 1)..((m - sh[o]) + t[x])
      BY <3>4, <3>5
    <3>. QED BY <3>3, <3>6
  <2>. QED BY <2>3, <2>4
<1>. QED BY <1>4, <1>5 DEF Laid, p

\* Stocked and Share, in terms of the variables.
InStock(x) ==
    \/ bk = "taken" /\ x = bop
    \/ \E i \in 1..Len(queue_info) : x = queue_info[i]
    \/ \E t \in Threads : Pushing(t) /\ x = cur[t]

LEMMA StockIs == ASSUME IInv, NEW x PROVE x \in Stocked <=> InStock(x)
<1>1. DOMAIN queue_info = 1..Len(queue_info)
  BY DEF IInv, TypeOK
<1>2. x \in ToSet(queue_info) <=> \E i \in 1..Len(queue_info) : x = queue_info[i]
  BY <1>1 DEF ToSet
<1>. QED BY <1>2 DEF Stocked, InStock, Op

LEMMA StockWillBe == ASSUME IInv', NEW x PROVE x \in Stocked' <=> InStock(x)'
<1>1. DOMAIN queue_info' = 1..Len(queue_info')
  BY DEF IInv, TypeOK
<1>2. x \in ToSet(queue_info') <=> \E i \in 1..Len(queue_info') : x = queue_info'[i]
  BY <1>1 DEF ToSet
<1>. QED BY <1>2 DEF Stocked, InStock, Op

Shares == [o \in Ops |-> Share(o)]

LEMMA LaidNow == ASSUME IInv, DataOrdered PROVE Laid(queue_data, Shares) /\ Shares \in [Ops -> Nat]
<1>1. \A o \in Ops : Share(o) \in Nat /\ Shares[o] = Share(o)
  BY DEF IInv, TypeOK, Share, Shares
<1>. QED BY <1>1 DEF DataOrdered, Laid, Shares

LEMMA LaidNext ==
    ASSUME NEW sh, Laid(queue_data', sh), \A o \in Ops : Share(o)' = sh[o]
    PROVE  DataOrdered'
BY DEF DataOrdered, Laid

\* The ops in stock have been admitted, and each byte belongs to one of them.
LEMMA StockKnown == ASSUME IInv, OInv, NEW o \in Stocked PROVE o \in 1..nops /\ o \in Ops
<1>1. InStock(o)
  BY StockIs
<1>2. o \in 1..nops
  BY <1>1 DEF InStock, OInv, OpsKnown, Pushing
<1>. QED BY <1>2, Bounds DEF IInv, TypeOK, Ops

LEMMA ByteInStock ==
    ASSUME IInv, DataOrdered, NEW i \in 1..Len(queue_data) PROVE queue_data[i] \in Stocked
<1>1. queue_data \in Seq(Ops)
  BY DEF IInv, TypeOK
<1>2. queue_data[i] \in Ops /\ Shares[queue_data[i]] > 0
  BY <1>1, LaidNow, ByteHasOwner
<1>. QED BY <1>2 DEF Shares, Share

\* Nothing that the alignment speaks of is touched.
LEMMA Untouched ==
    ASSUME IInv, IInv', QueuesAligned, UNCHANGED <<queue_info, queue_data>>,
           bk' = "taken" <=> bk = "taken", bk = "taken" => bop' = bop,
           \A t \in Threads : /\ Pushing(t)' <=> Pushing(t)
                              /\ Pushing(t) => cur'[t] = cur[t],
           \A o \in Stocked : size'[o] = size[o]
    PROVE  QueuesAligned'
<1>1. ASSUME NEW x PROVE InStock(x)' <=> InStock(x)
  BY DEF InStock
<1>2. ASSUME NEW o \in Ops PROVE Share(o)' = Shares[o]
  BY <1>1, StockIs, StockWillBe DEF Share, Shares
<1>3. DataOrdered'
  BY <1>2, LaidNow, LaidNext DEF QueuesAligned
<1>4. InfoOrdered'
  BY DEF QueuesAligned, InfoOrdered, Op
<1>. QED BY <1>3, <1>4 DEF QueuesAligned

\* A new op, with its first bytes.
LEMMA AdmitAligned ==
    ASSUME IInv, IInv', OInv, QueuesAligned, NEW t \in Threads, NEW k, NEW n \in Nat, NewOp(t, k, n),
           Holds(t), ~Pushing(t), nops < MaxOps, Pushing(t)', UNCHANGED <<bk, bop>>,
           \A u \in Threads : u # t => pc'[u] = pc[u]
    PROVE  QueuesAligned'
<1>. PICK p \in Ops : p = nops + 1
  BY Bounds DEF IInv, TypeOK, Ops
<1>0. nops \in Nat /\ p = nops + 1 /\ \A o \in Ops : o \in Nat
  BY Bounds DEF IInv, TypeOK, Ops
<1>1. /\ cur' = [cur EXCEPT ![t] = p] /\ size' = [size EXCEPT ![p] = n]
      /\ queue_data' = queue_data \o Bytes(p, n) /\ UNCHANGED queue_info
  BY <1>0 DEF NewOp
<1>2. \A u \in Threads : ~Pushing(u)
  BY DEF OInv, OneHolder, Holds, Holding, Submitting, Pushing
<1>3. \A u \in Threads : Pushing(u)' <=> u = t
  BY <1>2 DEF Pushing
<1>4. \A o \in Stocked : o \in Ops /\ o < p
  BY <1>0, StockKnown
<1>5. cur'[t] = p /\ size'[p] = n /\ \A o \in Ops : o # p => size'[o] = size[o]
  BY <1>0, <1>1 DEF IInv, TypeOK
<1>6. \A x : InStock(x)' <=> InStock(x) \/ x = p
  BY <1>1, <1>2, <1>3, <1>5 DEF InStock
<1>7. p \notin Stocked
  BY <1>0, <1>4
<1>8. \A x : x \in Stocked' <=> x \in Stocked \/ x = p
  BY <1>6, StockIs, StockWillBe
<1> DEFINE sh == [Shares EXCEPT ![p] = @ + n]
<1>9. \A o \in Ops : Share(o)' = sh[o]
  <2>1. Shares[p] = 0
    BY <1>0, <1>7 DEF Shares, Share
  <2>2. ASSUME NEW o \in Ops, o # p PROVE Share(o)' = Shares[o]
    BY <1>5, <1>8, <2>2 DEF Shares, Share
  <2>3. Share(p)' = n
    BY <1>5, <1>8 DEF Share
  <2>4. Shares \in [Ops -> Nat]
    BY LaidNow DEF QueuesAligned
  <2>5. sh[p] = n /\ \A o \in Ops : o # p => sh[o] = Shares[o]
    BY <2>1, <2>4
  <2>. QED BY <2>2, <2>3, <2>5
<1>10. Laid(queue_data \o Bytes(p, n), sh)
  <2>1. queue_data \in Seq(Ops)
    BY DEF IInv, TypeOK
  <2>2. \A i \in 1..Len(queue_data) : queue_data[i] <= p
    <3>1. ASSUME NEW i \in 1..Len(queue_data) PROVE queue_data[i] <= p
      <4>1. queue_data[i] \in Stocked
        BY ByteInStock DEF QueuesAligned
      <4>2. queue_data[i] \in Ops /\ queue_data[i] < p
        BY <1>4, <4>1
      <4>3. queue_data[i] \in Nat /\ p \in Nat
        BY <4>2, OpsAreNat
      <4>. QED BY <4>2, <4>3
    <3>. QED BY <3>1
  <2>. QED BY <1>0, <2>1, <2>2, LaidNow, PushLays DEF QueuesAligned
<1>11. DataOrdered'
  <2>. HIDE DEF sh
  <2>. QED BY <1>1, <1>9, <1>10, LaidNext
<1>12. InfoOrdered'
  <2>1. \A i \in 1..Len(queue_info) : queue_info[i] \in Stocked
    BY StockIs DEF InStock
  <2>2. bk = "taken" => bop \in Stocked
    BY StockIs DEF InStock
  <2>. QED BY <1>1, <1>3, <1>4, <1>5, <2>1, <2>2 DEF QueuesAligned, InfoOrdered, Op
<1>. QED BY <1>11, <1>12 DEF QueuesAligned

\* A Stream appends a chunk.
LEMMA ChunkAligned ==
    ASSUME IInv, IInv', OInv, QueuesAligned, NEW t \in Threads, NEW n \in Nat, StreamWrite(t, n)
    PROVE  QueuesAligned'
<1> DEFINE o == cur[t]
<1>1. /\ Pushing(t) /\ size' = [size EXCEPT ![o] = @ + n] /\ queue_data' = queue_data \o Bytes(o, n)
      /\ UNCHANGED <<queue_info, pc, cur, bk, bop>>
  BY DEF StreamWrite, Pushing, Op, calls, backend
<1>2. o \in Stocked /\ o \in Ops
  BY <1>1, StockIs, StockKnown DEF InStock
<1>3. \A x : x \in Stocked' <=> x \in Stocked
  <2>1. \A x : InStock(x)' <=> InStock(x)
    BY <1>1 DEF InStock, Pushing
  <2>. QED BY <2>1, StockIs, StockWillBe
<1> DEFINE sh == [Shares EXCEPT ![o] = @ + n]
<1>4. ASSUME NEW x \in Ops PROVE Share(x)' = sh[x]
  BY <1>1, <1>2, <1>3 DEF Share, Shares, IInv, TypeOK
<1>5. \A i \in 1..Len(queue_data) : queue_data[i] <= o
  <2>1. ASSUME NEW i \in 1..Len(queue_data) PROVE queue_data[i] <= o
    <3>1. InStock(queue_data[i])
      BY ByteInStock, StockIs DEF QueuesAligned
    <3>2. \A u \in Threads : Pushing(u) => u = t
      BY <1>1 DEF OInv, OneHolder, Holds, Holding, Submitting, Pushing
    <3>3. queue_data[i] < o \/ queue_data[i] = o
      BY <1>1, <3>1, <3>2 DEF InStock, QueuesAligned, InfoOrdered, Op
    <3>4. queue_data[i] \in Ops
      BY ByteInStock, StockKnown DEF QueuesAligned
    <3>. QED BY <1>2, <3>3, <3>4, OpsAreNat
  <2>. QED BY <2>1
<1>6. Laid(queue_data \o Bytes(o, n), sh)
  <2>1. queue_data \in Seq(Ops)
    BY DEF IInv, TypeOK
  <2>. QED BY <1>2, <1>5, <2>1, LaidNow, PushLays DEF QueuesAligned
<1>7. DataOrdered'
  <2>. HIDE DEF sh, o
  <2>. QED BY <1>1, <1>4, <1>6, LaidNext
<1>8. InfoOrdered'
  BY <1>1 DEF QueuesAligned, InfoOrdered, Op, Pushing
<1>. QED BY <1>7, <1>8 DEF QueuesAligned

\* The first op in stock leaves with its bytes.
LEMMA LeaveAligned ==
    ASSUME IInv, IInv', OInv, QueuesAligned, NEW o \in Stocked, \A x \in Stocked : o <= x,
           queue_data' = SubSeq(queue_data, size[o] + 1, Len(queue_data)), UNCHANGED size,
           \A x : x \in Stocked' <=> x \in Stocked /\ x # o
    PROVE  DataOrdered'
<1>1. o \in Ops /\ Shares[o] = size[o]
  BY StockKnown DEF Shares, Share
<1> DEFINE sh == [Shares EXCEPT ![o] = 0]
<1>2. ASSUME NEW x \in Ops PROVE Share(x)' = sh[x]
  BY <1>1 DEF Share, Shares
<1>3. Laid(SubSeq(queue_data, Shares[o] + 1, Len(queue_data)), sh)
  <2>1. queue_data \in Seq(Ops)
    BY DEF IInv, TypeOK
  <2>2. \A i \in 1..Len(queue_data) : o <= queue_data[i]
    BY ByteInStock DEF QueuesAligned
  <2>. QED BY <1>1, <2>1, <2>2, LaidNow, PopLays DEF QueuesAligned
<1>. HIDE DEF sh
<1>. QED BY <1>1, <1>2, <1>3, LaidNext

\* Submission; the way back; the backend.
LEMMA SubmitAligned ==
    ASSUME SyncOrReset, ~Discards, IInv, IInv', OInv, QueuesAligned, NEW t \in Threads,
           Lock(t) \/ StartCall(t)
    PROVE  QueuesAligned'
<1>1. CASE Lock(t)
  BY <1>1, Untouched DEF Lock, Goto, Pushing, IInv, TypeOK, queues, ops, backend
<1>2. ASSUME NEW k \in KindsOf(t), NEW n \in Sizes, PushPayload(t, k, n) PROVE QueuesAligned'
  <2>1. /\ NewOp(t, k, n) /\ Holds(t) /\ ~Pushing(t) /\ nops < MaxOps /\ n \in Nat
        /\ UNCHANGED <<bk, bop>>
    BY <1>2, Bounds DEF PushPayload, Holds, Holding, Submitting, Pushing, backend
  <2>2. Pushing(t)' /\ \A u \in Threads : u # t => pc'[u] = pc[u]
    BY <1>2 DEF PushPayload, Goto, Pushing, IInv, TypeOK
  <2>. QED BY <2>1, <2>2, AdmitAligned
<1>3. ASSUME NEW n \in Sizes, Full(t, n) PROVE QueuesAligned'
  BY <1>3, Untouched DEF Full, Goto, Pushing, IInv, TypeOK, queues, ops, backend
<1>4. ASSUME NEW k \in KindsOf(t), StreamAcquire(t, k) PROVE QueuesAligned'
  <2>1. /\ NewOp(t, k, 0) /\ Holds(t) /\ ~Pushing(t) /\ nops < MaxOps /\ 0 \in Nat
        /\ UNCHANGED <<bk, bop>>
    BY <1>4 DEF StreamAcquire, Holds, Holding, Submitting, Pushing, backend
  <2>2. Pushing(t)' /\ \A u \in Threads : u # t => pc'[u] = pc[u]
    BY <1>4 DEF StreamAcquire, Goto, Pushing, IInv, TypeOK
  <2>. QED BY <2>1, <2>2, AdmitAligned
<1>5. ASSUME NEW n \in Sizes, StreamWrite(t, n) PROVE QueuesAligned'
  BY <1>5, Bounds, ChunkAligned
<1>6. CASE StreamCommit(t)
  BY <1>6, Untouched DEF StreamCommit, Goto, Pushing, IInv, TypeOK, queues, ops, backend
<1>7. CASE StreamRelease(t)
  <2>1. /\ Pushing(t) /\ size[cur[t]] = 0 /\ size' = [size EXCEPT ![cur[t]] = 0]
        /\ cur' = [cur EXCEPT ![t] = NoOp] /\ pc' = [pc EXCEPT ![t] = "idle"]
        /\ UNCHANGED <<queue_info, queue_data, bk, bop>>
    BY <1>7 DEF StreamRelease, Pushing, Goto, Op, queues, backend
  <2>2. size' = size
    BY <2>1 DEF IInv, TypeOK
  <2>3. /\ \A u \in Threads : Pushing(u)' => Pushing(u) /\ cur'[u] = cur[u]
        /\ \A u \in Threads : Pushing(u) /\ u # t => Pushing(u)' /\ cur'[u] = cur[u]
    BY <2>1 DEF Pushing, IInv, TypeOK
  <2>4. \A x : InStock(x)' => InStock(x)
    BY <2>1, <2>3 DEF InStock
  <2>5. \A x : InStock(x) => InStock(x)' \/ x = cur[t]
    BY <2>1, <2>3 DEF InStock
  <2>6. ASSUME NEW o \in Ops PROVE Share(o)' = Shares[o]
    BY <2>1, <2>2, <2>4, <2>5, StockIs, StockWillBe DEF Share, Shares
  <2>7. DataOrdered'
    BY <2>1, <2>6, LaidNow, LaidNext DEF QueuesAligned
  <2>8. InfoOrdered'
    BY <2>1, <2>3 DEF QueuesAligned, InfoOrdered, Op
  <2>. QED BY <2>7, <2>8 DEF QueuesAligned
<1>8. CASE Publish(t)
  BY <1>8, Untouched DEF Publish, Goto, Pushing, IInv, TypeOK, queues, ops, backend
<1>9. CASE PushInfo(t)
  <2>1. /\ Pushing(t) /\ queue_info' = Append(queue_info, cur[t]) /\ pc' = [pc EXCEPT ![t] = "mark"]
        /\ UNCHANGED <<queue_data, cur, size, bk, bop>>
    BY <1>9 DEF PushInfo, Pushing, Goto, Op, ops, backend
  <2>2. /\ Len(queue_info) \in Nat /\ Len(queue_info') = Len(queue_info) + 1
        /\ queue_info'[Len(queue_info) + 1] = cur[t]
        /\ \A i \in 1..Len(queue_info) : queue_info'[i] = queue_info[i]
    <3>1. queue_info \in Seq(Ops) /\ cur[t] \in Ops
      BY <2>1 DEF IInv, TypeOK, CallHasOp, Pushing
    <3>. QED BY <2>1, <3>1, AppendProperties
  <2>3. \A i \in 1..Len(queue_info') : i \in 1..Len(queue_info) \/ i = Len(queue_info) + 1
    BY <2>2
  <2>4. \A u \in Threads : ~Pushing(u)' /\ (Pushing(u) <=> u = t)
    BY <2>1 DEF OInv, OneHolder, Holds, Holding, Submitting, Pushing, IInv, TypeOK
  <2>5. ASSUME NEW x PROVE InStock(x)' <=> InStock(x)
    BY <2>1, <2>2, <2>3, <2>4 DEF InStock
  <2>6. ASSUME NEW o \in Ops PROVE Share(o)' = Shares[o]
    BY <2>1, <2>5, StockIs, StockWillBe DEF Share, Shares
  <2>7. DataOrdered'
    BY <2>1, <2>6, LaidNow, LaidNext DEF QueuesAligned
  <2>8. InfoOrdered'
    BY <2>1, <2>2, <2>3, <2>4 DEF QueuesAligned, InfoOrdered, Op
  <2>. QED BY <2>7, <2>8 DEF QueuesAligned
<1>10. CASE MarkRunning(t)
  BY <1>10, Untouched DEF MarkRunning, Goto, Pushing, IInv, TypeOK, queues, backend
<1>11. CASE ArmWaiter(t)
  BY <1>11, Untouched DEF ArmWaiter, Goto, Pushing, IInv, TypeOK, queues, ops, backend
<1>12. CASE WriteFunPending(t)
  BY <1>12, Untouched DEF WriteFunPending, Goto, Pushing, IInv, TypeOK, queues, ops
<1>13. ASSUME NEW ans \in Answers, WriteFunSync(t, ans) PROVE QueuesAligned'
  <2>. PICK o \in Ops : o = cur[t]
    BY <1>13 DEF WriteFunSync, IInv, CallHasOp
  <2>1. /\ queue_info = <<o>> /\ queue_info' = <<>> /\ bk = "idle" /\ UNCHANGED <<bk, bop, size, cur>>
        /\ queue_data' = SubSeq(queue_data, size[o] + 1, Len(queue_data))
    BY <1>13 DEF WriteFunSync, Op, backend
  <2>2. \A u \in Threads : ~Pushing(u) /\ ~Pushing(u)'
    BY <1>13 DEF WriteFunSync, Goto, OInv, OneHolder, Holds, Holding, Submitting, Pushing,
       IInv, TypeOK
  <2>3. \A x : InStock(x) <=> x = o
    BY <2>1, <2>2 DEF InStock
  <2>4. \A x : ~InStock(x)'
    BY <2>1, <2>2 DEF InStock
  <2>5. DataOrdered'
    <3>1. o \in Stocked /\ \A x \in Stocked : o <= x
      BY <2>3, StockIs, OpsAreNat
    <3>2. \A x : x \in Stocked' <=> x \in Stocked /\ x # o
      BY <2>3, <2>4, StockIs, StockWillBe
    <3>. QED BY <2>1, <3>1, <3>2, LeaveAligned
  <2>6. InfoOrdered'
    BY <2>1, <2>2 DEF InfoOrdered
  <2>. QED BY <2>5, <2>6 DEF QueuesAligned
<1>. QED BY <1>1, <1>2, <1>3, <1>4, <1>5, <1>6, <1>7, <1>8, <1>9, <1>10, <1>11, <1>12,
     <1>13 DEF StartCall

LEMMA ReturnAligned ==
    ASSUME IInv, IInv', QueuesAligned, NEW t \in Threads,
           EndCall(t) \/ WaitTimeout(t) \/ WaitTimeoutLost(t)
    PROVE  QueuesAligned'
<1>1. UNCHANGED <<queue_info, queue_data, size, bk, bop>>
  BY DEF EndCall, WaitPosted, SyncLoad, SyncStore, Answer, Reap, DetachedStore, Release,
     ReturnResult,
     Unlock, WaitTimeout, WaitTimeoutLost, Return, Stay, queues, ops, backend
<1>2. ~Pushing(t)
  BY DEF EndCall, WaitPosted, SyncLoad, SyncStore, Answer, Reap, DetachedStore, Release,
     ReturnResult,
     Unlock, WaitTimeout, WaitTimeoutLost, Pushing
<1>3. ~Pushing(t)' /\ \A u \in Threads : u # t => pc'[u] = pc[u] /\ cur'[u] = cur[u]
  BY EndMoves DEF Pushing, IInv
<1>4. \A u \in Threads : (Pushing(u)' <=> Pushing(u)) /\ (Pushing(u) => cur'[u] = cur[u])
  BY <1>2, <1>3 DEF Pushing
<1>. QED BY <1>1, <1>4, Untouched

LEMMA BackendAligned ==
    ASSUME IInv, IInv', OInv, QueuesAligned, Completion \/ ResetClaim \/ ResetClear
    PROVE  QueuesAligned'
<1>1. CASE Take
  <2>1. /\ bk = "idle" /\ queue_info # <<>> /\ queue_info' = Tail(queue_info)
        /\ bop' = Head(queue_info) /\ bk' = "taken" /\ UNCHANGED <<queue_data, pc, cur, size>>
    BY <1>1 DEF Take, calls, ops
  <2>2. /\ bop' = queue_info[1] /\ Len(queue_info) \in Nat \ {0}
        /\ Len(queue_info') = Len(queue_info) - 1
        /\ \A i \in 1..Len(queue_info') : queue_info'[i] = queue_info[i + 1]
    BY <2>1, HeadTailProperties DEF IInv, TypeOK
  <2>3. \A i \in 1..Len(queue_info) : i = 1 \/ i - 1 \in 1..Len(queue_info')
    BY <2>2
  <2>4. \A i \in 1..Len(queue_info') : i + 1 \in 1..Len(queue_info)
    BY <2>2
  <2>5. \A u \in Threads : Pushing(u)' <=> Pushing(u)
    BY <2>1 DEF Pushing
  <2>6. ASSUME NEW x PROVE InStock(x)' <=> InStock(x)
    <3>1. InStock(x)' => InStock(x)
      BY <2>1, <2>2, <2>4, <2>5 DEF InStock
    <3>2. ASSUME NEW i \in 1..Len(queue_info), x = queue_info[i] PROVE InStock(x)'
      <4>1. CASE i = 1
        BY <2>1, <2>2, <3>2, <4>1 DEF InStock
      <4>2. CASE i # 1
        <5>1. i - 1 \in 1..Len(queue_info') /\ (i - 1) + 1 = i
          BY <2>3, <4>2
        <5>2. queue_info'[i - 1] = x
          BY <2>2, <3>2, <5>1
        <5>. QED BY <5>1, <5>2 DEF InStock
      <4>. QED BY <4>1, <4>2
    <3>. QED BY <2>1, <2>5, <3>1, <3>2 DEF InStock
  <2>7. ASSUME NEW o \in Ops PROVE Share(o)' = Shares[o]
    BY <2>1, <2>6, StockIs, StockWillBe DEF Share, Shares
  <2>8. DataOrdered'
    BY <2>1, <2>7, LaidNow, LaidNext DEF QueuesAligned
  <2>9. InfoOrdered'
    <3>1. \A i, j \in 1..Len(queue_info') : i < j => queue_info'[i] < queue_info'[j]
      BY <2>2, <2>4 DEF QueuesAligned, InfoOrdered
    <3>2. \A i \in 1..Len(queue_info') : bop' < queue_info'[i]
      BY <2>2, <2>4 DEF QueuesAligned, InfoOrdered
    <3>3. \A u \in Threads : Pushing(u) => /\ \A i \in 1..Len(queue_info') : queue_info'[i] < cur[u]
                                          /\ bop' < cur[u]
      BY <2>2, <2>4 DEF QueuesAligned, InfoOrdered, Op
    <3>. QED BY <2>1, <2>5, <3>1, <3>2, <3>3 DEF InfoOrdered, Op
  <2>. QED BY <2>8, <2>9 DEF QueuesAligned
<1>2. CASE PopPayload
  <2>. PICK o \in Ops : o = bop
    BY <1>2 DEF PopPayload, IInv, CompletionHasOp
  <2>1. /\ bk = "taken" /\ bk' = "popped" /\ UNCHANGED <<queue_info, pc, cur, size, bop>>
        /\ queue_data' = SubSeq(queue_data, size[o] + 1, Len(queue_data))
    BY <1>2 DEF PopPayload, calls, ops
  <2>2. \A u \in Threads : Pushing(u)' <=> Pushing(u)
    BY <2>1 DEF Pushing
  <2>3. ASSUME NEW x, InStock(x) PROVE x = o \/ o < x
    BY <2>1, <2>3 DEF InStock, QueuesAligned, InfoOrdered, Op
  <2>4. InStock(o)
    BY <2>1 DEF InStock
  <2>5. ASSUME NEW x PROVE InStock(x)' <=> InStock(x) /\ x # o
    <3>1. ASSUME InStock(x)' PROVE InStock(x) /\ o < x
      BY <2>1, <2>2, <3>1 DEF InStock, QueuesAligned, InfoOrdered, Op
    <3>2. InStock(x) /\ x # o => InStock(x)'
      BY <2>1, <2>2 DEF InStock
    <3>. QED BY <3>1, <3>2, OpsAreNat
  <2>6. DataOrdered'
    <3>1. o \in Stocked /\ \A x \in Stocked : o <= x
      BY <2>3, <2>4, StockIs, StockKnown, OpsAreNat
    <3>2. \A x : x \in Stocked' <=> x \in Stocked /\ x # o
      BY <2>5, StockIs, StockWillBe
    <3>. QED BY <2>1, <3>1, <3>2, LeaveAligned
  <2>7. InfoOrdered'
    BY <2>1, <2>2 DEF QueuesAligned, InfoOrdered, Op
  <2>. QED BY <2>6, <2>7 DEF QueuesAligned
<1>3. ASSUME UNCHANGED <<queue_info, queue_data, pc, cur, size>>, bk # "taken", bk' # "taken"
      PROVE  QueuesAligned'
  BY <1>3, Untouched DEF Pushing
<1>4. ASSUME NEW ans \in Answers, FinishStatus(ans) \/ FinishStore(ans) PROVE QueuesAligned'
  BY <1>3, <1>4 DEF FinishStatus, FinishStore, queues, calls
<1>5. CASE FinishClaim
  BY <1>3, <1>5 DEF FinishClaim, FinishUnclaimed, queues, calls, ops
<1>6. CASE FinishClaimPublishing
  BY <1>3, <1>6 DEF FinishClaimPublishing, FinishUnclaimed, queues, calls, ops
<1>7. CASE FinishUndetach \/ FinishPost \/ FinishUnexpected
  BY <1>3, <1>7 DEF FinishUndetach, FinishPost, FinishUnexpected, queues, calls, ops
<1>8. CASE ResetClaim
  BY <1>3, <1>8 DEF ResetClaim, queues, calls, ops
<1>9. CASE ResetClear
  <2>1. /\ queue_info' = <<>> /\ queue_data' = <<>> /\ bk' = "idle" /\ UNCHANGED <<pc, cur>>
        /\ busy = "RESETTING"
    BY <1>9 DEF ResetClear, ResetData, calls, OInv, ResetHolds
  <2>2. \A u \in Threads : ~Pushing(u) /\ ~Pushing(u)'
    BY <2>1 DEF OInv, BusyMatches, BusyFits, Pushing
  <2>3. \A x : ~InStock(x)'
    BY <2>1, <2>2 DEF InStock
  <2>4. \A o \in Ops : Share(o)' = 0
    BY <2>3, StockWillBe DEF Share
  <2>5. DataOrdered'
    BY <2>1, <2>4 DEF DataOrdered
  <2>6. InfoOrdered'
    BY <2>1, <2>2 DEF InfoOrdered
  <2>. QED BY <2>5, <2>6 DEF QueuesAligned
<1>. QED BY <1>1, <1>2, <1>4, <1>5, <1>6, <1>7, <1>8, <1>9 DEF Completion

LEMMA AlignedInit == ASSUME Init, IInv PROVE QueuesAligned
<1>1. \A u \in Threads : ~Pushing(u)
  BY DEF Init, Pushing
<1>2. \A x : ~InStock(x)
  BY <1>1 DEF Init, InStock
<1>3. \A o \in Ops : Share(o) = 0
  BY <1>2, StockIs DEF Share
<1>4. DataOrdered
  BY <1>3 DEF Init, DataOrdered
<1>5. InfoOrdered
  BY <1>1 DEF Init, InfoOrdered
<1>. QED BY <1>4, <1>5 DEF QueuesAligned

LEMMA AlignedStep ==
    ASSUME SyncOrReset, ~Discards, IInv, IInv', OInv, QueuesAligned, [Next]_vars
    PROVE  QueuesAligned'
<1>1. CASE UNCHANGED vars
  BY <1>1, Untouched DEF vars, queues, calls, ops, backend, Pushing
<1>. QED BY <1>1, SubmitAligned, ReturnAligned, BackendAligned DEF Next, ThreadStep

\* The payload queue is the concatenation of the queued batches, in the order of
\* the metadata queue, for any threads, writes, chunks and queue sizes, whenever
\* the backend takes, a call times out or Reset() empties both queues, as long as
\* no Stream discards what it pushed.
THEOREM PayloadAligned == ASSUME SyncOrReset, ~Discards PROVE Spec => []QueuesAligned
<1>1. Init => IInv /\ OInv /\ QueuesAligned
  BY InvInit, OInvInit, AlignedInit
<1>2. IInv /\ OInv /\ QueuesAligned /\ [Next]_vars => (IInv /\ OInv /\ QueuesAligned)'
  BY InvStep, OInvStep, AlignedStep
<1>. QED BY <1>1, <1>2, PTL DEF Spec

\* So the bytes that a backend pops for a write are the bytes of that write: the
\* converse of the finding on Stream::Discard, which is the only way to break it.
THEOREM PopsOwn == ASSUME SyncOrReset, ~Discards PROVE Spec => []PayloadIsOwn
<1>1. ASSUME IInv, OInv, QueuesAligned PROVE PayloadIsOwn
  <2>1. SUFFICES ASSUME bk = "taken", NEW i \in 1..size[bop], i <= Len(queue_data)
                 PROVE  queue_data[i] = bop
    BY DEF PayloadIsOwn
  <2>2. bop \in Ops /\ queue_data \in Seq(Ops) /\ bop \in Stocked
    BY <1>1, <2>1, StockIs DEF IInv, TypeOK, CompletionHasOp, InStock
  <2>3. \A x \in Stocked : bop <= x
    <3>1. ASSUME NEW x, InStock(x) PROVE x = bop \/ bop < x
      BY <1>1, <2>1, <3>1 DEF InStock, QueuesAligned, InfoOrdered, Op
    <3>. QED BY <1>1, <2>2, <3>1, StockIs, StockKnown, OpsAreNat
  <2>4. \A j \in 1..Len(queue_data) : bop <= queue_data[j]
    BY <1>1, <2>3, ByteInStock DEF QueuesAligned
  <2>5. Shares[bop] = size[bop]
    BY <2>2 DEF Shares, Share
  <2>6. Laid(queue_data, Shares) /\ Shares \in [Ops -> Nat]
    BY <1>1, LaidNow DEF QueuesAligned
  <2>7. \A j \in 1..Len(queue_data) : queue_data[j] = bop <=> j <= size[bop]
    <3>1. PICK o \in Ops : o = bop
      BY <2>2
    <3>2. \A j \in 1..Len(queue_data) : o <= queue_data[j]
      BY <2>4, <3>1
    <3>3. \A j \in 1..Len(queue_data) : queue_data[j] = o <=> j <= Shares[o]
      BY <2>2, <2>6, <3>2, FirstAtFront
    <3>. QED BY <2>5, <3>1, <3>3
  <2>8. i \in 1..Len(queue_data) /\ i <= size[bop]
    BY <1>1, <2>1, <2>2 DEF IInv, TypeOK
  <2>. QED BY <2>7, <2>8
<1>2. Spec => [](IInv /\ OInv)
  BY OwnedInv
<1>3. Spec => []QueuesAligned
  BY PayloadAligned
<1>. QED BY <1>1, <1>2, <1>3, PTL

----------------------------------------------------------------------------
(* The port as its callers see it: WritePort implements WriteService.          *)

\* One thread makes the BLOCK calls; the port may be reset under it.
OneWaiter == \A t, u \in BlockThreads : t = u

\* The writes that are neither answered nor dropped, as WriteService has them.
InHand == bk \in {"taken", "popped"}
Line == (IF InHand THEN <<bop>> ELSE <<>>) \o queue_info
ToldNow == [o \in Ops |-> Told(o)]
Misled == {Op(t) : t \in {u \in Threads : pc[u] = "result" /\ block_result # result[Op(u)]}}

\* What is being submitted is newer than all that was, and what was committed is
\* not empty.
Newest ==
    \A t \in Threads : Pushing(t) => cur[t] = nops /\ \A i \in 1..Len(Line) : Line[i] < cur[t]
Sized == \A t \in Threads : pc[t] \notin {"idle", "locked", "stream"} => size[cur[t]] > 0

\* The line is in the order of the submissions, and nobody in it was answered.
Unanswered ==
    /\ \A i, j \in 1..Len(Line) : i < j => Line[i] < Line[j]
    /\ \A i \in 1..Len(Line) : Line[i] \in 1..nops /\ result[Line[i]] = "none"

\* Who polls or is called back is told nothing before there is an answer, nor,
\* when write_fun_ answered, before the call says so.
Untold(o) == status[o] \in {"READY", "RUNNING"}
Owing == {"answer", "unlock", "answer_unlocked"}
AnswerOwed(t) ==
    /\ pc[t] \in {"answer", "answer_unlocked"}
         \/ (pc[t] = "unlock" /\ cur[t] \notin armed \cup batch) =>
       cur[t] \notin armed /\ result[cur[t]] # "none" /\ Untold(cur[t])
    /\ pc[t] = "answer" => cur[t] \in batch
StatusFits ==
    /\ \A o \in Ops : result[o] = "none" => Untold(o)
    /\ \A t \in Threads : AnswerOwed(t)

\* Nor is a BLOCK caller, before his call returns.
CallsUntold == \A t \in Threads : pc[t] \notin {"idle", "locked"} => ret[cur[t]] = "none"
NewUntold == \A o \in Ops : o > nops => ret[o] = "none"

\* block_result_ is the answer of the call that is about to return it, or OK if
\* a reset came after the port was released.
AtHand(t) ==
    /\ pc[t] \in {"synced", "sync_store", "release", "result"} => result[cur[t]] # "none"
    /\ pc[t] = "release" \/ sem[t] # 0 => block_result = result[cur[t]]
    /\ pc[t] = "result" =>
          /\ block_result \in {result[cur[t]], "OK"}
          /\ busy \in {"IDLE", "LOCKED", "RESETTING"} /\ bk # "reset_waiter"
AnswerAtHand ==
    /\ \A t \in Threads : AtHand(t)
    /\ bk \in {"claim", "post"} => block_result = result[bop]

SInv == /\ KindsFit /\ BlockOwners /\ ArmedKnown /\ Newest /\ Sized /\ Unanswered
        /\ StatusFits
        /\ CallsUntold /\ NewUntold /\ AnswerAtHand

----------------------------------------------------------------------------
(* The line.                                                                  *)

LEMMA LineType == ASSUME IInv PROVE Line \in Seq(Ops) /\ Len(Line) \in Nat
<1>1. InHand => bop \in Ops
  BY DEF IInv, CompletionHasOp, InHand
<1>2. (IF InHand THEN <<bop>> ELSE <<>>) \in Seq(Ops)
  BY <1>1
<1>3. queue_info \in Seq(Ops)
  BY DEF IInv, TypeOK
<1>4. Line \in Seq(Ops)
  BY <1>2, <1>3, ConcatProperties DEF Line
<1>. QED BY <1>4

LEMMA LineStays == UNCHANGED <<queue_info, bop>> /\ InHand' = InHand => Line' = Line
BY DEF Line

LEMMA LineGrows ==
    ASSUME IInv, NEW o \in Ops, queue_info' = Append(queue_info, o), UNCHANGED <<bk, bop>>
    PROVE  Line' = Append(Line, o)
<1> DEFINE h == IF InHand THEN <<bop>> ELSE <<>>
<1>1. InHand => bop \in Ops
  BY DEF IInv, CompletionHasOp, InHand
<1>2. h \in Seq(Ops) /\ queue_info \in Seq(Ops)
  BY <1>1 DEF IInv, TypeOK
<1>3. Line' = h \o Append(queue_info, o)
  BY DEF Line, InHand
<1> HIDE DEF h
<1>4. h \o Append(queue_info, o) = Append(h \o queue_info, o)
  BY <1>2
<1>. QED BY <1>3, <1>4 DEF Line, h

LEMMA LineTaken ==
    ASSUME IInv, bk = "idle", bk' = "taken", queue_info # <<>>,
           bop' = Head(queue_info), queue_info' = Tail(queue_info)
    PROVE  Line' = Line
<1>1. queue_info \in Seq(Ops)
  BY DEF IInv, TypeOK
<1>2. Line = queue_info
  BY <1>1 DEF Line, InHand
<1>3. Line' = <<Head(queue_info)>> \o Tail(queue_info)
  BY DEF Line, InHand
<1>4. <<Head(queue_info)>> \o Tail(queue_info) = queue_info
  BY <1>1
<1>. QED BY <1>2, <1>3, <1>4

LEMMA LineServed ==
    ASSUME IInv, InHand, ~InHand', UNCHANGED queue_info
    PROVE  Line # <<>> /\ Head(Line) = bop /\ Line' = Tail(Line)
<1>1. bop \in Ops /\ queue_info \in Seq(Ops)
  BY DEF IInv, TypeOK, CompletionHasOp, InHand
<1>2. Line = <<bop>> \o queue_info /\ Line' = queue_info
  BY <1>1 DEF Line
<1>. QED BY <1>1, <1>2

\* The steps that serve, accept or drop a write, or none.
LEMMA LinePushed ==
    ASSUME IInv, NEW t \in Threads, PushInfo(t)
    PROVE  Line' = Append(Line, cur[t]) /\ UNCHANGED result
BY LineGrows DEF PushInfo, IInv, CallHasOp, Op, backend, ops

LEMMA LineSynced ==
    ASSUME IInv, NEW t \in Threads, NEW ans \in Answers, WriteFunSync(t, ans)
    PROVE  /\ Line # <<>> /\ Line' = Tail(Line) /\ Head(Line) = cur[t]
           /\ result' = [result EXCEPT ![Head(Line)] = ans]
<1>1. bk = "idle" /\ bk' = bk /\ queue_info = <<cur[t]>> /\ queue_info' = <<>>
  BY DEF WriteFunSync, Op, backend
<1>2. cur[t] \in Ops
  BY DEF WriteFunSync, IInv, CallHasOp
<1>3. Line = <<cur[t]>> /\ Line' = <<>>
  BY <1>1, <1>2 DEF Line, InHand
<1>4. Line # <<>> /\ Head(Line) = cur[t] /\ Line' = Tail(Line)
  BY <1>2, <1>3
<1>. QED BY <1>4 DEF WriteFunSync, Op

LEMMA LineFinished ==
    ASSUME IInv, NEW ans \in Answers, FinishStatus(ans) \/ FinishStore(ans)
    PROVE  /\ Line # <<>> /\ Line' = Tail(Line) /\ Head(Line) = bop
           /\ result' = [result EXCEPT ![Head(Line)] = ans]
<1>1. Line # <<>> /\ Head(Line) = bop /\ Line' = Tail(Line)
  BY LineServed DEF FinishStatus, FinishStore, InHand, queues
<1>. QED BY <1>1 DEF FinishStatus, FinishStore

LEMMA LineDropped ==
    ASSUME ResetClear PROVE Line' = <<>> /\ UNCHANGED result
BY DEF ResetClear, InHand, Line, ops

Quiet ==
    /\ \A t \in Threads : ~PushInfo(t) /\ \A ans \in Answers : ~WriteFunSync(t, ans)
    /\ \A ans \in Answers : ~FinishStatus(ans) /\ ~FinishStore(ans)
    /\ ~ResetClear

LEMMA LineKept == ASSUME IInv, [Next]_vars, Quiet PROVE Line' = Line /\ UNCHANGED result
<1> USE DEF port, queues, calls, ops, backend
<1>1. ASSUME NEW t \in Threads, Lock(t) \/ StartCall(t) PROVE Line' = Line /\ UNCHANGED result
  <2>1. UNCHANGED <<queue_info, bk, bop, result>>
    BY <1>1 DEF Quiet, StartCall, Lock, PushPayload, NewOp, Full, StreamAcquire, StreamWrite,
         StreamCommit, StreamRelease, Publish, MarkRunning, ArmWaiter, WriteFunPending
  <2>. QED BY <2>1, LineStays DEF InHand
<1>2. ASSUME NEW t \in Threads, EndCall(t) \/ WaitTimeout(t) \/ WaitTimeoutLost(t)
      PROVE  Line' = Line /\ UNCHANGED result
  <2>1. UNCHANGED <<queue_info, bk, bop, result>>
    BY <1>2 DEF EndCall, WaitPosted, SyncLoad, SyncStore, Answer, Reap, DetachedStore, Release,
         ReturnResult, Unlock, WaitTimeout, WaitTimeoutLost, Return, Stay
  <2>. QED BY <2>1, LineStays DEF InHand
<1>3. CASE Take
  BY <1>3, LineTaken DEF Take
<1>4. CASE PopPayload
  BY <1>4, LineStays DEF PopPayload, InHand
<1>5. CASE FinishClaim \/ FinishClaimPublishing \/ FinishUndetach \/ FinishPost \/ FinishUnexpected
  <2>1. UNCHANGED <<queue_info, result>> /\ ~InHand /\ ~InHand'
    BY <1>5 DEF FinishClaim, FinishClaimPublishing, FinishUndetach, FinishPost, FinishUnexpected,
         FinishUnclaimed, InHand
  <2>. QED BY <2>1 DEF Line
<1>6. CASE ResetClaim
  BY <1>6, LineStays DEF ResetClaim, InHand
<1>7. CASE UNCHANGED vars
  BY <1>7, LineStays DEF vars, InHand
<1>. QED BY <1>1, <1>2, <1>3, <1>4, <1>5, <1>6, <1>7 DEF Quiet, Next, ThreadStep, Completion

\* A step leaves the line alone, or does to it what WriteService does.
LEMMA LineMoves ==
    ASSUME IInv, [Next]_vars
    PROVE  \/ Line' = Line /\ UNCHANGED result
           \/ \E t \in Threads : PushInfo(t) /\ Line' = Append(Line, cur[t])
           \/ /\ Line # <<>> /\ Line' = Tail(Line)
              /\ \E ans \in Answers : result' = [result EXCEPT ![Head(Line)] = ans]
           \/ Line' = <<>> /\ UNCHANGED result
<1>1. CASE Quiet
  BY <1>1, LineKept
<1>2. CASE ~Quiet
  BY <1>2, LinePushed, LineSynced, LineFinished, LineDropped DEF Quiet
<1>. QED BY <1>1, <1>2

----------------------------------------------------------------------------
(* The invariant of the service.                                              *)

\* Two calls under way have two ops, and of those only one is being submitted.
LEMMA CallsDiffer ==
    ASSUME OInv, NEW t \in Threads, NEW u \in Threads, t # u,
           pc[t] \notin {"idle", "locked"}, pc[u] \notin {"idle", "locked"}
    PROVE  cur[t] # cur[u]
BY DEF OInv, OpsKnown

\* Nothing new is being submitted by this step.
LEMMA NewestKept ==
    ASSUME IInv, Newest, \A t \in Threads : Pushing(t)' => Pushing(t) /\ cur'[t] = cur[t],
           nops' = nops,
           \A i \in 1..Len(Line') : \E j \in 1..Len(Line) : Line'[i] = Line[j]
    PROVE  Newest'
BY DEF Newest

LEMMA TailOf ==
    ASSUME NEW q \in Seq(Ops), q # <<>>
    PROVE  /\ Len(Tail(q)) = Len(q) - 1 /\ Len(q) \in Nat /\ Head(q) = q[1]
           /\ \A i \in 1..Len(Tail(q)) : Tail(q)[i] = q[i + 1] /\ i + 1 \in 1..Len(q)
OBVIOUS

\* Whatever leaves the line, what stays was in it.
LEMMA LineShrinks ==
    ASSUME IInv, IInv', [Next]_vars, \A t \in Threads : ~PushInfo(t)
    PROVE  \A i \in 1..Len(Line') : \E j \in 1..Len(Line) : Line'[i] = Line[j]
<1>1. CASE Line' = Line
  BY <1>1
<1>2. CASE Line # <<>> /\ Line' = Tail(Line)
  BY <1>2, LineType, TailOf
<1>3. CASE Line' = <<>>
  BY <1>3
<1>. QED BY <1>1, <1>2, <1>3, LineMoves

LEMMA NewestStep ==
    ASSUME IInv, IInv', OInv, Newest, Unanswered, [Next]_vars PROVE Newest'
<1> USE DEF IInv, TypeOK, Goto, Op, port, queues, calls, ops, backend
<1>l. (\A t \in Threads : ~PushInfo(t)) =>
        \A i \in 1..Len(Line') : \E j \in 1..Len(Line) : Line'[i] = Line[j]
  BY LineShrinks
<1>1. ASSUME NEW t \in Threads, NEW k \in KindsOf(t), NEW n \in Nat, NewOp(t, k, n),
             pc[t] = "locked", nops < MaxOps,
             NEW l, pc' = [pc EXCEPT ![t] = l], UNCHANGED backend
      PROVE  Newest'
  <2>1. \A u \in Threads : u # t => pc'[u] = pc[u] /\ ~Pushing(u)
    BY <1>1 DEF OInv, OneHolder, Holds, Holding, Submitting, Pushing
  <2>2. nops \in Nat /\ nops + 1 \in Ops /\ nops' = nops + 1
    BY <1>1, Bounds DEF NewOp, Ops
  <2>3. cur'[t] = nops + 1
    BY <1>1, <2>2 DEF NewOp
  <2>4. Line' = Line
    BY <1>1, LineStays DEF NewOp, InHand
  <2>5. \A i \in 1..Len(Line) : Line[i] < nops + 1
    <3> HIDE DEF IInv, TypeOK
    <3>1. \A i \in 1..Len(Line) : Line[i] \in 1..nops
      BY DEF Unanswered
    <3>. QED BY <2>2, <3>1
  <2>6. ASSUME NEW u \in Threads, Pushing(u)' PROVE u = t
    BY <2>1, <2>6 DEF Pushing
  <2> HIDE DEF IInv, TypeOK
  <2>. QED BY <2>2, <2>3, <2>4, <2>5, <2>6 DEF Newest
\* A step of a thread that does not start to push.
<1> DEFINE Moves(t, l) ==
          /\ pc' = [pc EXCEPT ![t] = l] /\ ~PushInfo(t)
          /\ l \in {"stream", "publish", "push"} => pc[t] \in {"stream", "publish"}
          /\ cur' = cur \/ (cur' = [cur EXCEPT ![t] = NoOp] /\ l = "idle")
          /\ nops' = nops
<1>2. ASSUME NEW t \in Threads, NEW l, Moves(t, l) PROVE Newest'
  <2>1. \A u \in Threads : u # t => pc'[u] = pc[u] /\ cur'[u] = cur[u]
    BY <1>2
  <2>2. pc'[t] = l /\ (l # "idle" => cur'[t] = cur[t])
    BY <1>2
  <2>3. \A u \in Threads : Pushing(u)' => Pushing(u) /\ cur'[u] = cur[u]
    BY <1>2, <2>1, <2>2 DEF Pushing
  <2>5. \A u \in Threads : ~PushInfo(u)
    <3>1. \A u \in Threads : PushInfo(u) => pc[u] = "push" /\ pc'[u] = "mark"
      BY DEF PushInfo
    <3>2. ~PushInfo(t)
      BY <1>2
    <3>3. ASSUME NEW u \in Threads, u # t PROVE ~PushInfo(u)
      BY <2>1, <3>1, <3>3
    <3>. QED BY <3>2, <3>3
  <2>. QED BY <1>2, <1>l, <2>3, <2>5, NewestKept
<1>3. ASSUME NEW t \in Threads, StartCall(t) \/ Lock(t) PROVE Newest'
  <2>1. ASSUME NEW k \in KindsOf(t), NEW n \in Sizes, PushPayload(t, k, n) PROVE Newest'
    <3>1. n \in Nat
      BY ConstantsAssumption
    <3>. QED BY <1>1, <2>1, <3>1 DEF PushPayload
  <2>2. ASSUME NEW k \in KindsOf(t), StreamAcquire(t, k) PROVE Newest'
    BY <1>1, <2>2 DEF StreamAcquire
  <2>3. ASSUME NEW n \in Sizes, StreamWrite(t, n) PROVE Newest'
    <3>1. \A u \in Threads : u # t => ~Pushing(u)
      BY <2>3 DEF StreamWrite, OInv, OneHolder, Holds, Holding, Submitting, Pushing
    <3>3. \A u \in Threads : ~PushInfo(u)
      BY <2>3 DEF StreamWrite, PushInfo, Pushing
    <3>4. \A u \in Threads : Pushing(u)' => Pushing(u) /\ cur'[u] = cur[u]
      BY <2>3 DEF StreamWrite, Pushing
    <3>. QED BY <2>3, <1>l, <3>3, <3>4, NewestKept DEF StreamWrite
  <2>4. CASE Lock(t)
    <3>1. Moves(t, "locked")
      BY <2>4 DEF Lock, PushInfo
    <3>. QED BY <1>2, <3>1
  <2>5. ASSUME NEW n \in Sizes, Full(t, n) PROVE Newest'
    <3>1. Moves(t, "idle")
      BY <2>5 DEF Full, PushInfo
    <3>. QED BY <1>2, <3>1
  <2>6. CASE StreamCommit(t)
    <3>1. Moves(t, "publish") \/ Moves(t, "push")
      BY <2>6 DEF StreamCommit, PushInfo
    <3>. QED BY <1>2, <3>1
  <2>7. CASE StreamRelease(t)
    <3>1. \A u \in Threads : u # t => ~Pushing(u) /\ pc'[u] = pc[u]
      BY <2>7 DEF StreamRelease, OInv, OneHolder, Holds, Holding, Submitting, Pushing
    <3>2. \A u \in Threads : ~Pushing(u)'
      BY <2>7, <3>1 DEF StreamRelease, Pushing
    <3>. QED BY <3>2 DEF Newest
  <2>8. CASE Publish(t)
    <3>1. Moves(t, "push")
      BY <2>8 DEF Publish, PushInfo, Newest
    <3>. QED BY <1>2, <3>1
  <2>9. CASE PushInfo(t)
    <3>1. \A u \in Threads : u # t => ~Pushing(u) /\ pc'[u] = pc[u]
      BY <2>9 DEF PushInfo, OInv, OneHolder, Holds, Holding, Submitting, Pushing
    <3>2. \A u \in Threads : ~Pushing(u)'
      BY <2>9, <3>1 DEF PushInfo, Pushing
    <3>. QED BY <3>2 DEF Newest
  <2>10. CASE MarkRunning(t)
    <3>1. Moves(t, "start")
      BY <2>10 DEF MarkRunning, PushInfo
    <3>. QED BY <1>2, <3>1
  <2>11. CASE ArmWaiter(t)
    <3>1. Moves(t, "start")
      BY <2>11 DEF ArmWaiter, PushInfo
    <3>. QED BY <1>2, <3>1
  <2>12. CASE WriteFunPending(t)
    <3>1. Moves(t, "wait") \/ Moves(t, "unlock")
      BY <2>12 DEF WriteFunPending, PushInfo
    <3>. QED BY <1>2, <3>1
  <2>13. ASSUME NEW ans \in Answers, WriteFunSync(t, ans) PROVE Newest'
    <3>1. Moves(t, "synced") \/ Moves(t, "answer") \/ Moves(t, "unlock")
      BY <2>13 DEF WriteFunSync, PushInfo
    <3>. QED BY <1>2, <3>1
  <2>. QED BY <1>3, <2>1, <2>2, <2>3, <2>4, <2>5, <2>6, <2>7, <2>8, <2>9, <2>10, <2>11, <2>12, <2>13
       DEF StartCall
<1>4. ASSUME NEW t \in Threads, EndCall(t) \/ WaitTimeout(t) \/ WaitTimeoutLost(t) PROVE Newest'
  <2>1. CASE WaitPosted(t)
    <3>1. Moves(t, "release")
      BY <2>1 DEF WaitPosted, Return, Stay, PushInfo
    <3>. QED BY <1>2, <3>1
  <2>2. CASE Reap(t)
    <3>1. Moves(t, "release")
      BY <2>2 DEF Reap, Return, Stay, PushInfo
    <3>. QED BY <1>2, <3>1
  <2>3. CASE Release(t)
    <3>1. Moves(t, "result")
      BY <2>3 DEF Release, Return, Stay, PushInfo
    <3>. QED BY <1>2, <3>1
  <2>4. CASE SyncLoad(t)
    <3>1. Moves(t, "reap") \/ Moves(t, "detached") \/ Moves(t, "sync_store")
      BY <2>4 DEF SyncLoad, Return, Stay, PushInfo
    <3>. QED BY <1>2, <3>1
  <2>5. CASE SyncStore(t)
    <3>1. Moves(t, "idle")
      BY <2>5 DEF SyncStore, Return, Stay, PushInfo
    <3>. QED BY <1>2, <3>1
  <2>6. CASE DetachedStore(t)
    <3>1. Moves(t, "idle")
      BY <2>6 DEF DetachedStore, Return, Stay, PushInfo
    <3>. QED BY <1>2, <3>1
  <2>7. CASE ReturnResult(t)
    <3>1. Moves(t, "idle")
      BY <2>7 DEF ReturnResult, Return, Stay, PushInfo
    <3>. QED BY <1>2, <3>1
  <2>8. CASE WaitTimeout(t)
    <3>1. Moves(t, "idle")
      BY <2>8 DEF WaitTimeout, Return, Stay, PushInfo
    <3>. QED BY <1>2, <3>1
  <2>9. CASE Answer(t)
    <3>1. Moves(t, "unlock") \/ Moves(t, "idle")
      BY <2>9 DEF Answer, Return, Stay, PushInfo
    <3>. QED BY <1>2, <3>1
  <2>10. CASE Unlock(t)
    <3>1. Moves(t, "idle") \/ Moves(t, "answer_unlocked")
      BY <2>10 DEF Unlock, Return, Stay, PushInfo
    <3>. QED BY <1>2, <3>1
  <2>11. CASE WaitTimeoutLost(t)
    <3>1. Moves(t, "reap") \/ Moves(t, "detached") \/ Moves(t, "idle")
      BY <2>11 DEF WaitTimeoutLost, Return, Stay, PushInfo
    <3>. QED BY <1>2, <3>1
  <2>. QED BY <1>4, <2>1, <2>2, <2>3, <2>4, <2>5, <2>6, <2>7, <2>8, <2>9, <2>10, <2>11 DEF EndCall
<1>5. CASE Completion \/ ResetClaim \/ ResetClear \/ UNCHANGED vars
  <2>1. UNCHANGED <<pc, cur, nops>>
    BY <1>5 DEF Completion, Take, PopPayload, FinishStatus, FinishStore, FinishClaim,
       FinishClaimPublishing, FinishUndetach, FinishPost, FinishUnexpected, ResetClaim, ResetClear,
       vars
  <2>2. \A t \in Threads : ~PushInfo(t)
    BY <2>1 DEF PushInfo
  <2>. QED BY <1>l, <2>1, <2>2, NewestKept DEF Newest, Pushing
<1>. QED BY <1>3, <1>4, <1>5 DEF Next, ThreadStep

\* What a call gets past CommitWrite with has bytes.
LEMMA SizedStep == ASSUME IInv, OInv, Sized, [Next]_vars PROVE Sized'
<1> USE DEF Goto, Op, port, queues, calls, ops, backend
<1> DEFINE S == {"idle", "locked", "stream"}
<1>t. pc \in [Threads -> ThreadPC] /\ cur \in [Threads -> Ops \cup {NoOp}] /\ size \in [Ops -> Nat]
      /\ nops \in Nat
  BY Bounds DEF IInv, TypeOK
<1>0. ASSUME NEW t \in Threads, \A u \in Threads : u # t => pc'[u] = pc[u] /\ cur'[u] = cur[u],
             \A u \in Threads : u # t /\ pc[u] \notin S => size'[cur[u]] = size[cur[u]],
             pc'[t] \notin S => size'[cur'[t]] > 0
      PROVE  Sized'
  BY <1>0 DEF Sized
<1>1. ASSUME NEW t \in Threads, NEW l, pc' = [pc EXCEPT ![t] = l], size' = size,
             cur' = cur \/ (cur' = [cur EXCEPT ![t] = NoOp] /\ l = "idle"),
             l \in S \/ pc[t] \notin S
      PROVE  Sized'
  BY <1>0, <1>1, <1>t DEF Sized
<1>2. ASSUME NEW t \in Threads, NEW k, NEW n \in Nat, NewOp(t, k, n), nops < MaxOps,
             NEW l, pc' = [pc EXCEPT ![t] = l], l \in S \/ n > 0
      PROVE  Sized'
  <2>1. nops + 1 \in Ops
    BY <1>2, <1>t, Bounds DEF Ops
  <2>2. \A u \in Threads : u # t => pc'[u] = pc[u] /\ cur'[u] = cur[u]
    BY <1>2, <1>t DEF NewOp
  <2>3. cur'[t] = nops + 1 /\ size'[nops + 1] = n /\ pc'[t] = l
    BY <1>2, <1>t, <2>1 DEF NewOp
  <2>4. \A u \in Threads : pc[u] \notin S => cur[u] # nops + 1
    BY <1>t DEF OInv, OpsKnown
  <2>5. \A u \in Threads : pc[u] \notin S => size'[cur[u]] = size[cur[u]]
    BY <1>2, <1>t, <2>4 DEF NewOp
  <2>. QED BY <1>0, <1>2, <2>2, <2>3, <2>5
<1>3. ASSUME NEW t \in Threads, NEW n, size' = [size EXCEPT ![cur[t]] = n], pc[t] = "stream",
             \A u \in Threads : u # t => pc'[u] = pc[u] /\ cur'[u] = cur[u], pc'[t] \in S
      PROVE  Sized'
  <2>1. \A u \in Threads : u # t /\ pc[u] \notin S => cur[u] # cur[t]
    BY <1>3, CallsDiffer
  <2>2. \A u \in Threads : u # t /\ pc[u] \notin S => size'[cur[u]] = size[cur[u]]
    BY <1>3, <1>t, <2>1
  <2>. QED BY <1>0, <1>3, <2>2
<1>4. ASSUME NEW t \in Threads, Lock(t) \/ StartCall(t) PROVE Sized'
  <2>1. ASSUME NEW k \in KindsOf(t), NEW n \in Sizes, PushPayload(t, k, n) PROVE Sized'
    <3>1. n \in Nat /\ n > 0
      BY ConstantsAssumption
    <3>. QED BY <1>2, <2>1, <3>1 DEF PushPayload
  <2>2. ASSUME NEW k \in KindsOf(t), StreamAcquire(t, k) PROVE Sized'
    BY <1>2, <2>2 DEF StreamAcquire
  <2>3. ASSUME NEW n \in Sizes, StreamWrite(t, n) PROVE Sized'
    BY <1>3, <2>3 DEF StreamWrite
  <2>4. CASE StreamRelease(t)
    BY <1>3, <1>t, <2>4 DEF StreamRelease
  <2>5. CASE StreamCommit(t)
    <3>1. size[cur[t]] > 0 /\ UNCHANGED <<cur, size>> /\ \A u \in Threads : u # t => pc'[u] = pc[u]
      BY <1>t, <2>5 DEF StreamCommit
    <3>. QED BY <1>0, <3>1
  <2>6. ASSUME NEW n \in Sizes, Full(t, n) PROVE Sized'
    BY <1>1, <2>6 DEF Full
  <2>7. CASE Lock(t)
    BY <1>1, <2>7 DEF Lock
  <2>8. CASE Publish(t) \/ PushInfo(t) \/ MarkRunning(t) \/ ArmWaiter(t)
    BY <1>1, <2>8 DEF Publish, PushInfo, MarkRunning, ArmWaiter
  <2>9. CASE WriteFunPending(t)
    BY <1>1, <2>9 DEF WriteFunPending
  <2>10. ASSUME NEW ans \in Answers, WriteFunSync(t, ans) PROVE Sized'
    BY <1>1, <2>10 DEF WriteFunSync
  <2>. QED BY <1>4, <2>1, <2>2, <2>3, <2>4, <2>5, <2>6, <2>7, <2>8, <2>9, <2>10 DEF StartCall
<1>5. ASSUME NEW t \in Threads, EndCall(t) \/ WaitTimeout(t) \/ WaitTimeoutLost(t) PROVE Sized'
  <2>1. CASE WaitPosted(t) \/ Reap(t) \/ Release(t)
    BY <1>1, <2>1 DEF WaitPosted, Reap, Release
  <2>2. CASE SyncLoad(t)
    BY <1>1, <2>2 DEF SyncLoad
  <2>3. CASE SyncStore(t) \/ DetachedStore(t) \/ ReturnResult(t) \/ WaitTimeout(t)
    BY <1>1, <2>3 DEF SyncStore, DetachedStore, ReturnResult, WaitTimeout, Return
  <2>4. CASE Answer(t)
    BY <1>1, <2>4 DEF Answer, Stay, Return
  <2>5. CASE Unlock(t)
    BY <1>1, <2>5 DEF Unlock, Stay, Return
  <2>6. CASE WaitTimeoutLost(t)
    BY <1>1, <2>6 DEF WaitTimeoutLost, Stay, Return
  <2>. QED BY <1>5, <2>1, <2>2, <2>3, <2>4, <2>5, <2>6 DEF EndCall
<1>6. CASE Completion \/ ResetClaim \/ ResetClear \/ UNCHANGED vars
  <2>1. UNCHANGED <<pc, cur, size>>
    BY <1>6 DEF Completion, Take, PopPayload, FinishStatus, FinishStore, FinishClaim,
       FinishClaimPublishing, FinishUndetach, FinishPost, FinishUnexpected, ResetClaim, ResetClear,
       vars
  <2>. QED BY <2>1 DEF Sized
<1>. QED BY <1>4, <1>5, <1>6 DEF Next, ThreadStep

LEMMA UnansweredStep ==
    ASSUME IInv, IInv', OInv, ArmedKnown, Newest, Unanswered, [Next]_vars PROVE Unanswered'
<1>1. nops \in Nat /\ nops' \in {nops, nops + 1}
  <2>1. nops \in Nat
    BY Bounds DEF IInv, TypeOK
  <2>2. ASSUME NEW t \in Threads, Lock(t) \/ ThreadStep(t) \/ WaitTimeout(t) \/ WaitTimeoutLost(t)
        PROVE  nops' \in {nops, nops + 1}
    BY <2>2 DEF ThreadStep, StartCall, EndCall, Lock, PushPayload, NewOp, Full, StreamAcquire,
       StreamWrite, StreamCommit, StreamRelease, Publish, PushInfo, MarkRunning, ArmWaiter,
       WriteFunPending, WriteFunSync, WaitPosted, SyncLoad, SyncStore, Answer, Reap, DetachedStore,
       Release, ReturnResult, Unlock, WaitTimeout, WaitTimeoutLost, Return, Stay, ops
  <2>3. ASSUME Completion \/ ResetClaim \/ ResetClear \/ UNCHANGED vars
        PROVE  nops' = nops
    BY <2>3 DEF Completion, Take, PopPayload, FinishStatus, FinishStore, FinishClaim,
       FinishClaimPublishing, FinishUndetach, FinishPost, FinishUnexpected, ResetClaim, ResetClear,
       vars, ops
  <2>. QED BY <2>1, <2>2, <2>3 DEF Next
<1>2. 1..nops \subseteq 1..nops'
  BY <1>1
<1>3. Line \in Seq(Ops) /\ Len(Line) \in Nat
  BY LineType
<1>4. CASE Line' = Line /\ UNCHANGED result
  BY <1>2, <1>4 DEF Unanswered
<1>5. ASSUME NEW t \in Threads, PushInfo(t), Line' = Append(Line, cur[t]) PROVE Unanswered'
  <2>1. cur[t] \in 1..nops /\ result[cur[t]] = "none" /\ cur[t] \in Ops
    BY <1>5 DEF PushInfo, OInv, OpsKnown, ArmedKnown, BeforeArming, IInv, CallHasOp
  <2>2. \A i \in 1..Len(Line) : Line[i] < cur[t]
    BY <1>5 DEF PushInfo, Newest, Pushing
  <2>3. /\ Len(Line') = Len(Line) + 1 /\ Line'[Len(Line) + 1] = cur[t]
        /\ \A i \in 1..Len(Line) : Line'[i] = Line[i]
    BY <1>3, <1>5, <2>1, AppendProperties
  <2>4. \A i \in 1..Len(Line') : i \in 1..Len(Line) \/ i = Len(Line) + 1
    BY <1>3, <2>3
  <2>5. result' = result
    BY <1>5 DEF PushInfo, ops
  <2>6. \A i \in 1..Len(Line') : Line'[i] \in 1..nops' /\ result'[Line'[i]] = "none"
    BY <1>2, <2>1, <2>3, <2>4, <2>5 DEF Unanswered
  <2>7. \A i, j \in 1..Len(Line') : i < j => Line'[i] < Line'[j]
    <3> SUFFICES ASSUME NEW i \in 1..Len(Line'), NEW j \in 1..Len(Line'), i < j
                 PROVE  Line'[i] < Line'[j]
      OBVIOUS
    <3>1. i \in 1..Len(Line)
      BY <1>3, <2>3
    <3>. QED BY <2>2, <2>3, <2>4, <3>1 DEF Unanswered
  <2>. QED BY <2>6, <2>7 DEF Unanswered
<1>6. ASSUME Line # <<>>, Line' = Tail(Line), NEW ans \in Answers,
             result' = [result EXCEPT ![Head(Line)] = ans] PROVE Unanswered'
  <2>1. /\ Len(Line') = Len(Line) - 1 /\ Head(Line) = Line[1]
        /\ \A i \in 1..Len(Line') : Line'[i] = Line[i + 1] /\ i + 1 \in 1..Len(Line)
    BY <1>3, <1>6, TailOf
  <2>2. \A i \in 1..Len(Line') : 1 \in 1..Len(Line) /\ 1 < i + 1
    BY <1>3, <2>1
  <2>3. \A i \in 1..Len(Line') : Line[1] < Line'[i]
    BY <2>1, <2>2 DEF Unanswered
  <2>4. \A i \in 1..Len(Line') : Line'[i] \in 1..nops /\ Line'[i] # Line[1]
    BY <1>1, <2>1, <2>2, <2>3 DEF Unanswered
  <2>5. \A i \in 1..Len(Line') : result'[Line'[i]] = "none"
    BY <1>6, <2>1, <2>4 DEF Unanswered, IInv, TypeOK
  <2>6. \A i, j \in 1..Len(Line') : i < j => Line'[i] < Line'[j]
    <3> SUFFICES ASSUME NEW i \in 1..Len(Line'), NEW j \in 1..Len(Line'), i < j
                 PROVE  Line'[i] < Line'[j]
      OBVIOUS
    <3>1. i + 1 \in 1..Len(Line) /\ j + 1 \in 1..Len(Line) /\ i + 1 < j + 1
      BY <2>1
    <3>2. Line[i + 1] < Line[j + 1]
      BY <3>1 DEF Unanswered
    <3>. QED BY <2>1, <3>2
  <2>. QED BY <1>2, <2>4, <2>5, <2>6 DEF Unanswered
<1>7. CASE Line' = <<>>
  BY <1>7 DEF Unanswered
<1>. QED BY <1>4, <1>5, <1>6, <1>7, LineMoves

\* A thread's answer is owed as before, if nothing of its op changes.
LEMMA OwedKept ==
    ASSUME NEW u \in Threads, AnswerOwed(u), pc'[u] = pc[u],
           pc[u] \in Owing =>
             /\ cur'[u] = cur[u] /\ (cur[u] \in armed' <=> cur[u] \in armed)
             /\ cur[u] \in batch => cur[u] \in batch'
             /\ result[cur[u]] # "none" => result'[cur[u]] # "none"
             /\ Untold(cur[u]) => Untold(cur[u])'
    PROVE  AnswerOwed(u)'
BY DEF AnswerOwed, Owing

LEMMA FitsStep ==
    ASSUME ~EarlyTake, IInv, IInv', OInv, ArmedKnown, StatusFits, [Next]_vars
    PROVE  StatusFits'
<1> USE DEF Goto, Op, port, queues, calls, ops, backend
\* A call changes nothing but its own op.
<1> DEFINE Own(t) ==
          /\ pc[t] \notin {"idle", "locked"}
          /\ \A u \in Threads : u # t => pc'[u] = pc[u] /\ cur'[u] = cur[u]
          /\ armed' \in {armed, armed \cup {cur[t]}} /\ batch' \in {batch, batch \ {cur[t]}}
          /\ \A o \in Ops : o # cur[t] => status'[o] = status[o] /\ result'[o] = result[o]
<1>0. ASSUME NEW t \in Threads, Own(t),
             result'[cur[t]] = "none" => status'[cur[t]] \in {"READY", "RUNNING"}, AnswerOwed(t)'
      PROVE  StatusFits'
  <2>1. ASSUME NEW u \in Threads, u # t PROVE AnswerOwed(u)'
    <3>1. pc[u] \in Owing => cur[u] # cur[t] /\ cur[u] \in Ops
      BY <1>0, <2>1, CallsDiffer DEF Owing, IInv, CallHasOp
    <3>2. pc[u] \in Owing => result'[cur[u]] = result[cur[u]] /\ status'[cur[u]] = status[cur[u]]
      BY <1>0, <3>1
    <3>3. AnswerOwed(u) /\ pc'[u] = pc[u] /\ cur'[u] = cur[u]
      BY <1>0, <2>1 DEF StatusFits
    <3>4. pc[u] \in Owing =>
            /\ cur[u] \in armed' <=> cur[u] \in armed
            /\ cur[u] \in batch => cur[u] \in batch'
      BY <1>0, <3>1
    <3>5. pc[u] \in Owing => (Untold(cur[u]) => Untold(cur[u])')
      BY <3>2, <3>3 DEF Untold
    <3>. QED BY <3>2, <3>3, <3>4, <3>5, OwedKept
  <2>2. ASSUME NEW o \in Ops, result'[o] = "none" PROVE Untold(o)'
    <3>1. CASE o = cur[t]
      BY <1>0, <2>2, <3>1 DEF Untold
    <3>2. CASE o # cur[t]
      BY <1>0, <2>2, <3>2 DEF StatusFits, Untold
    <3>. QED BY <3>1, <3>2
  <2>. QED BY <1>0, <2>1, <2>2 DEF StatusFits
\* A call that has no op yet, and a step that touches no answer.
<1>1. ASSUME UNCHANGED <<status, result, armed>>, batch \subseteq batch',
             \A t \in Threads : \/ pc'[t] \notin Owing
                                \/ pc'[t] = pc[t] /\ cur'[t] = cur[t]
      PROVE  StatusFits'
  <2>1. ASSUME NEW t \in Threads PROVE AnswerOwed(t)'
    <3>1. CASE pc'[t] \notin Owing
      BY <3>1 DEF AnswerOwed, Owing
    <3>2. CASE pc'[t] = pc[t] /\ cur'[t] = cur[t]
      BY <1>1, <3>2 DEF StatusFits, AnswerOwed, Untold
    <3>. QED BY <1>1, <3>1, <3>2
  <2>. QED BY <1>1, <2>1 DEF StatusFits, Untold
\* A call goes on, or ends, at a place where no answer is owed.
<1>2. ASSUME NEW t \in Threads, NEW l, pc[t] \notin {"idle", "locked"}, cur[t] \in Ops,
             pc' = [pc EXCEPT ![t] = l], l \notin Owing,
             cur' \in {cur, [cur EXCEPT ![t] = NoOp]}, batch' \in {batch, batch \ {cur[t]}},
             UNCHANGED <<armed, status, result>>
      PROVE  StatusFits'
  <2>1. pc \in [Threads -> ThreadPC] /\ cur \in [Threads -> Ops \cup {NoOp}]
    BY DEF IInv, TypeOK
  <2>2. Own(t)
    BY <1>2, <2>1
  <2>3. AnswerOwed(t)'
    BY <1>2, <2>1 DEF AnswerOwed, Owing
  <2>4. result'[cur[t]] = "none" => status'[cur[t]] \in {"READY", "RUNNING"}
    BY <1>2 DEF StatusFits, Untold
  <2>. QED BY <1>0, <2>2, <2>3, <2>4
<1>t. pc \in [Threads -> ThreadPC] /\ cur \in [Threads -> Ops \cup {NoOp}]
      /\ status \in [Ops -> {"READY", "RUNNING", "DONE", "ERROR"}]
      /\ result \in [Ops -> Answers \cup {"none"}]
  BY DEF IInv, TypeOK
<1>c. \A t \in Threads : pc[t] \notin {"idle", "locked"} => cur[t] \in Ops
  BY DEF IInv, CallHasOp
<1>3. ASSUME NEW t \in Threads, Lock(t) \/ StartCall(t) PROVE StatusFits'
  <2>1. ASSUME NEW k \in KindsOf(t), NEW n \in Sizes, PushPayload(t, k, n) PROVE StatusFits'
    BY <1>1, <1>t, <2>1 DEF PushPayload, NewOp, Owing
  <2>2. ASSUME NEW k \in KindsOf(t), StreamAcquire(t, k) PROVE StatusFits'
    BY <1>1, <1>t, <2>2 DEF StreamAcquire, NewOp, Owing
  <2>3. CASE Lock(t)
    BY <1>1, <1>t, <2>3 DEF Lock, Owing
  <2>4. ASSUME NEW n \in Sizes, Full(t, n) \/ StreamWrite(t, n) PROVE StatusFits'
    BY <1>1, <1>t, <2>4 DEF Full, StreamWrite, Owing
  <2>5. CASE StreamCommit(t) \/ Publish(t) \/ PushInfo(t) \/ ArmWaiter(t)
    BY <1>1, <1>t, <2>5 DEF StreamCommit, Publish, PushInfo, ArmWaiter, Owing
  <2>6. CASE StreamRelease(t)
    BY <1>2, <1>c, <2>6 DEF StreamRelease, Owing
  <2>7. CASE MarkRunning(t)
    <3>1. cur[t] \in Ops /\ status' = Running(cur[t]) /\ UNCHANGED <<cur, batch, armed, result>>
      BY <1>c, <2>7 DEF MarkRunning
    <3>2. pc[t] = "mark" /\ pc' = [pc EXCEPT ![t] = "start"]
      BY <2>7 DEF MarkRunning
    <3>3. Own(t)
      BY <1>t, <3>1, <3>2 DEF Running
    <3>4. AnswerOwed(t)'
      BY <1>t, <3>2 DEF AnswerOwed
    <3>5. result'[cur[t]] = "none" => status'[cur[t]] \in {"READY", "RUNNING"}
      BY <1>t, <3>1 DEF Running, Untold, StatusFits
    <3>. QED BY <1>0, <3>3, <3>4, <3>5
  <2>8. CASE WriteFunPending(t)
    <3>1. armed' = armed \cup {cur[t]} /\ UNCHANGED <<cur, batch, status, result>>
      BY <2>8 DEF WriteFunPending
    <3>2. pc[t] = "start" /\ pc'[t] \in {"wait", "unlock"} /\ cur[t] \in Ops
          /\ \A u \in Threads : u # t => pc'[u] = pc[u]
      BY <1>c, <1>t, <2>8 DEF WriteFunPending
    <3>3. Own(t)
      BY <3>1, <3>2
    <3>4. AnswerOwed(t)'
      BY <3>1, <3>2 DEF AnswerOwed
    <3>5. result'[cur[t]] = "none" => status'[cur[t]] \in {"READY", "RUNNING"}
      BY <3>1, <3>2 DEF Untold, StatusFits
    <3>. QED BY <1>0, <3>3, <3>4, <3>5
  <2>9. ASSUME NEW ans \in Answers, WriteFunSync(t, ans) PROVE StatusFits'
    <3>1. pc[t] = "start" /\ cur[t] \in Ops
      BY <1>c, <2>9 DEF WriteFunSync
    <3>2. cur[t] \notin armed /\ result[cur[t]] = "none" /\ Untold(cur[t])
      BY <3>1 DEF ArmedKnown, BeforeArming, StatusFits
    <3>3. result' = [result EXCEPT ![cur[t]] = ans] /\ UNCHANGED <<cur, batch, status, armed>>
      BY <2>9 DEF WriteFunSync
    <3>4. /\ pc'[t] \in {"synced", "answer", "unlock"} /\ (pc'[t] = "answer" => cur[t] \in batch)
          /\ \A u \in Threads : u # t => pc'[u] = pc[u]
      BY <1>t, <2>9 DEF WriteFunSync
    <3>5. result'[cur[t]] # "none"
      BY <1>t, <3>1, <3>3 DEF Answers
    <3>6. Own(t)
      BY <1>t, <3>1, <3>3, <3>4
    <3>7. AnswerOwed(t)'
      BY <3>2, <3>3, <3>4, <3>5 DEF AnswerOwed, Untold
    <3>. QED BY <1>0, <3>5, <3>6, <3>7
  <2>. QED BY <1>3, <2>1, <2>2, <2>3, <2>4, <2>5, <2>6, <2>7, <2>8, <2>9 DEF StartCall
<1>4. ASSUME NEW t \in Threads, EndCall(t) \/ WaitTimeout(t) \/ WaitTimeoutLost(t) PROVE StatusFits'
  <2>1. CASE WaitPosted(t) \/ Reap(t) \/ Release(t)
    BY <1>1, <1>t, <2>1 DEF WaitPosted, Reap, Release, Owing
  <2>2. CASE SyncLoad(t)
    BY <1>1, <1>t, <2>2 DEF SyncLoad, Owing
  <2>3. CASE SyncStore(t)
    BY <1>2, <1>c, <2>3 DEF SyncStore, Return, Owing
  <2>4. CASE DetachedStore(t)
    BY <1>2, <1>c, <2>4 DEF DetachedStore, Return, Owing
  <2>5. CASE ReturnResult(t)
    BY <1>2, <1>c, <2>5 DEF ReturnResult, Return, Owing
  <2>6. CASE WaitTimeout(t)
    BY <1>2, <1>c, <2>6 DEF WaitTimeout, Return, Owing
  <2>7. CASE WaitTimeoutLost(t)
    <3>1. pc[t] = "wait" /\ cur[t] \in Ops /\ UNCHANGED <<armed, status>>
      BY <1>c, <2>7 DEF WaitTimeoutLost
    <3>2. ASSUME NEW l, l \notin Owing, Stay(t, l) PROVE StatusFits'
      BY <1>2, <3>1, <3>2 DEF Stay
    <3>3. ASSUME Return(t, "TIMEOUT") PROVE StatusFits'
      BY <1>2, <3>1, <3>3 DEF Return, Owing
    <3>. QED BY <2>7, <3>2, <3>3 DEF WaitTimeoutLost, Owing
  <2>8. CASE Answer(t)
    <3>1. cur[t] \in Ops /\ pc[t] \in {"answer", "answer_unlocked"} /\ result[cur[t]] # "none"
      BY <1>c, <2>8 DEF Answer, StatusFits, AnswerOwed
    <3>2. /\ status' = [status EXCEPT ![cur[t]] = StatusOf(result[cur[t]])]
          /\ UNCHANGED <<armed, result>>
      BY <2>8 DEF Answer, Stay, Return
    <3>3. CASE pc[t] = "answer"
      <4>1. /\ pc' = [pc EXCEPT ![t] = "unlock"] /\ UNCHANGED <<cur, batch>>
            /\ cur[t] \in batch
        BY <2>8, <3>3 DEF Answer, Stay, StatusFits, AnswerOwed
      <4>2. Own(t)
        BY <1>t, <3>1, <3>2, <4>1
      <4>3. AnswerOwed(t)'
        BY <1>t, <4>1 DEF AnswerOwed
      <4>. QED BY <1>0, <3>1, <3>2, <4>2, <4>3
    <3>4. CASE pc[t] = "answer_unlocked"
      <4>1. /\ pc' = [pc EXCEPT ![t] = "idle"] /\ cur' = [cur EXCEPT ![t] = NoOp]
            /\ batch' = batch \ {cur[t]}
        BY <2>8, <3>4 DEF Answer, Return
      <4>2. Own(t)
        BY <1>t, <3>1, <3>2, <4>1
      <4>3. AnswerOwed(t)'
        BY <1>t, <4>1 DEF AnswerOwed
      <4>. QED BY <1>0, <3>1, <3>2, <4>2, <4>3
    <3>. QED BY <3>1, <3>3, <3>4
  <2>9. CASE Unlock(t)
    <3>1. pc[t] = "unlock" /\ cur[t] \in Ops /\ UNCHANGED <<result, armed, status>>
      BY <1>c, <2>9 DEF Unlock, Unmarked, Stay, Return
    <3>2. ASSUME NEW r, Return(t, r) PROVE StatusFits'
      BY <1>2, <3>1, <3>2 DEF Return, Owing
    <3>3. ASSUME Stay(t, "answer_unlocked"), cur[t] \notin armed \cup batch PROVE StatusFits'
      <4>1. pc' = [pc EXCEPT ![t] = "answer_unlocked"] /\ UNCHANGED <<cur, batch>>
        BY <3>3 DEF Stay
      <4>2. Own(t)
        BY <1>t, <3>1, <4>1
      <4>3. cur[t] \notin armed /\ result[cur[t]] # "none" /\ Untold(cur[t])
        BY <3>1, <3>3 DEF StatusFits, AnswerOwed
      <4>4. AnswerOwed(t)'
        BY <1>t, <3>1, <4>1, <4>3 DEF AnswerOwed, Untold
      <4>. QED BY <1>0, <3>1, <4>2, <4>3, <4>4
    <3>. QED BY <2>9, <3>2, <3>3 DEF Unlock
  <2>. QED BY <1>4, <2>1, <2>2, <2>3, <2>4, <2>5, <2>6, <2>7, <2>8, <2>9 DEF EndCall
\* The backend has ops in hand whose submitters owe no answer.
<1>5. ASSUME NEW ans \in Answers, FinishStatus(ans) \/ FinishStore(ans) PROVE StatusFits'
  <2>1. bop \in Ops /\ bop \in armed /\ result' = [result EXCEPT ![bop] = ans]
    BY <1>5 DEF FinishStatus, FinishStore, IInv, CompletionHasOp, ArmedKnown
  <2>2. \A o \in Ops : o # bop => status'[o] = status[o] /\ result'[o] = result[o]
    BY <1>5, <1>t, <2>1 DEF FinishStatus, FinishStore
  <2>3. result'[bop] # "none"
    BY <1>t, <2>1 DEF Answers
  <2>4. UNCHANGED <<pc, cur, armed, batch>>
    BY <1>5 DEF FinishStatus, FinishStore
  <2>5. ASSUME NEW t \in Threads PROVE AnswerOwed(t)'
    <3>1. AnswerOwed(t) /\ (pc[t] \in Owing => cur[t] \in Ops)
      BY <1>c DEF StatusFits, Owing
    <3>2. CASE cur[t] = bop
      BY <2>1, <2>4, <3>1, <3>2 DEF AnswerOwed
    <3>3. CASE cur[t] # bop
      BY <2>2, <2>4, <3>1, <3>3 DEF AnswerOwed, Untold, Owing
    <3>. QED BY <3>2, <3>3
  <2>. QED BY <2>2, <2>3, <2>5 DEF StatusFits, Untold
<1>6. ASSUME UNCHANGED <<pc, cur, armed, batch, status, result>> PROVE StatusFits'
  BY <1>1, <1>6
<1>7. CASE Completion \/ ResetClaim \/ ResetClear \/ UNCHANGED vars
  BY <1>5, <1>6, <1>7 DEF Completion, Take, PopPayload, FinishClaim, FinishClaimPublishing,
     FinishUndetach, FinishPost, FinishUnexpected, ResetClaim, ResetClear, vars
<1>. QED BY <1>3, <1>4, <1>7 DEF Next, ThreadStep

LEMMA UntoldStep ==
    ASSUME IInv, IInv', OInv, CallsUntold, NewUntold, [Next]_vars PROVE CallsUntold' /\ NewUntold'
<1> USE DEF IInv, TypeOK, CallHasOp, CallsUntold, NewUntold, Goto, Op, port, queues, calls, ops,
     backend
<1>1. ASSUME UNCHANGED <<ret, nops>>,
             \A t \in Threads : pc'[t] \notin {"idle", "locked"} =>
                 pc[t] \notin {"idle", "locked"} /\ cur'[t] = cur[t]
      PROVE  CallsUntold' /\ NewUntold'
  BY <1>1
<1>2. ASSUME NEW t \in Threads, NEW r, Return(t, r), pc[t] \notin {"idle", "locked"}
      PROVE  CallsUntold' /\ NewUntold'
  <2>1. /\ \A u \in Threads : u # t => pc'[u] = pc[u] /\ cur'[u] = cur[u]
        /\ pc'[t] = "idle" /\ \A o \in Ops : o # cur[t] => ret'[o] = ret[o]
        /\ nops' = nops
    BY <1>2 DEF Return
  <2>2. cur[t] \in 1..nops /\ nops \in Nat
    BY <1>2, Bounds DEF OInv, OpsKnown
  <2>3. \A u \in Threads : u # t /\ pc[u] \notin {"idle", "locked"} =>
            cur[u] # cur[t] /\ cur[u] \in Ops
    BY <1>2, CallsDiffer
  <2>4. ASSUME NEW u \in Threads, pc'[u] \notin {"idle", "locked"} PROVE ret'[cur'[u]] = "none"
    <3>1. u # t /\ pc[u] \notin {"idle", "locked"}
      BY <2>1, <2>4
    <3>. QED BY <2>1, <2>3, <3>1
  <2>5. \A o \in Ops : o > nops => o # cur[t]
    BY <2>2, Bounds DEF Ops
  <2>. QED BY <2>1, <2>4, <2>5
<1>3. ASSUME NEW t \in Threads, NEW k, NEW n, NewOp(t, k, n), nops < MaxOps, NEW l,
             pc[t] = "locked", pc' = [pc EXCEPT ![t] = l]
      PROVE  CallsUntold' /\ NewUntold'
  <2>1. nops \in Nat /\ nops + 1 \in Ops /\ nops' = nops + 1 /\ ret' = ret
    BY <1>3, Bounds DEF NewOp, Ops
  <2>2. /\ \A u \in Threads : u # t => pc'[u] = pc[u] /\ cur'[u] = cur[u]
        /\ cur'[t] = nops + 1
    BY <1>3, <2>1 DEF NewOp
  <2>3. ret[nops + 1] = "none"
    BY <2>1
  <2>4. ASSUME NEW u \in Threads, pc'[u] \notin {"idle", "locked"} PROVE ret'[cur'[u]] = "none"
    <3>1. CASE u = t
      BY <2>1, <2>2, <2>3, <3>1
    <3>2. CASE u # t
      BY <2>1, <2>2, <2>4, <3>2
    <3>. QED BY <3>1, <3>2
  <2>5. \A o \in Ops : o > nops + 1 => o > nops
    BY <2>1, Bounds DEF Ops
  <2>. QED BY <1>3, <2>1, <2>4, <2>5
<1>4. ASSUME NEW t \in Threads, Lock(t) \/ StartCall(t) PROVE CallsUntold' /\ NewUntold'
  <2>1. ASSUME NEW k \in KindsOf(t), NEW n \in Sizes, PushPayload(t, k, n)
        PROVE  CallsUntold' /\ NewUntold'
    BY <1>3, <2>1 DEF PushPayload
  <2>2. ASSUME NEW k \in KindsOf(t), StreamAcquire(t, k) PROVE CallsUntold' /\ NewUntold'
    BY <1>3, <2>2 DEF StreamAcquire
  <2>3. ASSUME ~\E k \in KindsOf(t), n \in Sizes : PushPayload(t, k, n),
               ~\E k \in KindsOf(t) : StreamAcquire(t, k)
        PROVE  CallsUntold' /\ NewUntold'
    <3>1. CASE Lock(t)
      BY <1>1, <3>1 DEF Lock
    <3>2. CASE \E n \in Sizes : Full(t, n) \/ StreamWrite(t, n)
      BY <1>1, <3>2 DEF Full, StreamWrite
    <3>3. CASE StreamCommit(t) \/ StreamRelease(t)
      BY <1>1, <3>3 DEF StreamCommit, StreamRelease
    <3>4. CASE Publish(t) \/ PushInfo(t)
      BY <1>1, <3>4 DEF Publish, PushInfo
    <3>5. CASE MarkRunning(t) \/ ArmWaiter(t)
      BY <1>1, <3>5 DEF MarkRunning, ArmWaiter
    <3>6. CASE WriteFunPending(t) \/ \E ans \in Answers : WriteFunSync(t, ans)
      BY <1>1, <3>6 DEF WriteFunPending, WriteFunSync
    <3>. QED BY <1>4, <2>3, <3>1, <3>2, <3>3, <3>4, <3>5, <3>6 DEF StartCall
  <2>. QED BY <2>1, <2>2, <2>3
<1>5. ASSUME NEW t \in Threads, EndCall(t) \/ WaitTimeout(t) \/ WaitTimeoutLost(t)
      PROVE  CallsUntold' /\ NewUntold'
  <2>1. CASE WaitPosted(t) \/ Reap(t) \/ SyncLoad(t) \/ Release(t)
    BY <1>1, <2>1 DEF WaitPosted, Reap, SyncLoad, Release
  <2>2. CASE SyncStore(t) \/ DetachedStore(t) \/ ReturnResult(t) \/ WaitTimeout(t)
    BY <1>2, <2>2 DEF SyncStore, DetachedStore, ReturnResult, WaitTimeout
  <2>3. CASE Answer(t)
    <3>1. CASE pc[t] = "answer"
      BY <1>1, <2>3, <3>1 DEF Answer, Stay
    <3>2. CASE pc[t] = "answer_unlocked"
      BY <1>2, <2>3, <3>2 DEF Answer
    <3>. QED BY <2>3, <3>1, <3>2 DEF Answer
  <2>4. CASE Unlock(t)
    <3>1. CASE Stay(t, "answer_unlocked")
      BY <1>1, <2>4, <3>1 DEF Unlock, Stay
    <3>2. ASSUME NEW r, Return(t, r) PROVE CallsUntold' /\ NewUntold'
      BY <1>2, <2>4, <3>2 DEF Unlock
    <3>. QED BY <2>4, <3>1, <3>2 DEF Unlock
  <2>5. CASE WaitTimeoutLost(t)
    <3>1. ASSUME NEW l, Stay(t, l) PROVE CallsUntold' /\ NewUntold'
      BY <1>1, <2>5, <3>1 DEF WaitTimeoutLost, Stay
    <3>2. ASSUME NEW r, Return(t, r) PROVE CallsUntold' /\ NewUntold'
      BY <1>2, <2>5, <3>2 DEF WaitTimeoutLost
    <3>. QED BY <2>5, <3>1, <3>2 DEF WaitTimeoutLost
  <2>. QED BY <1>5, <2>1, <2>2, <2>3, <2>4, <2>5 DEF EndCall
<1>6. CASE Completion \/ ResetClaim \/ ResetClear \/ UNCHANGED vars
  BY <1>1, <1>6 DEF Completion, Take, PopPayload, FinishStatus, FinishStore, FinishClaim,
     FinishClaimPublishing, FinishUndetach, FinishPost, FinishUnexpected, ResetClaim, ResetClear, vars
<1>. QED BY <1>4, <1>5, <1>6 DEF Next, ThreadStep

\* An answer stays: what is served has none yet.
LEMMA AnswersStay ==
    ASSUME IInv, Unanswered, [Next]_vars
    PROVE  \A o \in Ops : result[o] # "none" => result'[o] = result[o]
<1>1. result \in [Ops -> Answers \cup {"none"}] /\ Line \in Seq(Ops)
  BY LineType DEF IInv, TypeOK
<1>2. ASSUME Line # <<>>, NEW ans \in Answers, result' = [result EXCEPT ![Head(Line)] = ans]
      PROVE  \A o \in Ops : result[o] # "none" => result'[o] = result[o]
  <2>1. 1 \in 1..Len(Line) /\ Head(Line) = Line[1]
    BY <1>1, <1>2
  <2>2. result[Head(Line)] = "none"
    BY <2>1 DEF Unanswered
  <2>. QED BY <1>1, <1>2, <2>2
<1>3. CASE UNCHANGED result
  BY <1>3
<1>4. CASE \E t \in Threads : PushInfo(t)
  BY <1>4 DEF PushInfo, ops
<1>. QED BY <1>2, <1>3, <1>4, LineMoves

\* What a call at its end knows, while another takes a step.
LEMMA AtHandKept ==
    ASSUME IInv, NEW u \in Threads, AtHand(u), pc'[u] = pc[u], cur'[u] = cur[u], sem'[u] = sem[u],
           sem[u] # 0 => result[cur[u]] # "none", block_result' = block_result,
           result[cur[u]] # "none" => result'[cur[u]] = result[cur[u]],
           pc[u] = "result" => busy' \in {"IDLE", "LOCKED", "RESETTING"} /\ bk' # "reset_waiter"
    PROVE  AtHand(u)'
BY DEF AtHand

\* Nobody is about to return an answer when the backend stores the next one.
LEMMA NobodyReads ==
    ASSUME IInv, OInv, AnswerAtHand, NEW ans \in Answers, FinishStore(ans)
    PROVE  \A t \in Threads : pc[t] \notin {"release", "result"} /\ sem[t] = 0
<1>1. bk = "popped" /\ IsBlock(bop) /\ bop \in Ops /\ Live(bop)
  BY HandLive DEF FinishStore, Handing
<1>2. \A t \in Threads : sem[t] = 0 /\ pc[t] # "release"
  BY <1>1, Due DEF OInv, Tokens, Holds, Holding
<1>3. ASSUME NEW t \in Threads, pc[t] = "result" PROVE FALSE
  <2>1. busy = "RESETTING" /\ Calling(bop, {"mark", "start", "wait"})
    BY <1>1, <1>3 DEF OInv, LiveKnown, AnswerAtHand, AtHand
  <2>2. owner[bop] \in Threads /\ cur[owner[bop]] = bop /\ pc[owner[bop]] \in {"mark", "start", "wait"}
    BY <2>1 DEF Calling
  <2>3. BusyFits(owner[bop])
    BY <2>2 DEF OInv, BusyMatches
  <2>. QED BY <1>1, <2>1, <2>2, <2>3 DEF BusyFits
<1>. QED BY <1>2, <1>3

LEMMA AtHandStep ==
    ASSUME OneWaiter, ~EarlyTake, IInv, IInv', OInv, OInv', KindsFit, BlockOwners, ArmedKnown,
           Unanswered, AnswerAtHand, [Next]_vars
    PROVE  AnswerAtHand'
<1> USE DEF Goto, Op, port, queues, calls, ops, backend
<1>t. /\ pc \in [Threads -> ThreadPC] /\ cur \in [Threads -> Ops \cup {NoOp}] /\ sem \in [Threads -> Nat]
      /\ result \in [Ops -> Answers \cup {"none"}]
  BY DEF IInv, TypeOK
<1>c. \A t \in Threads : pc[t] \notin {"idle", "locked"} => cur[t] \in Ops
  BY DEF IInv, CallHasOp
<1>h. \A t \in Threads : AtHand(t)
  BY DEF AnswerAtHand
<1>s. \A t \in Threads : sem[t] # 0 =>
          /\ pc[t] \in {"mark", "start", "wait", "reap"} /\ result[cur[t]] # "none"
          /\ busy = "BLOCK_CLAIMED"
  BY DEF OInv, Tokens
<1>m. \A t \in Threads : pc[t] \notin {"idle", "locked"} /\ result[cur[t]] # "none" =>
          result'[cur[t]] = result[cur[t]]
  BY <1>c, AnswersStay
<1>w. bk \in {"claim", "post"} => bop \in Ops /\ result[bop] # "none" /\ result'[bop] = result[bop]
  BY AnswersStay DEF OInv, Finishing, IInv, CompletionHasOp
\* The thread at "result" is the only one that makes BLOCK calls.
<1>0. ASSUME NEW t \in Threads, NEW u \in Threads, pc[u] = "result", pc[t] \notin {"idle", "locked"},
             IsBlock(cur[t])
      PROVE  t = u
  <2>1. cur[t] \in 1..nops /\ owner[cur[t]] = t /\ cur[u] \in 1..nops /\ owner[cur[u]] = u
    BY <1>0 DEF OInv, OpsKnown
  <2>2. IsBlock(cur[u])
    BY <1>0 DEF KindsFit, KindFits
  <2>3. t \in BlockThreads /\ u \in BlockThreads
    BY <1>0, <2>1, <2>2 DEF BlockOwners
  <2>. QED BY <2>3 DEF OneWaiter
\* A call leaves the others and block_result_ alone.
<1> DEFINE Alone(t) ==
          /\ UNCHANGED <<block_result, bk, bop>>
          /\ \A u \in Threads : u # t => pc'[u] = pc[u] /\ cur'[u] = cur[u] /\ sem'[u] = sem[u]
          /\ \/ busy' \in {busy, "IDLE", "LOCKED"}
             \/ pc[t] \notin {"idle", "locked"} /\ IsBlock(cur[t])
<1>1. ASSUME NEW t \in Threads, Alone(t), AtHand(t)' PROVE AnswerAtHand'
  <2>1. ASSUME NEW u \in Threads, u # t PROVE AtHand(u)'
    <3>1. pc[u] = "result" => busy' \in {"IDLE", "LOCKED", "RESETTING"} /\ bk' # "reset_waiter"
      BY <1>0, <1>1, <1>h, <2>1 DEF AtHand
    <3>2. CASE pc[u] \in {"idle", "locked"}
      BY <1>1, <1>s, <2>1, <3>2 DEF AtHand
    <3>3. CASE pc[u] \notin {"idle", "locked"}
      BY <1>1, <1>h, <1>s, <1>m, <2>1, <3>1, <3>3, AtHandKept
    <3>. QED BY <3>2, <3>3
  <2>. QED BY <1>1, <1>w, <2>1 DEF AnswerAtHand
\* ... and goes on to a place where it needs no answer.
<1>2. ASSUME NEW t \in Threads, NEW l, pc' = [pc EXCEPT ![t] = l],
             l \notin {"synced", "sync_store", "release", "result"}, sem' = sem,
             UNCHANGED <<block_result, bk, bop>>,
             \/ busy' \in {busy, "IDLE", "LOCKED"}
             \/ pc[t] \notin {"idle", "locked"} /\ IsBlock(cur[t]),
             \/ cur' = cur
             \/ sem[t] = 0 /\ \A u \in Threads : u # t => cur'[u] = cur[u]
      PROVE  AnswerAtHand'
  <2>1. Alone(t)
    BY <1>2, <1>t
  <2>2. AtHand(t)'
    BY <1>2, <1>t, <1>h, <1>s, <1>m DEF AtHand
  <2>. QED BY <1>1, <2>1, <2>2
<1>3. ASSUME NEW t \in Threads, Lock(t) \/ StartCall(t) PROVE AnswerAtHand'
  <2>1. ASSUME NEW k \in KindsOf(t), NEW n \in Sizes, PushPayload(t, k, n) PROVE AnswerAtHand'
    BY <1>2, <1>t, <1>s, <2>1 DEF PushPayload, NewOp
  <2>2. ASSUME NEW k \in KindsOf(t), StreamAcquire(t, k) PROVE AnswerAtHand'
    BY <1>2, <1>t, <1>s, <2>2 DEF StreamAcquire, NewOp
  <2>3. ASSUME NEW n \in Sizes, StreamWrite(t, n) PROVE AnswerAtHand'
    <3>1. Alone(t)
      BY <2>3 DEF StreamWrite
    <3>2. AtHand(t)'
      BY <2>3, <1>s DEF StreamWrite, AtHand
    <3>. QED BY <1>1, <3>1, <3>2
  <2>4. CASE StreamRelease(t)
    BY <1>2, <1>t, <1>s, <2>4 DEF StreamRelease
  <2>5. CASE StreamCommit(t)
    BY <1>2, <2>5 DEF StreamCommit
  <2>6. ASSUME NEW n \in Sizes, Full(t, n) PROVE AnswerAtHand'
    BY <1>2, <2>6 DEF Full
  <2>7. CASE Lock(t)
    BY <1>2, <2>7 DEF Lock
  <2>8. CASE Publish(t)
    <3>1. IsBlock(cur[t])
      BY <2>8 DEF Publish, KindsFit, KindFits
    <3>. QED BY <1>2, <2>8, <3>1 DEF Publish
  <2>9. CASE PushInfo(t) \/ MarkRunning(t)
    BY <1>2, <2>9 DEF PushInfo, MarkRunning
  <2>10. CASE ArmWaiter(t)
    BY <1>2, <2>10 DEF ArmWaiter
  <2>11. CASE WriteFunPending(t)
    BY <1>2, <2>11 DEF WriteFunPending
  <2>12. ASSUME NEW ans \in Answers, WriteFunSync(t, ans) PROVE AnswerAtHand'
    <3>1. cur[t] \in Ops /\ pc[t] = "start" /\ result[cur[t]] = "none"
      BY <1>c, <2>12 DEF WriteFunSync, ArmedKnown, BeforeArming
    <3>2. result' = [result EXCEPT ![cur[t]] = ans] /\ UNCHANGED <<block_result, bk, bop, busy, cur, sem>>
      BY <2>12 DEF WriteFunSync
    <3>3. pc'[t] \in {"synced", "answer", "unlock"} /\ \A u \in Threads : u # t => pc'[u] = pc[u]
      BY <1>t, <2>12 DEF WriteFunSync
    <3>4. result'[cur[t]] # "none"
      BY <1>t, <3>1, <3>2 DEF Answers
    <3>5. sem[t] = 0
      BY <1>s, <3>1
    <3>6. AtHand(t)'
      BY <3>2, <3>3, <3>4, <3>5 DEF AtHand
    <3>. QED BY <1>1, <3>2, <3>3, <3>6
  <2>. QED BY <1>3, <2>1, <2>2, <2>3, <2>4, <2>5, <2>6, <2>7, <2>8, <2>9, <2>10, <2>11, <2>12
       DEF StartCall
<1>4. ASSUME NEW t \in Threads, EndCall(t) \/ WaitTimeout(t) \/ WaitTimeoutLost(t)
      PROVE  AnswerAtHand'
  <2>1. CASE WaitPosted(t) \/ Reap(t)
    <3>1. /\ pc' = [pc EXCEPT ![t] = "release"] /\ UNCHANGED <<port, backend, cur, result>>
          /\ sem[t] > 0 /\ sem' = [sem EXCEPT ![t] = @ - 1] /\ pc[t] \in {"wait", "reap"}
      BY <2>1 DEF WaitPosted, Reap, TakeToken
    <3>2. result[cur[t]] # "none" /\ block_result = result[cur[t]] /\ sem[t] = 1
      BY <1>h, <1>s, <1>t, <3>1 DEF AtHand, OInv, Tokens
    <3>3. AtHand(t)'
      BY <1>t, <3>1, <3>2 DEF AtHand
    <3>4. Alone(t)
      BY <1>t, <3>1
    <3>. QED BY <1>1, <3>3, <3>4
  <2>2. CASE Release(t)
    <3>1. /\ pc[t] = "release" /\ pc' = [pc EXCEPT ![t] = "result"] /\ busy' = "IDLE"
          /\ UNCHANGED <<block_result, backend, cur, sem, result>>
      BY <2>2 DEF Release
    <3>2. result[cur[t]] # "none" /\ block_result = result[cur[t]] /\ sem[t] = 0
      BY <1>h, <1>s, <3>1 DEF AtHand
    <3>3. bk # "reset_waiter"
      BY <3>1 DEF OInv, BusyMatches, BusyFits, ResetHolds
    <3>4. AtHand(t)'
      BY <1>t, <3>1, <3>2, <3>3 DEF AtHand
    <3>5. Alone(t)
      BY <1>t, <3>1
    <3>. QED BY <1>1, <3>4, <3>5
  <2>3. CASE SyncLoad(t)
    <3>1. /\ pc[t] = "synced" /\ pc'[t] \in {"reap", "detached", "sync_store"}
          /\ \A u \in Threads : u # t => pc'[u] = pc[u]
          /\ UNCHANGED <<port, backend, cur, sem, result>>
      BY <1>t, <2>3 DEF SyncLoad
    <3>2. AtHand(t)'
      BY <1>h, <1>s, <3>1 DEF AtHand
    <3>. QED BY <1>1, <3>1, <3>2
  <2>4. CASE SyncStore(t) \/ DetachedStore(t) \/ ReturnResult(t)
    <3>1. sem[t] = 0
      BY <1>s, <2>4 DEF SyncStore, DetachedStore, ReturnResult
    <3>. QED BY <1>2, <1>t, <2>4, <3>1 DEF SyncStore, DetachedStore, ReturnResult, Return
  <2>5. CASE WaitTimeout(t)
    <3>1. IsBlock(cur[t])
      BY <2>5 DEF WaitTimeout, OInv, BusyMatches, BusyFits
    <3>. QED BY <1>2, <1>t, <2>5, <3>1 DEF WaitTimeout, Return
  <2>6. CASE WaitTimeoutLost(t)
    BY <1>2, <1>t, <2>6 DEF WaitTimeoutLost, Return, Stay
  <2>7. CASE Answer(t)
    <3>1. sem[t] = 0
      BY <1>s, <2>7 DEF Answer
    <3>. QED BY <1>2, <1>t, <2>7, <3>1 DEF Answer, Return, Stay
  <2>8. CASE Unlock(t)
    <3>1. sem[t] = 0
      BY <1>s, <2>8 DEF Unlock
    <3>. QED BY <1>2, <1>t, <2>8, <3>1 DEF Unlock, Return, Stay
  <2>. QED BY <1>4, <2>1, <2>2, <2>3, <2>4, <2>5, <2>6, <2>7, <2>8 DEF EndCall
\* The backend.
<1>5. ASSUME UNCHANGED <<pc, cur, sem, block_result, result>>,
             bk' \in {"claim", "post"} => bk \in {"claim", "post"} /\ bop' = bop,
             \A u \in Threads : pc[u] = "result" =>
                 busy' \in {"IDLE", "LOCKED", "RESETTING"} /\ bk' # "reset_waiter"
      PROVE  AnswerAtHand'
  BY <1>5, <1>h DEF AnswerAtHand, AtHand
<1>r. \A u \in Threads : pc[u] = "result" =>
          busy \in {"IDLE", "LOCKED", "RESETTING"} /\ bk # "reset_waiter"
  BY <1>h DEF AtHand
<1>6. CASE Completion
  <2>1. CASE Take \/ PopPayload
    BY <1>5, <1>r, <2>1 DEF Take, PopPayload
  <2>2. ASSUME NEW ans \in Answers, FinishStatus(ans) PROVE AnswerAtHand'
    <3>1. UNCHANGED <<pc, cur, sem, block_result, busy>> /\ bk' = "idle"
      BY <2>2 DEF FinishStatus
    <3>2. ASSUME NEW u \in Threads PROVE AtHand(u)'
      <4>1. CASE pc[u] \in {"idle", "locked"}
        BY <1>s, <3>1, <4>1 DEF AtHand
      <4>2. CASE pc[u] \notin {"idle", "locked"}
        BY <1>h, <1>s, <1>m, <1>r, <3>1, <4>2, AtHandKept
      <4>. QED BY <4>1, <4>2
    <3>. QED BY <3>1, <3>2 DEF AnswerAtHand
  <2>3. ASSUME NEW ans \in Answers, FinishStore(ans) PROVE AnswerAtHand'
    <3>1. \A u \in Threads : pc[u] \notin {"release", "result"} /\ sem[u] = 0
      BY <2>3, NobodyReads
    <3>2. UNCHANGED <<pc, cur, sem, bop>> /\ bop \in Ops /\ block_result' = ans /\ result'[bop] = ans
      BY <1>t, <2>3 DEF FinishStore, Stored, IInv, CompletionHasOp
    <3>3. ASSUME NEW u \in Threads PROVE AtHand(u)'
      BY <1>h, <1>m, <3>1, <3>2 DEF AtHand
    <3>. QED BY <3>2, <3>3 DEF AnswerAtHand
  <2>4. CASE FinishClaim
    BY <1>5, <1>r, <2>4 DEF FinishClaim, FinishUnclaimed
  <2>5. CASE FinishClaimPublishing
    BY <2>5 DEF FinishClaimPublishing, ArmedKnown
  <2>6. CASE FinishUndetach
    BY <1>5, <1>r, <2>6 DEF FinishUndetach, Undetached
  <2>7. CASE FinishPost
    <3>1. owner[bop] \in Threads /\ cur[owner[bop]] = bop /\ block_result = result[bop]
      BY <2>7 DEF FinishPost, OInv, Finishing, Calling, AnswerAtHand
    <3>2. sem' = [sem EXCEPT ![owner[bop]] = @ + 1]
          /\ UNCHANGED <<pc, cur, block_result, busy, result>> /\ bk' = "idle"
      BY <2>7 DEF FinishPost, Posted
    <3>3. ASSUME NEW u \in Threads PROVE AtHand(u)'
      BY <1>h, <1>r, <1>t, <3>1, <3>2 DEF AtHand
    <3>. QED BY <3>2, <3>3 DEF AnswerAtHand
  <2>8. CASE FinishUnexpected
    BY <1>5, <1>r, <2>8 DEF FinishUnexpected
  <2>. QED BY <1>6, <2>1, <2>2, <2>3, <2>4, <2>5, <2>6, <2>7, <2>8 DEF Completion
<1>7. CASE ResetClaim
  BY <1>5, <1>r, <1>7 DEF ResetClaim, Resettable
<1>8. CASE ResetClear
  <2>1. busy = "RESETTING" /\ UNCHANGED <<pc, cur, sem, result>> /\ bk' = "idle"
    BY <1>8 DEF ResetClear, OInv, ResetHolds
  <2>2. block_result' = "OK" /\ (bk = "reset" => busy' = "IDLE") /\ bk \in {"reset", "reset_waiter"}
    BY <1>8 DEF ResetClear, ResetResult
  <2>3. \A u \in Threads : pc[u] # "release" /\ sem[u] = 0
    BY <1>s, <2>1 DEF OInv, BusyMatches, BusyFits
  <2>4. ASSUME NEW u \in Threads PROVE AtHand(u)'
    BY <1>h, <2>1, <2>2, <2>3 DEF AtHand
  <2>. QED BY <2>1, <2>4 DEF AnswerAtHand
<1>9. CASE UNCHANGED vars
  BY <1>5, <1>r, <1>9 DEF vars
<1>. QED BY <1>3, <1>4, <1>6, <1>7, <1>8, <1>9 DEF Next, ThreadStep

LEMMA ServiceInit == Init => SInv /\ Service!Init
<1> SUFFICES ASSUME Init PROVE SInv /\ Service!Init
  OBVIOUS
<1>1. KindsFit /\ BlockOwners /\ ArmedKnown /\ CallsUntold /\ NewUntold /\ Sized
  BY KindsInit DEF Init, BlockOwners, ArmedKnown, BeforeArming, CallsUntold, NewUntold, Sized
<1>2. Line = <<>>
  BY DEF Init, Line, InHand
<1>3. Newest /\ Unanswered
  BY <1>2 DEF Init, Newest, Unanswered, Pushing
<1>4. StatusFits /\ AnswerAtHand
  BY DEF Init, StatusFits, AnswerOwed, Untold, AnswerAtHand, AtHand
<1>5. Admitted = {} /\ Misled = {}
  BY DEF Init, Admitted, Misled
<1>6. ToldNow = [o \in Ops |-> "none"]
  BY DEF Init, ToldNow, Told, IsBlock
<1>7. Service!Init
  BY <1>2, <1>5, <1>6 DEF Init, Service!Init, Line, InHand, ToldNow, Misled
<1>. QED BY <1>1, <1>3, <1>4, <1>7 DEF SInv

LEMMA SInvStep ==
    ASSUME OneWaiter, ~EarlyTake, IInv, IInv', OInv, OInv', SInv, [Next]_vars PROVE SInv'
BY KindsStep, OwnersStep, ArmedStep, NewestStep, SizedStep, UnansweredStep, FitsStep, UntoldStep,
   AtHandStep DEF SInv

----------------------------------------------------------------------------
(* A step of the port is a step of the service, or changes nothing of it.      *)

\* Nothing that the service sees changes.
LEMMA Stutters ==
    ASSUME UNCHANGED <<Admitted, Line, result, ToldNow, Misled>> PROVE UNCHANGED Service!vars
BY DEF Service!vars, Line, InHand, ToldNow, Misled

Submitted(o) == \E t \in Threads : Pushing(t) /\ cur[t] = o
LEMMA AdmittedAre == Admitted = {o \in 1..nops : size[o] > 0 /\ ~Submitted(o)}
BY DEF Admitted, Submitted, Pushing, Op
LEMMA AdmittedNext ==
    Admitted' = {o \in 1..nops' : size'[o] > 0 /\ ~\E u \in Threads : Pushing(u)' /\ cur'[u] = o}
BY DEF Admitted, Pushing, Op

LEMMA AdmittedKept ==
    ASSUME NEW t \in Threads, \A u \in Threads : u # t => pc'[u] = pc[u] /\ cur'[u] = cur[u],
           UNCHANGED <<nops, size>>, Pushing(t)' <=> Pushing(t), Pushing(t) => cur'[t] = cur[t]
    PROVE  Admitted' = Admitted
<1>1. \A u \in Threads : (Pushing(u)' <=> Pushing(u)) /\ (Pushing(u) => cur'[u] = cur[u])
  BY DEF Pushing
<1>2. \A o \in Ops \cup 1..nops : Submitted(o)' <=> Submitted(o)
  BY <1>1 DEF Submitted
<1>. QED BY <1>2, AdmittedAre, AdmittedNext DEF Submitted

LEMMA ToldKept == ASSUME UNCHANGED <<kind, status, ret>> PROVE ToldNow' = ToldNow
BY DEF ToldNow, Told, IsBlock

\* The answer of t's call is no longer in block_result_.
Robbed(t) == pc[t] = "result" /\ block_result # result[cur[t]]
LEMMA MisledKept ==
    ASSUME \A t \in Threads : (Robbed(t)' <=> Robbed(t)) /\ (Robbed(t) => cur'[t] = cur[t])
    PROVE  Misled' = Misled
<1>1. Misled = {cur[t] : t \in {u \in Threads : Robbed(u)}}
  BY DEF Misled, Robbed, Op
<1>2. Misled' = {cur'[t] : t \in {u \in Threads : Robbed(u)'}}
  BY DEF Misled, Robbed, Op
<1>. QED BY <1>1, <1>2

LEMMA MisledElsewhere ==
    ASSUME NEW t \in Threads, \A u \in Threads : u # t => pc'[u] = pc[u] /\ cur'[u] = cur[u],
           UNCHANGED <<block_result, result>>, ~Robbed(t), ~Robbed(t)'
    PROVE  Misled' = Misled
BY MisledKept DEF Robbed

\* A call's step that only it sees.
LEMMA CallStutters ==
    ASSUME IInv, NEW t \in Threads, NEW l, pc' = [pc EXCEPT ![t] = l], pc[t] # "result",
           l # "result" \/ block_result = result[cur[t]],
           Pushing(t) <=> l \in {"stream", "publish", "push"},
           cur' = cur \/ (cur' = [cur EXCEPT ![t] = NoOp] /\ l = "idle"),
           Line' = Line, UNCHANGED <<block_result, result, nops, size, kind>>,
           UNCHANGED <<kind, status, ret>> \/ (ToldNow' = ToldNow)
    PROVE  UNCHANGED Service!vars
<1>1. pc \in [Threads -> ThreadPC] /\ cur \in [Threads -> Ops \cup {NoOp}]
  BY DEF IInv, TypeOK
<1>2. pc'[t] = l /\ \A u \in Threads : u # t => pc'[u] = pc[u] /\ cur'[u] = cur[u]
  BY <1>1
<1>3. (Pushing(t)' <=> Pushing(t)) /\ (Pushing(t) => cur'[t] = cur[t])
  BY <1>1, <1>2 DEF Pushing
<1>4. Admitted' = Admitted
  BY <1>2, <1>3, AdmittedKept
<1>5. l = "result" => cur'[t] = cur[t]
  BY <1>1
<1>6. Misled' = Misled
  BY <1>2, <1>5, MisledElsewhere DEF Robbed
<1>7. ToldNow' = ToldNow
  BY ToldKept
<1>. QED BY <1>4, <1>6, <1>7, Stutters

\* What a thread does without a write's being accepted, answered or told of.
Silent(t) ==
    \/ Lock(t) \/ \E n \in Sizes : Full(t, n)
    \/ StreamCommit(t) \/ Publish(t) \/ ArmWaiter(t) \/ WriteFunPending(t)
    \/ WaitPosted(t) \/ Reap(t) \/ SyncLoad(t) \/ Release(t)

LEMMA SilentStutters ==
    ASSUME IInv, SInv, NEW t \in Threads, Silent(t), Line' = Line PROVE UNCHANGED Service!vars
<1> USE DEF Goto, Op, port, queues, calls, ops, backend
<1>1. ASSUME Lock(t) PROVE UNCHANGED Service!vars
  BY <1>1, CallStutters DEF Lock, Pushing
<1>2. ASSUME NEW n \in Sizes, Full(t, n) PROVE UNCHANGED Service!vars
  BY <1>2, CallStutters DEF Full, Pushing
<1>3. CASE StreamCommit(t)
  BY <1>3, CallStutters DEF StreamCommit, Pushing
<1>4. CASE Publish(t)
  BY <1>4, CallStutters DEF Publish, Pushing
<1>5. CASE ArmWaiter(t)
  BY <1>5, CallStutters DEF ArmWaiter, Pushing
<1>6. CASE WriteFunPending(t)
  BY <1>6, CallStutters DEF WriteFunPending, Pushing
<1>7. CASE WaitPosted(t) \/ Reap(t)
  BY <1>7, CallStutters DEF WaitPosted, Reap, Pushing
<1>8. CASE SyncLoad(t)
  BY <1>8, CallStutters DEF SyncLoad, Pushing
<1>9. CASE Release(t)
  <2>1. block_result = result[cur[t]]
    BY <1>9 DEF Release, SInv, AnswerAtHand, AtHand
  <2>. QED BY <1>9, <2>1, CallStutters DEF Release, Pushing
<1>. QED BY <1>1, <1>2, <1>3, <1>4, <1>5, <1>6, <1>7, <1>8, <1>9 DEF Silent

\* A new op is not accepted yet, and its owner was told nothing.
LEMMA NewOpStutters ==
    ASSUME IInv, OInv, SInv, NEW t \in Threads, NEW k, NEW n, NewOp(t, k, n), nops < MaxOps,
           pc[t] = "locked", NEW l \in {"stream", "publish", "push"}, pc' = [pc EXCEPT ![t] = l],
           k \in {"BLOCK", "POLLING", "CALLBACK"},
           block_result' = block_result, Line' = Line
    PROVE  UNCHANGED Service!vars
<1>t. /\ pc \in [Threads -> ThreadPC] /\ cur \in [Threads -> Ops \cup {NoOp}]
      /\ size \in [Ops -> Nat] /\ kind \in [Ops -> {"BLOCK", "POLLING", "CALLBACK"}]
      /\ nops \in Nat /\ nops + 1 \in Ops
  BY Bounds DEF IInv, TypeOK, Ops
<1>1. /\ nops' = nops + 1 /\ cur'[t] = nops + 1 /\ pc'[t] = l
      /\ \A u \in Threads : u # t => pc'[u] = pc[u] /\ cur'[u] = cur[u]
      /\ UNCHANGED <<status, result, ret>>
  BY <1>t DEF NewOp
<1>2. \A o \in 1..nops : o # nops + 1 /\ o \in Ops /\ size'[o] = size[o]
  BY <1>t, Bounds DEF NewOp, Ops
<1>3. \E u \in Threads : Pushing(u)' /\ cur'[u] = nops + 1
  BY <1>1, <1>t DEF Pushing
<1>4. \A o \in 1..nops : Submitted(o) <=> \E u \in Threads : Pushing(u)' /\ cur'[u] = o
  <2>1. \A u \in Threads : u # t => (Pushing(u)' <=> Pushing(u))
    BY <1>1 DEF Pushing
  <2>2. ~Pushing(t)
    BY DEF Pushing
  <2>. QED BY <1>1, <1>2, <2>1, <2>2 DEF Submitted
<1>5. Admitted' = Admitted
  <2>2. \A o \in 1..(nops + 1) : o \in 1..nops \/ o = nops + 1
    BY <1>t
  <2>3. 1..nops \subseteq 1..(nops + 1)
    BY <1>t
  <2>. QED BY <1>1, <1>2, <1>3, <1>4, <2>2, <2>3, AdmittedAre, AdmittedNext
<1>6. Misled' = Misled
  <2>1. \A u \in Threads : (Robbed(u)' <=> Robbed(u)) /\ (Robbed(u) => cur'[u] = cur[u])
    BY <1>1 DEF Robbed
  <2>. QED BY <2>1, MisledKept
<1>7. ASSUME NEW o \in Ops PROVE Told(o)' = Told(o)
  <2>1. CASE o = nops + 1
    <3>1. ret[o] = "none" /\ result[o] = "none"
      BY <1>t, <2>1 DEF SInv, NewUntold, ArmedKnown
    <3>2. status[o] \in {"READY", "RUNNING"}
      BY <3>1 DEF SInv, StatusFits, Untold
    <3>. QED BY <1>1, <3>1, <3>2 DEF Told
  <2>2. CASE o # nops + 1
    <3>1. kind'[o] = kind[o]
      BY <1>t, <2>2 DEF NewOp
    <3>. QED BY <1>1, <3>1 DEF Told, IsBlock
  <2>. QED BY <2>1, <2>2
<1>8. ToldNow' = ToldNow
  BY <1>7 DEF ToldNow
<1>. QED BY <1>1, <1>5, <1>6, <1>8, Stutters

\* A Stream's chunk, and a Stream that submits nothing.
LEMMA StreamStutters ==
    ASSUME IInv, OInv, NEW t \in Threads, pc[t] = "stream", NEW n, n \in Nat,
           size' = [size EXCEPT ![cur[t]] = n], Line' = Line,
           \/ UNCHANGED <<pc, cur>>
           \/ pc' = [pc EXCEPT ![t] = "idle"] /\ cur' = [cur EXCEPT ![t] = NoOp] /\ n = 0,
           UNCHANGED <<block_result, nops, kind, status, result, ret>>
    PROVE  UNCHANGED Service!vars
<1>t. /\ pc \in [Threads -> ThreadPC] /\ cur \in [Threads -> Ops \cup {NoOp}] /\ cur[t] \in Ops
      /\ size \in [Ops -> Nat] /\ nops \in 0..MaxOps
  BY DEF IInv, TypeOK, CallHasOp
<1>o. nops \in Nat /\ 1..nops \subseteq Ops
  BY <1>t, Bounds DEF Ops
<1>1. \A u \in Threads : u # t => pc'[u] = pc[u] /\ cur'[u] = cur[u]
  BY <1>t
<1>2. Pushing(t) /\ (Pushing(t)' => cur'[t] = cur[t]) /\ (~Pushing(t)' => size'[cur[t]] = 0)
  BY <1>t DEF Pushing
<1>3. \A o \in 1..nops : o # cur[t] => (Submitted(o)' <=> Submitted(o)) /\ size'[o] = size[o]
  BY <1>1, <1>2, <1>t, <1>o DEF Submitted, Pushing
<1>4. Submitted(cur[t])
  BY <1>2 DEF Submitted
<1>6. ASSUME NEW o \in 1..nops
      PROVE  (size'[o] > 0 /\ ~Submitted(o)') <=> (size[o] > 0 /\ ~Submitted(o))
  <2>1. CASE o = cur[t]
    BY <1>t, <1>2, <1>4, <2>1 DEF Submitted
  <2>2. CASE o # cur[t]
    BY <1>3, <2>2
  <2>. QED BY <2>1, <2>2
<1>7. Admitted' = Admitted
  BY <1>6, AdmittedAre, AdmittedNext DEF Submitted
<1>8. ~Robbed(t) /\ ~Robbed(t)'
  BY <1>t DEF Robbed
<1>9. Misled' = Misled
  BY <1>1, <1>8, MisledElsewhere
<1>. QED BY <1>7, <1>9, ToldKept, Stutters

----------------------------------------------------------------------------
(* The steps of the service, told by what they do to the line, the answers and *)
(* what the callers know.                                                      *)

LEMMA Accepts ==
    ASSUME NEW o \in Ops, \A v \in Admitted : v < o, Admitted' = Admitted \cup {o},
           Line' = Append(Line, o), UNCHANGED <<result, ToldNow, Misled>>
    PROVE  Service!Next
BY DEF Service!Next, Service!Accept, Line, InHand, ToldNow, Misled

LEMMA Serves ==
    ASSUME NEW ans \in Answers, Line # <<>>, Line' = Tail(Line),
           result' = [result EXCEPT ![Head(Line)] = ans], UNCHANGED <<Admitted, Misled>>,
           \/ ToldNow' = ToldNow
           \/ ToldNow[Head(Line)] = "none" /\ ToldNow' = [ToldNow EXCEPT ![Head(Line)] = ans]
    PROVE  Service!Next
BY DEF Service!Next, Service!Serve, Line, InHand, ToldNow, Misled

LEMMA Tells ==
    ASSUME NEW o \in Ops, result[o] # "none", ToldNow[o] = "none",
           ToldNow' = [ToldNow EXCEPT ![o] = IF o \in Misled THEN "OK" ELSE result[o]],
           Misled' = Misled \ {o}, UNCHANGED <<Admitted, Line, result>>
    PROVE  Service!Next
BY DEF Service!Next, Service!Tell, Line, InHand, ToldNow, Misled

LEMMA GivesUp ==
    ASSUME NEW o \in Ops, o \in Admitted, ToldNow[o] = "none",
           ToldNow' = [ToldNow EXCEPT ![o] = "TIMEOUT"],
           UNCHANGED <<Admitted, Line, result, Misled>>
    PROVE  Service!Next
BY DEF Service!Next, Service!GiveUp, Line, InHand, ToldNow, Misled

LEMMA Drops ==
    ASSUME Line' = <<>>, \A o \in Misled' : o \in Ops /\ result[o] # "none" /\ ToldNow[o] = "none",
           UNCHANGED <<Admitted, result, ToldNow>>
    PROVE  Service!Next
BY DEF Service!Next, Service!Drop, Service!Untold, Line, InHand, ToldNow, Misled

----------------------------------------------------------------------------
(* What a return tells.                                                       *)

LEMMA ReturnTells ==
    ASSUME IInv, NEW o \in Ops, IsBlock(o), NEW r, ret' = [ret EXCEPT ![o] = r],
           UNCHANGED <<kind, status>>
    PROVE  ToldNow' = [ToldNow EXCEPT ![o] = r]
<1>1. ret \in [Ops -> Answers \cup {"none", "TIMEOUT"}]
  BY DEF IInv, TypeOK
<1>2. ASSUME NEW p \in Ops PROVE Told(p)' = IF p = o THEN r ELSE Told(p)
  BY <1>1 DEF Told, IsBlock
<1>. QED BY <1>2 DEF ToldNow

LEMMA StatusTells ==
    ASSUME IInv, NEW o \in Ops, ~IsBlock(o), NEW ans \in Answers,
           status' = [status EXCEPT ![o] = StatusOf(ans)], kind' = kind,
           \A p \in Ops : p # o => ret'[p] = ret[p]
    PROVE  ToldNow' = [ToldNow EXCEPT ![o] = ans]
<1>1. status \in [Ops -> {"READY", "RUNNING", "DONE", "ERROR"}]
  BY DEF IInv, TypeOK
<1>2. status'[o] = StatusOf(ans) /\ \A p \in Ops : p # o => status'[p] = status[p]
  BY <1>1
<1>3. Told(o)' = ans
  BY <1>2 DEF Told, IsBlock, StatusOf, Answers
<1>4. \A p \in Ops : p # o => Told(p)' = Told(p)
  BY <1>2 DEF Told, IsBlock
<1>. QED BY <1>3, <1>4 DEF ToldNow

LEMMA OtherReturn ==
    ASSUME IInv, NEW o \in Ops, ~IsBlock(o), NEW r, ret' = [ret EXCEPT ![o] = r],
           UNCHANGED <<kind, status>>
    PROVE  ToldNow' = ToldNow
<1>1. ret \in [Ops -> Answers \cup {"none", "TIMEOUT"}]
  BY DEF IInv, TypeOK
<1>2. \A p \in Ops : Told(p)' = Told(p)
  BY <1>1 DEF Told, IsBlock
<1>. QED BY <1>2 DEF ToldNow

LEMMA NothingTold ==
    ASSUME NEW o \in Ops PROVE IF IsBlock(o) THEN ToldNow[o] = ret[o]
                               ELSE Untold(o) => ToldNow[o] = "none"
BY DEF ToldNow, Told, Untold

\* A call's step past the push leaves the admitted ones as they are.
LEMMA AdmittedStays ==
    ASSUME IInv, NEW t \in Threads, NEW l, pc' = [pc EXCEPT ![t] = l], ~Pushing(t),
           l \notin {"stream", "publish", "push"}, cur' \in {cur, [cur EXCEPT ![t] = NoOp]},
           UNCHANGED <<nops, size>>
    PROVE  Admitted' = Admitted
<1>1. pc'[t] = l /\ \A u \in Threads : u # t => pc'[u] = pc[u] /\ cur'[u] = cur[u]
  BY DEF IInv, TypeOK
<1>2. ~Pushing(t)'
  BY <1>1 DEF Pushing
<1>. QED BY <1>1, <1>2, AdmittedKept

\* The op of a call is not among those robbed of another call's answer.
LEMMA RobbedOwn ==
    ASSUME OInv, NEW t \in Threads, pc[t] \notin {"idle", "locked"}
    PROVE  cur[t] \in Misled <=> Robbed(t)
<1>1. Misled = {cur[u] : u \in {v \in Threads : Robbed(v)}}
  BY DEF Misled, Robbed, Op
<1>2. \A u \in Threads : Robbed(u) /\ cur[u] = cur[t] => u = t
  BY CallsDiffer DEF Robbed
<1>. QED BY <1>1, <1>2

----------------------------------------------------------------------------
(* The port implements the service, step by step.                             *)

LEMMA MarkStutters ==
    ASSUME IInv, SInv, NEW t \in Threads, MarkRunning(t), Line' = Line PROVE UNCHANGED Service!vars
<1> USE DEF MarkRunning, Op, Goto, port, queues, backend
<1>1. result[cur[t]] = "none" /\ cur[t] \in Ops
  BY DEF SInv, ArmedKnown, BeforeArming, IInv, CallHasOp
<1>2. status[cur[t]] \in {"READY", "RUNNING"}
  BY <1>1 DEF SInv, StatusFits, Untold
<1>3. ASSUME NEW o \in Ops PROVE Told(o)' = Told(o)
  BY <1>2 DEF Running, Told, IsBlock, IInv, TypeOK
<1>4. ToldNow' = ToldNow
  BY <1>3 DEF ToldNow
<1>. QED BY <1>4, CallStutters DEF Pushing

LEMMA UnlockStutters ==
    ASSUME IInv, SInv, NEW t \in Threads, Unlock(t), Line' = Line PROVE UNCHANGED Service!vars
<1> USE DEF Unlock, Unmarked, Op, Goto, Stay, Return, port, queues, backend
<1>1. cur[t] \in Ops /\ ~IsBlock(cur[t])
  BY DEF IInv, CallHasOp, SInv, KindsFit, KindFits
<1>2. UNCHANGED <<status, kind>>
        /\ (ret' = ret \/ \E r \in {"OK", result[cur[t]]} : ret' = [ret EXCEPT ![cur[t]] = r])
  OBVIOUS
<1>3. ToldNow' = ToldNow
  BY <1>1, <1>2, ToldKept, OtherReturn
<1>4. \E l \in {"idle", "answer_unlocked"} :
        /\ pc' = [pc EXCEPT ![t] = l]
        /\ cur' = cur \/ (cur' = [cur EXCEPT ![t] = NoOp] /\ l = "idle")
  OBVIOUS
<1>. QED BY <1>3, <1>4, CallStutters DEF Pushing

LEMMA LostStutters ==
    ASSUME IInv, NEW t \in Threads, NEW l \in {"reap", "detached"}, pc[t] = "wait", Stay(t, l),
           Line' = Line, UNCHANGED <<port, status>>
    PROVE  UNCHANGED Service!vars
BY CallStutters DEF Stay, Goto, Pushing, port

\* The backend's steps between the answer and the next op.
LEMMA BackendStutters ==
    ASSUME IInv, Line' = Line, UNCHANGED <<pc, cur, ops, block_result>>
    PROVE  UNCHANGED Service!vars
<1>1. Admitted' = Admitted /\ Misled' = Misled /\ ToldNow' = ToldNow
  BY ToldKept DEF Admitted, Misled, Op, ops
<1>. QED BY <1>1, Stutters DEF ops

LEMMA PushAccepts ==
    ASSUME IInv, OInv, SInv, NEW t \in Threads, PushInfo(t) PROVE Service!Next
<1> USE DEF PushInfo, Goto, Op, port, ops
<1>1. /\ pc \in [Threads -> ThreadPC] /\ cur[t] \in Ops /\ cur[t] = nops /\ cur[t] \in 1..nops
      /\ size[cur[t]] > 0 /\ Pushing(t)
  BY DEF IInv, TypeOK, CallHasOp, SInv, Newest, Sized, Pushing, OInv, OpsKnown
<1>2. \A u \in Threads : u # t => ~Pushing(u)
  BY <1>1 DEF OInv, OneHolder, Holds, Holding, Submitting, Pushing
<1>3. pc'[t] = "mark" /\ \A u \in Threads : u # t => pc'[u] = pc[u]
  BY <1>1
<1>4. \A u \in Threads : ~Pushing(u)'
  BY <1>2, <1>3 DEF Pushing
<1>5. Admitted = {o \in 1..nops : size[o] > 0 /\ o # cur[t]}
  BY <1>1, <1>2, AdmittedAre DEF Submitted
<1>6. Admitted' = {o \in 1..nops : size[o] > 0}
  BY <1>4, AdmittedNext
<1>n. nops \in Nat
  BY Bounds DEF IInv, TypeOK
<1>7. Admitted' = Admitted \cup {cur[t]} /\ \A v \in Admitted : v < cur[t]
  BY <1>1, <1>n, <1>5, <1>6
<1>8. Misled' = Misled
  BY <1>3, MisledElsewhere DEF Robbed
<1>9. Line' = Append(Line, cur[t])
  BY LinePushed
<1>. QED BY <1>1, <1>7, <1>8, <1>9, ToldKept, Accepts

LEMMA SyncServes ==
    ASSUME IInv, OInv, SInv, NEW t \in Threads, NEW ans \in Answers, WriteFunSync(t, ans)
    PROVE  Service!Next
<1> USE DEF WriteFunSync, Goto, Op, port, backend
<1>1. pc \in [Threads -> ThreadPC] /\ cur[t] \in Ops /\ result \in [Ops -> Answers \cup {"none"}]
  BY DEF IInv, TypeOK, CallHasOp
<1>2. \E l \in {"synced", "answer", "unlock"} : pc' = [pc EXCEPT ![t] = l]
  OBVIOUS
<1>3. Admitted' = Admitted
  BY <1>2, AdmittedStays DEF Pushing
<1>4. \A u \in Threads : u # t => pc'[u] = pc[u]
  BY <1>1, <1>2
<1>5. ~Robbed(t) /\ ~Robbed(t)'
  BY <1>1, <1>2 DEF Robbed
<1>6. ASSUME NEW u \in Threads, u # t, pc[u] = "result"
      PROVE  result'[cur[u]] = result[cur[u]]
  <2>1. cur[u] # cur[t]
    BY <1>6, CallsDiffer
  <2>2. cur[u] \in Ops
    BY <1>6 DEF IInv, CallHasOp
  <2>. QED BY <1>1, <2>1, <2>2
<1>7. Misled' = Misled
  BY <1>4, <1>5, <1>6, MisledKept DEF Robbed
<1>. QED BY <1>3, <1>7, LineSynced, ToldKept, Serves

LEMMA FinishServes ==
    ASSUME IInv, OInv, SInv, NEW ans \in Answers, FinishStatus(ans) \/ FinishStore(ans)
    PROVE  Service!Next
<1>1. /\ Line # <<>> /\ Line' = Tail(Line) /\ Head(Line) = bop
      /\ result' = [result EXCEPT ![Head(Line)] = ans]
  BY LineFinished
<1>2. UNCHANGED <<pc, cur, nops, size, kind, ret>> /\ bop \in Ops
  BY DEF FinishStatus, FinishStore, calls, IInv, CompletionHasOp
<1>3. Admitted' = Admitted
  BY <1>2 DEF Admitted, Op
<1>4. CASE FinishStatus(ans)
  <2>1. result[bop] = "none"
    <3>1. Line \in Seq(Ops) /\ Len(Line) \in Nat
      BY LineType
    <3>2. 1 \in 1..Len(Line) /\ Line[1] = bop
      BY <1>1, <3>1
    <3>. QED BY <3>2 DEF SInv, Unanswered
  <2>2. ~IsBlock(bop) /\ status' = [status EXCEPT ![bop] = StatusOf(ans)]
        /\ block_result' = block_result
    BY <1>4 DEF FinishStatus, port
  <2>3. ToldNow[bop] = "none"
    BY <1>2, <2>1, <2>2, NothingTold DEF SInv, StatusFits
  <2>4. ToldNow' = [ToldNow EXCEPT ![bop] = ans]
    BY <1>2, <2>2, StatusTells
  <2>5. ASSUME NEW u \in Threads, pc[u] = "result" PROVE result'[cur[u]] = result[cur[u]]
    <3>1. result[cur[u]] # "none" /\ cur[u] \in Ops
      BY <2>5 DEF SInv, AnswerAtHand, AtHand, IInv, CallHasOp
    <3>. QED BY <1>1, <2>1, <3>1 DEF IInv, TypeOK
  <2>6. Misled' = Misled
    BY <1>2, <2>2, <2>5, MisledKept DEF Robbed
  <2>. QED BY <1>1, <1>3, <2>3, <2>4, <2>6, Serves
<1>5. CASE FinishStore(ans)
  <2>1. \A t \in Threads : ~Robbed(t) /\ ~Robbed(t)'
    BY <1>2, <1>5, NobodyReads DEF Robbed, SInv
  <2>2. Misled' = Misled
    BY <2>1, MisledKept
  <2>3. ToldNow' = ToldNow
    BY <1>2, <1>5, ToldKept DEF FinishStore
  <2>. QED BY <1>1, <1>3, <2>2, <2>3, Serves
<1>. QED BY <1>4, <1>5

\* A call tells its owner the answer to his own write, or that it gave up.
LEMMA ReturnMoves ==
    ASSUME IInv, OInv, SInv, NEW t \in Threads, ~Pushing(t), pc[t] \notin {"idle", "locked"},
           IsBlock(cur[t]), NEW r, Return(t, r), Line' = Line,
           UNCHANGED <<status, block_result>>
    PROVE  /\ cur[t] \in Ops /\ ToldNow[cur[t]] = "none"
           /\ ToldNow' = [ToldNow EXCEPT ![cur[t]] = r] /\ Admitted' = Admitted
           /\ Misled' = Misled \ {cur[t]} /\ (cur[t] \in Misled <=> Robbed(t))
<1> USE DEF Return, Goto, Op
<1>1. cur[t] \in Ops /\ pc \in [Threads -> ThreadPC] /\ cur \in [Threads -> Ops \cup {NoOp}]
  BY DEF IInv, CallHasOp, TypeOK
<1>2. ToldNow[cur[t]] = "none"
  BY <1>1, NothingTold DEF SInv, CallsUntold
<1>3. ToldNow' = [ToldNow EXCEPT ![cur[t]] = r]
  BY <1>1, ReturnTells
<1>4. Admitted' = Admitted
  BY AdmittedStays
<1>5. cur[t] \in Misled <=> Robbed(t)
  BY RobbedOwn
<1>6. pc'[t] = "idle" /\ \A u \in Threads : u # t => pc'[u] = pc[u] /\ cur'[u] = cur[u]
  BY <1>1
<1>7. \A u \in Threads : u # t => (Robbed(u)' <=> Robbed(u)) /\ (Robbed(u) => cur[u] # cur[t])
  BY <1>6, CallsDiffer DEF Robbed
<1>8. ~Robbed(t)'
  BY <1>6 DEF Robbed
<1>9. Misled' = {cur'[u] : u \in {v \in Threads : Robbed(v)'}}
  BY DEF Misled, Robbed
<1>10. Misled = {cur[u] : u \in {v \in Threads : Robbed(v)}}
  BY DEF Misled, Robbed
<1>11. Misled' = Misled \ {cur[t]}
  BY <1>6, <1>7, <1>8, <1>9, <1>10
<1>. QED BY <1>1, <1>2, <1>3, <1>4, <1>5, <1>11

LEMMA ReturnAnswers ==
    ASSUME IInv, OInv, SInv, NEW t \in Threads, SyncStore(t) \/ ReturnResult(t), Line' = Line
    PROVE  Service!Next
<1> USE DEF SyncStore, ReturnResult, Op, port, queues, backend
<1>1. IsBlock(cur[t]) /\ ~Pushing(t) /\ UNCHANGED <<status, block_result, result>>
  BY DEF SInv, KindsFit, KindFits, Pushing, Return
<1>2. result[cur[t]] # "none" /\ (pc[t] = "result" => block_result \in {result[cur[t]], "OK"})
  BY DEF SInv, AnswerAtHand, AtHand
<1>3. CASE SyncStore(t)
  <2>1. Return(t, result[cur[t]]) /\ ~Robbed(t) /\ pc[t] = "sync_store"
    BY <1>3 DEF Robbed
  <2>. QED BY <1>1, <1>2, <2>1, ReturnMoves, Tells
<1>4. CASE ReturnResult(t)
  <2>1. Return(t, block_result) /\ pc[t] = "result"
    BY <1>4
  <2>2. block_result = IF Robbed(t) THEN "OK" ELSE result[cur[t]]
    BY <1>2, <2>1 DEF Robbed
  <2>. QED BY <1>1, <1>2, <2>1, <2>2, ReturnMoves, Tells
<1>. QED BY <1>3, <1>4

LEMMA ReturnGivesUp ==
    ASSUME IInv, OInv, SInv, NEW t \in Threads, pc[t] \in {"wait", "detached"},
           Return(t, "TIMEOUT"), Line' = Line, UNCHANGED <<status, block_result>>
    PROVE  Service!Next
<1>1. IsBlock(cur[t]) /\ ~Pushing(t) /\ ~Robbed(t) /\ cur[t] \in Ops
  BY DEF SInv, KindsFit, KindFits, Pushing, Robbed, IInv, CallHasOp
<1>2. cur[t] \in 1..nops /\ size[cur[t]] > 0
  BY DEF OInv, OpsKnown, SInv, Sized
<1>3. ~Submitted(cur[t])
  BY <1>1, CallsDiffer DEF Submitted, Pushing
<1>4. cur[t] \in Admitted
  BY <1>2, <1>3, AdmittedAre
<1>5. UNCHANGED result
  BY DEF Return
<1>. QED BY <1>1, <1>4, <1>5, ReturnMoves, GivesUp

LEMMA AnswerTells ==
    ASSUME IInv, OInv, SInv, NEW t \in Threads, Answer(t), Line' = Line PROVE Service!Next
<1> USE DEF Answer, Op, Goto, Stay, Return, port, queues, backend
<1>1. /\ cur[t] \in Ops /\ ~IsBlock(cur[t]) /\ result[cur[t]] \in Answers /\ Untold(cur[t])
      /\ result[cur[t]] # "none"
  BY DEF IInv, TypeOK, CallHasOp, SInv, KindsFit, KindFits, StatusFits, AnswerOwed
<1>2. UNCHANGED <<nops, kind, size, result, block_result>> /\ pc \in [Threads -> ThreadPC]
        /\ cur \in [Threads -> Ops \cup {NoOp}] /\ ret \in [Ops -> Answers \cup {"none", "TIMEOUT"}]
  BY DEF IInv, TypeOK
<1>3. \E l \in {"idle", "unlock"} :
        /\ pc' = [pc EXCEPT ![t] = l]
        /\ cur' \in {cur, [cur EXCEPT ![t] = NoOp]}
  OBVIOUS
<1>4. ToldNow[cur[t]] = "none"
  BY <1>1, NothingTold
<1>5. \A p \in Ops : p # cur[t] => ret'[p] = ret[p]
  BY <1>1, <1>2
<1>6. ToldNow' = [ToldNow EXCEPT ![cur[t]] = result[cur[t]]]
  BY <1>1, <1>2, <1>5, StatusTells
<1>7. Admitted' = Admitted
  BY <1>2, <1>3, AdmittedStays DEF Pushing
<1>8. ~Robbed(t) /\ ~Robbed(t)' /\ \A u \in Threads : u # t => pc'[u] = pc[u] /\ cur'[u] = cur[u]
  BY <1>2, <1>3 DEF Robbed
<1>9. Misled' = Misled
  BY <1>2, <1>8, MisledElsewhere
<1>10. cur[t] \notin Misled
  BY <1>8, RobbedOwn
<1>11. Misled' = Misled \ {cur[t]}
  BY <1>9, <1>10
<1>. QED BY <1>1, <1>2, <1>4, <1>6, <1>7, <1>10, <1>11, Tells DEF Line

LEMMA ClearDrops == ASSUME IInv, OInv, SInv, ResetClear PROVE Service!Next
<1>1. UNCHANGED <<pc, cur, nops, size, kind, status, ret, result>>
  BY DEF ResetClear, calls, ops
<1>2. Admitted' = Admitted /\ ToldNow' = ToldNow
  BY <1>1, ToldKept DEF Admitted, Op
<1>3. ASSUME NEW o \in Misled' PROVE o \in Ops /\ result[o] # "none" /\ ToldNow[o] = "none"
  <2>1. PICK t \in Threads : pc[t] = "result" /\ o = cur[t]
    BY <1>1, <1>3 DEF Misled, Op
  <2>2. IsBlock(o) /\ ret[o] = "none" /\ result[o] # "none" /\ o \in Ops
    BY <2>1 DEF SInv, KindsFit, KindFits, CallsUntold, AnswerAtHand, AtHand, IInv, CallHasOp
  <2>. QED BY <2>2, NothingTold
<1>. QED BY <1>1, <1>2, <1>3, LineDropped, Drops

LEMMA ServiceStep ==
    ASSUME ~EarlyTake, IInv, IInv', OInv, SInv, [Next]_vars
    PROVE  [Service!Next]_(Service!vars)
<1> DEFINE Moved == Service!Next \/ UNCHANGED Service!vars
<1>1. ASSUME ~Quiet PROVE Moved
  BY <1>1, PushAccepts, SyncServes, FinishServes, ClearDrops DEF Quiet
<1>2. ASSUME Quiet PROVE Line' = Line
  BY <1>2, LineKept
<1>3. ASSUME Quiet, NEW t \in Threads,
             Lock(t) \/ ThreadStep(t) \/ WaitTimeout(t) \/ WaitTimeoutLost(t)
      PROVE  Moved
  <2>k. \A k \in KindsOf(t) : k \in {"BLOCK", "POLLING", "CALLBACK"}
    BY ConstantsAssumption DEF KindsOf
  <2>s. Sizes \subseteq Nat
    BY ConstantsAssumption
  <2>1. CASE Silent(t)
    BY <1>2, <1>3, <2>1, SilentStutters
  <2>2. ASSUME NEW k \in KindsOf(t), StreamAcquire(t, k) PROVE Moved
    <3>1. /\ NewOp(t, k, 0) /\ nops < MaxOps /\ pc[t] = "locked"
          /\ pc' = [pc EXCEPT ![t] = "stream"] /\ block_result' = block_result
      BY <2>2 DEF StreamAcquire, Goto, port
    <3>. QED BY <1>2, <1>3, <2>k, <3>1, NewOpStutters
  <2>3. ASSUME NEW k \in KindsOf(t), NEW n \in Sizes, PushPayload(t, k, n) PROVE Moved
    <3>1. /\ NewOp(t, k, n) /\ nops < MaxOps /\ pc[t] = "locked"
          /\ \E l \in {"publish", "push"} : pc' = [pc EXCEPT ![t] = l]
          /\ block_result' = block_result
      BY <2>3 DEF PushPayload, Goto, port
    <3>. QED BY <1>2, <1>3, <2>k, <3>1, NewOpStutters
  <2>4. ASSUME NEW n \in Sizes, StreamWrite(t, n) PROVE Moved
    <3>1. /\ pc[t] = "stream" /\ size' = [size EXCEPT ![cur[t]] = @ + n]
          /\ UNCHANGED <<pc, cur, block_result, nops, kind, status, result, ret>>
      BY <2>4 DEF StreamWrite, Op, port, calls
    <3>2. cur[t] \in Ops /\ size \in [Ops -> Nat]
      BY <3>1 DEF IInv, TypeOK, CallHasOp
    <3>3. size[cur[t]] + n \in Nat /\ size' = [size EXCEPT ![cur[t]] = size[cur[t]] + n]
      BY <2>s, <3>1, <3>2
    <3>. QED BY <1>2, <1>3, <3>1, <3>3, StreamStutters
  <2>5. CASE StreamRelease(t)
    <3>1. /\ pc[t] = "stream" /\ size' = [size EXCEPT ![cur[t]] = 0]
          /\ pc' = [pc EXCEPT ![t] = "idle"] /\ cur' = [cur EXCEPT ![t] = NoOp]
          /\ UNCHANGED <<block_result, nops, kind, status, result, ret>>
      BY <2>5 DEF StreamRelease, Op, Goto
    <3>2. 0 \in Nat
      OBVIOUS
    <3>. QED BY <1>2, <1>3, <3>1, <3>2, StreamStutters
  <2>6. CASE MarkRunning(t) \/ Unlock(t)
    BY <1>2, <1>3, <2>6, MarkStutters, UnlockStutters
  <2>7. CASE SyncStore(t) \/ ReturnResult(t)
    BY <1>2, <1>3, <2>7, ReturnAnswers
  <2>8. CASE Answer(t)
    BY <1>2, <1>3, <2>8, AnswerTells
  <2>9. ASSUME pc[t] \in {"wait", "detached"}, Return(t, "TIMEOUT"),
               UNCHANGED <<status, block_result>>
        PROVE  Moved
    BY <1>2, <1>3, <2>9, ReturnGivesUp
  <2>10. CASE DetachedStore(t) \/ WaitTimeout(t)
    BY <2>9, <2>10 DEF DetachedStore, WaitTimeout
  <2>11. CASE WaitTimeoutLost(t)
    <3>1. pc[t] = "wait" /\ UNCHANGED <<port, status>>
      BY <2>11 DEF WaitTimeoutLost
    <3>2. CASE Return(t, "TIMEOUT")
      BY <2>9, <3>1, <3>2 DEF port
    <3>3. CASE Stay(t, "reap") \/ Stay(t, "detached")
      BY <1>2, <1>3, <3>1, <3>3, LostStutters
    <3>. QED BY <2>11, <3>2, <3>3 DEF WaitTimeoutLost
  <2> HIDE DEF Moved
  <2>. QED BY <1>3, <2>1, <2>2, <2>3, <2>4, <2>5, <2>6, <2>7, <2>8, <2>10, <2>11
           DEF ThreadStep, StartCall, EndCall, Silent, Quiet
<1>4. ASSUME Quiet, Completion \/ ResetClaim \/ UNCHANGED vars PROVE Moved
  <2>1. UNCHANGED <<pc, cur, ops, block_result>>
    BY <1>4 DEF Quiet, Completion, Take, PopPayload, FinishClaim, FinishClaimPublishing,
         FinishUndetach, FinishPost, FinishUnexpected, ResetClaim, vars, port, calls
  <2>. QED BY <1>2, <1>4, <2>1, BackendStutters
<1>5. Moved
  <2> HIDE DEF Moved
  <2>. QED BY <1>1, <1>3, <1>4 DEF Next, Quiet
<1>. QED BY <1>5

\* Whoever writes sees the port as WriteService describes it, for any threads, writes
\* and queue sizes: writes are served in the order of their acceptance, and each
\* caller is told once, and nothing but the answer to his own write or that he gave
\* up, whatever timeouts and resets come in between.  (A reset may turn an answer
\* that is being returned into OK; that what was accepted is answered at last stays
\* with the run of write_port.)
THEOREM ServiceSafe == ASSUME SyncOrReset, OneWaiter, ~EarlyTake PROVE Spec => Service!Spec
<1>1. Init => IInv /\ OInv /\ SInv /\ Service!Init
  BY InvInit, OInvInit, ServiceInit
<1>2. IInv /\ OInv /\ SInv /\ [Next]_vars => (IInv /\ OInv /\ SInv)'
  BY InvStep, OInvStep, SInvStep
<1>3. IInv /\ IInv' /\ OInv /\ SInv /\ [Next]_vars => [Service!Next]_(Service!vars)
  BY ServiceStep
<1>. QED BY <1>1, <1>2, <1>3, PTL DEF Spec, Service!Spec

=============================================================================
