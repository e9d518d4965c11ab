---------------------------- MODULE ReadPort ----------------------------
(***************************************************************************)
(* LibXR::ReadPort: one reader thread, one producer (a driver's receive    *)
(* path, or a Pipe's write side) that pushes bytes into queue_data_ and    *)
(* then calls ProcessPendingReads().  busy_ hands a read over: PENDING     *)
(* gives it to the producer, EVENT tells the reader to look again.         *)
(***************************************************************************)
EXTENDS Naturals, Sequences, SequencesExt

CONSTANTS
    Kinds,     \* operation types in use: BLOCK, POLLING
    Sizes,     \* requested byte counts; 0 is a readiness read
    MaxReads,  \* bound: reads issued
    MaxBytes,  \* bound: bytes produced
    Cap,       \* capacity of queue_data_
    Envs       \* the environments of the port; see EnvType

\* isr: the producer runs in an interrupt the reader cannot preempt.
\* polite: the reader waits for a non-BLOCK read to complete before it issues
\*   the next one, and once a BLOCK read has timed out it only repeats that one.
\* fails: read_fun_ may fail.  resets: bound on Reset() calls, which come from
\*   the producer's context.
EnvType == [isr : BOOLEAN, polite : BOOLEAN, fails : BOOLEAN, resets : Nat]

ASSUME ConstantsAssumption ==
    /\ Kinds \subseteq {"BLOCK", "POLLING"}
    /\ Sizes \subseteq Nat
    /\ MaxReads \in Nat /\ MaxBytes \in Nat /\ Cap \in Nat
    /\ Envs \subseteq EnvType

Reads == 1..MaxReads
NoRead == 0

VARIABLES
    env,           \* the environment of this behaviour
    busy,          \* busy_
    info,          \* info_: the read whose buffer and op it holds
    queue_data,    \* queue_data_: bytes, numbered as they were produced
    sem,           \* count of the reader's semaphore
    pc,            \* where the reader is
    rd,            \* the read of the current, or else the last, call
    kind, size,    \* kind[r], size[r]: operation type and data.size_ of read r
    status,        \* status[r]: what r's owner was told
    got,           \* got[r]: the bytes copied to r's buffer
    ppc,           \* where the producer is
    made,          \* bytes produced so far
    resets         \* Reset() calls so far

reads == <<rd, kind, size, status, got>>
vars == <<env, busy, info, queue_data, sem, pc, reads, ppc, made, resets>>

BusyState == {"IDLE", "PENDING", "BLOCK_CLAIMED", "BLOCK_DETACHED", "EVENT"}
\* status: the POLLING word, or for BLOCK the return value of the call.
Final == {"DONE", "ERROR", "TIMEOUT"}

TypeOK ==
    /\ env \in Envs
    /\ busy \in BusyState
    /\ info \in Reads \cup {NoRead} /\ rd \in Reads \cup {NoRead}
    /\ queue_data \in Seq(1..MaxBytes) /\ Len(queue_data) <= Cap
    /\ sem \in Nat
    /\ pc \in {"idle", "store", "size", "pop", "arm", "fun", "failed",
               "wait", "detached", "reap", "release"}
    /\ kind \in [Reads -> {"BLOCK", "POLLING"}]
    /\ size \in [Reads -> Nat]
    /\ status \in [Reads -> {"READY", "RUNNING"} \cup Final]
    /\ got \in [Reads -> Seq(1..MaxBytes)]
    /\ ppc \in {"idle", "filled", "load", "pending", "claim", "pop", "finish", "status", "event", "broken"}
    /\ made \in 0..MaxBytes
    /\ resets \in Nat

Init ==
    /\ env \in Envs
    /\ busy = "IDLE" /\ info = NoRead
    /\ queue_data = <<>> /\ sem = 0
    /\ pc = "idle" /\ rd = NoRead
    /\ kind = [r \in Reads |-> "POLLING"] /\ size = [r \in Reads |-> 0]
    /\ status = [r \in Reads |-> "READY"] /\ got = [r \in Reads |-> <<>>]
    /\ ppc = "idle" /\ made = 0 /\ resets = 0

IsBlock(r) == kind[r] = "BLOCK"
Told(r, s) == status' = [status EXCEPT ![r] = s]
Enough(n) == Len(queue_data) >= n /\ Len(queue_data) # 0

\* PopBatch into the buffer of read r.
KeptBytes(n) == queue_data  \* mutant: the bytes are copied and not popped
Rest(n) == SubSeq(queue_data, n + 1, Len(queue_data))
PopInto(r) ==
    /\ got' = [got EXCEPT ![r] = SubSeq(queue_data, 1, size[r])]
    /\ queue_data' = Rest(size[r])

----------------------------------------------------------------------------
(* The reader: operator().                                                    *)

\* In an interrupt's context the reader does not run in between.
Runs == env.isr => ppc = "idle"

Goto(l) == Runs /\ pc' = l
MayIssue(k, n) ==
    env.polite => \A r \in 1..rd :
        /\ status[r] # "RUNNING"
        /\ status[r] = "TIMEOUT" => k = kind[r] /\ n = size[r]

\* BUSY is returned, with nothing changed, in every other state of busy_.
Issue(k, n) ==
    /\ pc = "idle" /\ rd < MaxReads
    /\ busy \in {"IDLE", "EVENT"}
    /\ MayIssue(k, n)
    /\ rd' = rd + 1
    /\ kind' = [kind EXCEPT ![rd + 1] = k]
    /\ size' = [size EXCEPT ![rd + 1] = n]
    /\ Goto("store")
    /\ UNCHANGED <<env, busy, info, queue_data, sem, status, got, ppc, made, resets>>

\* The head of the loop: EVENT is consumed before the queue is looked at.
StoreIdle ==
    /\ pc = "store" /\ Goto("size")
    /\ busy' = "IDLE"
    /\ UNCHANGED <<env, info, queue_data, sem, reads, ppc, made, resets>>

CheckSize ==
    /\ pc = "size"
    /\ Goto(IF Enough(size[rd]) THEN "pop" ELSE "arm")
    /\ UNCHANGED <<env, busy, info, queue_data, sem, reads, ppc, made, resets>>

\* The bytes were there: the read completes in the call.
PopNow ==
    /\ pc = "pop" /\ Goto("idle")
    /\ PopInto(rd) /\ Told(rd, "DONE")
    /\ UNCHANGED <<env, busy, info, sem, rd, kind, size, ppc, made, resets>>

\* info_ and MarkAsRunning, while the producer must not look at them yet; the
\* next turns of the loop write the same values again.
Publish ==
    /\ pc = "arm" /\ info # rd /\ Goto("arm")
    /\ info' = rd /\ Told(rd, "RUNNING")
    /\ UNCHANGED <<env, busy, queue_data, sem, rd, kind, size, got, ppc, made, resets>>

ArmableAlways(b) == TRUE  \* mutant: a store, not a CAS
Armable(b) == b = "IDLE"
\* The CAS IDLE -> PENDING fails against EVENT, and the loop starts over.
Arm ==
    /\ pc = "arm" /\ info = rd
    /\ \/ Armable(busy) /\ busy' = "PENDING" /\ Goto("fun")
       \/ ~Armable(busy) /\ UNCHANGED busy /\ Goto("store")
    /\ UNCHANGED <<env, info, queue_data, sem, reads, ppc, made, resets>>

ReadFunAccepts ==
    /\ pc = "fun" /\ Goto(IF IsBlock(rd) THEN "wait" ELSE "idle")
    /\ UNCHANGED <<env, busy, info, queue_data, sem, reads, ppc, made, resets>>

ReadFunFails ==
    /\ env.fails /\ pc = "fun" /\ Goto("failed")
    /\ UNCHANGED <<env, busy, info, queue_data, sem, reads, ppc, made, resets>>

RollBackLate(b) == b \in {"PENDING", "IDLE"}  \* mutant: a completed read is rolled back
RollBackAble(b) == b = "PENDING"
\* The roll back of a failed start, unless the producer completed the read.
RollBack ==
    /\ pc = "failed"
    /\ \/ RollBackAble(busy) /\ busy' = "IDLE" /\ Goto("idle") /\ Told(rd, "ERROR")
       \/ busy = "BLOCK_DETACHED" /\ UNCHANGED busy /\ Goto("idle") /\ Told(rd, "TIMEOUT")
       \/ busy = "IDLE" /\ Goto("idle") /\ UNCHANGED <<busy, status>>
       \/ busy = "BLOCK_CLAIMED" /\ Goto("wait") /\ UNCHANGED <<busy, status>>
    /\ UNCHANGED <<env, info, queue_data, sem, rd, kind, size, got, ppc, made, resets>>

TakeToken == sem > 0 /\ sem' = sem - 1

WaitPosted ==
    /\ pc \in {"wait", "reap"} /\ TakeToken /\ Goto("release")
    /\ UNCHANGED <<env, busy, info, queue_data, reads, ppc, made, resets>>

\* BLOCK_CLAIMED is always released by the waiter.
Release ==
    /\ pc = "release" /\ Goto("idle")
    /\ busy' = "IDLE" /\ Told(rd, "DONE")
    /\ UNCHANGED <<env, info, queue_data, sem, rd, kind, size, got, ppc, made, resets>>

CancelClaimed(b) == b \in {"PENDING", "BLOCK_CLAIMED"}  \* mutant: a claimed read is cancelled
Cancellable(b) == b = "PENDING"
\* The wait timed out: the read is cancelled unless it was claimed.
WaitTimeout ==
    /\ pc = "wait" /\ sem = 0
    /\ \/ Cancellable(busy) /\ busy' = "IDLE" /\ Goto("idle") /\ Told(rd, "TIMEOUT")
       \/ busy = "BLOCK_DETACHED" /\ Goto("detached") /\ UNCHANGED <<busy, status>>
       \/ busy = "BLOCK_CLAIMED" /\ Goto("reap") /\ UNCHANGED <<busy, status>>
    /\ UNCHANGED <<env, info, queue_data, sem, rd, kind, size, got, ppc, made, resets>>

StillDetached == UNCHANGED busy  \* mutant: the port is left detached
Reopened == busy' = "IDLE"
DetachedStore ==
    /\ pc = "detached" /\ Goto("idle")
    /\ Reopened /\ Told(rd, "TIMEOUT")
    /\ UNCHANGED <<env, info, queue_data, sem, rd, kind, size, got, ppc, made, resets>>

----------------------------------------------------------------------------
(* The producer: PushBatch, then ProcessPendingReads() and ReadPort::Finish.  *)

OneTooMany(q) == Len(q) <= Cap  \* mutant: off by one
HasRoom(q) == Len(q) < Cap
Push ==
    /\ ppc \in {"idle", "filled"} /\ made < MaxBytes /\ HasRoom(queue_data)
    /\ made' = made + 1
    /\ queue_data' = Append(queue_data, made + 1)
    /\ ppc' = "filled"
    /\ UNCHANGED <<env, busy, info, sem, pc, reads, resets>>

\* The load of busy_; anything but PENDING and IDLE returns.
LoadBusy ==
    /\ ppc \in {"filled", "load"}
    /\ ppc' = CASE busy = "PENDING" -> "pending"
                [] busy = "IDLE" -> "event"
                [] OTHER -> "idle"
    /\ UNCHANGED <<env, busy, info, queue_data, sem, pc, reads, made, resets>>

\* The CAS IDLE -> EVENT: a reader may have armed since the load.
SetEvent ==
    /\ ppc = "event"
    /\ IF busy = "IDLE" THEN busy' = "EVENT" /\ ppc' = "idle"
                        ELSE UNCHANGED busy /\ ppc' = "load"
    /\ UNCHANGED <<env, info, queue_data, sem, pc, reads, made, resets>>

ServesStrictly(n) == Len(queue_data) > n  \* mutant: off by one
Serves(n) == Enough(n)
\* A pending read that the queue cannot serve stays pending.
CheckPending ==
    /\ ppc = "pending"
    /\ ppc' = IF ~Serves(size[info]) THEN "idle"
              ELSE IF IsBlock(info) THEN "claim" ELSE "pop"
    /\ UNCHANGED <<env, busy, info, queue_data, sem, pc, reads, made, resets>>

Claim ==
    /\ ppc = "claim"
    /\ IF busy = "PENDING" THEN busy' = "BLOCK_CLAIMED" /\ ppc' = "pop"
                           ELSE UNCHANGED busy /\ ppc' = "load"
    /\ UNCHANGED <<env, info, queue_data, sem, pc, reads, made, resets>>

\* PopBatch for the read in info_; its ASSERT fails if the bytes are not there.
PopPending ==
    /\ ppc = "pop"
    /\ IF Len(queue_data) >= size[info]
       THEN PopInto(info) /\ ppc' = "finish"
       ELSE ppc' = "broken" /\ UNCHANGED <<queue_data, got>>
    /\ UNCHANGED <<env, busy, info, sem, pc, rd, kind, size, status, made, resets>>

\* Finish(): a BLOCK waiter is posted; otherwise the port reopens first.
Finish ==
    /\ ppc = "finish"
    /\ IF IsBlock(info) THEN sem' = sem + 1 /\ ppc' = "idle" /\ UNCHANGED busy
                        ELSE busy' = "IDLE" /\ ppc' = "status" /\ UNCHANGED sem
    /\ UNCHANGED <<env, info, queue_data, pc, reads, made, resets>>

FinishStatus ==
    /\ ppc = "status" /\ ppc' = "idle"
    /\ Told(info, "DONE")
    /\ UNCHANGED <<env, busy, info, queue_data, sem, pc, rd, kind, size, got, made, resets>>

\* Reset(), between two calls of ProcessPendingReads(), and not while a call
\* pops the bytes it has just counted.  One step, as it is in an interrupt; a thread
\* resets the queue, loads busy_ and stores IDLE in three, and a read that is armed
\* between the last two, which is overwritten, is left out.
Reset ==
    /\ resets < env.resets /\ ppc = "idle" /\ pc # "pop"
    /\ resets' = resets + 1
    /\ queue_data' = <<>>
    /\ busy' = CASE busy = "PENDING" /\ IsBlock(info) -> "BLOCK_DETACHED"
                 [] busy \in {"BLOCK_CLAIMED", "BLOCK_DETACHED"} -> busy
                 [] OTHER -> "IDLE"
    /\ UNCHANGED <<env, info, sem, pc, reads, ppc, made>>

----------------------------------------------------------------------------

InCall ==
    \/ StoreIdle \/ CheckSize \/ PopNow \/ Publish \/ Arm
    \/ ReadFunAccepts \/ ReadFunFails \/ RollBack
    \/ WaitPosted \/ Release \/ DetachedStore

Process ==
    \/ LoadBusy \/ SetEvent \/ CheckPending \/ Claim \/ PopPending
    \/ Finish \/ FinishStatus

Next ==
    \/ \E k \in Kinds, n \in Sizes : Issue(k, n)
    \/ InCall \/ WaitTimeout \/ Push \/ Process \/ Reset

Spec == Init /\ [][Next]_vars
\* A call in progress and a ProcessPendingReads() in progress run on.
FairSpec == Spec /\ WF_vars(InCall) /\ WF_vars(Process)

----------------------------------------------------------------------------
(* Properties.                                                                *)

Increasing(s) == \A i, j \in DOMAIN s : i < j => s[i] < s[j]
Before(s, t) == \A i \in DOMAIN s, j \in DOMAIN t : s[i] < t[j]
Delivered == UNION {ToSet(got[r]) : r \in Reads}

\* The bytes reach the reads in the order they were produced, none twice, and
\* unless Reset() dropped them, none is missing: a read that gives up, or that
\* completes while the producer looks at it, takes nothing from the next one.
BytesInOrder ==
    /\ Increasing(queue_data)
    /\ \A r \in Reads : Increasing(got[r]) /\ Before(got[r], queue_data)
    /\ \A r, s \in Reads : r < s => Before(got[r], got[s])
    /\ resets = 0 => 1..made = Delivered \cup ToSet(queue_data)

\* A buffer belongs to its read: it is filled completely when the read's owner
\* is told of success, and never written once the owner was told of a timeout
\* or an error (the buffer may be gone by then).
BufferMatchesStatus ==
    \A r \in Reads :
        /\ status[r] = "DONE" => Len(got[r]) = size[r]
        /\ status[r] \in {"ERROR", "TIMEOUT"} => got[r] = <<>>

\* The EVENT handoff: no interleaving of arming a read and ProcessPendingReads()
\* leaves a read pending that the queue could serve.
NoLostWakeup == ppc = "idle" /\ busy = "PENDING" => ~Enough(size[info])

\* A timed-out or detached BLOCK read leaves no token for the next one, and the
\* port is usable again when the call has returned.
CallLeavesClean ==
    pc = "idle" => sem = 0 /\ busy \notin {"BLOCK_CLAIMED", "BLOCK_DETACHED"}

\* A read is completed once: what its owner was told does not change.
StatusIsFinal ==
    [][\A r \in Reads : status[r] \in Final => status'[r] = status[r]]_vars

\* A read that the queue can serve completes.
ServableReadCompletes ==
    \A r \in Reads :
        (status[r] = "RUNNING" /\ info = r /\ busy = "PENDING" /\ Enough(size[r]))
            ~> status[r] \in Final

\* The ASSERT of ProcessPendingReads(): the bytes it counted are there to pop.
PopServed == ppc # "broken"
=============================================================================
