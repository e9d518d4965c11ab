--------------------------- MODULE LockFreeQueue ---------------------------
(***************************************************************************)
(* LibXR::LockFreeQueue: a ring of N slots between one producer and its    *)
(* consumers, read and written one slot and one atomic access at a time.   *)
(* The producer owns tail_ and the consumers move head_ by compare and     *)
(* swap, so each side's load of its own index is merged into the step that *)
(* loads the other one.                                                    *)
(***************************************************************************)
EXTENDS Naturals, Sequences

CONSTANTS
    N,          \* LENGTH + 1
    Consumers,
    Batches,    \* sizes of the batches pushed and popped
    Calls,      \* the consumers' calls in use
    Resets,     \* whether Reset() is called
    MaxItems    \* bound: items pushed

\* pop: Pop, PopBatch.  peek: Peek, PeekBatch.  reader: PopWithReader.
AllCalls == {"pop", "peek", "reader"}

ASSUME QueueAssumption ==
    /\ N \in Nat \ {0} /\ MaxItems \in Nat
    /\ Batches \subseteq Nat /\ Calls \subseteq AllCalls /\ Resets \in BOOLEAN

VARIABLES
    head, tail,  \* head_, tail_
    slots,       \* queue_handle_
    made,        \* items committed so far; an item is its number
    pushed,      \* the producer's last answer
    ppc,         \* where the producer is
    pn, pi,      \* size of its batch, items of it written
    popped,      \* popped[c]: consumer c's last answer
    got,         \* got[c]: the items its last successful call returned
    cpc,         \* cpc[c]: where c is
    cop,         \* cop[c]: the call
    cn,          \* cn[c]: size of its batch
    chead,       \* chead[c]: current_head
    buf          \* buf[c]: the items copied so far

pvars == <<pushed, ppc, pn, pi>>
cvars == <<popped, got, cpc, cop, cn, chead, buf>>
vars == <<head, tail, slots, made, pvars, cvars>>

Indexes == 0..(N - 1)

TypeOK ==
    /\ head \in Indexes /\ tail \in Indexes
    /\ slots \in [Indexes -> Nat] /\ made \in Nat
    /\ pushed \in {"none", "OK", "FULL", "FAILED"}
    /\ ppc \in {"idle", "check", "write"}
    /\ pn \in Batches \cup {0} /\ pi \in 0..pn
    /\ popped \in [Consumers -> {"none", "OK", "EMPTY", "FAILED"}]
    /\ got \in [Consumers -> Seq(Nat)]
    /\ cpc \in [Consumers -> {"idle", "head", "tail", "copy"}]
    /\ cop \in [Consumers -> AllCalls]
    /\ cn \in [Consumers -> Batches \cup {0}]
    /\ chead \in [Consumers -> Indexes]
    /\ buf \in [Consumers -> Seq(Nat)]

Init ==
    /\ head = 0 /\ tail = 0
    /\ slots = [i \in Indexes |-> 0] /\ made = 0
    /\ pushed = "none" /\ ppc = "idle" /\ pn = 0 /\ pi = 0
    /\ popped = [c \in Consumers |-> "none"]
    /\ got = [c \in Consumers |-> <<>>]
    /\ cpc = [c \in Consumers |-> "idle"]
    /\ cop = [c \in Consumers |-> "pop"]
    /\ cn = [c \in Consumers |-> 0]
    /\ chead = [c \in Consumers |-> 0]
    /\ buf = [c \in Consumers |-> <<>>]

WrapLate(i) == i % (N + 1)  \* mutant: the index may point past the ring
Wrap(i) == i % N

UsedUnwrapped(h, t) == IF t >= h THEN t - h ELSE h - t  \* mutant: wrong side
Used(h, t) == IF t >= h THEN t - h ELSE N - h + t

FreeAll(h, t) == N - Used(h, t)  \* mutant: full looks like empty
Free(h, t) == N - Used(h, t) - 1

----------------------------------------------------------------------------
(* The producer: Push, PushBatch, PushWithWriter.                             *)

PushBegin(n) ==
    /\ ppc = "idle" /\ made + n <= MaxItems
    /\ ppc' = "check" /\ pn' = n /\ pi' = 0 /\ pushed' = "none"
    /\ UNCHANGED <<head, tail, slots, made, cvars>>

PushCheck ==
    /\ ppc = "check"
    /\ IF Free(head, tail) < pn
       THEN ppc' = "idle" /\ pushed' = "FULL"
       ELSE ppc' = "write" /\ UNCHANGED pushed
    /\ UNCHANGED <<head, tail, slots, made, pn, pi, cvars>>

PushWrite ==
    /\ ppc = "write" /\ pi < pn
    /\ slots' = [slots EXCEPT ![Wrap(tail + pi)] = made + pi + 1]
    /\ pi' = pi + 1
    /\ UNCHANGED <<head, tail, made, pushed, ppc, pn, cvars>>

PushCommit ==
    /\ ppc = "write" /\ pi = pn
    /\ tail' = Wrap(tail + pn) /\ made' = made + pn
    /\ ppc' = "idle" /\ pushed' = "OK"
    /\ UNCHANGED <<head, slots, pn, pi, cvars>>

\* The writer callback fails: what it wrote is never committed.
WriterFails ==
    /\ ppc = "write"
    /\ ppc' = "idle" /\ pushed' = "FAILED"
    /\ UNCHANGED <<head, tail, slots, made, pn, pi, cvars>>

----------------------------------------------------------------------------
(* A consumer.                                                                *)

Goto(c, l) == cpc' = [cpc EXCEPT ![c] = l]
Answer(c, a) == Goto(c, "idle") /\ popped' = [popped EXCEPT ![c] = a]
Return(c) == Answer(c, "OK") /\ got' = [got EXCEPT ![c] = buf[c]]

PopBegin(c, op, n) ==
    /\ cpc[c] = "idle" /\ Goto(c, "head")
    /\ cop' = [cop EXCEPT ![c] = op] /\ cn' = [cn EXCEPT ![c] = n]
    /\ popped' = [popped EXCEPT ![c] = "none"]
    /\ UNCHANGED <<head, tail, slots, made, pvars, got, chead, buf>>

LoadHead(c) ==
    /\ cpc[c] = "head" /\ Goto(c, "tail")
    /\ chead' = [chead EXCEPT ![c] = head] /\ buf' = [buf EXCEPT ![c] = <<>>]
    /\ UNCHANGED <<head, tail, slots, made, pvars, popped, got, cop, cn>>

LoadTail(c) ==
    /\ cpc[c] = "tail"
    /\ IF Used(chead[c], tail) < cn[c]
       THEN Answer(c, "EMPTY")
       ELSE Goto(c, "copy") /\ UNCHANGED popped
    /\ UNCHANGED <<head, tail, slots, made, pvars, got, cop, cn, chead, buf>>

Copied(c) == Len(buf[c])

Copy(c) ==
    /\ cpc[c] = "copy" /\ Copied(c) < cn[c]
    /\ buf' = [buf EXCEPT ![c] = Append(@, slots[Wrap(chead[c] + Copied(c))])]
    /\ UNCHANGED <<head, tail, slots, made, pvars, popped, got, cpc, cop, cn, chead>>

\* The compare and swap of Pop and PopBatch; PopWithReader just stores.
PopCommit(c) ==
    /\ cpc[c] = "copy" /\ Copied(c) = cn[c] /\ cop[c] \in {"pop", "reader"}
    /\ cop[c] = "pop" => head = chead[c]
    /\ head' = Wrap(chead[c] + cn[c]) /\ Return(c)
    /\ UNCHANGED <<tail, slots, made, pvars, cop, cn, chead, buf>>

\* compare_exchange_weak may also fail with nobody in the way.
CasFails(c) ==
    /\ cpc[c] = "copy" /\ Copied(c) = cn[c] /\ cop[c] = "pop" /\ Goto(c, "head")
    /\ UNCHANGED <<head, tail, slots, made, pvars, popped, got, cop, cn, chead, buf>>

\* A peek returns only if head_ has not moved.
PeekCheck(c) ==
    /\ cpc[c] = "copy" /\ Copied(c) = cn[c] /\ cop[c] = "peek"
    /\ IF head = chead[c] THEN Return(c) ELSE Goto(c, "head") /\ UNCHANGED <<popped, got>>
    /\ UNCHANGED <<head, tail, slots, made, pvars, cop, cn, chead, buf>>

\* The reader callback fails: head_ stays.
ReaderFails(c) ==
    /\ cpc[c] = "copy" /\ cop[c] = "reader" /\ Answer(c, "FAILED")
    /\ UNCHANGED <<head, tail, slots, made, pvars, got, cop, cn, chead, buf>>

----------------------------------------------------------------------------

\* Reset(), whose two stores are atomic to callers that hold off both sides.
Reset ==
    /\ Resets /\ ppc = "idle" /\ \A c \in Consumers : cpc[c] = "idle"
    /\ head' = 0 /\ tail' = 0
    /\ UNCHANGED <<slots, made, pvars, cvars>>

Producer ==
    \/ \E n \in Batches : PushBegin(n)
    \/ PushCheck \/ PushWrite \/ PushCommit \/ WriterFails

Consumer(c) ==
    \/ \E op \in Calls, n \in Batches : PopBegin(c, op, n)
    \/ LoadHead(c) \/ LoadTail(c) \/ Copy(c)
    \/ PopCommit(c) \/ CasFails(c) \/ PeekCheck(c) \/ ReaderFails(c)

Next == Producer \/ (\E c \in Consumers : Consumer(c)) \/ Reset

Spec == Init /\ [][Next]_vars

----------------------------------------------------------------------------
(* Properties.                                                                *)

Open == IF ppc = "write" THEN {Wrap(tail + i) : i \in 0..(pn - 1)} ELSE {}
Copying(c) ==
    IF cpc[c] = "copy" THEN {Wrap(chead[c] + j) : j \in 0..(cn[c] - 1)} ELSE {}

\* The slots the producer writes are never those a consumer copies: the plain
\* memory accesses of PushBatch and PopBatch do not race.
SlotOwnership == \A c \in Consumers : Open \cap Copying(c) = {}

\* Two consumers that pop do not get the same item, though each of them copies
\* the item before it moves head_.
NoItemTwice ==
    \A c, d \in Consumers : \A i \in DOMAIN got[c], j \in DOMAIN got[d] :
        c # d => got[c][i] # got[d][j]

\* The items that lie in ring s from index h up to index t.
Content(h, t, s) == [k \in 1..Used(h, t) |-> s[Wrap(h + (k - 1))]]

F == INSTANCE Fifo WITH Capacity <- N - 1, items <- Content(head, tail, slots)

\* The ring is a bounded FIFO queue: a call takes effect in one step, returns
\* the oldest items, each of them once, and says FULL or EMPTY only when it is.
ImplementsFifo == F!Spec
=============================================================================
