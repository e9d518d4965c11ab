----------------------------- MODULE CdcReceive -----------------------------
(***************************************************************************)
(* How CDCUart holds the host back when its receive queue is full: a       *)
(* packet that does not fit stays in the endpoint's buffer, which is armed *)
(* again when a read has made room.                                        *)
(*                                                                         *)
(* One reader (of the POLLING kind, with ReadPort's states as ReadPort.tla *)
(* has them), one step for each look at, and each change of, what it       *)
(* shares with the interrupt.  An interrupt runs over it as one step: the  *)
(* end of a packet, or a bus reset.  Packets without data, which go        *)
(* straight to TryRearmOut(), are left out.  A byte is its number.         *)
(***************************************************************************)
EXTENDS Naturals, Sequences, SequencesExt

CONSTANTS
    Cap,        \* of queue_data_
    MPS,        \* MaxPacketSize()
    Packets,    \* sizes of the packets the host sends
    Reads,      \* sizes of the reads
    MaxBytes    \* bound: bytes the host sends

CdcReceiveAssumption ==
    /\ Cap \in Nat /\ MPS \in 1..Cap /\ Packets \subseteq 1..MPS /\ Reads \subseteq 1..Cap
    /\ MaxBytes \in Nat

VARIABLES
    made,          \* bytes sent by the host
    bound,         \* ep_data_out_ # nullptr
    armed,         \* the OUT endpoint is BUSY: a packet may come
    recv_pause,
    pending_data,
    queue,         \* queue_data_
    busy,          \* ReadPort::busy_
    pc, want,      \* the reader, and the size of its read
    tail, batch,   \* of its PushBatch(): the length of the queue as it found it, and what it adds
    got,           \* bytes read
    raced          \* an interrupt came where it does harm

vars == <<made, bound, armed, recv_pause, pending_data, queue, busy, pc, want, tail, batch, got,
          raced>>

CdcReceiveTypeOK ==
    /\ made \in 0..MaxBytes /\ {bound, armed, recv_pause, raced} \subseteq BOOLEAN
    /\ {pending_data, queue, batch} \subseteq Seq(1..MaxBytes) /\ got \in Nat /\ tail \in 0..Cap
    /\ busy \in {"IDLE", "EVENT", "PENDING"} /\ want \in Reads \cup {0}
    /\ pc \in {"idle", "size", "pop", "arm", "wait", "dequeue", "pending", "room", "push", "store",
               "clear", "rearm", "paused", "roomAgain", "pushAgain", "storeAgain", "state",
               "transfer", "resume"}

Init ==
    /\ made = 0 /\ bound = TRUE /\ armed = TRUE /\ recv_pause = FALSE /\ pending_data = <<>>
    /\ queue = <<>> /\ busy = "IDLE" /\ pc = "idle" /\ want = 0 /\ tail = 0 /\ batch = <<>>
    /\ got = 0 /\ raced = FALSE

FitsStrictly(data) == Cap - Len(queue) > Len(data)  \* mutant: off by one
Fits(data) == Cap - Len(queue) >= Len(data)

\* ProcessPendingReads() over queue q: what is taken, and the state it leaves.
Serves(q) == busy = "PENDING" /\ q # <<>> /\ Len(q) >= want
Taken(q) == IF Serves(q) THEN want ELSE 0
Noticed(q) == IF busy = "PENDING" THEN IF Serves(q) THEN "IDLE" ELSE "PENDING" ELSE "EVENT"

Drop(q, n) == SubSeq(q, n + 1, Len(q))

----------------------------------------------------------------------------
(* The interrupts: OnDataOutComplete(), and a bus reset.  After a race none   *)
(* is followed.                                                               *)

NextPacket(size) == [k \in 1..size |-> made + k]

\* A packet comes.
Arrives(size) ==
    /\ ~raced /\ bound /\ armed /\ made + size <= MaxBytes /\ made' = made + size
    /\ UNCHANGED <<bound, tail, batch>>

\* It fits: it is queued, a read that waits for it is served, and the endpoint
\* armed.  Where recv_pause_ is still set (the thread is about to clear it) there
\* is no pending_data_ left for TryRearmOut() to queue, and no read was waiting.
\* Inside a PushBatch() of the thread it takes the place that this one fills.
Receive(size) ==
    /\ Arrives(size) /\ Fits(NextPacket(size))
    /\ LET q == queue \o NextPacket(size)
       IN  /\ queue' = Drop(q, Taken(q)) /\ got' = got + Taken(q) /\ busy' = Noticed(q)
           /\ pc' = IF Serves(q) THEN "idle" ELSE pc
           /\ want' = IF Serves(q) THEN 0 ELSE want
    /\ recv_pause' = FALSE
    /\ raced' = (pc \in {"store", "storeAgain"})
    /\ UNCHANGED <<armed, pending_data>>

\* It does not: it stays where it is.  A thread that takes the packet before it to
\* be the one that waits clears it, arms the endpoint over it, or clears its mark.
Pause(size) ==
    /\ Arrives(size) /\ ~Fits(NextPacket(size))
    /\ armed' = FALSE /\ recv_pause' = TRUE /\ pending_data' = NextPacket(size)
    /\ raced' = (pc \in {"store", "clear", "storeAgain", "state", "transfer", "resume"})
    /\ UNCHANGED <<queue, busy, pc, want, got>>

\* What waits when the bus is reset is forgotten, as if it had not been sent; but
\* a packet that the thread is copying, or has copied, is not.
Forgotten == IF pc \in {"store", "clear"} THEN <<>> ELSE pending_data

\* A bus reset.  A thread that is about to copy a packet may have read its size
\* before and its address (nullptr) after it.
UnbindEndpoints ==
    /\ ~raced /\ bound /\ bound' = FALSE /\ armed' = FALSE
    /\ recv_pause' = FALSE /\ pending_data' = <<>> /\ made' = made - Len(Forgotten)
    /\ raced' \in {FALSE, pc = "push" /\ pending_data # <<>>}
    /\ UNCHANGED <<queue, busy, pc, want, tail, batch, got>>

\* The host comes back.  The buffer may be filled while the thread copies it.
BindEndpoints ==
    /\ ~raced /\ ~bound /\ bound' = TRUE /\ armed' = TRUE
    /\ raced' \in {FALSE, pc = "store" /\ batch # <<>>}
    /\ UNCHANGED <<made, recv_pause, pending_data, queue, busy, pc, want, tail, batch, got>>

----------------------------------------------------------------------------
(* The reader: ReadPort::operator().                                          *)

Read(size) ==
    /\ ~raced /\ pc = "idle" /\ want' = size /\ pc' = "size"
    /\ UNCHANGED <<made, bound, armed, recv_pause, pending_data, queue, busy, tail, batch, got,
                   raced>>

\* busy_ = IDLE, then the size.
LookAtSize ==
    /\ pc = "size" /\ busy' = "IDLE"
    /\ pc' = IF queue # <<>> /\ Len(queue) >= want THEN "pop" ELSE "arm"
    /\ UNCHANGED <<made, bound, armed, recv_pause, pending_data, queue, want, tail, batch, got,
                   raced>>

Pop ==
    /\ pc = "pop" /\ queue' = Drop(queue, want) /\ got' = got + want /\ pc' = "dequeue"
    /\ UNCHANGED <<made, bound, armed, recv_pause, pending_data, busy, want, tail, batch, raced>>

Arm ==
    /\ pc = "arm"
    /\ IF busy = "IDLE" THEN busy' = "PENDING" /\ pc' = "wait" ELSE pc' = "size" /\ UNCHANGED busy
    /\ UNCHANGED <<made, bound, armed, recv_pause, pending_data, queue, want, tail, batch, got,
                   raced>>

----------------------------------------------------------------------------
(* The reader: what it shares with the interrupt in OnRxDequeue() and         *)
(* TryRearmOut(), look by look.                                               *)

GoTo(next) == pc' = next /\ want' = IF next = "idle" THEN 0 ELSE want
LookOnly == UNCHANGED <<made, bound, armed, recv_pause, pending_data, queue, busy, tail, batch,
                        got, raced>>

\* OnRxDequeue(): recv_pause_, then pending_data_.
OnRxDequeue ==
    /\ pc = "dequeue" /\ GoTo(IF recv_pause THEN "pending" ELSE "idle") /\ LookOnly

LookAtPending ==
    /\ pc = "pending" /\ GoTo(IF pending_data = <<>> THEN "rearm" ELSE "room") /\ LookOnly

\* Both calls look whether there is room ...
LookAtRoom(at, next) ==
    /\ pc = at /\ GoTo(IF Fits(pending_data) THEN next ELSE "idle") /\ LookOnly

\* ... and so does PushBatch(), once it has its arguments and its two indices.
PushBatch(at, next) ==
    /\ pc = at
    /\ IF Fits(pending_data) THEN GoTo(next) /\ tail' = Len(queue) /\ batch' = pending_data
       ELSE GoTo("idle") /\ UNCHANGED <<tail, batch>>
    /\ UNCHANGED <<made, bound, armed, recv_pause, pending_data, queue, busy, got, raced>>

\* The bytes are copied, and become visible by a tail that was computed before:
\* what was queued meanwhile is overwritten.
StoreTail(at, next) ==
    /\ pc = at /\ GoTo(next)
    /\ queue' = SubSeq(queue, 1, tail) \o batch /\ tail' = 0 /\ batch' = <<>>
    /\ UNCHANGED <<made, bound, armed, recv_pause, pending_data, got, raced>>

\* pending_data_ = {nullptr, 0}, and ProcessPendingReads(): nobody else reads.
Clear ==
    /\ pc = "clear" /\ GoTo("rearm") /\ pending_data' = <<>> /\ busy' = "EVENT"
    /\ UNCHANGED <<made, bound, armed, recv_pause, queue, tail, batch, got, raced>>

\* TryRearmOut(): the endpoint, recv_pause_ again, and its state.  It leaves
\* pending_data_ as it is.
TryRearmOut == pc = "rearm" /\ GoTo(IF bound THEN "paused" ELSE "idle") /\ LookOnly

LookAtPause == pc = "paused" /\ GoTo(IF recv_pause THEN "roomAgain" ELSE "state") /\ LookOnly

LookAtState == pc = "state" /\ GoTo(IF armed THEN "idle" ELSE "transfer") /\ LookOnly

PushPending ==
    \/ LookAtRoom("room", "push") \/ PushBatch("push", "store")
    \/ StoreTail("store", "clear") /\ UNCHANGED busy

PushAgain ==
    \/ LookAtRoom("roomAgain", "pushAgain") \/ PushBatch("pushAgain", "storeAgain")
    \/ StoreTail("storeAgain", "state") /\ busy' = "EVENT"

\* Transfer(): an endpoint that is BUSY, or closed (in some drivers), refuses; a
\* host that comes back may arm it between the look and the start, too.
Transfer ==
    /\ pc = "transfer"
    /\ \/ GoTo("resume") /\ armed' = TRUE
       \/ (armed \/ ~bound) /\ GoTo("idle") /\ UNCHANGED armed
    /\ UNCHANGED <<made, bound, recv_pause, pending_data, queue, busy, tail, batch, got, raced>>

Resume ==
    /\ pc = "resume" /\ GoTo("idle") /\ recv_pause' = FALSE
    /\ UNCHANGED <<made, bound, armed, pending_data, queue, busy, tail, batch, got, raced>>

----------------------------------------------------------------------------
Next ==
    \/ \E size \in Packets : Receive(size) \/ Pause(size)
    \/ UnbindEndpoints \/ BindEndpoints
    \/ \E size \in Reads : Read(size)
    \/ LookAtSize \/ Pop \/ Arm
    \/ OnRxDequeue \/ LookAtPending \/ PushPending \/ Clear
    \/ TryRearmOut \/ LookAtPause \/ PushAgain \/ LookAtState \/ Transfer \/ Resume

Spec == Init /\ [][Next]_vars

----------------------------------------------------------------------------
(* Properties.                                                                *)

\* The packet that waits for room: where the thread queues it, its own copy of it.
Waiting == IF pc = "store" THEN batch ELSE IF pc = "clear" THEN <<>> ELSE pending_data

\* Every byte sent is read, queued or waits, in order.
NothingSkipped ==
    [k \in 1..got |-> k] \o queue \o Waiting = [k \in 1..made |-> k]

\* A read that is longer than this may wait for a packet that waits for room.
Servable(size) == size <= Cap - MPS + 1

\* Between the reader's steps the host can send, or what it sent waits for room
\* that a read has to make, and no read waits for that.
NeverStuck ==
    bound /\ ~armed /\ pc \in {"idle", "wait"} =>
        /\ recv_pause /\ pending_data # <<>> /\ Cap - Len(queue) < Len(pending_data)
        /\ pc = "wait" => ~Servable(want)

ReceivesAll == CdcReceiveTypeOK /\ (~raced => NothingSkipped /\ NeverStuck)
=============================================================================
