-------------------------------- MODULE Pipe --------------------------------
(***************************************************************************)
(* LibXR::Pipe: a WritePort and a ReadPort over one queue_data_.  Who has  *)
(* the write port pushes bytes and then, in write_fun_, is the producer of *)
(* the read port: it runs ProcessPendingReads() before it gives the port   *)
(* back.  Writers are threads, or an interrupt of the reader's core.       *)
(***************************************************************************)
EXTENDS Naturals, Sequences, SequencesExt

CONSTANTS
    Kinds, Sizes, MaxReads, MaxBytes, Cap,  \* as in ReadPort
    Chunks                                  \* byte counts of a write and of a Stream's chunk

PipeAssumption == Chunks \subseteq Nat \ {0}

VARIABLES
    env, busy, info, queue_data, sem, pc, rd, kind, size, status, got, ppc, made, resets,
    writer,    \* what the holder of the write port does; "none" when it is IDLE
    batch,     \* bytes pushed by a Stream that is not committed
    discarded  \* bytes of batches that were discarded

Reader == INSTANCE ReadPort WITH
    Envs <- {[isr |-> i, polite |-> ~i, fails |-> FALSE, resets |-> 0] : i \in BOOLEAN}

readPort == <<env, busy, info, sem, pc, rd, kind, size, status, got, resets>>
vars == <<readPort, queue_data, ppc, made, writer, batch, discarded>>

Init == Reader!Init /\ writer = "none" /\ batch = {} /\ discarded = {}

Lock ==
    /\ writer = "none" /\ made < MaxBytes
    /\ writer' = "locked"
    /\ UNCHANGED <<readPort, queue_data, ppc, made, batch, discarded>>

Fits(n) == Len(queue_data) + n <= Cap
New(n) == [i \in 1..n |-> made + i]

\* PushBatch: the bytes appear together.
Push(n) ==
    /\ made + n <= MaxBytes /\ Fits(n)
    /\ queue_data' = queue_data \o New(n) /\ made' = made + n
    /\ UNCHANGED <<readPort, discarded>>

PushPayload(n) ==
    /\ writer = "locked" /\ Push(n)
    /\ writer' = "write_fun" /\ ppc' = "filled"
    /\ UNCHANGED batch

Full(n) ==
    /\ writer = "locked" /\ ~Fits(n)
    /\ writer' = "none"
    /\ UNCHANGED <<readPort, queue_data, ppc, made, batch, discarded>>

\* The reader may see the bytes of a batch before it is committed.
StreamWrite(n) ==
    /\ writer \in {"locked", "stream"} /\ Push(n)
    /\ writer' = "stream" /\ batch' = batch \cup ToSet(New(n))
    /\ UNCHANGED ppc

Commit ==
    /\ writer = "stream"
    /\ writer' = "write_fun" /\ ppc' = "filled" /\ batch' = {}
    /\ UNCHANGED <<readPort, queue_data, made, discarded>>

\* The bytes stay, and nobody is told of them.
Discard ==
    /\ writer = "stream"
    /\ writer' = "none" /\ batch' = {} /\ discarded' = discarded \cup batch
    /\ UNCHANGED <<readPort, queue_data, ppc, made>>

WriteFun == writer = "write_fun" /\ Reader!Process /\ UNCHANGED <<writer, batch, discarded>>

\* write_fun_ returned OK: the writer is told so, BLOCK or not.
Unlock ==
    /\ writer = "write_fun" /\ ppc = "idle"
    /\ writer' = "none"
    /\ UNCHANGED <<readPort, queue_data, ppc, made, batch, discarded>>

Read ==
    /\ env.isr => writer = "none"
    /\ \/ \E k \in Kinds, n \in Sizes : Reader!Issue(k, n)
       \/ Reader!InCall \/ Reader!WaitTimeout
    /\ UNCHANGED <<writer, batch, discarded>>

Next ==
    \/ Lock \/ Commit \/ Discard \/ WriteFun \/ Unlock \/ Read
    \/ \E n \in Chunks : PushPayload(n) \/ Full(n) \/ StreamWrite(n)

Spec == Init /\ [][Next]_vars

\* The bytes some write_fun_ has looked at.
Announced == SelectInSeq(Reverse(queue_data), LAMBDA b : b \notin discarded)
Visible == IF Announced = 0 THEN 0 ELSE Len(queue_data) - Announced + 1

\* With a Pipe's writers as its producer the read port keeps its promises: bytes
\* come in order, none lost or twice, and only into the buffers of reads that
\* complete; when the port is free no read is left pending that it could serve,
\* but with bytes that a Stream discarded.
PipeDelivers ==
    /\ Reader!TypeOK
    /\ Reader!BytesInOrder /\ Reader!BufferMatchesStatus /\ Reader!CallLeavesClean
    /\ writer = "none" /\ busy = "PENDING" => Visible = 0 \/ Visible < size[info]
=============================================================================
