# TLA+ models and proofs of LibXR's concurrent core

LibXR (`src/`) is a C++ runtime for embedded firmware and Linux hosts: stream
ports over lock-free queues, publish/subscribe topics, a key-value store on
flash, and a set of device drivers. This directory holds TLA+ specifications of
the parts whose correctness depends on interleavings, failures or long sequences
of calls, the TLC configurations that check them, and TLAPS proofs about them.

Contents: [1 inventory](#1-inventory) · [2 modules](#2-modules-and-the-code) ·
[3 runs](#3-runs) · [4 proofs](#4-proofs) · [5 findings](#5-findings) ·
[6 what is not modelled](#6-limits-of-the-models) · [7 plan](#7-plan)

To repeat: `tlc -config X.cfg M` for a run of section 3, `tlapm M.tla` for the
proof modules.

## 1. Inventory

Paths are relative to the repository. Names of hazards are the entries of
`PROJECT.json`, which gives each its line.

### Core

| Component | State | Operations | Interaction | Hard behaviour, and what makes it correct |
|---|---|---|---|---|
| `WritePort` (`src/core/libxr_rw.*`) | `busy_` (lock, waiter and reset owner in one word), `block_result_`, `queue_info_`, `queue_data_` | `operator()`, `CommitWrite`, `Finish`, `Reset`, `Stream::{Acquire, Write, Commit, Discard}` | threads submit; `write_fun_` starts the driver; an interrupt or thread calls `Finish`; USB classes call `Reset` | completion vs. timeout vs. reset on one atomic word. One submitter at a time; metadata and payload stay aligned; every completion reaches its waiter exactly once; the port always reopens |
| `ReadPort` (same) | `busy_`, `info_`, `queue_data_` | `operator()`, `ProcessPendingReads`, `Finish`, `Reset` | one reader; a receive interrupt or thread pushes bytes and serves the pending read | the EVENT handoff and timeouts. No lost wakeup; bytes in order; a buffer is written only for a read that completes |
| `Operation` | tagged union: callback, semaphore or POLLING word | `UpdateStatus`, `MarkAsRunning` | called by both ports | a final status never changes |
| `AsyncBlockWait` | `state_`, `result_`, `sem_` | `Start`, `Wait`, `TryPost`, `Cancel` | SPI and I2C drivers | as the port's BLOCK wait |
| `STDIO`, `Pipe` | a mutex and a stream; a shared queue | formatted output sessions; write on one side is read on the other | compositions of the two ports | a discarded session, a Pipe reader that sees bytes before `Commit` |
| `GuardedCallbackBlock` (`libxr_cb.hpp`) | `running_`, `pending_` | `Invoke` | callbacks that invoke themselves | nested calls are flattened into a loop |
| memory, time, string, print, assert | none between calls | pure functions | everywhere | |

### Structures

| Component | State | Hard behaviour, and what makes it correct |
|---|---|---|
| `LockFreeQueue` | `head_`, `tail_`, a ring of `LENGTH + 1` slots | one producer, documented for many consumers; plain slot accesses between atomic index accesses. It is a FIFO queue; slots in use are disjoint |
| `LockFreePool` | a state per slot: FREE, BUSY, READY, RECYCLE | scans of several producers and consumers; no item lost or taken twice, EMPTY means empty |
| `LockFreeList` | a singly linked list, front insertion by CAS | an insertion during a walk |
| `DoubleBuffer` | two buffers, `active_`, `pending_valid_`, `pending_len_` | a DMA interrupt between two stores |
| `Queue`, `Stack`, `List`, `RBTree` | sequential, or under a mutex | the comparator given to `RBTree` must be an order |

### Middleware

| Component | State | Hard behaviour, and what makes it correct |
|---|---|---|
| `Topic` | topic data, list of subscribers, `busy` lock per topic | publishers and `SyncSubscriber::Wait` with timeout hand a message over; ASYNC subscribers poll a state word |
| `Topic::Server` | parser status, byte queue | resynchronisation after a bad or a dropped batch: what is delivered was sent |
| `Event` | map of ids to callback lists | registration during activation |
| `DatabaseRaw`, `DatabaseRawSequential` | two flash blocks, key chain, validity flags | a power loss between two flash writes: a key has its old or its new value |
| `RamFS`, `Terminal`, `Logger`, application framework | trees and text buffers | sequential |

### System and drivers

| Component | State | Hard behaviour, and what makes it correct |
|---|---|---|
| Linux semaphore | a futex word | post and wait of several threads: nobody sleeps while the count is positive |
| `ASync` | `status_`, `job_`, a semaphore | a job assigned while the last one's DONE is collected |
| `Timer` | list of control blocks | creation of the list by two threads |
| Linux shared-memory topic | slots with reference counts, a descriptor ring per subscriber | processes attach, die and are reclaimed during a publication |
| other system layers | wrappers of FreeRTOS, ThreadX, bare metal, WebAssembly, Webots | another kernel's primitives |
| UART transmit (`driver/st/stm32_uart.cpp`, `driver/ch/ch32_uart.cpp`) | a double buffer, `tx_busy_`, the DMA | the transmit interrupt between two stores of the thread: every write leaves whole, in order, is reported once, and none stays behind |
| CAN transmit (`stm32_can.cpp`, `ch32_can.cpp`) | a `LockFreePool`, `tx_lock_`, `tx_pend_`, mailboxes | whoever finds the lock taken leaves its frame to the holder: it is sent without another call |
| USB control transfers (`usb/device/dev_core.cpp`) | `state_`, `class_req_`, two endpoints | a host that aborts, cuts short or resets: data, status and STALL go to the transfer they are of |
| CDC serial port (`usb/device/cdc/cdc_uart.hpp`) | endpoint buffers, `need_write_zlp_`, `recv_pause_`, `pending_data_` | bus reset during a write; the end of a transfer; back pressure: no byte lost, no deadlock with the host |
| DFU bootloader (`usb/device/dfu/dfu_bootloader.hpp`) | DFU state, pending write and manifest, erased blocks, flash with a seal | requests in the interrupt against `Process()` in the main loop; power loss; failing flash: only an image that was sent to its end is sealed, and only a sealed one is run |
| rest of the USB device stack | endpoint pool, descriptors, other classes | requests out of order |
| other device interfaces and chip drivers | registers, DMA descriptors | the interrupt side of the two ports |
| numerical utilities, `lib/Eigen` | none | real arithmetic; vendored |

## 2. Modules and the code

One action is one access to shared memory, or several that no other actor can
tell apart; in the modules whose actor is a flash, a bus or an interrupt, one
action is one operation of that. Semaphores are counts. Memory is sequentially
consistent.

| Module | Models | Composes |
|---|---|---|
| `WritePort` | `WritePort`, its `Stream`, its backend and `Reset()` | `Service == INSTANCE WriteService` |
| `WriteService` | what the port promises those who write: abstract | |
| `ReadPort` | `ReadPort` with one reader and one producer | |
| `Pipe` | `LibXR::Pipe`: writers that feed a reader | `Reader == INSTANCE ReadPort` |
| `LockFreeQueue` | the ring, slot by slot | `F == INSTANCE Fifo` |
| `Fifo` | what the queue promises: abstract | |
| `DatabaseRaw`, `DatabaseRawSequential` | the two flash databases | `S == INSTANCE KeyValueStore` |
| `KeyValueStore` | what a database promises: abstract | |
| `SharedTopic` | `LinuxSharedTopic`: publisher and subscriber processes | |
| `TopicDispatch` | a topic in one process and its four kinds of subscribers | |
| `TopicServer` | the packet parser `Topic::Server` | |
| `AsyncBlockWait` | the wait of SPI and I2C drivers | |
| `ASync` | one asynchronous job at a time | extends `Semaphore` |
| `Semaphore` | the futex semaphore of Linux | |
| `CanTransmit` | transmit path of the STM32 and CH32 CAN drivers | extends `LockFreePool` |
| `LockFreePool` | the slots of the pool, and how a scan finds one | |
| `UartTransmit` | transmit path of the STM32 and CH32 UART drivers, with `DoubleBuffer` | |
| `CdcTransmit`, `CdcReceive` | the two directions of the USB serial port `CDCUart` | |
| `ControlTransfer` | control transfers of the USB `DeviceCore` | |
| `DfuBootloader` | the DFU bootloader: `DFUClass` and `DfuBootloaderBackend` | |
| `RBTree` | the red-black tree and the comparator of topic keys | |
| `LockFreeQueueProofs`, `WritePortProofs`, `ReadPortProofs`, `SharedTopicProofs` | theorems | each extends the module of its name |
| `HandoffProofs` | theorems on `TopicDispatch`, `AsyncBlockWait`, `ASync` and `UartTransmit` | extends `TopicDispatch`, `Block == INSTANCE AsyncBlockWait`, `Job == INSTANCE ASync`, `Uart == INSTANCE UartTransmit` |
| `DriverProofs` | theorems on `CanTransmit`, `CdcReceive` and `CdcTransmit` | extends `CanTransmit`, `CdcIn == INSTANCE CdcReceive`, `CdcOut == INSTANCE CdcTransmit` |
| `DatabaseProofs` | theorems | extends `DatabaseRawSequential` |
| `WritePortDelivery` | theorems on completions, results and payload of the write port, and that it implements `WriteService` | extends `WritePortProofs` |
| `MC...` | instances for TLC; `MCHandoffs`, `MCDataPaths` and `MCDatabase` put several components side by side | |

The components of `MCHandoffs` and `MCDataPaths` share no state and do not
interleave: the variable `part` chooses at the start which one of them runs. They
are one run because they ask one question.

### Ports

**WritePort.** `busy`, `block_result`, `queue_info`, `queue_data` are the
members. An *op* is a number given to a write when it gets past the space checks;
`queue_info` holds ops (the `WriteInfoBlock`s), and `queue_data` one entry a byte,
naming the op that pushed it, so that misalignment is visible. `pc[t]` follows
`operator()`/`Stream` and `CommitWrite`: `Lock`, `PushPayload` or
`StreamAcquire`/`StreamWrite`/`StreamCommit`, `Publish` (BLOCK_PUBLISHING),
`PushInfo`, `ArmWaiter` or `MarkRunning`, `write_fun_` (`WriteFunPending`, or
`WriteFunSync` when it answers at once), then the wait: `WaitPosted`,
`WaitTimeout`, `WaitTimeoutLost`, `Reap`, `Release`, `ReturnResult`. The backend
is `Take`, `PopPayload` and the steps of `Finish()`, one per CAS. `Reset()` runs
in the backend's context between completions (`ResetClaim`, `ResetClear`), the way
the USB classes call it. `armed` tells which ops `write_fun_` has handed to the
backend; with `EarlyTake` it also takes an op that is only in `queue_info_`.

**WriteService** is what a caller sees of it: `Accept`, `Serve` (the device answers
the oldest write), `Tell` (its owner hears the answer), `GiveUp` (TIMEOUT), `Drop`
(a reset). The mapping reads `accepted` and `line` from the ops past `PushInfo`
that are not completed, `answered` from the completions, and `told` from the words
of POLLING callers and the returns of BLOCK ones. `misled` is what the abstraction
has to admit: a `Reset()` between `Release` and the read of `block_result_` turns
an answer into OK.

**ReadPort.** `busy`, `info`, `queue_data` are the members; bytes are numbered as
they were produced. `pc` follows `operator()` (`StoreIdle`, `CheckSize`, `PopNow`,
`Publish`, `Arm`, `ReadFunAccepts`/`ReadFunFails`, `RollBack`, the wait) and `ppc`
the producer: `Push`, then `ProcessPendingReads()` with its load, its CAS to EVENT,
its count, claim, pop and `Finish()`. The variable `env` is drawn at the start and
says what the surroundings do: whether the producer is an interrupt that the reader
cannot preempt, whether the reader is *polite* (it waits for a non-BLOCK read before
the next one and repeats a BLOCK read that timed out), whether `read_fun_` may fail,
and how many `Reset()` calls may come. A thread may claim a read with the byte count of
an earlier one, which its ASSERT excludes; the model stops there (`ppc = "broken"`).
Finding 4 shows it with an impolite reader; a polite one only makes it rarer, because
queued bytes that `operator()` takes between the count and the claim have the same
effect. `InterruptServed` of section 4 excludes it for an interrupt.

**Pipe.** Whoever holds the write port pushes (`PushPayload`, or the chunks of a
Stream) and then is the producer of the read port inside `write_fun_`
(`WriteFun` is `Reader!Process`). The write port itself is the variable `writer`: by
`QueueOwnership` of `WritePort` one call holds it at a time. Writers are an
interrupt of the reader's core, or threads beside a polite reader.

### Structures

**LockFreeQueue.** `head`, `tail`, `slots` are `head_`, `tail_`, `queue_handle_`
with `N = LENGTH + 1`. A push loads the indices, writes slot by slot and publishes
`tail_`; a pop loads `head_`, `tail_`, copies slot by slot and moves `head_` by CAS
(by a store in `PopWithReader`); a peek checks that `head_` has not moved. Each
side's load of the index only it writes is merged with the next step. `Fifo` has the
same calls in one step each; the mapping is `items <- Content(head, tail, slots)`.

**LockFreePool, CanTransmit.** A slot's state goes FREE, BUSY, READY, RECYCLE; a
`Put` or `Get` looks at one slot a step. Threads and the transmit interrupt put a
frame and call `TxService()`: set `tx_pend_`, try `tx_lock_`, move frames to the
mailboxes, unlock, look at `tx_pend_` again. `looks` tells the STM32 driver, which
looks for an empty mailbox first, from the CH32 driver, which takes the frame first
and puts it back.

**RBTree.** Insertion and deletion with their fixups, one turn of a loop a step; the
comparator is the signed difference modulo `2^Width`.

### Middleware

**DatabaseRaw, DatabaseRawSequential.** `flash` has a MAIN and a BACKUP block; `plan`
holds the flash operations a procedure has still to do, in the order the code does
them, and `Program` does one. `PowerLoss` may come between any two and leaves
`pc = "off"`; `PowerOn` is `Init()`, itself a plan that can be interrupted.
`DatabaseRawSequential` keeps the whole store in `buffer` and writes it to BACKUP and
then to MAIN. `DatabaseRaw` appends to a chain of entries with the flags
`no_next_key`, `available_flag`, `uninit`; `SearchKey` counts the spent ones and
recycles through BACKUP, and `MakeRoom` recycles once when the block is full. Both
map to `KeyValueStore` by `store <- IF pc = "idle" THEN Content ELSE before`.

**SharedTopic.** A slot with its `refcount`, the free queue (cells reserved before
they are filled), a control block with a ring and a ready count for each subscriber.
The publisher: `CreateData` with scavenging when it finds no slot, a pass that counts
the subscribers and one that pushes, the drop of an old descriptor when a ring is
full (DROP_OLD), the choice among BALANCE members. A subscriber: wait, pop by CAS,
hold, release, recycle. It may die before any step; `Reclaim` is what
`ScavengeDeadSubscribers` does about it.

**TopicDispatch.** A publisher takes the mutex and goes through the list: callback,
queue, ASYNC block, SYNC block; the data and the timestamp are two stores. The
threads of the last two subscribers run `Available`/`GetData`/`StartWaiting` and
`Wait` with its timeout.

**TopicServer.** Packets on a `line` that loses bytes and adds noise, cut into batches
of any listed length. `ParseData` takes a batch whole or drops it, and then goes
through its three states, one turn of its loop a step.

### System and drivers

**AsyncBlockWait.** `Start`, `Cancel`, `Wait` with timeout, `TryPost`, and around them
the driver's release: the interrupt releases the driver first and posts afterwards.

**ASync, Semaphore.** `AssignJob`, `AssignJobFromCallback`, `GetStatus` and the worker;
below them the count, the futex word and its one sleeper, who may wake for nothing.

**UartTransmit.** `WriteFun` on a thread, preempted by the DMA interrupt between any
two stores to the double buffer, `tx_busy_` or the DMA; `Error` is the STM32 error
callback, `UrgentWrite` a write from an interrupt that preempts the transmit one.

**CdcTransmit.** The dequeue helper (`head`, `offset`) cuts writes into packets, the
thread fills the inactive buffer (`Prefill`, `SetActiveLength`, `Load`, `Check`,
`Kick`), the interrupt of a transfer's end continues, and a full last packet is
followed by a ZLP. `UnbindEndpoints` is a bus reset.

**CdcReceive.** A packet that does not fit stays in `pending_data`, the endpoint is
not armed, and a read that makes room moves it on and arms the endpoint again. The
thread goes through `OnRxDequeue()` and `TryRearmOut()` one look or change at a time:
`OnRxDequeue`, `LookAtPending`, `LookAtRoom`, `PushBatch` (its arguments and indices),
`StoreTail`, `Clear`, then `TryRearmOut`, `LookAtPause`, the second push (`PushAgain`),
`LookAtState`, `Transfer`, `Resume`. Between any two of them packets (`Receive`,
`Pause`) and bus resets (`UnbindEndpoints`, `BindEndpoints`) may come, any number of
them. `raced` is set where one does harm, and names each place: a packet that is queued
while the thread's `PushBatch()` has computed its tail; one that is held back while the
thread queues or clears the one before it, or arms the endpoint; a bus reset while
`PushBatch()` reads its arguments; a host that comes back while the bytes are copied.
After a race the reader ends its call and nothing else is followed.

**ControlTransfer.** Each function of `DeviceCore` is an operator from the device's
state to the state it leaves. `events` are the interrupts still pending: the bus
goes on while they are. The host sends SETUP packets at any time, takes or sends data
packets, cuts a data stage short with its status packet, or resets the bus.

**DfuBootloader.** A class request is one step, in the interrupt (`Dnload`,
`DnloadEnd`, `GetStatus`, `Upload`, `Abort`, ...), on `dfuState` (`state_`), `started`
(`download_started_`) and the backend's `download`, `pending` (`write_`), `manifest`,
`upload`, `image` and `erased`. `Process()` in the main loop goes one flash operation
at a time, with what it holds in `process`: a block of `EnsureErased`, `Program`,
`Record`, `Written`; for the manifest `ComputeImageCrc32`, `EnsureErased`, `WriteSeal`,
`ImageReady`, `CloseSession`. A byte in `flash` names its image and place, so that
`Content` is its own CRC. `whole` is the set of images that the host sent to the end.
`PowerLoss`, and flash operations that fail (a write half-way), come anywhere.

## 3. Runs

| Run | Expect | Question | Bounds |
|---|---|---|---|
| `write_port` | pass | the port implements `WriteService`; ownership, alignment, lost completions, liveness, with timeouts, streams and `Reset()` | a BLOCK and a POLLING thread, 3 writes of 1 or 2 bytes, queues of 2 and 3, one reset |
| `write_port_scan` | pass | stale tokens and own results against the most aggressive backends | as above with discarded streams, synchronous answers, early takes; no reset |
| `write_port_discard` | violation | what a discarded stream leaves behind | 2 writes |
| `write_port_two_block` | violation | whose result a BLOCK call returns | two BLOCK threads, one byte, 2 writes |
| `write_port_early_take` | violation | the ASSERT of `Finish()` | one BLOCK thread, early takes |
| `read_port` | pass | order, buffers, lost wakeups, cleanness, completion | 3 reads of 0..2 bytes, 4 bytes, a queue of 3; three environments: an interrupt with failing starts, one with a `Reset()`, a thread beside a polite reader with a `Reset()` |
| `read_port_thread` | violation | the ASSERT of `ProcessPendingReads()` | 2 reads of 1 or 2 bytes, 2 bytes |
| `data_paths` | pass | what goes through a queue, a driver, a Pipe, the parser or the tree comes out whole, in order and once | below |
| `lock_free_queue_two_consumers` | violation | ABA of two consumers | ring of 4, single items, five items |
| `database` | pass | both databases implement the store, whatever power losses come | sequential: 3 keys, room for 2, 4 calls, 2 losses; raw: 2 keys, 3 entries, threshold 1, 3 calls, 2 losses |
| `handoffs` | pass | what one context hands to another arrives once, at the right one, and nobody waits for what has arrived | below |
| `shared_topic_turn` | violation | the ASSERT of `ReleaseSlot()` | one DROP_OLD subscriber, ring of 2, 3 publishes |

*Bounds of `data_paths`.* Queue: ring of 4, batches of 0, 1 and 3, five items, one
consumer, `Reset()`. Tree: 6 nodes with 4-bit keys, one set within half of the words
and one beyond. UART: 4 writes, one error, one urgent write. CDC transmit: 3 writes of
1 to 3 bytes, packets of 2, one bus reset; CDC receive: a queue of 4, packets of 1 or
2, reads of 1, 3 and 4, nine bytes, any number of bus resets, and an interrupt between
any two looks of the thread at what they share. Control: packets of 2, three SETUPs out of nine
kinds, one abort, cut or reset. Pipe: two reads of 0, 1 or 3 bytes, four bytes, a
queue of 3, chunks of 1 or 2. DFU: four cells of flash in two erase blocks, an image of
up to 3 bytes that shares the last block with the seal, blocks of 1 or 2 bytes, two
downloads, one flash error or power loss. Parser: headers of 2 bytes, a queue of 5, three packets of
1 or 2 bytes of data, batches of 1 or 4, one fault.

*Bounds of `handoffs`.* Shared topic: two subscriber places, 3 slots, rings of 3 cells,
six environments of modes, publishes, deaths and joins. CAN: a thread and the
interrupt, a pool of 2, one mailbox, 5 frames: one that is sent and raises the
interrupt, one in the mailbox, one in the interrupt's hand, and two that fill the pool,
so that CH32's interrupt finds no room to put its frame back. Driver wait: 3 operations. Topic: two
publishers, 3 publishes, a queue of 2. Job: two tasks and a callback, 2 jobs.

*Why the bounds are enough.* A port's behaviour depends on the op in the queue's
head, the op being submitted and one late op, so three ops give every overlap, and
two bytes tell a payload from its neighbour; a queue of three bytes is full after
two writes. One `Reset()` meets each state of `busy_`. In the ring, five items over
four slots wrap both indices, and a batch of three fills it. A double buffer holds two
writes, so that the fourth has met each of them. A packet is shorter, as long, or
longer than what it goes into, and a control transfer can inherit something from the
one before, whose own inheritance the third shows. Two power losses fall into a call
and into the `Init()` after it. A shared topic needs as many publishes as there are
slots to come back to the first one, and one more to find it in use. Six nodes are
enough for every case of both fixups.

*Fairness.* `WritePort!FairSpec` and `ReadPort!FairSpec` say that a thread inside a
call keeps running and that the backend (an interrupt or a driver thread) finishes
what it has taken: the code has no other scheduling assumption, and all loops are
over these steps. Nothing forces a call, a `Reset()` or a timeout to occur. A BLOCK
waiter that `Reset()` has detached is woken by nobody but its own timeout, so
`PortReopens` and `CallReturns` are checked under `FiniteTimeoutSpec`, in which a
timeout that can only return what has already been decided does expire. A BLOCK
write with `UINT32_MAX` does not have that guarantee. The fairness in
`WriteService!FairSpec` (accepted writes are answered, answers are passed on) is a
promise: `ImplementsService` shows it to follow. In `database` the thread of a call
goes on (`Step`); power losses are bounded and forced by nobody. In `handoffs` every
thread, and the CAN interrupt while it is pending, goes on; only one component runs, so
that the fair actions of all of them are the four `Thread1` to `Thread4`. `data_paths`
needs no fairness: its properties say what may not be left behind when everything rests.

*Deadlock* checking is off: every actor stops when the bounded number of calls is
used up.

Properties in short; every property of a passing run has a mutant in `PROJECT.json`, a
plausible mistake in the code that makes TLC find it violated.

* Write port. `QueueOwnership`: one submitter, and none during a reset. `QueuesAligned`:
  the payload queue is the concatenation of the batches in `queue_info`, less what the
  backend has popped and with what a call is pushing (`InfoOrdered`, `DataOrdered`).
  `NoLostCompletion`: a
  waiter whose op is finished has its token, or will get it, or has been detached.
  `NoStaleToken`: no call leaves a token on its semaphore. `BlockReturnIsOwn`: a BLOCK
  call returns its own op's result. `ImplementsService`: refinement of `WriteService`,
  with its fairness. `CallReturns`, `PortReopens`: liveness.
* Read port. `BytesInOrder`, `BufferMatchesStatus`, `NoLostWakeup`, `CallLeavesClean`,
  `StatusIsFinal` (DONE and ERROR are never overwritten), `ServableReadCompletes`.
* Data paths. `SlotOwnership`: no slot is written and copied at a time. `ImplementsFifo`:
  refinement. `WritesGoOut`: transfers carry the writes in order, whole and once, each is
  reported once and not early, and nothing is left when the driver rests. `ReceivesAll`:
  no received byte lost, no standstill that a read could end; for a Pipe that
  `ReadPort`'s invariants hold and no pending read was missed. `TransfersEnd`: host and
  class see each control transfer end as asked; for DFU (`ImagesWhole`) that what is
  accepted, run, read back or reported as manifested is an image that the host sent to
  its end. `ParsesAnyBatches`: what is published
  depends on the bytes, not on the batches. `TreeCorrect`: balance, search and traversal.
* Databases. `ImplementsStore`, `RawImplementsStore`: refinement of `KeyValueStore`.
  `ImageInRam`: `buffer_` and MAIN agree between calls. `RawCallsReturn`: liveness, over
  recycling.
* Handoffs. `SlotsAccounted`: a slot's count is the number of those who have it, and it
  is in one place. `HeldDataStable`, `NothingLost`, `ReadyCountsQueue`, `FullIsTrue`,
  `WaiterServed`: the other promises of the shared topic. `FramesAccounted`: a CAN frame
  is in one place. `OwnResult`: a driver's wait ends with its own result. `Delivery`:
  whole and fresh messages, in order. `JobsRunOnce`. `NothingWaitsAlone`: frames leave
  the pool, and tokens wake the worker.

## 4. Proofs

TLAPS, for all values of the constants that satisfy the named assumptions. The
assumptions on types are those of the code (`QueueAssumption`: a ring of at least one
slot; `ConstantsAssumption` of the ports, `BlockAssumption`, `ASyncAssumption`,
`CanAssumption`: sets of threads, natural bounds, distinct names). The others are
conditions of the theorem, each with the run or window that shows what happens
without it:

| Condition | Says | Without it |
|---|---|---|
| one consumer | of a queue | `lock_free_queue_two_consumers` |
| `SyncOrReset` | `write_fun_` may answer at once, or the port may be reset, not both | `CommitWrite` loads `busy_` and stores it later without a CAS (`SyncLoad`, `SyncStore`) and overwrites a RESETTING that came between (a hazard of `PROJECT.json`) |
| `~EarlyTake` | the backend learns of a write from `write_fun_` | `write_port_early_take` |
| `OneBlockThread` | one thread of BLOCK writes, no `Reset()` | `write_port_two_block`; the window `misled` of section 5 |
| `OneWaiter` | one thread of BLOCK writes; the port may be reset | `write_port_two_block` |
| `~Discards` | no Stream is discarded | `write_port_discard` |
| `SoundEnvs` | the environments of `read_port`: an interrupt whose port may fail starts or be reset, but not both; a thread beside a polite reader whose starts do not fail | a failing start rolls back into a port that a `Reset()` has just opened |
| `\A e \in Envs : e.isr` | bytes arrive in an interrupt of the reader's core | `read_port_thread` |
| `[]NoTurn` | no CAS in `TryPopDescriptor()` of a DROP_OLD subscriber falls for a publisher that has turned the ring between the loads and the CAS; `[]NoDropOld`, nobody asks for DROP_OLD, implies it | `shared_topic_turn` |

| Theorem | For all | Conditions | Establishes |
|---|---|---|---|
| `LockFreeQueueProofs!TypeCorrect` | lengths, batches, consumers | | both indices stay in the ring |
| `LockFreeQueueProofs!SlotsOwned` | lengths, batches | one consumer | `SlotOwnership` |
| `LockFreeQueueProofs!QueueIsFifo` | lengths, batches | one consumer | `Spec => F!Spec` |
| `WritePortProofs!TypeCorrect` | threads, ops, queue sizes, backends | | `TypeOK` |
| `WritePortProofs!QueuesOwned` | the same | `SyncOrReset` | `QueueOwnership` |
| `WritePortProofs!TokensOwned` | the same | `SyncOrReset` | `NoStaleToken` |
| `WritePortDelivery!CompletionsArrive` | the same | `SyncOrReset`, `~EarlyTake` | `NoLostCompletion` |
| `WritePortDelivery!AssertHolds` | the same | `SyncOrReset`, `~EarlyTake` | `FinishExpected` |
| `WritePortDelivery!ReturnsOwn` | the same | `OneBlockThread` | `BlockReturnIsOwn` |
| `WritePortDelivery!PayloadAligned` | the same | `SyncOrReset`, `~Discards` | `QueuesAligned` |
| `WritePortDelivery!PopsOwn` | the same | `SyncOrReset`, `~Discards` | `PayloadIsOwn` |
| `WritePortDelivery!ServiceSafe` | the same | `SyncOrReset`, `OneWaiter`, `~EarlyTake` | `Spec => Service!Spec` |
| `ReadPortProofs!TypeCorrect`, `OrderKept`, `BuffersOwned`, `NoWakeupLost`, `CallsLeaveClean`, `StatusFinal` | reads, sizes, bytes, capacities | `SoundEnvs` | `TypeOK`, `BytesInOrder`, `BufferMatchesStatus`, `NoLostWakeup`, `CallLeavesClean`, `StatusIsFinal` |
| `ReadPortProofs!InterruptServed` | the same | `SoundEnvs`, interrupts only | `PopServed` |
| `HandoffProofs!DispatchTypes`, `MessagesArrive` | publishers, room in the queue, publishes | | `TypeOK`, `Delivery` of `TopicDispatch` |
| `HandoffProofs!BlockTypes`, `ResultIsOwn` | operations | | `TypeOK`, `OwnResult` of `AsyncBlockWait` |
| `HandoffProofs!JobTypes`, `JobsOnce` | tasks, jobs | | `TypeOK`, `JobsRunOnce` of `ASync` |
| `HandoffProofs!UartTypes`, `UartWritesGoOut` | writes, errors, urgent writes | in the property: `~raced` | `TypeOK`, `WritesGoOut` of `UartTransmit` |
| `SharedTopicProofs!ReadyCountsRing`, `MessagesAllArrive` | subscribers, slots, ring sizes, publishes, deaths, joins | `[]NoTurn` | `ReadyCountsQueue`, `NothingLost` |
| `SharedTopicProofs!SlotsAreAccounted`, `HeldDataIsStable`, `FullIsReal` | the same | `[]NoTurn` | `SlotsAccounted`, `HeldDataStable`, `FullIsTrue` |
| `SharedTopicProofs!ReleasesAreExpected` | the same | `[]NoTurn` | `ReleaseExpected` |
| `SharedTopicProofs!WithoutDropOld` | the same | `[]NoDropOld` | `ReadyCountsQueue`, `NothingLost`, `SlotsAccounted`, `HeldDataStable` |
| `DriverProofs!CanTypes`, `NoFrameLost` | contexts, pools, mailboxes, frames | | `TypeOK`, `FramesAccounted` of `CanTransmit` |
| `DriverProofs!ReceiveTypes`, `BytesReceived` | queue, packet and read sizes, bytes | in the property: `~raced` | `CdcReceiveTypeOK`, `ReceivesAll` of `CdcReceive` |
| `DriverProofs!TransmitTypes`, `CdcWritesGoOut` | writes, sizes, packet size, bus resets | in the property: `~raced` | `CdcTransmitTypeOK`, `WritesGoOut` of `CdcTransmit` |
| `DatabaseProofs!TypeCorrect`, `ImageKept`, `StoreKept` | keys, values, room, calls, power losses | | `TypeOK`, `ImageInRam`, `ImplementsStore` of `DatabaseRawSequential` |

*The argument for the queue.* `SlotOwnership` and the refinement are not inductive.
`IInv` adds what each side remembers between two steps: `RoomKept` (the free space
the producer counted is still free, because only consumers change it, and they
enlarge it), `BatchWritten` (the slots after `tail_` hold what was written so far),
`HeadKnown` (with one consumer, `current_head` is still `head_`) and `FrontCopied`
(what the consumer counted is still there, and what it copied is its front).
Lemmas on wrapped indices (`Distinct`, `AfterTail`, `AdvanceTail`, `AdvanceHead`)
carry the arithmetic. For the refinement, `CommitIsPut`, `PopIsTake`, `PeekIsLook`,
`EmptyIsTrue` and `FullIsTrue` map the one step of each call that takes effect to
its abstract action, and all the other steps stutter.

*The argument for the write port.* `TypeOK` needs `CallHasOp` and `CompletionHasOp`:
a thread past the space checks has an op, and so has a completion, or indexing the
op arrays would leave their domain.

For ownership, `OInv` says which values of `busy_` a call at each program counter may
find (`BusyFits`). Four of those places do not fix `busy_`: a waiter may find it
waiting, claimed, detached or under reset, depending on the backend. What decides is
the BLOCK op that a completion is still due for, wherever it is (`Live`: in
`queue_info_`, or in the backend's hand). There is at most one (`OneLive`), and it
belongs to the call that waits, or to none after a detach (`LiveKnown`); so a
completion never finds the waiter of another call. `Finishing` and `Tokens` follow
the claimed completion to the token. The proof first states what a holder's place
implies (`NoneLive`, `NoTokens`, `Due`), then has one step per action.

`WritePortDelivery` adds to it what each question needs. `CompletionsArrive` and
`AssertHolds`: a backend that waits for `write_fun_` has in hand only ops that are
`armed`, and an op is armed only when its submitter is past BLOCK_PUBLISHING
(`ArmedKnown`), so that `Finish()` finds the waiter it expects. `ReturnsOwn`: `RInv`
says that from the token to the return `block_result_` holds the answer to the call's
own op (`ResultsStand`), and that an op that a completion is due for has not
returned an answer (`Unreturned`). `PayloadAligned`: `QueuesAligned` is
inductive once it is stated by shares: the bytes of an op in `queue_data_` are as many
as its `Share` (all, less the popped ones, or those pushed so far), and the order of
bytes is the order of `queue_info_`.

`ServiceSafe` is the safety part of `ImplementsService`. `SInv` relates what the service
sees: the line (the op in the backend's hand, then `queue_info_`) is in the order of the
submissions and nobody in it was answered (`Unanswered`); what is being submitted is
newer than all of it (`Newest`), which makes `PushInfo` an `Accept`; and nobody was told
before his answer is there (`StatusFits`, `CallsUntold`), which makes each return a
`Tell` or a `GiveUp` that happens once. `AnswerAtHand` is what is left of `ResultsStand`
when resets occur: `block_result_` is the call's answer until `busy_` is IDLE again, and
then that or OK. The proof says of each step what it does to the line and to what was told
(`LineMoves`, `ReturnMoves`), and then which action of the service it is: `PushAccepts`,
`SyncServes`, `FinishServes`, `ReturnAnswers`, `ReturnGivesUp`, `AnswerTells` and
`ClearDrops`; all the other steps stutter.

*The argument for the read port.* `IInv` has two parts. `Handoff` says for each pair of
places of the call and of `ProcessPendingReads()` what `busy_`, `info_` and the
semaphore are: who has the pending read (`PendingRead`, `ClaimedRead`,
`ServedRead`), and that bytes which arrived after a call looked at the queue are seen
by it before it arms its read, or by the producer after (`NoMissedBytes`). `Bytes` says that what the
reads got, `queue_data_` and what is still to come are one increasing
sequence, with gaps only where `Reset()` dropped bytes.

*The argument for the driver's wait, the job and the CAN pool.* Each invariant says in
whose hands the one thing is that is handed over. `HandoffProofs!Handover`: the
result and the token of an operation that is started, posted, or given up.
`OneJob`: while the status is BUSY the job is with the context that
assigns it, in `job_` under a token, or with the worker; `OneReader`: who found DONE has
the status for itself. `NoFrameLost`: whoever moved a slot to BUSY has it for
itself (`ClaimsOk`), one context serves (`OneHolder`), and of the four sets of places
where a frame can be (slots, hands, claimed slots, outside the pool) one has one
element and the others none (`OnePlace`), from which the sum of `FramesAccounted`
follows; `LookedFirst` shows why the STM32 driver never drops a frame: the mailbox that
it saw empty is still empty when it sends, because no other context may send.

*The argument for the UART and the USB serial port.* `UartWritesGoOut`: while none of the
windows was hit, the write that is started next is known at every place of the thread
and of the interrupt (`Begun + 1`), and `queue_info_`, `queue_data_`, the pending
buffer, the wire and the reports are the runs of writes that follow from it
(`InPlace`). A write that the thread takes out of the queue is the only one that is not
started (`OwnWrite`), so thread and interrupt never take the same one, and a write that is
left in the pending buffer or the queues has somebody who will look at it: a transfer, a
pending interrupt, or the thread at its second look (`Watched`). In the windows all of
this fails; what remains true there, and what `UartTypes` needs, is that the two queues
differ by what is on the way to a buffer (`QueuesPaired`), so nobody takes from an empty
one. `BytesReceived`: the bytes read, queued and waiting are one line (`BytesInLine`; while
the thread queues a packet, what waits is its copy), the endpoint is held back only for
a packet that does not fit, or by the thread that is about to arm it (`HeldBack`),
nobody queues between the thread's two looks at the tail, and its second push adds
nothing (`Pushing`), and a read waits only for bytes that are not there (`Waits`). A
step that only looks needs no more than `HeldBack` where it leads (`LookKeeps`); the two
pushes are two lemmas (`PushKeeps`, `StoreKeeps`). `CdcWritesGoOut`, by `Cut`: the bytes in
`queue_data_` are those of the writes in `queue_info_`, one write after the other, from
the byte after the first `offset_` ones of the head; a taken packet, a popped write and
an added one each keep it (`CutTaken`, `CutPopped`, `CutAdded`). `LineKept`: the bytes
handed to the controller, filled and queued are one line, sorted by write and place.
`Accounts` and `OnlySent`: every write is reported, queued or still with its thread, in
only one of these, and of one that is reported OK bytes were handed over. What each step
finds is said place by place: `Places` (the queue has the thread's write and no other,
or none), `Endpoint` (whose bytes the filled buffer has, and when a transfer is running)
and `Zlp` (whether the host has the end of the last transfer, or who will send it). From `Cut` and `Accounts` follows that what is
filled or queued is of a write that is not reported (`RestIsOpen`), so nothing of a
write is left behind when it is reported OK. A bus reset that meets the thread at an
unexpected place breaks all of this; the types, and that not more of the head is taken
than there is, hold there too.

*The argument for the topic in a process.* `Exclusion`: whoever is past the mutex has it,
and every publisher has a message of its own. `Ahead`: a message has not passed a
subscriber that is still ahead of its publisher, so the claim or token that a publisher
is about to leave is for a wait that began before its message came by. `QueueKept`: the
queue is as much of the log as it has room for. `SyncKept` and `AsyncKept` say of each
pair of places, the publisher's at that subscriber and the waiter's, who has the claim,
whether a token is there, and that data and timestamp are of one message once the
waiter may read them.

*The argument for the shared topic.* The publisher of a DROP_OLD subscriber and the
subscriber move the same head, each by a CAS. If the head is where it was when
`TryPopDescriptor()` read it, what it read is still there: without DROP_OLD because
nobody else moves the head (`PeekHolds`), with it because nobody has turned the ring
(`NoTurn`, and finding 6 without it). A CAS that fails is a step of its own that changes
nothing but what is read. Then `InRing`, from which both properties follow, says that the
ring has the messages after the last one popped or dropped without a gap, and counts
the one that is pushed next (`Coming`) and those that were dropped (`Dropped`).
The room that the first pass found for a subscriber is there in the second,
where `PushDescriptor()` does not look again (`RoomKept`). Room must be known of BALANCE
members as well, and that a member, or the one that is chosen, is an active subscriber
(`Members`): reclaiming one takes it out of the list. `RingFacts` does the arithmetic of
a ring once; `ThreadMoves`, `PublisherLooks`, `PassesOver`, `Pushed`, `Popped`, `Drops`
and `Rejoined` each stand for one kind of step, and every action is one of them.

The slots need a second invariant, `HInv`, on top of `IInv`. `SlotsAccounted` is not
inductive: that the counts are right after a step depends on who has what at each place.
`Hands` says what a subscriber has in its hands at each program counter and how that fits
`held_slot`; `FreeQueue`, that the cells of the free queue have different slots and a cell
that is only reserved has a live subscriber on its way to fill it, unless that one has
died; `OnePlace`, that a slot is free, with the publisher, in use, on its way back or lost,
and in one of these only; `Payloads`, that what is in a ring or in a hand is the message of
its number. `PubAt` says how far the publisher is: it counted every subscriber that it
will push to (`PubCounts`), so the count it stores is right but for those that were
reclaimed in between (`orphans`). A count is a sum of cardinalities, of the sets of those
who have the slot, and each action moves one element from one set to another (`RingGains`,
`RingLoses`, `HandStep`) or takes those of the reclaimed away (`ReclaimRefs`). A slot that
changes its place was in no other place before (`BusyAlone`, `SlotsMove`), and one that is
written to is in nobody's ring or hands (`NobodyHas`, `PayloadsKept`).
For `FullIsTrue`, a slot whose references are all of the dead is one that the publisher has
just recycled (`OnlyDead`).

*The argument for the sequential database.* `IInv` says what the two blocks hold at each
place of each procedure: `SavePlan` and `RestorePlan` give the operations still to do
and, for each, which block is whole and whether it has the old image or the new, and
`BootPlan` does so for `Init()`. From any of them `Recovered`, the image that `Init()`
would come to, holds what the store held before the call or what it holds after
(`Down`), and the steps of `Init()` do not change it (`BootMoves`), so a second power
loss in `Init()` does no harm either. `ChangedInPlace` and `ChangedByAppend` are the lemmas
on images: `SetKey` and `AddKey` change one key and no other. `ImplementsStore` follows
without fairness, since it claims none.

*Only model-checked*: liveness (`CallReturns`, `PortReopens`, `ServableReadCompletes`,
`WaiterServed`, `NothingWaitsAlone`, `RawCallsReturn`, the fairness part of
`ImplementsService`), because fairness is out of the prover's reach; `Pipe`,
`DatabaseRaw`, control transfers and the DFU bootloader. What `RBTree`,
`TopicServer`, `DatabaseRaw` and `DfuBootloader` compute along links or bytes is
recursive: induction over data is out of the prover's reach as well.

## 5. Findings

Six places where the code does something else than its documentation or its own
assertions say; each is a run that violates one property, and `PROJECT.json` quotes
the lines.

1. `Stream::Discard()` leaves the bytes of the batch in `queue_data_`; the next
   write sends them (`write_port_discard`).
2. `block_result_` is read after the port was released (`write_port_two_block`).
3. A completion between the two CASes of `Finish()` and the submitter's own CAS
   fails an ASSERT, and loses the wakeup in release builds (`write_port_early_take`).
4. `ProcessPendingReads()` can claim another read than the one it counted bytes
   for (`read_port_thread`).
5. `LockFreeQueue` is documented for several consumers, and its CAS on a wrapped
   index has the ABA problem (`lock_free_queue_two_consumers`).
6. A DROP_OLD publisher that turns a ring once gives a subscriber that is inside
   `TryPopDescriptor` a stale descriptor (`shared_topic_turn`).

Other windows are named inside the models: an auxiliary variable or an operator
records that one was hit, the property excepts exactly that, and TLC finds it violated
without the exception. Two places are excepted on the word of the code alone, since the
bytes of an endpoint's buffer are not followed: a bus reset while `PushBatch()` reads
its arguments, and a host that comes back while it copies (`CdcReceive!raced`).

| Window | Where | Name |
|---|---|---|
| `Reset()` between a BLOCK write's release and its return turns FAILED into OK | `libxr_rw.cpp:513` | `WriteService!misled` |
| bytes of a Stream are visible to a Pipe's reader before `Commit`; those of a discarded one are delivered, and a pending read is not told of them | `libxr_rw.cpp:783` | `Pipe!discarded` |
| power loss in `SetKey`/`AddKey`: the key is lost, its value is blank, or the whole store is erased; a later `Recycle()` may copy a chain without an end | `database.hpp:643`, `1074`, `1137` | `DatabaseRaw!Harm`, `trust` |
| CH32: a transfer over whose interrupt has not come is started and reported twice | `ch32_uart.cpp:284` | `UartTransmit!Enter` |
| a write from a more urgent interrupt stays behind until the next write | `stm32_uart.cpp:200` | `UartTransmit!Leave` |
| STM32: an error callback just before the thread starts its own transfer | `stm32_uart.cpp` | `UartTransmit!Error` |
| a CDC bus reset that meets a thread at one of five places; a ZLP asked for when its transfer is over | `cdc_uart.hpp:433` | `CdcTransmit!Unexpected`, `late` |
| a CDC packet that comes while `TryRearmOut()` arms the endpoint; a read longer than the queue less a packet | `cdc_uart.hpp:412` | `CdcReceive!raced`, `Servable` |
| a CDC bus reset, and the packets after it, while the thread queues the packet that waited before it: the tail is overwritten, or the new `pending_data_` is cleared | `cdc_uart.hpp:780`, `386` | `CdcReceive!raced` |
| an aborted IN transfer leaves `write_remain` to the next | `dev_core.cpp:283` | `ControlTransfer!Inherits` |
| OUT served before a pending IN: `OnClassInDataStatusComplete()` is not called | `dev_core.cpp:165` | `ControlTransfer!Spoils` |
| `wLength` 0 of an IN request sends everything; an OUT buffer of a class that needs more packets than `wLength` waits for ever | `dev_core.cpp` | `ControlTransfer!Servable` |
| a class hears no `OnClassData` when a ZLP ends its data (`device_class.hpp:152-154`) | `dev_core.cpp` | `ControlTransfer!Due` |
| the ready count goes below zero, which its ASSERT excludes (`linux_shared_topic_impl.hpp:1648`) | `:1743` | `ReadyCountsQueue` |
| a subscriber that dies with a slot in its hands | `:1601` and `:1957` | `SharedTopic!orphans`, `lost` |
| CH32 CAN: an accepted frame is dropped | `ch32_can.cpp:533` | `CanTransmit!dropped` |
| a driver's next operation starts before the late completion is handed over | `esp_spi.cpp:445` | `AsyncBlockWait!early` |
| `AssignJobFromCallback` during a call, two tasks in `GetStatus` | `async.hpp:93` | `ASync!raced` |
| DFU: a transfer dropped (CLRSTATUS, bus reset) while `Process()` computes the CRC leaves `ready` TRUE with size 0 and no valid seal; RUN_APP is then accepted, against the comment at line 1465 | `dfu_bootloader.hpp:494` | `DfuBootloader!Sealing` |
| DFU: `Process()` goes on with a dropped write while the next request is served: the new block lands on flash that is not erased and the garbage is sealed as valid, or an app or upload is started from flash that is then erased | `dfu_bootloader.hpp:462` | `DfuBootloader!Working` |
| DFU: `RequestRunApp()` does not look for pending work; `ready` stays TRUE while `Process()` overwrites the image | `dfu_bootloader.hpp:1433` | `DfuBootloader!RequestRunApp` |
| topic keys more than half of the words apart are not found | `topic.cpp:16` | `RBTree!KeysFit` |
| the parser with the rest of a long packet and no room for the next batch drops every batch from then on | `server.cpp:38` | `RoomKept` |

Some combinations of the constants break further properties; the hazards of
`PROJECT.json` name them (synchronous answers with `Reset()`, POLLING writes with a
backend that scans `queue_info_`, a reader that reuses the port while a thread is
inside `Finish()`). The passing runs exclude them one by one, through named
constants, so that everything else is checked at full strength.

## 6. Limits of the models

All modules:

* Memory order: all atomics are sequentially consistent. The code uses
  acquire/release on `busy_`, `head_` and `tail_`, and on the words of the shared
  topic; what it would lose under a weaker model is not visible here.

Ports and queue:

* `BUSY`, `NOT_SUPPORT` and size-zero answers of the ports change nothing and are
  no steps. Size-zero readiness reads are modelled.
* A CALLBACK operation is a status word that is written once, when the callback
  would be called; what the callback does (for example submit again) is a new call.
* `Size()` and `EmptySize()` are `Used` and `Free` of the indices as they are; each
  side loads one shared index.
* `LockFreeQueue::Reset()` is one step, taken while neither side is in a call: its
  callers hold both sides off. In the ports `queue_info_` and `queue_data_` are
  sequences, with the FIFO behaviour that `QueueIsFifo` proves of the queue for one
  consumer.
* A backend pops payload after metadata and completes an op before it takes the
  next. A driver that prefetches the next transfer into a second buffer does the
  same pops earlier; its `Finish()` calls come in the same order.
* `ReadPort` has one producer at a time, as all drivers have. In `Pipe` nobody calls
  `Reset()`. `ReadPort::Reset()` is one step, as it is for a reader that an interrupt
  runs over; a thread that calls it could overwrite a read that is armed between its load
  and its store of `busy_` (`libxr_rw.cpp:266`, `288`), which is left out.

Middleware:

* Databases: entries have one size; `OtherSize` stands for data of another size, and
  a `Get` with another size is not modelled. Flash erases upward from the start of a
  block, and a half-written entry reads as blank. A `KeyInfo` is written in one step.
  `Threshold` is at least 1: with 0 `SearchKey` would recycle for ever. An
  `ASSERT(false)` on a full database is the answer FULL. `Restore` of the sequential
  engine overwrites without an erase (`database.cpp:72`), as the code does. A chain
  without an end leaves the database standing until the next power loss.
* Shared topic: one publisher process; members join and leave between publishes, in
  one step, and a dead one is reclaimed in one step; one handle for each subscriber;
  fewer drops than a turn of the ring in the passing run. Opening and initialising the
  segment is left out, and with it the attaching subscriber that has not yet stored its
  `owner_pid`. A DROP_OLD subscriber may lose a message for a publish that then fails
  with FULL: `dropped` counts it. `DropOld` and `Look` are one step each, although they
  access several words; `SharedTopic.tla` says which, and why the ring's head decides.
* Topics: publishers hold the topic's mutex; `GetData` comes after `Available`; the
  list of subscribers is complete.
* Parser: CRCs are ideal, topics are registered before the first byte.

System and drivers:

* `Semaphore` has one waiter. `AsyncBlockWait` is on two cores; on one, `early` is
  never set.
* CAN: contexts interleave freely, which covers nested interrupts and two cores.
* UART: error and transmit interrupts have one priority; `SetConfig` and BLOCK writes
  are left out.
* CDC: no second core, bus resets come in the interrupt, no packets without data from
  the host, no callback that writes again when it is told of INIT_ERR, no BLOCK writes,
  no class requests.
* Control transfers: no descriptors, configurations or transfers on other endpoints.
  SET_ADDRESS takes effect at STATUS_IN_COMPLETE, as in the drivers that set it there,
  and a host waits until then (`Settled`). `reports` is FALSE for STM32's USB_BASE,
  which takes the host's zero-length OUT packet for granted.
* DFU: one alternate setting, `autorun` on, reads of flash fail only under the CRC,
  SETUP and data stage of a DNLOAD are one step, and between two flash operations
  `Process()` is not interrupted. Block numbers do not wrap at 65536. What comes after
  a window of section 5, or after the jump to the app, is not followed.

### Not modelled

`src/` is a whole repository, and most of its lines are vendored numerics
(`lib/Eigen`), register-level drivers of eight chip families, wrappers of other
kernels, text formatting, real-number control code, and protocol tables (DAP, HID, UAC,
BOS descriptors). They keep no state between calls that two actors share, or state
that is a register of a chip, or compute with reals; models of them would restate
their lines. `PROJECT.json` lists every component with the reason. What could still
carry a model is in the plan.

## 7. Plan

1. Proofs: what is left of the promises of a shared topic to the other subscribers once
   the ring of one that asked for DROP_OLD has been turned; the reader of a `Pipe`.
2. Creation of a topic by two threads (`topic.cpp:146`, `181`), registration of events
   during an activation, and the multi-packet transfers of bulk endpoints (`ep.hpp`).
