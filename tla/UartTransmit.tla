---------------------------- MODULE UartTransmit ----------------------------
(***************************************************************************)
(* The transmit side of the STM32 and CH32 UART drivers: the WriteFun of a *)
(* write port on one thread, preempted by the transmit-complete interrupt, *)
(* over a double buffer that the DMA reads from.  WriteFun asks whether    *)
(* the DMA is ready: the STM32 HAL says so from the interrupt, the CH32    *)
(* DMA counter reads zero already before the interrupt is taken.           *)
(*                                                                         *)
(* A write is a number; its payload is one entry of queue_data, and the    *)
(* number stands for its length as well.  The thread runs only while no    *)
(* interrupt does; an interrupt more urgent than the transmit interrupt    *)
(* may write through the same port.                                        *)
(***************************************************************************)
EXTENDS Naturals, Sequences

CONSTANTS None, MaxWrites, MaxErrors, MaxUrgent  \* bounds on what happens from outside

UartAssumption ==
    /\ MaxWrites \in Nat /\ MaxErrors \in Nat /\ MaxUrgent \in Nat
    /\ None \notin Nat \cup [from : {0, 1}, len : 1..MaxWrites \cup {None}]

VARIABLES
    chip,                      \* "stm32" or "ch32"
    queue_info, queue_data,    \* the port's queues, by the numbers of the writes
    buffer, active, pending_valid, pending_len, active_len,  \* DoubleBuffer
    wire,                      \* the DMA's buffer and length, None when it is ready
    irq,                       \* its interrupt is pending
    tx_busy,
    write_info_active,         \* the write whose transfer was started last
    thread, isr,               \* where WriteFun and the interrupt are
    writes, errors, urgent,    \* what came from outside so far
    sent,                      \* transfers that left: what, and how much
    finished,                  \* writes reported OK
    raced                      \* one of the windows of Enter, Leave and Error was hit

port == <<queue_info, queue_data>>
double == <<buffer, active, pending_valid, pending_len, active_len>>
hardware == <<wire, irq, tx_busy>>
outside == <<chip, writes, errors, urgent>>
seen == <<sent, finished, raced>>
vars == <<port, double, hardware, write_info_active, thread, isr, outside, seen>>

Writes == 1..MaxWrites
WritesOrNone == Writes \cup {None}

TypeOK ==
    /\ queue_info \in Seq(Writes) /\ queue_data \in Seq(Writes)
    /\ buffer \in [{0, 1} -> WritesOrNone] /\ active \in {0, 1} /\ pending_valid \in BOOLEAN
    /\ {pending_len, active_len, write_info_active} \subseteq WritesOrNone
    /\ wire \in [from : {0, 1}, len : WritesOrNone] \cup {None} /\ tx_busy \in BOOLEAN
    /\ chip \in {"stm32", "ch32"} /\ irq \in BOOLEAN
    /\ thread.pc \in {"idle", "look", "fill", "length", "enable", "again", "switch", "pop", "busy",
                       "start"}
    /\ thread.into \in {0, 1} /\ {thread.op, thread.info} \subseteq WritesOrNone
    /\ isr \in {"idle", "check", "restart", "peek", "load", "leave"}
    /\ writes \in 0..MaxWrites /\ errors \in 0..MaxErrors /\ urgent \in 0..MaxUrgent
    /\ sent \in Seq([what : WritesOrNone, len : WritesOrNone])
    /\ finished \in Seq(Writes) /\ raced \in BOOLEAN

Resting == [pc |-> "idle", into |-> 0, op |-> None, info |-> None]

Init ==
    /\ chip \in {"stm32", "ch32"} /\ irq = FALSE
    /\ queue_info = <<>> /\ queue_data = <<>>
    /\ buffer = [b \in {0, 1} |-> None] /\ active = 0 /\ pending_valid = FALSE
    /\ pending_len = None /\ active_len = None /\ write_info_active = None
    /\ wire = None /\ tx_busy = FALSE /\ thread = Resting /\ isr = "idle"
    /\ writes = 0 /\ errors = 0 /\ urgent = 0 /\ sent = <<>> /\ finished = <<>> /\ raced = FALSE

Ready == wire = None
Transfer(b, len) == wire' = [from |-> b, len |-> len]
Enqueue(op) == queue_info' = Append(queue_info, op) /\ queue_data' = Append(queue_data, op)
PopBatch(b) == buffer' = [buffer EXCEPT ![b] = Head(queue_data)] /\ queue_data' = Tail(queue_data)
Switch ==
    /\ active' = IF pending_valid THEN 1 - active ELSE active
    /\ pending_valid' = FALSE

Thread(p) == isr = "idle" /\ thread.pc = p
Goto(p) == thread' = [thread EXCEPT !.pc = p]
Return == thread' = Resting

----------------------------------------------------------------------------
(* The thread: CommitWrite, then WriteFun.                                    *)

Write ==
    /\ Thread("idle") /\ writes < MaxWrites /\ writes' = writes + 1
    /\ Enqueue(writes + 1) /\ thread' = [Resting EXCEPT !.pc = "look", !.op = writes + 1]
    /\ UNCHANGED <<chip, double, hardware, write_info_active, isr, errors, urgent, seen>>

\* HasPending, Peek and the look at the DMA: with nothing pending the interrupt
\* between them does no more than to end the transfer.
Look ==
    /\ Thread("look")
    /\ IF pending_valid \/ queue_info = <<>> THEN Return
       ELSE thread' = [thread EXCEPT !.pc = "fill", !.info = Head(queue_info),
                                     !.into = IF Ready THEN active ELSE 1 - active]
    /\ UNCHANGED <<port, double, hardware, write_info_active, isr, outside, seen>>

Fill ==
    /\ Thread("fill") /\ PopBatch(thread.into)
    /\ Goto(IF thread.into = active THEN "pop" ELSE "length")
    /\ UNCHANGED <<queue_info, active, pending_valid, pending_len, active_len,
                   hardware, write_info_active, isr, outside, seen>>

SetPendingLength ==
    /\ Thread("length") /\ pending_len' = thread.info /\ Goto("enable")
    /\ UNCHANGED <<port, buffer, active, pending_valid, active_len,
                   hardware, write_info_active, isr, outside, seen>>

EnablePending ==
    /\ Thread("enable") /\ pending_valid' = TRUE /\ Goto("again")
    /\ UNCHANGED <<port, buffer, active, pending_len, active_len,
                   hardware, write_info_active, isr, outside, seen>>

NeverMissed == FALSE  \* mutant: WriteFun does not look at the DMA again
Missed == Ready /\ pending_valid

\* The transfer ended before the interrupt could see the pending buffer.
LookAgain ==
    /\ Thread("again") /\ IF Missed THEN Goto("switch") ELSE Return
    /\ UNCHANGED <<port, double, hardware, write_info_active, isr, outside, seen>>

SwitchToPending ==
    /\ Thread("switch") /\ Switch /\ Goto("pop")
    /\ UNCHANGED <<port, buffer, pending_len, active_len,
                   hardware, write_info_active, isr, outside, seen>>

PopInfo ==
    /\ Thread("pop") /\ active_len' = thread.info /\ Goto("busy")
    /\ IF queue_info = <<>> THEN UNCHANGED <<write_info_active, queue_info>>
       ELSE write_info_active' = Head(queue_info) /\ queue_info' = Tail(queue_info)
    /\ UNCHANGED <<queue_data, buffer, active, pending_valid, pending_len,
                   hardware, isr, outside, seen>>

SetBusy ==
    /\ Thread("busy") /\ tx_busy' = TRUE /\ Goto("start")
    /\ UNCHANGED <<port, double, wire, irq, write_info_active, isr, outside, seen>>

\* HAL_UART_Transmit_DMA refuses while a transfer runs, the CH32 starts anew.
\* CommitWrite finishes the write with the answer of WriteFun.
Start ==
    /\ Thread("start")
    /\ IF Ready \/ chip = "ch32"
       THEN /\ Transfer(active, thread.info) /\ finished' = Append(finished, thread.op)
            /\ UNCHANGED tx_busy
       ELSE tx_busy' = FALSE /\ UNCHANGED <<wire, finished>>
    /\ Return
    /\ UNCHANGED <<port, double, irq, write_info_active, isr, outside, sent, raced>>

----------------------------------------------------------------------------
(* The transmit-complete interrupt.                                           *)

Complete ==
    /\ ~Ready /\ (chip = "stm32" => isr = "idle")
    /\ sent' = Append(sent, [what |-> buffer[wire.from], len |-> wire.len])
    /\ wire' = None
    /\ IF chip = "ch32" THEN irq' = TRUE /\ UNCHANGED <<tx_busy, isr>>
       ELSE tx_busy' = FALSE /\ isr' = "check" /\ UNCHANGED irq
    /\ UNCHANGED <<port, double, write_info_active, thread, outside, finished, raced>>

\* TxDmaIRQHandler: it waits for the counter.  It may come between the thread's
\* look at the pending buffer and its switch to it.
Enter ==
    /\ irq /\ Ready /\ isr = "idle" /\ isr' = "check" /\ irq' = FALSE /\ tx_busy' = FALSE
    /\ raced' = (raced \/ thread.pc = "switch")
    /\ UNCHANGED <<port, double, wire, write_info_active, thread, outside, sent, finished>>

CheckPending ==
    /\ isr = "check" /\ isr' = IF pending_valid THEN "restart" ELSE "leave"
    /\ UNCHANGED <<port, double, hardware, write_info_active, thread, outside, seen>>

Restart ==
    /\ isr = "restart" /\ isr' = "peek" /\ Switch
    /\ active_len' = pending_len /\ tx_busy' = (chip = "stm32") /\ Transfer(1 - active, pending_len)
    /\ write_info_active' = Head(queue_info) /\ queue_info' = Tail(queue_info)
    /\ finished' = Append(finished, Head(queue_info))
    /\ UNCHANGED <<queue_data, buffer, pending_len, irq, thread, outside, sent, raced>>

PeekNext ==
    /\ isr = "peek" /\ isr' = IF queue_info = <<>> THEN "leave" ELSE "load"
    /\ UNCHANGED <<port, double, hardware, write_info_active, thread, outside, seen>>

LoadNext ==
    /\ isr = "load" /\ isr' = "leave"
    /\ PopBatch(1 - active) /\ pending_len' = Head(queue_info) /\ pending_valid' = TRUE
    /\ UNCHANGED <<queue_info, active, active_len, hardware, write_info_active, thread,
                   outside, seen>>

\* An urgent write that came after the interrupt looked for it stays behind.
Leave ==
    /\ isr = "leave" /\ isr' = "idle"
    /\ raced' = (raced \/ (thread.pc = "idle" /\ queue_info # <<>> /\ ~pending_valid))
    /\ UNCHANGED <<port, double, hardware, write_info_active, thread, outside, sent, finished>>

----------------------------------------------------------------------------
(* From outside.                                                              *)

\* A more urgent interrupt writes while in_tx_isr is set: PENDING.  Elsewhere
\* its write is one of the thread's, without interruption.
UrgentWrite ==
    /\ isr # "idle" /\ thread.pc = "idle" /\ writes < MaxWrites /\ urgent < MaxUrgent
    /\ Enqueue(writes + 1) /\ writes' = writes + 1 /\ urgent' = urgent + 1
    /\ UNCHANGED <<chip, double, hardware, write_info_active, thread, isr, errors, seen>>

\* STM32: HAL_UART_ErrorCallback and the abort: the transfer is started anew.  If the
\* thread was about to start it, the thread's own start fails.
Error ==
    /\ chip = "stm32" /\ isr = "idle" /\ errors < MaxErrors /\ errors' = errors + 1
    /\ IF tx_busy THEN Transfer(active, active_len) ELSE wire' = None
    /\ raced' = (raced \/ thread.pc = "start")
    /\ UNCHANGED <<port, double, irq, tx_busy, write_info_active, thread, isr, chip, writes,
                   urgent, sent, finished>>

----------------------------------------------------------------------------
WriteFun ==
    \/ Look \/ Fill \/ SetPendingLength \/ EnablePending \/ LookAgain
    \/ SwitchToPending \/ PopInfo \/ SetBusy \/ Start

Interrupt == Complete \/ Enter \/ CheckPending \/ Restart \/ PeekNext \/ LoadNext \/ Leave

Next == Write \/ WriteFun \/ Interrupt \/ UrgentWrite \/ Error
Spec == Init /\ [][Next]_vars

----------------------------------------------------------------------------
(* Properties.                                                                *)

OnWire == IF Ready THEN <<>> ELSE <<[what |-> buffer[wire.from], len |-> wire.len]>>

\* Transfers carry the writes in order, each once and with its own length: no
\* buffer is filled while the DMA reads from it.
TransfersInOrder == \A i \in 1..Len(sent \o OnWire) : (sent \o OnWire)[i] = [what |-> i, len |-> i]

\* A write is reported once, in order, and not before its transfer is started.
ReportsInOrder ==
    /\ \A i \in 1..Len(finished) : finished[i] = i
    /\ Len(finished) <= Len(sent \o OnWire)

\* When nothing runs any more, nothing is left behind in the queues or in the
\* pending buffer: every write left and was reported.
NothingLeft ==
    thread.pc = "idle" /\ isr = "idle" /\ Ready /\ ~irq =>
        /\ queue_info = <<>> /\ queue_data = <<>> /\ ~pending_valid
        /\ Len(sent) = writes /\ Len(finished) = writes

\* What the driver owes its port, except where Enter, Leave and Error say that
\* it can fail.
WritesGoOut == TypeOK /\ (~raced => TransfersInOrder /\ ReportsInOrder /\ NothingLeft)
=============================================================================
