---------------------------- MODULE CdcTransmit ----------------------------
(***************************************************************************)
(* What CDCUart does with the writes of its port: CDCUartTxOpDequeueHelper *)
(* cuts them into packets, WriteFun() fills the buffer behind the one in   *)
(* transfer or starts it, and the interrupt of a transfer's end starts     *)
(* what is filled and fills the next.  A transfer whose last packet is a   *)
(* full one, with nothing behind it, is ended by an empty one (a ZLP).     *)
(* A bus reset closes the endpoints and drops the writes.                  *)
(*                                                                         *)
(* One thread, which an interrupt runs over as one step.  A byte is        *)
(* <<write, place>>.  The port's lock keeps a second writer away until     *)
(* WriteFun() has returned.                                                *)
(***************************************************************************)
EXTENDS Naturals, Sequences, FiniteSets, SequencesExt

CONSTANTS
    MPS,         \* MaxPacketSize(), and the size of a buffer
    Sizes,       \* of the writes
    MaxWrites,   \* bound
    MaxUnbinds   \* bound

CdcTransmitAssumption ==
    MPS \in Nat \ {0} /\ Sizes \subseteq Nat \ {0} /\ MaxWrites \in Nat /\ MaxUnbinds \in Nat

VARIABLES
    queue_info, queue_data,
    head, offset,             \* head_ if head_valid_, and offset_
    buffer, active_length,    \* the endpoint's active buffer
    state,                    \* the endpoint's
    need_zlp,
    pc, now, slot_ec, to_send, \* the thread's call
    writes, unbinds,
    sent,                     \* the bytes handed to the controller
    last,                     \* size of the last transfer
    reports,                  \* of the writes: number and whether it is OK
    late,                     \* the ZLP was asked for when its transfer had ended
    raced                     \* a bus reset met the thread where it is not expected

ep == <<buffer, active_length, state, sent, last, late>>
port == <<queue_info, queue_data, head, offset>>
call == <<now, slot_ec, to_send>>
vars == <<port, ep, need_zlp, pc, call, writes, unbinds, reports, raced>>

Writes == [n : 1..MaxWrites, size : Sizes]
NoWrite == [n |-> 0, size |-> 0]
Bytes(w) == [k \in 1..w.size |-> <<w.n, k>>]
Byte == (1..MaxWrites) \X Nat

CdcTransmitTypeOK ==
    /\ queue_info \in Seq(Writes) /\ queue_data \in Seq(Byte) /\ buffer \in Seq(Byte)
    /\ head \in Writes \cup {NoWrite} /\ offset \in Nat /\ active_length \in 0..MPS
    /\ state \in {"DISABLED", "IDLE", "BUSY"} /\ {need_zlp, late, raced} \subseteq BOOLEAN
    /\ pc \in {"idle", "info", "enter", "take", "length", "load", "check", "clear", "kick", "pop",
               "zlp"}
    /\ now \in Writes \cup {NoWrite} /\ slot_ec \in {"OK", "PENDING"} /\ to_send \in 0..MPS
    /\ writes \in 0..MaxWrites /\ unbinds \in 0..MaxUnbinds
    /\ sent \in Seq(Byte) /\ last \in 0..MPS /\ reports \in Seq((1..MaxWrites) \X BOOLEAN)

Init ==
    /\ queue_info = <<>> /\ queue_data = <<>> /\ head = NoWrite /\ offset = 0
    /\ buffer = <<>> /\ active_length = 0 /\ state = "IDLE" /\ sent = <<>> /\ last = 0
    /\ need_zlp = FALSE /\ late = FALSE /\ raced = FALSE
    /\ pc = "idle" /\ now = NoWrite /\ slot_ec = "OK" /\ to_send = 0
    /\ writes = 0 /\ unbinds = 0 /\ reports = <<>>

Bound == state # "DISABLED"

----------------------------------------------------------------------------
(* CDCUartTxOpDequeueHelper, of a port p.                                     *)

Port == [info |-> queue_info, data |-> queue_data, head |-> head, offset |-> offset]
Becomes(p) == queue_info' = p.info /\ queue_data' = p.data /\ head' = p.head /\ offset' = p.offset

HasOp(p) == p.head # NoWrite \/ p.info # <<>>
HeadCompleted(p) == p.head # NoWrite /\ p.offset = p.head.size
EnsureHead(p) ==
    IF p.head # NoWrite \/ p.info = <<>> THEN p ELSE [p EXCEPT !.head = p.info[1], !.offset = 0]
Least(a, b) == IF a < b THEN a ELSE b

\* Take: the answer, the bytes and the port that is left.
Take(p) ==
    LET q == EnsureHead(p)
        size == Least(q.head.size - q.offset, MPS)
        rest == [q EXCEPT !.data = SubSeq(q.data, size + 1, Len(q.data)), !.offset = @ + size]
    IN  IF q.head = NoWrite THEN [ans |-> "EMPTY", bytes |-> <<>>, port |-> q]
        ELSE IF size = 0 \/ Len(q.data) < size THEN [ans |-> "FAILED", bytes |-> <<>>, port |-> q]
        ELSE [ans |-> IF HeadCompleted(rest) THEN "OK" ELSE "PENDING",
              bytes |-> SubSeq(q.data, 1, size), port |-> rest]

Without(p) == [p EXCEPT !.info = Tail(p.info), !.head = NoWrite, !.offset = 0]

\* DropHead: nothing is popped if the bytes are not there.
DropHead(p) ==
    LET q == EnsureHead(p)
        rest == q.head.size - q.offset
    IN  IF q.head = NoWrite \/ Len(q.data) < rest THEN q
        ELSE Without([q EXCEPT !.data = SubSeq(q.data, rest + 1, Len(q.data))])

----------------------------------------------------------------------------
(* The endpoint.                                                              *)

\* Transfer() switches the buffers: what is filled next is another one.
Transfer(size) ==
    /\ state' = "BUSY" /\ last' = size /\ late' = FALSE
    /\ sent' = sent \o SubSeq(buffer, 1, Least(size, Len(buffer)))

\* ZLP decision: a full packet, and nothing behind it.
EndsFull(size, length, p) == size % MPS = 0 /\ length = 0 /\ ~HasOp(p)

----------------------------------------------------------------------------
(* A write of the thread: CommitWrite(), then WriteFun().                     *)

Return(more) == pc' = "idle" /\ now' = NoWrite /\ reports' = reports \o more
Pending == Return(<<>>)
Report(ok) == Return(<< <<now.n, ok>> >>)

Write(size) ==
    /\ pc = "idle" /\ writes < MaxWrites /\ writes' = writes + 1
    /\ now' = [n |-> writes', size |-> size] /\ queue_data' = queue_data \o Bytes(now')
    /\ pc' = "info"
    /\ UNCHANGED <<queue_info, head, offset, ep, need_zlp, slot_ec, to_send, unbinds, reports,
                   raced>>

PushInfo ==
    /\ pc = "info" /\ queue_info' = Append(queue_info, now) /\ pc' = "enter"
    /\ UNCHANGED <<queue_data, head, offset, ep, need_zlp, call, writes, unbinds, reports, raced>>

NotInited ==
    /\ pc = "enter" /\ ~Bound /\ Becomes(DropHead(Port)) /\ Report(FALSE)
    /\ UNCHANGED <<ep, need_zlp, slot_ec, to_send, writes, unbinds, raced>>

Filled ==
    /\ pc = "enter" /\ Bound /\ active_length # 0 /\ Pending
    /\ UNCHANGED <<port, ep, need_zlp, slot_ec, to_send, writes, unbinds, raced>>

Enter ==
    /\ pc = "enter" /\ Bound /\ active_length = 0
    /\ need_zlp' = (need_zlp /\ ~HasOp(Port)) /\ pc' = "take"
    /\ UNCHANGED <<port, ep, call, writes, unbinds, reports, raced>>

\* The interrupt does not read the queues while the active length is zero.  Without
\* bytes, whatever the answer, it is PENDING.
Prefill ==
    /\ pc = "take"
    /\ LET took == Take(Port)
       IN  /\ Becomes(took.port)
           /\ IF took.ans \in {"EMPTY", "FAILED"} THEN Pending /\ UNCHANGED <<slot_ec, buffer>>
              ELSE /\ slot_ec' = took.ans /\ buffer' = took.bytes /\ pc' = "length"
                   /\ UNCHANGED <<now, reports>>
    /\ UNCHANGED <<active_length, state, sent, last, late, need_zlp, to_send, writes, unbinds,
                   raced>>

SetActiveLength ==
    /\ pc = "length" /\ active_length' = Len(buffer) /\ pc' = "load"
    /\ UNCHANGED <<port, buffer, state, sent, last, late, need_zlp, call, writes, unbinds, reports,
                   raced>>

Load ==
    /\ pc = "load" /\ to_send' = active_length /\ pc' = "check"
    /\ UNCHANGED <<port, ep, need_zlp, now, slot_ec, writes, unbinds, reports, raced>>

SendableStale == state = "IDLE" /\ to_send # 0  \* mutant: without the look at the operations
Sendable == state = "IDLE" /\ to_send # 0 /\ HasOp(Port)

Check ==
    /\ pc = "check"
    /\ IF Sendable THEN pc' = "clear" /\ UNCHANGED <<now, reports>> ELSE Pending
    /\ UNCHANGED <<port, ep, need_zlp, slot_ec, to_send, writes, unbinds, raced>>

Clear ==
    /\ pc = "clear" /\ active_length' = 0 /\ pc' = "kick"
    /\ UNCHANGED <<port, buffer, state, sent, last, late, need_zlp, call, writes, unbinds, reports,
                   raced>>

Kick ==
    /\ pc = "kick" /\ Transfer(to_send) /\ pc' = "pop"
    /\ UNCHANGED <<port, buffer, active_length, need_zlp, call, writes, unbinds, reports, raced>>

PopCompleted ==
    /\ pc = "pop"
    /\ IF slot_ec = "OK" /\ HeadCompleted(Port)
       THEN Becomes(Without(Port)) /\ pc' = "zlp" /\ UNCHANGED <<now, reports>>
       ELSE /\ UNCHANGED port
            /\ IF HasOp(Port) THEN pc' = "take" /\ UNCHANGED <<now, reports>> ELSE Pending
    /\ UNCHANGED <<ep, need_zlp, slot_ec, to_send, writes, unbinds, raced>>

DecideZlp ==
    /\ pc = "zlp" /\ Report(TRUE)
    /\ IF EndsFull(to_send, active_length, Port)
       THEN need_zlp' = TRUE /\ late' = (state # "BUSY") ELSE UNCHANGED <<need_zlp, late>>
    /\ UNCHANGED <<port, buffer, active_length, state, sent, last, slot_ec, to_send, writes,
                   unbinds, raced>>

----------------------------------------------------------------------------
(* Interrupts.                                                                *)

\* OnDataInComplete(): the ZLP, ...
SendZlp ==
    /\ state = "BUSY" /\ need_zlp /\ active_length = 0 /\ ~HasOp(Port)
    /\ need_zlp' = FALSE /\ Transfer(0)
    /\ UNCHANGED <<port, buffer, active_length, pc, call, writes, unbinds, reports, raced>>

\* ... nothing, ...
Rest ==
    /\ state = "BUSY" /\ active_length = 0 /\ ~(need_zlp /\ ~HasOp(Port))
    /\ state' = "IDLE" /\ need_zlp' = FALSE
    /\ UNCHANGED <<port, buffer, active_length, sent, last, late, pc, call, writes, unbinds,
                   reports, raced>>

\* ... or what is filled.  The callback of a write that is over may write again
\* if no thread holds the port; WriteFun() leaves that to this interrupt.
Continue ==
    /\ state = "BUSY" /\ active_length # 0 /\ Transfer(active_length)
    /\ LET over == HeadCompleted(Port)
           popped == IF over THEN Without(Port) ELSE Port
       IN  /\ reports' = IF over THEN Append(reports, <<head.n, TRUE>>) ELSE reports
           /\ \E echo \in {<<>>} \cup
                  (IF over /\ pc = "idle" /\ writes < MaxWrites
                   THEN {<<[n |-> writes + 1, size |-> s]>> : s \in Sizes} ELSE {}) :
                LET left == [popped EXCEPT
                               !.info = @ \o echo,
                               !.data = IF echo = <<>> THEN @ ELSE @ \o Bytes(echo[1])]
                    took == Take(left)
                IN  /\ writes' = writes + Len(echo)
                    /\ Becomes(took.port)
                    /\ active_length' = Len(took.bytes)
                    /\ buffer' = IF took.bytes = <<>> THEN buffer ELSE took.bytes
                    /\ need_zlp' = EndsFull(active_length, active_length', took.port)
    /\ UNCHANGED <<pc, call, unbinds, raced>>

\* UnbindEndpoints(), with the thread at a place where that does no harm or not.
Unexpected == pc \in {"info", "enter", "length", "clear", "kick"}

UnbindEndpoints ==
    /\ Bound /\ unbinds < MaxUnbinds /\ unbinds' = unbinds + 1
    /\ state' = "DISABLED" /\ active_length' = 0 /\ need_zlp' = FALSE /\ late' = FALSE /\ last' = 0
    /\ Becomes([info |-> <<>>, data |-> <<>>, head |-> NoWrite, offset |-> 0])
    /\ reports' = reports \o [k \in DOMAIN queue_info |-> <<queue_info[k].n, FALSE>>]
    /\ raced' = (raced \/ Unexpected)
    /\ UNCHANGED <<buffer, sent, pc, call, writes>>

BindEndpoints ==
    /\ ~Bound /\ state' = "IDLE"
    /\ UNCHANGED <<port, buffer, active_length, sent, last, late, need_zlp, pc, call, writes,
                   unbinds, reports, raced>>

----------------------------------------------------------------------------
Thread ==
    \/ \E size \in Sizes : Write(size)
    \/ PushInfo \/ NotInited \/ Filled \/ Enter \/ Prefill \/ SetActiveLength \/ Load \/ Check
    \/ Clear \/ Kick \/ PopCompleted \/ DecideZlp

Interrupt == SendZlp \/ Rest \/ Continue \/ UnbindEndpoints \/ BindEndpoints

Next == Thread \/ Interrupt

Spec == Init /\ [][Next]_vars

----------------------------------------------------------------------------
(* Properties.                                                                *)

Reported == {reports[k][1] : k \in DOMAIN reports}
Prefilled ==
    IF pc = "length" THEN buffer
    ELSE SubSeq(buffer, 1, IF pc = "kick" THEN to_send ELSE active_length)
Line == sent \o Prefilled \o queue_data
Before(a, b) == a[1] < b[1] \/ (a[1] = b[1] /\ a[2] < b[2])

\* The bytes go out in the order of the writes and once, ...
InOrder == \A j, k \in DOMAIN Line : j < k => Before(Line[j], Line[k])

\* ... those of a write that is OK all of them, ...
Whole ==
    \A k \in DOMAIN reports : reports[k][2] =>
        Cardinality({j \in DOMAIN sent : sent[j][1] = reports[k][1]})
            = Cardinality({j \in DOMAIN Line : Line[j][1] = reports[k][1]})
        /\ \E j \in DOMAIN sent : sent[j][1] = reports[k][1]

\* ... each write is reported once when it has left the port, ...
ReportedOnce ==
    /\ Len(reports) = Cardinality(Reported)
    /\ pc = "idle" => Reported \cup {queue_info[k].n : k \in DOMAIN queue_info} = 1..writes
    /\ \A k \in DOMAIN queue_info : queue_info[k].n \notin Reported

\* ... and when the controller rests nothing waits for it, nor is the host left
\* without the end of a transfer.
NothingLeft ==
    pc = "idle" /\ state = "IDLE" =>
        /\ ~HasOp(Port) /\ queue_data = <<>> /\ active_length = 0
        /\ late \/ (~need_zlp /\ (last % MPS # 0 \/ last = 0))

WritesGoOut == CdcTransmitTypeOK /\ (~raced => InOrder /\ Whole /\ ReportedOnce /\ NothingLeft)
=============================================================================
