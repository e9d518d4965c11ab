---------------------------- MODULE MCDataPaths ----------------------------
(***************************************************************************)
(* The ways of the data: the lock-free queue, the drivers that take writes *)
(* out of a port and put received bytes into one, the control transfers of *)
(* a USB device and the firmware download they carry, a Pipe, the parser   *)
(* of packets, and the tree that finds the topic of a packet.  They share  *)
(* no state; which of them runs is chosen at the start.                    *)
(***************************************************************************)
EXTENDS MCLockFreeQueue

CONSTANT Null

VARIABLES
    part,
    key, tree, inserted, pc, node, parent,
    chip, queue_info, queue_data, buffer, active, pending_valid, pending_len, active_len,
    wire, dmairq, tx_busy, write_info_active, writer, txisr, writes, errors, urgent, left_wire,
    finished, uraced,
    kind, line, faults, squeue, parse_buff, sstatus, resume, published, heard,
    tinfo, tdata, thead, toffset, tbuffer, tlength, tstate, tzlp, tpc, tnow, tec, tsend,
    twrites, tunbinds, tsent, tlast, treports, tlate, traced,
    rmade, bound, armed, recv_pause, pending_data, rqueue, rbusy, rpc, want, rtail, rbatch, rgot,
    rraced,
    reports, dev, events, host, asked, ended, aborts, spoilt,
    env, pbusy, info, pqueue, sem, ppcr, rd, pkind, size, status, pgot, prpc, pmade, resets, pwriter,
    batch, discarded,
    flash, dfuState, started, download, pending, manifest, upload, image, erased, process, dhost,
    whole, launched, dfuFaults, overtaken

\* Keys half of the words hold, and keys that need more.
MCNodes == 1..6
MCKeySets == {[n \in MCNodes |-> n + 5], [n \in MCNodes |-> (5 * n) % 16]}

Tree == INSTANCE RBTree WITH Nodes <- MCNodes, Width <- 4, KeySets <- MCKeySets
Uart == INSTANCE UartTransmit WITH
          None <- Null, MaxWrites <- 4, MaxErrors <- 1, MaxUrgent <- 1,
          thread <- writer, isr <- txisr, irq <- dmairq, sent <- left_wire, raced <- uraced
Server == INSTANCE TopicServer WITH
          Length <- 5, H <- 2, MaxPackets <- 3, Batches <- {1, 4}, MaxFaults <- 1,
          Kinds <- {[data |-> 1, topic |-> TRUE, echo |-> FALSE],
                    [data |-> 2, topic |-> TRUE, echo |-> TRUE],
                    [data |-> 2, topic |-> FALSE, echo |-> TRUE]},
          queue <- squeue, status <- sstatus
CdcOut == INSTANCE CdcTransmit WITH
          MPS <- 2, Sizes <- {1, 2, 3}, MaxWrites <- 3, MaxUnbinds <- 1,
          queue_info <- tinfo, queue_data <- tdata, head <- thead, offset <- toffset,
          buffer <- tbuffer, active_length <- tlength, state <- tstate, need_zlp <- tzlp,
          pc <- tpc, now <- tnow, slot_ec <- tec, to_send <- tsend, writes <- twrites,
          unbinds <- tunbinds, sent <- tsent, last <- tlast, reports <- treports,
          late <- tlate, raced <- traced
CdcIn == INSTANCE CdcReceive WITH
          Cap <- 4, MPS <- 2, Packets <- {1, 2}, Reads <- {1, 3, 4}, MaxBytes <- 9,
          made <- rmade, queue <- rqueue, busy <- rbusy, pc <- rpc, tail <- rtail,
          batch <- rbatch, got <- rgot, raced <- rraced

Request(dir, by, len, asks, early) ==
    [dir |-> dir, by |-> by, len |-> len, asks |-> asks, early |-> early]
Control == INSTANCE ControlTransfer WITH
          MPS <- 2, MaxTransfers <- 3, MaxAborts <- 1,
          Requests <- {Request("in", "device", 3, 3, FALSE), Request("in", "device", 4, 5, TRUE),
                       Request("in", "device", 1, 0, FALSE), Request("in", "class", 2, 3, FALSE),
                       Request("in", "vendor", 3, 1, FALSE), Request("out", "class", 3, 3, FALSE),
                       Request("out", "class", 3, 1, FALSE),
                       Request("none", "address", 0, 0, FALSE),
                       Request("in", "nobody", 0, 1, FALSE)}

Tube == INSTANCE Pipe WITH
          Kinds <- {"BLOCK", "POLLING"}, Sizes <- {0, 1, 3}, MaxReads <- 2, MaxBytes <- 4,
          Cap <- 3, Chunks <- {1, 2},
          busy <- pbusy, queue_data <- pqueue, pc <- ppcr, kind <- pkind, got <- pgot,
          made <- pmade, writer <- pwriter, ppc <- prpc

Dfu == INSTANCE DfuBootloader WITH
          Limit <- 4, EraseSize <- 2, SealOffset <- 3, Chunks <- {1, 2},
          Blank <- Null, Garbled <- <<>>, MaxImages <- 2, MaxFaults <- 1,
          host <- dhost

ASSUME Tree!TreeAssumption /\ Uart!UartAssumption /\ Server!ServerAssumption
ASSUME CdcOut!CdcTransmitAssumption /\ CdcIn!CdcReceiveAssumption /\ Control!ControlAssumption
ASSUME Tube!PipeAssumption /\ Dfu!DfuAssumption

treeVars == <<key, tree, inserted, pc, node, parent>>
uartVars == <<chip, queue_info, queue_data, buffer, active, pending_valid, pending_len,
              active_len, wire, dmairq, tx_busy, write_info_active, writer, txisr, writes, errors,
              urgent, left_wire, finished, uraced>>
serverVars == <<kind, line, faults, squeue, parse_buff, sstatus, resume, published, heard>>
cdcOutVars == <<tinfo, tdata, thead, toffset, tbuffer, tlength, tstate, tzlp, tpc, tnow, tec,
                tsend, twrites, tunbinds, tsent, tlast, treports, tlate, traced>>
cdcInVars == <<rmade, bound, armed, recv_pause, pending_data, rqueue, rbusy, rpc, want, rtail,
               rbatch, rgot, rraced>>
controlVars == <<reports, dev, events, host, asked, ended, aborts, spoilt>>
pipeVars == <<env, pbusy, info, pqueue, sem, ppcr, rd, pkind, size, status, pgot, prpc, pmade,
              resets, pwriter, batch, discarded>>
dfuVars == <<flash, dfuState, started, download, pending, manifest, upload, image, erased, process,
             dhost, whole, launched, dfuFaults, overtaken>>
portVars == <<uartVars, cdcOutVars, cdcInVars>>
driverVars == <<portVars, controlVars, pipeVars, dfuVars>>
allVars == <<part, vars, treeVars, serverVars, driverVars>>

MCInit ==
    /\ Init /\ Tree!Init /\ Uart!Init /\ Server!Init /\ CdcOut!Init /\ CdcIn!Init /\ Control!Init
    /\ Tube!Init /\ Dfu!Init
    /\ part \in {"queue", "tree", "uart", "server", "cdc out", "cdc in", "control", "pipe", "dfu"}
    /\ part # "tree" => key = [n \in MCNodes |-> n + 5]
    /\ part # "uart" => chip = "stm32"
    /\ part # "server" => \A m \in DOMAIN kind : kind[m].data = 1
    /\ part # "control" => reports
    /\ part # "pipe" => env.isr
    /\ part # "dfu" => whole = {}

InQueue(A) == part = "queue" /\ A /\ UNCHANGED <<part, treeVars, serverVars, driverVars>>
InTree(A) == part = "tree" /\ A /\ UNCHANGED <<part, vars, serverVars, driverVars>>
InServer(A) == part = "server" /\ A /\ UNCHANGED <<part, vars, treeVars, driverVars>>
InUart(A) ==
    /\ part = "uart" /\ A
    /\ UNCHANGED <<part, vars, treeVars, serverVars, cdcOutVars, cdcInVars, controlVars,
                   pipeVars, dfuVars>>
InCdcOut(A) ==
    /\ part = "cdc out" /\ A
    /\ UNCHANGED <<part, vars, treeVars, serverVars, uartVars, cdcInVars, controlVars,
                   pipeVars, dfuVars>>
InCdcIn(A) ==
    /\ part = "cdc in" /\ A
    /\ UNCHANGED <<part, vars, treeVars, serverVars, uartVars, cdcOutVars, controlVars,
                   pipeVars, dfuVars>>
InControl(A) ==
    /\ part = "control" /\ A
    /\ UNCHANGED <<part, vars, treeVars, serverVars, portVars, pipeVars, dfuVars>>
InPipe(A) ==
    /\ part = "pipe" /\ A
    /\ UNCHANGED <<part, vars, treeVars, serverVars, portVars, controlVars, dfuVars>>
InDfu(A) ==
    /\ part = "dfu" /\ A
    /\ UNCHANGED <<part, vars, treeVars, serverVars, portVars, controlVars, pipeVars>>

MCNext ==
    \/ InQueue(Next) \/ InTree(Tree!Next) \/ InUart(Uart!Next) \/ InServer(Server!Next)
    \/ InCdcOut(CdcOut!Next) \/ InCdcIn(CdcIn!Next) \/ InControl(Control!Next)
    \/ InPipe(Tube!Next) \/ InDfu(Dfu!Next)

MCSpec == MCInit /\ [][MCNext]_allVars

\* The tree finds and visits what was inserted, and is balanced.
TreeCorrect == part = "tree" => Tree!TreeCorrect

\* The writes of a UART and of a USB serial port leave in order, whole, and are
\* reported once; none stays behind.
WritesGoOut ==
    /\ part = "uart" => Uart!WritesGoOut
    /\ part = "cdc out" => CdcOut!WritesGoOut

\* A USB serial port loses no byte it received, and does not stop receiving
\* while a read that could make room is to come; the reader of a Pipe gets the
\* bytes in order and is served when they are there.
ReceivesAll ==
    /\ part = "cdc in" => CdcIn!ReceivesAll
    /\ part = "pipe" => Tube!PipeDelivers

\* Control transfers end as the host and the class of the device expect; a
\* firmware download ends in the host's whole image, or in none that can be run.
TransfersEnd ==
    /\ part = "control" => Control!TransfersEnd
    /\ part = "dfu" => Dfu!ImagesWhole

\* The packets published are those of the bytes queued, however they were cut
\* into batches, and the parser keeps room for more.
ParsesAnyBatches == part = "server" => Server!ParsesAnyBatches
=============================================================================
