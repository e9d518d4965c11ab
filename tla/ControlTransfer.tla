-------------------------- MODULE ControlTransfer --------------------------
(***************************************************************************)
(* DeviceCore's control transfers on endpoint 0 of a USB device, against a *)
(* host that may give a transfer up: a SETUP packet aborts whatever was    *)
(* under way, a status packet may cut a data stage short.                  *)
(*                                                                         *)
(* All of DeviceCore runs in the interrupt of the USB controller, so that  *)
(* a handler is one step; what interleaves is the bus, which goes on while *)
(* an interrupt is pending.  Each function of DeviceCore is an operator    *)
(* from the device's state to the state it leaves.  A byte is the number   *)
(* of its transfer and its place in the data.                              *)
(***************************************************************************)
EXTENDS Integers, Sequences, SequencesExt

CONSTANTS
    MPS,           \* MaxPacketSize() of endpoint 0
    Requests,      \* what a host may ask, see RequestType
    MaxTransfers,  \* bound: SETUP packets
    MaxAborts      \* bound: transfers the host gives up, and bus resets

\* dir: the data stage; by: who answers; len: what it has to send or room for;
\* asks: wLength; early: early_read_zlp, for descriptors only.
RequestType ==
    [dir : {"in", "out", "none"}, by : {"device", "class", "vendor", "address", "nobody"},
     len : Nat, asks : Nat, early : BOOLEAN]

ControlAssumption ==
    /\ MPS \in Nat \ {0} /\ {MaxTransfers, MaxAborts} \subseteq Nat
    /\ \A r \in Requests : r \in RequestType /\ (r.dir = "none" => r.asks = 0)

VARIABLES
    reports,  \* the chip reports a zero-length OUT packet (STM32's USB_BASE assumes it at once)
    dev,      \* state_, class_req_ and the two endpoints, see Device
    events,   \* interrupts that are pending, as they came
    host,     \* the host's stage of the transfer, what it has got, and how much it has sent
    asked,    \* the requests so far, in order
    ended,    \* how the host saw them end
    aborts,
    spoilt    \* transfers that an earlier abort or a late interrupt reaches, see Spoils

vars == <<reports, dev, events, host, asked, ended, aborts, spoilt>>

Nothing == [write |-> FALSE, read |-> FALSE, status |-> FALSE, of |-> 0]
Device ==
    [in0 |-> "UNKNOWN", out0 |-> "UNKNOWN", write_remain |-> <<>>, read_remain |-> 0,
     pending_addr |-> 0, address |-> 0, need_write_zlp |-> FALSE, status_out_armed |-> FALSE,
     class_req |-> Nothing, data |-> <<>>,
     epIn |-> "IDLE", offer |-> <<>>, epOut |-> "IDLE", room |-> <<>>, calls |-> <<>>]

Data(t, n) == [i \in 1..n |-> <<t, i>>]
First(s, n) == SubSeq(s, 1, IF n < Len(s) THEN n ELSE Len(s))
Rest(s, n) == SubSeq(s, n + 1, Len(s))

----------------------------------------------------------------------------
(* The endpoints.  offer and room hold at most one packet, armed and not yet  *)
(* taken by the host.                                                         *)

TransferIn(d, data) ==
    IF d.epIn = "BUSY" THEN d ELSE [d EXCEPT !.epIn = "BUSY", !.offer = <<data>>]
TransferOut(d, size) ==
    IF d.epOut = "BUSY" THEN d ELSE [d EXCEPT !.epOut = "BUSY", !.room = <<size>>]

\* An IN endpoint that is busy refuses to stall.
StallControlEndpoint(d) ==
    [d EXCEPT !.epOut = "STALLED", !.epIn = IF @ = "BUSY" THEN @ ELSE "STALLED"]

----------------------------------------------------------------------------
(* DeviceCore.                                                                *)

WriteZLP(d, context) == TransferIn([d EXCEPT !.in0 = context], <<>>)

ResetClassRequestState(d) == [d EXCEPT !.class_req = Nothing]

\* OnClassData() and OnClassInDataStatusComplete().
Call(d, what, data) ==
    [d EXCEPT !.calls = Append(@, [t |-> d.class_req.of, what |-> what, data |-> data])]
OnClassData(d, data) == Call(d, "data", data)
OnClassInDataStatusComplete(d) == Call(d, "status", <<>>)

\* A zero-length packet: the status stage, which cuts short what was being sent.
StatusOutDone(d) ==
    LET done == d.status_out_armed /\ d.class_req.status /\ d.epIn # "BUSY"
        d1 == [d EXCEPT !.out0 = "UNKNOWN", !.status_out_armed = FALSE]
        d2 == IF d.epIn = "BUSY"
              THEN [d1 EXCEPT !.epIn = "IDLE", !.offer = <<>>, !.in0 = "ZLP", !.write_remain = <<>>]
              ELSE d1
    IN  IF done THEN ResetClassRequestState(OnClassInDataStatusComplete(d2)) ELSE d2

\* Where the chip does not report the packet, its completion is run inside
\* Transfer(), before the packet has come.
ReadZLP(d) ==
    LET d1 == TransferOut([d EXCEPT !.out0 = "ZLP"], 0)
    IN  IF reports \/ d.epOut = "BUSY" THEN d1 ELSE StatusOutDone([d1 EXCEPT !.epOut = "IDLE"])

ArmStatusOutIfNeeded(d) ==
    IF d.status_out_armed THEN d ELSE [ReadZLP(d) EXCEPT !.status_out_armed = TRUE]

NeedWriteZlpPerChunk(d, data, asks) == asks > Len(data) /\ Len(data) % MPS = 0  \* mutant
NeedWriteZlp(d, data, asks) ==
    IF d.write_remain = <<>> THEN asks > Len(data) /\ Len(data) % MPS = 0 ELSE d.need_write_zlp

\* A data stage, or what is left of one; asks is 0 where only the data counts.
DevWriteEP0Data(d, data, asks, early) ==
    LET first == d.write_remain = <<>>
        limited == IF asks > 0 THEN First(data, asks) ELSE data
        zlp == NeedWriteZlp(d, limited, asks)
        d1 == [d EXCEPT !.in0 = "DATA_IN", !.need_write_zlp = zlp,
                        !.status_out_armed = @ /\ ~first]
        d2 == [d1 EXCEPT !.write_remain = Rest(limited, MPS)]
        d3 == IF early \/ (d2.write_remain = <<>> /\ ~zlp) THEN ArmStatusOutIfNeeded(d2) ELSE d2
    IN  IF limited = <<>> THEN StallControlEndpoint(d1) ELSE TransferIn(d3, First(limited, MPS))

DevReadEP0Data(d, size) ==
    LET chunk == IF size > MPS THEN MPS ELSE size
    IN  TransferOut([d EXCEPT !.out0 = "DATA_OUT", !.read_remain = size - chunk], chunk)

DataOutDone(d, bytes) ==
    LET d1 == [d EXCEPT !.out0 = "UNKNOWN", !.data = @ \o bytes]
    IN  IF d.read_remain > 0 THEN DevReadEP0Data(d1, d.read_remain)
        ELSE IF d.class_req.read
        THEN WriteZLP(ResetClassRequestState(OnClassData(d1, d1.data)), "ZLP")
        ELSE WriteZLP(d1, "ZLP")

OnEP0OutComplete(d, bytes) ==
    CASE d.out0 = "ZLP" -> StatusOutDone(d)
      [] d.out0 = "DATA_OUT" -> DataOutDone(d, bytes)
      [] OTHER -> StallControlEndpoint([d EXCEPT !.out0 = "UNKNOWN"])

DataInDone(d) ==
    IF d.write_remain # <<>> THEN DevWriteEP0Data(d, d.write_remain, 0, FALSE)
    ELSE IF d.need_write_zlp
    THEN WriteZLP(ArmStatusOutIfNeeded([d EXCEPT !.need_write_zlp = FALSE]), "ZLP")
    ELSE IF d.class_req.write
    THEN LET d1 == OnClassData([d EXCEPT !.class_req.write = FALSE], <<>>)
         IN  IF d.class_req.status THEN d1 ELSE ResetClassRequestState(d1)
    ELSE d

OnEP0InComplete(d) ==
    LET d1 == [d EXCEPT !.in0 = "UNKNOWN"]
    IN  CASE d.in0 = "ZLP" -> d1
          [] d.in0 = "STATUS_IN_COMPLETE" ->
                IF d.pending_addr # 0
                THEN [d1 EXCEPT !.address = d.pending_addr, !.pending_addr = 0] ELSE d1
          [] d.in0 = "DATA_IN" -> DataInDone(d1)
          [] OTHER -> StallControlEndpoint(d1)

Begin(d, t, r) == [d EXCEPT !.class_req = [write |-> r.dir = "in", read |-> r.dir = "out",
                                           status |-> r.dir = "in" /\ r.by = "class", of |-> t]]

Refused(r) ==
    \/ r.by = "nobody"
    \/ r.dir = "in" /\ r.by # "device" /\ r.asks = 0
    \/ r.dir = "out" /\ (r.asks = 0 \/ r.len < r.asks)

ProcessRequest(d, t, r) ==
    CASE Refused(r) -> StallControlEndpoint(d)
      [] r.by = "address" -> WriteZLP([d EXCEPT !.pending_addr = t], "STATUS_IN_COMPLETE")
      [] r.by \in {"device", "class", "vendor"} /\ r.dir = "none" -> WriteZLP(d, "ZLP")
      [] r.by = "device" /\ r.dir = "in" -> DevWriteEP0Data(d, Data(t, r.len), r.asks, r.early)
      [] r.by \in {"class", "vendor"} /\ r.dir = "in" /\ ~Refused(r) ->
            DevWriteEP0Data(Begin(d, t, r), Data(t, r.len), r.asks, FALSE)
      [] r.dir = "out" /\ ~Refused(r) ->
            DevReadEP0Data([Begin(d, t, r) EXCEPT !.data = <<>>], r.len)

\* The driver has made both endpoints idle before it passes the packet on.
OnSetupPacket(d, t, r) ==
    ProcessRequest([ResetClassRequestState(d) EXCEPT !.epIn = "IDLE", !.offer = <<>>,
                                                     !.epOut = "IDLE", !.room = <<>>], t, r)

----------------------------------------------------------------------------
(* The bus.                                                                   *)

Init ==
    /\ reports \in BOOLEAN
    /\ dev = Device /\ events = <<>> /\ host = [stage |-> "idle", got |-> <<>>, sent |-> 0]
    /\ asked = <<>> /\ ended = <<>> /\ aborts = 0 /\ spoilt = {}

now == Len(asked)
request == asked[now]
Heard == \A i \in DOMAIN events : events[i].of # "setup"  \* the device knows of the transfer

Raise(event, t, bytes) == events' = Append(events, [of |-> event, t |-> t, bytes |-> bytes])
End(how) == ended' = [ended EXCEPT ![now] = how]

FirstStage(r) ==
    CASE r.asks = 0 -> "status in"
      [] r.dir = "in" /\ r.asks > 0 -> "data in"
      [] r.dir = "out" /\ r.asks > 0 -> "data out"

\* After SET_ADDRESS a host waits, so that the address can take effect.
Settled == now > 0 /\ request.by = "address" /\ ended[now] = "ok" => events = <<>>

\* The device has to take a SETUP packet whatever it is doing.
Setup(r) ==
    /\ now < MaxTransfers /\ Heard
    /\ Settled
    /\ IF host.stage = "idle" THEN UNCHANGED aborts
       ELSE aborts < MaxAborts /\ aborts' = aborts + 1
    /\ asked' = Append(asked, r)
    /\ ended' = Append([t \in DOMAIN ended |-> IF ended[t] = "open" THEN "aborted" ELSE ended[t]],
                       "open")
    /\ host' = [stage |-> FirstStage(r), got |-> <<>>, sent |-> 0]
    /\ dev' = [dev EXCEPT !.offer = <<>>, !.room = <<>>]
    /\ Raise("setup", now + 1, <<>>)
    /\ UNCHANGED <<reports, spoilt>>

TakeIn ==
    /\ host.stage = "data in" /\ Heard /\ dev.offer # <<>>
    /\ LET packet == dev.offer[1]
           got == host.got \o packet
       IN  host' = [host EXCEPT !.got = got,
                                !.stage = IF Len(packet) < MPS \/ Len(got) >= request.asks
                                          THEN "status out" ELSE @]
    /\ dev' = [dev EXCEPT !.offer = <<>>]
    /\ Raise("in", now, <<>>)
    /\ UNCHANGED <<reports, asked, ended, aborts, spoilt>>

\* The status stage, which a host may enter before it has all of the data.
StatusOut ==
    /\ host.stage \in {"data in", "status out"} /\ Heard /\ dev.room # <<>>
    /\ IF host.stage = "data in"
       THEN aborts < MaxAborts /\ aborts' = aborts + 1 /\ End("cut")
       ELSE End("ok") /\ UNCHANGED aborts
    /\ host' = [host EXCEPT !.stage = "idle"]
    /\ dev' = [dev EXCEPT !.room = <<>>]
    /\ Raise("out", now, <<>>)
    /\ UNCHANGED <<reports, asked, spoilt>>

SendOut ==
    /\ host.stage = "data out" /\ Heard /\ dev.room # <<>>
    /\ LET sent == IF host.sent + MPS < request.asks THEN host.sent + MPS ELSE request.asks
       IN  /\ host' = [host EXCEPT !.sent = sent,
                                   !.stage = IF sent = request.asks THEN "status in" ELSE @]
           /\ Raise("out", now, Rest(Data(now, sent), host.sent))
    /\ dev' = [dev EXCEPT !.room = <<>>]
    /\ UNCHANGED <<reports, asked, ended, aborts, spoilt>>

\* Data is not what the host expects in a status stage.
StatusIn ==
    /\ host.stage = "status in" /\ Heard /\ dev.offer # <<>>
    /\ host' = [host EXCEPT !.stage = "idle"]
    /\ End(IF dev.offer[1] = <<>> THEN "ok" ELSE "broken")
    /\ dev' = [dev EXCEPT !.offer = <<>>]
    /\ Raise("in", now, <<>>)
    /\ UNCHANGED <<reports, asked, aborts, spoilt>>

Stalled ==
    IF host.stage \in {"data in", "status in"} THEN dev.epIn = "STALLED" ELSE dev.epOut = "STALLED"

SeeStall ==
    /\ host.stage # "idle" /\ Heard /\ Stalled
    /\ host' = [host EXCEPT !.stage = "idle"] /\ End("stalled")
    /\ UNCHANGED <<reports, dev, events, asked, aborts, spoilt>>

\* Deinit() and Init().
BusReset ==
    /\ aborts < MaxAborts /\ aborts' = aborts + 1
    /\ events = <<>>
    /\ dev' = [Device EXCEPT !.calls = dev.calls]
    /\ host' = [host EXCEPT !.stage = "idle"]
    /\ ended' = [t \in DOMAIN ended |-> "aborted"]
    /\ UNCHANGED <<reports, events, asked, spoilt>>

----------------------------------------------------------------------------
(* The interrupts.                                                            *)

Handler(event) ==
    CASE event.of = "setup" -> OnSetupPacket(dev, now, request)
      [] event.of = "in" ->
            IF dev.epIn = "BUSY" THEN OnEP0InComplete([dev EXCEPT !.epIn = "IDLE"]) ELSE dev
      [] event.of = "out" ->
            IF dev.epOut = "BUSY" THEN OnEP0OutComplete([dev EXCEPT !.epOut = "IDLE"], event.bytes)
            ELSE dev

EndsWithZLP(r) == r.asks > r.len /\ r.len % MPS = 0
Inherits ==
    /\ dev.write_remain # <<>> /\ request.dir = "in" /\ ~Refused(request)
    /\ dev.status_out_armed \/ dev.need_write_zlp # EndsWithZLP(request)

Spoils(i) ==
    (IF i > 1 THEN {<<events[i].t, "class">>} ELSE {})
    \cup (IF i > 1 /\ events[i].of = "setup"
          THEN {<<now, "host">>} ELSE {})
    \cup (IF events[i].of = "setup" /\ Inherits THEN {<<now, "host">>, <<now, "class">>} ELSE {})

\* The interrupt handler of the ESP32 looks at OUT endpoints first.
Interrupt(i) ==
    /\ \/ i = 1
       \/ events[i].of # "in" /\ \A j \in 1..(i - 1) : events[j].of = "in"
    /\ dev' = Handler(events[i])
    /\ events' = RemoveAt(events, i)
    /\ spoilt' = spoilt \cup Spoils(i)
    /\ UNCHANGED <<reports, host, asked, ended, aborts>>

Next ==
    \/ \E r \in Requests : Setup(r)
    \/ TakeIn \/ StatusOut \/ SendOut \/ StatusIn \/ SeeStall \/ BusReset
    \/ \E i \in DOMAIN events : Interrupt(i)

Spec == Init /\ [][Next]_vars

----------------------------------------------------------------------------
(* Properties.                                                                *)

ControlTypeOK ==
    /\ reports \in BOOLEAN /\ aborts \in 0..MaxAborts
    /\ dev.in0 \in {"UNKNOWN", "ZLP", "STATUS_IN_COMPLETE", "DATA_IN"}
    /\ dev.out0 \in {"UNKNOWN", "ZLP", "DATA_OUT"}
    /\ {dev.epIn, dev.epOut} \subseteq {"IDLE", "BUSY", "STALLED"}
    /\ {dev.pending_addr, dev.address, dev.class_req.of} \subseteq 0..MaxTransfers
    /\ host.stage \in {"idle", "data in", "status out", "data out", "status in"}
    /\ asked \in Seq(Requests) /\ now <= MaxTransfers
    /\ ended \in Seq({"open", "ok", "cut", "stalled", "broken", "aborted"})
    /\ spoilt \subseteq (1..MaxTransfers) \X {"host", "class"}

\* Two requests DeviceCore answers with more data, or a wait for more, than the
\* host has in mind: wLength zero means no limit to it, and it waits until the
\* buffer of the class is full although the host sends wLength bytes.
Servable(r) ==
    /\ r.dir = "in" => r.asks > 0
    /\ r.dir = "out" /\ ~Refused(r) => (r.len - 1) \div MPS = (r.asks - 1) \div MPS

Wanted(t) == First(Data(t, asked[t].len), asked[t].asks)

\* The packet the host waits for is there.
Offered ==
    CASE host.stage \in {"data in", "status in"} -> dev.offer # <<>> \/ Stalled
      [] host.stage \in {"data out", "status out"} -> dev.room # <<>> \/ Stalled
      [] host.stage = "idle" -> TRUE

\* The host gets the data it asked for, with an end it recognises, and is never
\* left waiting when there is no interrupt to serve; it sees a STALL where the
\* request is refused and nowhere else.
HostServed ==
    now > 0 /\ <<now, "host">> \notin spoilt /\ Servable(request) =>
        /\ IsPrefix(host.got, Wanted(now))
        /\ host.stage = "status out" => host.got = Wanted(now)
        /\ events = <<>> => Offered
        /\ ended[now] # "broken"
        /\ Refused(request) => ended[now] \in {"open", "aborted", "stalled"}
        /\ ~Refused(request) => ended[now] # "stalled"

\* The calls a class has a right to when a transfer has ended.  Of data that ends
\* with a zero-length packet it hears nothing but the status.
Due(r) ==
    IF r.dir = "out" THEN <<"data">>
    ELSE (IF EndsWithZLP(r) THEN <<>> ELSE <<"data">>)
         \o (IF r.by = "class" /\ reports THEN <<"status">> ELSE <<>>)
CallsOf(t) == SelectSeq(dev.calls, LAMBDA c : c.t = t)
Kinds(calls) == [k \in DOMAIN calls |-> calls[k].what]

\* A class is told once, in order and with all of the data, and of no transfer
\* that is not its own.
ClassTold ==
    \A t \in DOMAIN asked : <<t, "class">> \notin spoilt =>
        LET r == asked[t]
            due == IF r.dir = "none" \/ r.by \notin {"class", "vendor"} THEN <<>> ELSE Due(r)
        IN  /\ IsPrefix(Kinds(CallsOf(t)), due)
            /\ events = <<>> /\ ended[t] = "ok" => Kinds(CallsOf(t)) = due
            /\ r.dir = "out" /\ CallsOf(t) # <<>> => CallsOf(t)[1].data = Data(t, r.asks)

\* The address changes when the status stage of SET_ADDRESS is over, not before.
AddressSet ==
    /\ dev.address # 0 /\ <<dev.address, "host">> \notin spoilt => ended[dev.address] = "ok"
    /\ events = <<>> =>
        \A t \in DOMAIN asked :
            asked[t].by = "address" /\ ended[t] = "ok" /\ <<t, "host">> \notin spoilt
                => dev.address >= t

\* Control transfers end as host and class expect, whatever transfer the host
\* gives up, but those that an earlier transfer or a late interrupt reaches.
TransfersEnd == ControlTypeOK /\ HostServed /\ ClassTold /\ AddressSet
============================================================================
