--------------------------- MODULE AsyncBlockWait ---------------------------
(***************************************************************************)
(* AsyncBlockWait, as the SPI and I2C drivers use it: a caller arms it,    *)
(* starts the hardware and waits; the completion interrupt releases the    *)
(* driver and hands the result over; a caller that times out detaches, and *)
(* may call again as soon as the driver is released.                       *)
(*                                                                         *)
(* The caller and the interrupt interleave as on two cores; on one core    *)
(* the interrupt's steps are not interrupted, and early stays FALSE.       *)
(***************************************************************************)
EXTENDS Integers

CONSTANT MaxOps  \* bound: operations that are ever started

BlockAssumption == MaxOps \in Nat

VARIABLES
    state, result, sem,  \* state_, the operation result_ is of, the semaphore's count
    hardware,            \* the operation the hardware is at, 0: none
    caller, isr,         \* their places and operations
    ops,                 \* operations started
    early                \* one was started while the interrupt was handing another over

vars == <<state, result, sem, hardware, caller, isr, ops, early>>

Ops == 0..MaxOps

TypeOK ==
    /\ state \in {"IDLE", "PENDING", "CLAIMED", "DETACHED"}
    /\ result \in Ops /\ sem \in 0..MaxOps /\ hardware \in Ops /\ ops \in Ops /\ early \in BOOLEAN
    /\ caller \in [pc : {"idle", "begin", "wait", "detach", "late", "finish", "timedout"}, op : Ops]
    /\ isr \in [pc : {"idle", "claim", "result", "post"}, op : Ops]

Init ==
    /\ state = "IDLE" /\ result = 0 /\ sem = 0 /\ hardware = 0 /\ ops = 0 /\ early = FALSE
    /\ caller = [pc |-> "idle", op |-> 0] /\ isr = caller

Goto(p) == caller' = [caller EXCEPT !.pc = p]
Return == caller' = [pc |-> "idle", op |-> 0]

----------------------------------------------------------------------------
(* The caller.                                                                *)

\* The driver is free: Start().
Start ==
    /\ caller.pc = "idle" /\ hardware = 0 /\ ops < MaxOps /\ ops' = ops + 1
    /\ caller' = [pc |-> "begin", op |-> ops + 1]
    /\ result' = 0 /\ state' = "PENDING" /\ early' = (early \/ isr.pc # "idle")
    /\ UNCHANGED <<sem, hardware, isr>>

\* The hardware starts, or it refuses: Cancel().
Begin ==
    /\ caller.pc = "begin"
    /\ \/ hardware' = caller.op /\ Goto("wait") /\ UNCHANGED state
       \/ state' = "IDLE" /\ Return /\ UNCHANGED hardware
    /\ UNCHANGED <<result, sem, isr, ops, early>>

\* Wait(): the semaphore, at first with a timeout.
Woken ==
    /\ caller.pc \in {"wait", "late"} /\ sem > 0 /\ sem' = sem - 1 /\ Goto("finish")
    /\ UNCHANGED <<state, result, hardware, isr, ops, early>>

Timeout ==
    /\ caller.pc = "wait" /\ Goto("detach")
    /\ UNCHANGED <<state, result, sem, hardware, isr, ops, early>>

Detach ==
    /\ caller.pc = "detach"
    /\ state' = CASE state = "PENDING" -> "DETACHED"
                  [] state = "DETACHED" -> "IDLE"
                  [] OTHER -> state
    /\ Goto(IF state = "CLAIMED" THEN "late" ELSE "timedout")
    /\ UNCHANGED <<result, sem, hardware, isr, ops, early>>

\* TIMEOUT is returned; the STM32 I2C driver aborts the transfer first.
TimedOut ==
    /\ caller.pc = "timedout" /\ Return
    /\ hardware' = hardware \/ (isr.pc = "idle" /\ hardware' = 0)
    /\ UNCHANGED <<state, result, sem, isr, ops, early>>

Finish ==
    /\ caller.pc = "finish" /\ state' = "IDLE" /\ Return
    /\ UNCHANGED <<result, sem, hardware, isr, ops, early>>

----------------------------------------------------------------------------
(* The completion interrupt: it releases the driver, then TryPost().          *)

Complete ==
    /\ hardware # 0 /\ isr.pc = "idle"
    /\ isr' = [pc |-> "claim", op |-> hardware] /\ hardware' = 0
    /\ UNCHANGED <<state, result, sem, caller, ops, early>>

ClaimAny == state # "IDLE"  \* mutant: a detached wait is claimed
Claimable == state = "PENDING"

Claim ==
    /\ isr.pc = "claim"
    /\ IF Claimable THEN state' = "CLAIMED" /\ isr' = [isr EXCEPT !.pc = "result"]
       ELSE /\ state' = IF state = "DETACHED" THEN "IDLE" ELSE state
            /\ isr' = [pc |-> "idle", op |-> 0]
    /\ UNCHANGED <<result, sem, hardware, caller, ops, early>>

SetResult ==
    /\ isr.pc = "result" /\ result' = isr.op /\ isr' = [isr EXCEPT !.pc = "post"]
    /\ UNCHANGED <<state, sem, hardware, caller, ops, early>>

Post ==
    /\ isr.pc = "post" /\ sem' = sem + 1 /\ isr' = [pc |-> "idle", op |-> 0]
    /\ UNCHANGED <<state, result, hardware, caller, ops, early>>

----------------------------------------------------------------------------
Next ==
    \/ Start \/ Begin \/ Woken \/ Timeout \/ Detach \/ TimedOut \/ Finish
    \/ Complete \/ Claim \/ SetResult \/ Post

Spec == Init /\ [][Next]_vars

----------------------------------------------------------------------------
(* Properties.                                                                *)

\* A wait that ends with a result ends with its own operation's, and leaves no
\* token for the next wait to end with; only a call that begins after the
\* driver is released and before the late completion is handed over can be
\* given another's.
OwnResult ==
    ~early =>
        /\ caller.pc = "finish" => state = "CLAIMED" /\ result = caller.op
        /\ caller.pc = "idle" => sem = 0 /\ state \in {"IDLE", "DETACHED"}
        /\ isr.pc \in {"result", "post"} => caller.op = isr.op
=============================================================================
