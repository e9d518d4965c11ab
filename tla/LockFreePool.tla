---------------------------- MODULE LockFreePool ----------------------------
(***************************************************************************)
(* LockFreePool: slots that any context may put into and get from.  Put    *)
(* and Get scan from the first slot; whoever moves a slot to BUSY owns it. *)
(* A load and the compare-and-swap that follows it are one step: a slot    *)
(* that is lost to another context in between is as good as BUSY when the  *)
(* scan passes it.                                                         *)
(***************************************************************************)
EXTENDS Integers

CONSTANTS PoolSize, None

VARIABLE slots  \* slots_: state and data

Indices == 1..PoolSize
SlotStates == {"FREE", "BUSY", "READY", "RECYCLE"}

PoolInit == slots = [i \in Indices |-> [state |-> "FREE", data |-> None]]

WritableUnlessBusy(i) == slots[i].state # "BUSY"  \* mutant: a stored frame may be replaced
Writable(i) == slots[i].state \in {"FREE", "RECYCLE"}
Readable(i) == slots[i].state = "READY"
NeverUsed(i) == slots[i].state = "FREE"

Claim(i) == slots' = [slots EXCEPT ![i].state = "BUSY"]
Store(i, m) == slots' = [slots EXCEPT ![i] = [state |-> "READY", data |-> m]]
Recycle(i) == slots' = [slots EXCEPT ![i].state = "RECYCLE"]
=============================================================================
