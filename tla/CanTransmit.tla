---------------------------- MODULE CanTransmit ----------------------------
(***************************************************************************)
(* The transmit path of the STM32 and CH32 CAN drivers: any thread or      *)
(* interrupt puts a frame into the pool and calls TxService(), of which    *)
(* one context at a time moves frames from the pool to the mailboxes of    *)
(* the controller, for itself and for whoever found tx_lock_ taken.  The   *)
(* STM32 driver looks for an empty mailbox first; the CH32 driver takes a  *)
(* frame and puts it back when no mailbox is empty.                        *)
(*                                                                         *)
(* Contexts interleave freely, which covers nesting interrupts.            *)
(***************************************************************************)
EXTENDS LockFreePool, FiniteSets

CONSTANTS
    Callers, Isr,   \* contexts that call AddMessage, and the transmit interrupt
    Mailboxes,      \* how many mailboxes the controller has
    MaxMessages     \* bound: frames that are ever offered

Contexts == Callers \cup {Isr}
Messages == 1..MaxMessages

CanAssumption ==
    /\ PoolSize \in Nat \ {0} /\ Mailboxes \in Nat \ {0} /\ MaxMessages \in Nat
    /\ Isr \notin Callers /\ None \notin Messages

VARIABLES
    looks,             \* the driver looks for an empty mailbox first (STM32)
    tx_pend, tx_lock,
    ctx,               \* each context: its place, the slot it is at, its frame
    mailboxes,         \* frames in the controller
    irq,               \* a transmit interrupt is pending
    offered,           \* frames offered to AddMessage so far
    sent, rejected,    \* frames on the bus; frames AddMessage refused
    dropped            \* accepted frames that did not go back into the pool

vars == <<slots, looks, tx_pend, tx_lock, ctx, mailboxes, irq, offered, sent, rejected, dropped>>
flags == <<looks, tx_pend, tx_lock>>
outside == <<mailboxes, irq, sent>>
fates == <<rejected, dropped>>

Idle == [pc |-> "idle", i |-> 1, msg |-> None]

TypeOK ==
    /\ slots \in [Indices -> [state : SlotStates, data : Messages \cup {None}]]
    /\ looks \in BOOLEAN /\ tx_pend \in BOOLEAN /\ tx_lock \in BOOLEAN /\ irq \in BOOLEAN
    /\ ctx \in [Contexts -> [pc : {"idle", "put", "fill", "kick", "lock", "serve", "look", "get",
                                   "take", "send", "back", "refill", "unlock", "recheck"},
                             i : 1..(PoolSize + 1), msg : Messages \cup {None}]]
    /\ mailboxes \subseteq Messages /\ Cardinality(mailboxes) <= Mailboxes
    /\ offered \in 0..MaxMessages
    /\ sent \subseteq Messages /\ rejected \subseteq Messages /\ dropped \subseteq Messages

Init ==
    /\ PoolInit /\ looks \in BOOLEAN /\ tx_pend = FALSE /\ tx_lock = FALSE
    /\ ctx = [c \in Contexts |-> Idle] /\ mailboxes = {} /\ irq = FALSE /\ offered = 0
    /\ sent = {} /\ rejected = {} /\ dropped = {}

At(c, p) == ctx[c].pc = p
Goto(c, p) == ctx' = [ctx EXCEPT ![c].pc = p]
Scan(c, p) == ctx' = [ctx EXCEPT ![c].pc = p, ![c].i = 1]
NextSlot(c) == ctx' = [ctx EXCEPT ![c].i = @ + 1]
AtEnd(c) == ctx[c].i > PoolSize
Empty == Cardinality(mailboxes) < Mailboxes

----------------------------------------------------------------------------
(* AddMessage, and LockFreePool::Put.                                         *)

AddMessage(c) ==
    /\ At(c, "idle") /\ offered < MaxMessages /\ offered' = offered + 1
    /\ ctx' = [ctx EXCEPT ![c] = [pc |-> "put", i |-> 1, msg |-> offered + 1]]
    /\ UNCHANGED <<slots, flags, outside, fates>>

\* One slot of a scan: for the caller's frame, or for one the service puts back.
Put(c) ==
    /\ ctx[c].pc \in {"put", "back"} /\ ~AtEnd(c)
    /\ IF Writable(ctx[c].i)
       THEN Claim(ctx[c].i) /\ Goto(c, IF At(c, "put") THEN "fill" ELSE "refill")
       ELSE NextSlot(c) /\ UNCHANGED slots
    /\ UNCHANGED <<flags, outside, offered, fates>>

PutFull(c) ==
    /\ AtEnd(c)
    /\ \/ /\ At(c, "put") /\ ctx' = [ctx EXCEPT ![c] = Idle]
          /\ rejected' = rejected \cup {ctx[c].msg} /\ UNCHANGED dropped
       \/ /\ At(c, "back") /\ ctx' = [ctx EXCEPT ![c] = [Idle EXCEPT !.pc = "unlock"]]
          /\ dropped' = dropped \cup {ctx[c].msg} /\ UNCHANGED rejected
    /\ UNCHANGED <<slots, flags, outside, offered>>

PutDone(c) ==
    /\ ctx[c].pc \in {"fill", "refill"} /\ Store(ctx[c].i, ctx[c].msg)
    /\ ctx' = [ctx EXCEPT ![c] = [Idle EXCEPT !.pc = IF At(c, "fill") THEN "kick" ELSE "unlock"]]
    /\ UNCHANGED <<flags, outside, offered, fates>>

----------------------------------------------------------------------------
(* TxService.                                                                 *)

Kick(c) ==
    /\ At(c, "kick") /\ tx_pend' = TRUE /\ Goto(c, "lock")
    /\ UNCHANGED <<slots, looks, tx_lock, outside, offered, fates>>

TakeLock(c) ==
    /\ At(c, "lock")
    /\ IF ~tx_lock THEN tx_lock' = TRUE /\ Goto(c, "serve")
       ELSE ctx' = [ctx EXCEPT ![c] = Idle] /\ UNCHANGED tx_lock
    /\ UNCHANGED <<slots, looks, tx_pend, outside, offered, fates>>

NextFrame(c) == Scan(c, IF looks THEN "look" ELSE "get")

Serve(c) ==
    /\ At(c, "serve") /\ tx_pend' = FALSE /\ NextFrame(c)
    /\ UNCHANGED <<slots, looks, tx_lock, outside, offered, fates>>

Look(c) ==
    /\ At(c, "look") /\ Goto(c, IF Empty THEN "get" ELSE "unlock")
    /\ UNCHANGED <<slots, flags, outside, offered, fates>>

\* One slot of LockFreePool::Get.
Get(c) ==
    /\ At(c, "get")
    /\ IF AtEnd(c) \/ (Indices \cap {ctx[c].i} # {} /\ NeverUsed(ctx[c].i))
       THEN Scan(c, "unlock") /\ UNCHANGED slots
       ELSE IF Readable(ctx[c].i) THEN Claim(ctx[c].i) /\ Goto(c, "take")
       ELSE NextSlot(c) /\ UNCHANGED slots
    /\ UNCHANGED <<flags, outside, offered, fates>>

Take(c) ==
    /\ At(c, "take") /\ Recycle(ctx[c].i)
    /\ ctx' = [ctx EXCEPT ![c] = [pc |-> "send", i |-> 1, msg |-> slots[ctx[c].i].data]]
    /\ UNCHANGED <<flags, outside, offered, fates>>

\* HAL_CAN_AddTxMessage, CAN_Transmit: they fail when no mailbox is empty.
Send(c) ==
    /\ At(c, "send")
    /\ IF Empty
       THEN /\ mailboxes' = mailboxes \cup {ctx[c].msg}
            /\ ctx' = [ctx EXCEPT ![c] = [Idle EXCEPT !.pc = IF looks THEN "look" ELSE "get"]]
       ELSE Goto(c, "back") /\ UNCHANGED mailboxes
    /\ UNCHANGED <<slots, flags, irq, sent, offered, fates>>

Unlock(c) ==
    /\ At(c, "unlock") /\ tx_lock' = FALSE /\ Goto(c, "recheck")
    /\ UNCHANGED <<slots, looks, tx_pend, outside, offered, fates>>

NoneWaits == TRUE  \* mutant: a request that came while it served is left behind
NonePends == ~tx_pend

Recheck(c) ==
    /\ At(c, "recheck")
    /\ ctx' = [ctx EXCEPT ![c] = IF NonePends THEN Idle ELSE [Idle EXCEPT !.pc = "lock"]]
    /\ UNCHANGED <<slots, flags, outside, offered, fates>>

----------------------------------------------------------------------------
(* The controller sends a frame and raises its interrupt.                     *)

Transmit ==
    /\ \E m \in mailboxes : mailboxes' = mailboxes \ {m} /\ sent' = sent \cup {m}
    /\ irq' = TRUE
    /\ UNCHANGED <<slots, flags, ctx, offered, fates>>

Interrupt ==
    /\ irq /\ At(Isr, "idle") /\ irq' = FALSE /\ Goto(Isr, "kick")
    /\ UNCHANGED <<slots, flags, mailboxes, sent, offered, fates>>

----------------------------------------------------------------------------
Running(c) ==
    \/ Put(c) \/ PutFull(c) \/ PutDone(c) \/ Kick(c) \/ TakeLock(c) \/ Serve(c) \/ Look(c)
    \/ Get(c) \/ Take(c) \/ Send(c) \/ Unlock(c) \/ Recheck(c)

Step == Transmit \/ Interrupt \/ \E c \in Contexts : Running(c)
Next == Step \/ \E c \in Callers : AddMessage(c)

Spec == Init /\ [][Next]_vars
\* Contexts run, and the controller gets its frames onto the bus.
Fairness ==
    /\ WF_vars(Transmit) /\ WF_vars(Interrupt)
    /\ \A c \in Contexts : WF_vars(Running(c))
FairSpec == Spec /\ Fairness

----------------------------------------------------------------------------
(* Properties.                                                                *)

One(b) == IF b THEN 1 ELSE 0
Slot(c) == slots[ctx[c].i]

\* A frame offered to AddMessage is in one place: a slot, the hand of one
\* context, a mailbox, the bus, or refused.  What was accepted is dropped only
\* by the driver that does not look for a mailbox first: it gives the frame's
\* slot away before it knows whether it needs it again.
FramesAccounted ==
    /\ \A m \in 1..offered :
          Cardinality({i \in Indices : Readable(i) /\ slots[i].data = m})
          + Cardinality({c \in Contexts : ctx[c].msg = m})
          + Cardinality({c \in Contexts : At(c, "take") /\ Slot(c).data = m})
          + One(m \in mailboxes) + One(m \in sent) + One(m \in rejected) + One(m \in dropped) = 1
    /\ looks => dropped = {}

\* Frames in the pool get to the controller without another call: whoever
\* finds the lock taken leaves its request to the one that holds it.
PoolDrains == (\E i \in Indices : Readable(i)) ~> (\A i \in Indices : ~Readable(i))
=============================================================================
