---------------------------- MODULE DriverProofs ----------------------------
(***************************************************************************)
(* Proofs about three data paths of the drivers: CanTransmit and its       *)
(* LockFreePool, for any pool, number of mailboxes and contexts;           *)
(* CdcReceive, for any queue and packets; and CdcTransmit, for any writes, *)
(* packet size and bus resets.                                             *)
(***************************************************************************)
EXTENDS CanTransmit, FiniteSetTheorems, SequenceTheorems, TLAPS

CONSTANTS Cap, MPS, Packets, Reads, MaxBytes
VARIABLES made, bound, armed, recv_pause, pending_data, queue, busy, pc, want, tail, batch, got,
          rraced

CdcIn == INSTANCE CdcReceive WITH raced <- rraced

----------------------------------------------------------------------------
(* CanTransmit: the inductive invariant.                                      *)

Claimers == {"fill", "refill", "take"}
Carriers == {"put", "fill", "send", "back", "refill"}
Holders == {"serve", "look", "get", "take", "send", "back", "refill", "unlock"}

\* A context has a frame in hand from AddMessage, or from the pool, until the
\* frame is stored, sent, refused or dropped.
HandsOk ==
    \A c \in Contexts :
        ctx[c].msg # None <=> ctx[c].pc \in Carriers

\* Whoever moves a slot to BUSY has it for itself, and what Get claims is a frame.
ClaimsOk ==
    /\ \A c \in Contexts : ctx[c].pc \in Claimers =>
          ctx[c].i \in Indices /\ slots[ctx[c].i].state = "BUSY"
    /\ \A c, d \in Contexts :
          ctx[c].pc \in Claimers /\ ctx[d].pc \in Claimers /\ ctx[c].i = ctx[d].i => c = d
    /\ \A i \in Indices : Readable(i) => slots[i].data # None
    /\ \A c \in Contexts : At(c, "take") => slots[ctx[c].i].data # None

\* One context at a time serves the pool.
OneHolder ==
    /\ \A c \in Contexts : ctx[c].pc \in Holders => tx_lock
    /\ \A c, d \in Contexts : ctx[c].pc \in Holders /\ ctx[d].pc \in Holders => c = d

\* The driver that looks first finds its mailbox still empty when it sends.
LookedFirst ==
    looks =>
        /\ \A c \in Contexts : ctx[c].pc \in {"get", "take", "send"} => Empty
        /\ \A c \in Contexts : ctx[c].pc \notin {"back", "refill"}
        /\ dropped = {}

\* Where a frame can be: in a slot, in a hand, in a slot Get has claimed, or out
\* of the pool.
SlotsOf(m) == {i \in Indices : Readable(i) /\ slots[i].data = m}
HandsOf(m) == {c \in Contexts : ctx[c].msg = m}
TakesOf(m) == {c \in Contexts : At(c, "take") /\ Slot(c).data = m}
OutsOf(m) ==
    {o \in {"mailboxes", "sent", "rejected", "dropped"} :
        \/ o = "mailboxes" /\ m \in mailboxes
        \/ o = "sent" /\ m \in sent
        \/ o = "rejected" /\ m \in rejected
        \/ o = "dropped" /\ m \in dropped}

Nowhere(m) == SlotsOf(m) = {} /\ HandsOf(m) = {} /\ TakesOf(m) = {} /\ OutsOf(m) = {}
InSlot(m) ==
    (\E i \in Indices : SlotsOf(m) = {i}) /\ HandsOf(m) = {} /\ TakesOf(m) = {} /\ OutsOf(m) = {}
InHand(m) ==
    SlotsOf(m) = {} /\ (\E c \in Contexts : HandsOf(m) = {c}) /\ TakesOf(m) = {} /\ OutsOf(m) = {}
InTake(m) ==
    SlotsOf(m) = {} /\ HandsOf(m) = {} /\ (\E c \in Contexts : TakesOf(m) = {c}) /\ OutsOf(m) = {}
IsOut(m) ==
    /\ SlotsOf(m) = {} /\ HandsOf(m) = {} /\ TakesOf(m) = {}
    /\ \E o \in {"mailboxes", "sent", "rejected", "dropped"} : OutsOf(m) = {o}

OnePlace ==
    \A m \in Messages :
        IF m <= offered THEN InSlot(m) \/ InHand(m) \/ InTake(m) \/ IsOut(m) ELSE Nowhere(m)

IInv == TypeOK /\ HandsOk /\ ClaimsOk /\ OneHolder /\ LookedFirst /\ OnePlace

----------------------------------------------------------------------------
(* Initially.                                                                 *)

LEMMA InvInit == CanAssumption /\ Init => IInv
<1> SUFFICES ASSUME CanAssumption, Init PROVE IInv
  OBVIOUS
<1> USE DEF CanAssumption, Init, PoolInit, Idle
<1>1. TypeOK
  <2>1. slots \in [Indices -> [state : SlotStates, data : Messages \cup {None}]]
    BY DEF SlotStates
  <2>2. 1 \in 1..(PoolSize + 1) /\ 0 \in 0..MaxMessages
    OBVIOUS
  <2>3. ctx \in [Contexts -> [pc : {"idle", "put", "fill", "kick", "lock", "serve", "look", "get",
                   "take", "send", "back", "refill", "unlock", "recheck"},
                              i : 1..(PoolSize + 1), msg : Messages \cup {None}]]
    BY <2>2
  <2>4. mailboxes \subseteq Messages /\ Cardinality(mailboxes) <= Mailboxes
    BY FS_EmptySet
  <2>. QED BY <2>1, <2>2, <2>3, <2>4 DEF TypeOK
<1>2. HandsOk /\ OneHolder /\ LookedFirst
  BY DEF HandsOk, Carriers, OneHolder, Holders, LookedFirst
<1>3. ClaimsOk
  BY DEF ClaimsOk, Claimers, Readable, At
<1>4. ASSUME NEW m \in Messages PROVE Nowhere(m) /\ ~(m <= offered)
  BY <1>4 DEF Messages, Nowhere, SlotsOf, HandsOf, TakesOf, OutsOf, Readable, At
<1>. QED BY <1>1, <1>2, <1>3, <1>4 DEF IInv, OnePlace

----------------------------------------------------------------------------
(* The mailboxes.                                                             *)

LEMMA MailboxesFinite ==
    ASSUME CanAssumption, TypeOK
    PROVE  IsFiniteSet(mailboxes) /\ Cardinality(mailboxes) \in Nat
<1>1. IsFiniteSet(Messages)
  BY FS_Interval DEF CanAssumption, Messages
<1>2. mailboxes \in SUBSET Messages
  BY DEF TypeOK
<1>. QED BY <1>1, <1>2, FS_Subset, FS_CardinalityType

\* There is room for a frame in an empty mailbox.
LEMMA Posted ==
    ASSUME CanAssumption, TypeOK, Empty, NEW m \in Messages, mailboxes' = mailboxes \cup {m}
    PROVE  mailboxes' \subseteq Messages /\ Cardinality(mailboxes') <= Mailboxes
<1>1. mailboxes' \subseteq Messages
  BY DEF TypeOK
<1>2. IsFiniteSet(mailboxes') /\ Cardinality(mailboxes') <= Cardinality(mailboxes) + 1
  BY MailboxesFinite, FS_AddElement
<1>3. Cardinality(mailboxes') \in Nat
  BY <1>2, FS_CardinalityType
<1>. QED BY <1>1, <1>2, <1>3, MailboxesFinite DEF CanAssumption, Empty

\* A transmission empties a mailbox.
LEMMA Emptied ==
    ASSUME CanAssumption, TypeOK, NEW m \in mailboxes, mailboxes' = mailboxes \ {m}
    PROVE  mailboxes' \subseteq Messages /\ Cardinality(mailboxes') <= Mailboxes /\ Empty'
<1>1. mailboxes' \subseteq Messages
  BY DEF TypeOK
<1>2. Cardinality(mailboxes') = Cardinality(mailboxes) - 1
  BY MailboxesFinite, FS_RemoveElement
<1>. QED BY <1>1, <1>2, MailboxesFinite DEF CanAssumption, TypeOK, Empty

----------------------------------------------------------------------------
(* What a step of one context does to where the frames are.                   *)

Others(c) == \A d \in Contexts : d # c => ctx'[d] = ctx[d]
OtherSlots(i) == \A j \in Indices : j # i => slots'[j] = slots[j]
OutsStay == UNCHANGED <<mailboxes, sent, rejected, dropped>>
Kept == HandsOk' /\ ClaimsOk' /\ OnePlace'

\* It goes on without touching a frame.
LEMMA Walk ==
    ASSUME HandsOk, ClaimsOk, OnePlace, NEW c \in Contexts, Others(c), OutsStay,
           UNCHANGED <<slots, offered>>, ctx'[c].msg = ctx[c].msg,
           ctx[c].pc \notin Claimers, ctx'[c].pc \notin Claimers,
           ctx[c].pc \in Carriers <=> ctx'[c].pc \in Carriers
    PROVE  Kept
<1>1. HandsOk'
  BY DEF HandsOk, Others
<1>2. ClaimsOk'
  BY DEF ClaimsOk, Others, Readable, At, Claimers
<1>3. ASSUME NEW m PROVE /\ SlotsOf(m)' = SlotsOf(m) /\ HandsOf(m)' = HandsOf(m)
                         /\ TakesOf(m)' = TakesOf(m) /\ OutsOf(m)' = OutsOf(m)
  BY DEF SlotsOf, HandsOf, TakesOf, OutsOf, OutsStay, Others, Readable, Slot, At, Claimers
<1>4. OnePlace'
  BY <1>3 DEF OnePlace, InSlot, InHand, InTake, IsOut, Nowhere
<1>. QED BY <1>1, <1>2, <1>4 DEF Kept

\* A new frame is in the hand of AddMessage.
LEMMA Offer ==
    ASSUME HandsOk, ClaimsOk, OnePlace, NEW c \in Contexts, Others(c), OutsStay, UNCHANGED slots,
           ctx[c].pc \notin Carriers \cup Claimers, ctx'[c].pc = "put", offered \in Nat,
           offered' = offered + 1, ctx'[c].msg = offered + 1, offered + 1 \in Messages,
           None \notin Messages, Messages \subseteq Nat
    PROVE  Kept
<1>1. HandsOk'
  BY DEF HandsOk, Others, Carriers
<1>2. ClaimsOk'
  BY DEF ClaimsOk, Others, Readable, At, Claimers
<1>3. ASSUME NEW m \in Messages
      PROVE  /\ SlotsOf(m)' = SlotsOf(m) /\ TakesOf(m)' = TakesOf(m) /\ OutsOf(m)' = OutsOf(m)
             /\ m # offered + 1 => HandsOf(m)' = HandsOf(m)
             /\ m = offered + 1 => HandsOf(m)' = HandsOf(m) \cup {c}
  <2>1. ctx[c].msg = None
    BY DEF HandsOk
  <2>. QED BY <2>1 DEF SlotsOf, HandsOf, TakesOf, OutsOf, OutsStay, Others, Readable, Slot, At,
                       Claimers
<1>4. \A m \in Messages : (m <= offered' <=> m <= offered \/ m = offered + 1)
                          /\ ~(offered + 1 <= offered)
  OBVIOUS
<1>5. ASSUME NEW m \in Messages
      PROVE  IF m <= offered' THEN InSlot(m)' \/ InHand(m)' \/ InTake(m)' \/ IsOut(m)'
             ELSE Nowhere(m)'
  <2>1. CASE m = offered + 1
    <3>1. Nowhere(m)
      BY <1>4, <2>1 DEF OnePlace
    <3>. QED BY <1>3, <1>4, <2>1, <3>1 DEF InHand, Nowhere
  <2>2. CASE m # offered + 1
    BY <1>3, <1>4, <2>2 DEF OnePlace, InSlot, InHand, InTake, IsOut, Nowhere
  <2>. QED BY <2>1, <2>2
<1>6. OnePlace'
  BY <1>5 DEF OnePlace
<1>. QED BY <1>1, <1>2, <1>6 DEF Kept

\* It claims a slot for the frame in its hand.
LEMMA ClaimWritable ==
    ASSUME HandsOk, ClaimsOk, OnePlace, NEW c \in Contexts, Others(c), OutsStay,
           UNCHANGED offered, ctx[c].i \in Indices, ctx'[c].i = ctx[c].i,
           ctx'[c].msg = ctx[c].msg, Writable(ctx[c].i), OtherSlots(ctx[c].i),
           slots'[ctx[c].i].state = "BUSY",
           ctx[c].pc \in {"put", "back"}, ctx'[c].pc \in {"fill", "refill"}
    PROVE  Kept
<1>1. HandsOk'
  BY DEF HandsOk, Others, Carriers
<1>2. \A d \in Contexts : ctx[d].pc \in Claimers => ctx[d].i # ctx[c].i
  BY DEF ClaimsOk, Writable
<1>3. ClaimsOk'
  BY <1>2 DEF ClaimsOk, Others, OtherSlots, Readable, At, Claimers
<1>4. ASSUME NEW m PROVE /\ SlotsOf(m)' = SlotsOf(m) /\ HandsOf(m)' = HandsOf(m)
                         /\ TakesOf(m)' = TakesOf(m) /\ OutsOf(m)' = OutsOf(m)
  <2>1. SlotsOf(m)' = SlotsOf(m)
    BY DEF SlotsOf, OtherSlots, Readable, Writable
  <2>2. HandsOf(m)' = HandsOf(m) /\ OutsOf(m)' = OutsOf(m)
    BY DEF HandsOf, OutsOf, OutsStay, Others
  <2>3. \A d \in Contexts : At(d, "take") => ctx[d].i \in Indices
    BY DEF ClaimsOk, At, Claimers
  <2>4. TakesOf(m)' = TakesOf(m)
    BY <1>2, <2>3 DEF TakesOf, Others, OtherSlots, Slot, At, Claimers
  <2>. QED BY <2>1, <2>2, <2>4
<1>5. OnePlace'
  BY <1>4 DEF OnePlace, InSlot, InHand, InTake, IsOut, Nowhere
<1>. QED BY <1>1, <1>3, <1>5 DEF Kept

\* It stores the frame from its hand in the slot it has claimed.
LEMMA StoreFrame ==
    ASSUME HandsOk, ClaimsOk, OnePlace, NEW c \in Contexts, Others(c), OutsStay,
           UNCHANGED offered, ctx[c].i \in Indices, OtherSlots(ctx[c].i),
           slots'[ctx[c].i] = [state |-> "READY", data |-> ctx[c].msg],
           ctx[c].pc \in {"fill", "refill"}, ctx'[c].pc \notin Carriers \cup Claimers,
           ctx'[c].msg = None, None \notin Messages
    PROVE  Kept
<1>1. HandsOk'
  BY DEF HandsOk, Others
<1>2. \A d \in Contexts : d # c /\ ctx[d].pc \in Claimers => ctx[d].i # ctx[c].i
  BY DEF ClaimsOk, Claimers
<1>3. ctx[c].msg # None /\ ~Readable(ctx[c].i)
  BY DEF HandsOk, Carriers, ClaimsOk, Claimers, Readable
<1>4. ClaimsOk'
  BY <1>2, <1>3 DEF ClaimsOk, Others, OtherSlots, Readable, At, Claimers
<1>5. ASSUME NEW m \in Messages
      PROVE  /\ TakesOf(m)' = TakesOf(m) /\ OutsOf(m)' = OutsOf(m)
             /\ m # ctx[c].msg => SlotsOf(m)' = SlotsOf(m) /\ HandsOf(m)' = HandsOf(m)
             /\ m = ctx[c].msg =>
                   SlotsOf(m)' = SlotsOf(m) \cup {ctx[c].i} /\ HandsOf(m)' = HandsOf(m) \ {c}
  <2>1. OutsOf(m)' = OutsOf(m)
    BY DEF OutsOf, OutsStay
  <2>2. \A d \in Contexts : At(d, "take") => ctx[d].i \in Indices
    BY DEF ClaimsOk, At, Claimers
  <2>3. TakesOf(m)' = TakesOf(m)
    BY <1>2, <2>2 DEF TakesOf, Others, OtherSlots, Slot, At, Claimers
  <2>4. m # ctx[c].msg => SlotsOf(m)' = SlotsOf(m)
    BY <1>3 DEF SlotsOf, OtherSlots, Readable
  <2>5. m = ctx[c].msg => SlotsOf(m)' = SlotsOf(m) \cup {ctx[c].i}
    BY <1>3 DEF SlotsOf, OtherSlots, Readable
  <2>6. IF m = ctx[c].msg THEN HandsOf(m)' = HandsOf(m) \ {c} ELSE HandsOf(m)' = HandsOf(m)
    BY DEF HandsOf, Others
  <2>. QED BY <2>1, <2>3, <2>4, <2>5, <2>6
<1>6. ASSUME NEW m \in Messages
      PROVE  IF m <= offered' THEN InSlot(m)' \/ InHand(m)' \/ InTake(m)' \/ IsOut(m)'
             ELSE Nowhere(m)'
  <2>1. CASE m = ctx[c].msg
    <3>1. c \in HandsOf(m)
      BY <2>1 DEF HandsOf
    <3>2. m <= offered /\ InHand(m)
      BY <3>1 DEF OnePlace, Nowhere, InSlot, InTake, IsOut
    <3>. QED BY <1>5, <2>1, <3>1, <3>2 DEF InHand, InSlot
  <2>2. CASE m # ctx[c].msg
    BY <1>5, <2>2 DEF OnePlace, InSlot, InHand, InTake, IsOut, Nowhere
  <2>. QED BY <2>1, <2>2
<1>7. OnePlace'
  BY <1>6 DEF OnePlace
<1>. QED BY <1>1, <1>4, <1>7 DEF Kept

\* The frame in its hand goes out of the pool's reach, to place o.
LEMMA HandOver ==
    ASSUME HandsOk, ClaimsOk, OnePlace, NEW c \in Contexts, Others(c),
           UNCHANGED <<slots, offered>>, ctx[c].pc \in Carriers \ Claimers,
           ctx'[c].pc \notin Carriers \cup Claimers, ctx'[c].msg = None, None \notin Messages,
           NEW o \in {"mailboxes", "sent", "rejected", "dropped"},
           \A m \in Messages : OutsOf(m)' = IF m = ctx[c].msg THEN OutsOf(m) \cup {o} ELSE OutsOf(m)
    PROVE  Kept
<1>1. HandsOk'
  BY DEF HandsOk, Others
<1>2. ClaimsOk'
  BY DEF ClaimsOk, Others, Readable, At, Claimers
<1>3. ASSUME NEW m \in Messages
      PROVE  /\ SlotsOf(m)' = SlotsOf(m) /\ TakesOf(m)' = TakesOf(m)
             /\ m # ctx[c].msg => HandsOf(m)' = HandsOf(m)
             /\ m = ctx[c].msg => HandsOf(m)' = HandsOf(m) \ {c}
  BY DEF SlotsOf, HandsOf, TakesOf, Others, Readable, Slot, At, Claimers
<1>4. ASSUME NEW m \in Messages
      PROVE  IF m <= offered' THEN InSlot(m)' \/ InHand(m)' \/ InTake(m)' \/ IsOut(m)'
             ELSE Nowhere(m)'
  <2>1. CASE m = ctx[c].msg
    <3>1. c \in HandsOf(m)
      BY <2>1 DEF HandsOf
    <3>2. m <= offered /\ InHand(m)
      BY <3>1 DEF OnePlace, Nowhere, InSlot, InTake, IsOut
    <3>. QED BY <1>3, <2>1, <3>1, <3>2 DEF InHand, IsOut
  <2>2. CASE m # ctx[c].msg
    BY <1>3, <2>2 DEF OnePlace, InSlot, InHand, InTake, IsOut, Nowhere
  <2>. QED BY <2>1, <2>2
<1>5. OnePlace'
  BY <1>4 DEF OnePlace
<1>. QED BY <1>1, <1>2, <1>5 DEF Kept

\* It claims a stored frame.
LEMMA ClaimReadable ==
    ASSUME HandsOk, ClaimsOk, OnePlace, NEW c \in Contexts, Others(c), OutsStay,
           UNCHANGED offered, ctx[c].i \in Indices, ctx'[c].i = ctx[c].i,
           ctx'[c].msg = ctx[c].msg, Readable(ctx[c].i), OtherSlots(ctx[c].i),
           slots'[ctx[c].i] = [slots[ctx[c].i] EXCEPT !.state = "BUSY"],
           slots[ctx[c].i] \in [state : SlotStates, data : Messages \cup {None}],
           ctx[c].pc = "get", ctx'[c].pc = "take"
    PROVE  Kept
<1>1. HandsOk'
  BY DEF HandsOk, Others, Carriers
<1>2. \A d \in Contexts : ctx[d].pc \in Claimers => ctx[d].i # ctx[c].i
  BY DEF ClaimsOk, Readable
<1>3. slots'[ctx[c].i].state = "BUSY" /\ slots'[ctx[c].i].data = slots[ctx[c].i].data
  OBVIOUS
<1>4. ClaimsOk'
  BY <1>2, <1>3 DEF ClaimsOk, Others, OtherSlots, Readable, At, Claimers
<1> DEFINE f == slots[ctx[c].i].data
<1>5. ASSUME NEW m \in Messages
      PROVE  /\ HandsOf(m)' = HandsOf(m) /\ OutsOf(m)' = OutsOf(m)
             /\ m # f => SlotsOf(m)' = SlotsOf(m) /\ TakesOf(m)' = TakesOf(m)
             /\ m = f => SlotsOf(m)' = SlotsOf(m) \ {ctx[c].i} /\ TakesOf(m)' = TakesOf(m) \cup {c}
  <2>1. HandsOf(m)' = HandsOf(m) /\ OutsOf(m)' = OutsOf(m)
    BY DEF HandsOf, OutsOf, OutsStay, Others
  <2>2. IF m = f THEN SlotsOf(m)' = SlotsOf(m) \ {ctx[c].i} ELSE SlotsOf(m)' = SlotsOf(m)
    BY <1>3 DEF SlotsOf, OtherSlots, Readable
  <2>3. \A d \in Contexts : At(d, "take") => ctx[d].i \in Indices
    BY DEF ClaimsOk, At, Claimers
  <2>4. IF m = f THEN TakesOf(m)' = TakesOf(m) \cup {c} ELSE TakesOf(m)' = TakesOf(m)
    BY <1>2, <1>3, <2>3 DEF TakesOf, Others, OtherSlots, Slot, At, Claimers
  <2>. QED BY <2>1, <2>2, <2>4
<1>6. ASSUME NEW m \in Messages
      PROVE  IF m <= offered' THEN InSlot(m)' \/ InHand(m)' \/ InTake(m)' \/ IsOut(m)'
             ELSE Nowhere(m)'
  <2>1. CASE m = f
    <3>1. ctx[c].i \in SlotsOf(m)
      BY <2>1 DEF SlotsOf
    <3>2. m <= offered /\ InSlot(m)
      BY <3>1 DEF OnePlace, Nowhere, InHand, InTake, IsOut
    <3>. QED BY <1>5, <2>1, <3>1, <3>2 DEF InSlot, InTake
  <2>2. CASE m # f
    BY <1>5, <2>2 DEF OnePlace, InSlot, InHand, InTake, IsOut, Nowhere
  <2>. QED BY <2>1, <2>2
<1>7. OnePlace'
  BY <1>6 DEF OnePlace
<1>. QED BY <1>1, <1>4, <1>7 DEF Kept

\* It takes the frame it has claimed and gives the slot back.
LEMMA TakeFrame ==
    ASSUME HandsOk, ClaimsOk, OnePlace, NEW c \in Contexts, Others(c), OutsStay,
           UNCHANGED offered, ctx[c].i \in Indices, ctx'[c].msg = slots[ctx[c].i].data,
           OtherSlots(ctx[c].i), slots'[ctx[c].i].state = "RECYCLE",
           ctx[c].pc = "take", ctx'[c].pc = "send", None \notin Messages
    PROVE  Kept
<1>1. ctx[c].msg = None /\ slots[ctx[c].i].data # None /\ ~Readable(ctx[c].i)
  BY DEF HandsOk, Carriers, ClaimsOk, Claimers, At, Readable
<1>2. HandsOk'
  BY <1>1 DEF HandsOk, Others, Carriers
<1>3. \A d \in Contexts : d # c /\ ctx[d].pc \in Claimers => ctx[d].i # ctx[c].i
  BY DEF ClaimsOk, Claimers
<1>4. ClaimsOk'
  BY <1>3 DEF ClaimsOk, Others, OtherSlots, Readable, At, Claimers
<1> DEFINE f == slots[ctx[c].i].data
<1>5. ASSUME NEW m \in Messages
      PROVE  /\ SlotsOf(m)' = SlotsOf(m) /\ OutsOf(m)' = OutsOf(m)
             /\ m # f => HandsOf(m)' = HandsOf(m) /\ TakesOf(m)' = TakesOf(m)
             /\ m = f => HandsOf(m)' = HandsOf(m) \cup {c} /\ TakesOf(m)' = TakesOf(m) \ {c}
  <2>1. OutsOf(m)' = OutsOf(m) /\ SlotsOf(m)' = SlotsOf(m)
    BY <1>1 DEF SlotsOf, OutsOf, OutsStay, OtherSlots, Readable
  <2>2. IF m = f THEN HandsOf(m)' = HandsOf(m) \cup {c} ELSE HandsOf(m)' = HandsOf(m)
    BY <1>1 DEF HandsOf, Others
  <2>3. \A d \in Contexts : At(d, "take") => ctx[d].i \in Indices
    BY DEF ClaimsOk, At, Claimers
  <2>4. IF m = f THEN TakesOf(m)' = TakesOf(m) \ {c} ELSE TakesOf(m)' = TakesOf(m)
    BY <1>3, <2>3 DEF TakesOf, Others, OtherSlots, Slot, At, Claimers
  <2>. QED BY <2>1, <2>2, <2>4
<1>6. ASSUME NEW m \in Messages
      PROVE  IF m <= offered' THEN InSlot(m)' \/ InHand(m)' \/ InTake(m)' \/ IsOut(m)'
             ELSE Nowhere(m)'
  <2>1. CASE m = f
    <3>1. c \in TakesOf(m)
      BY <2>1 DEF TakesOf, Slot, At
    <3>2. m <= offered /\ InTake(m)
      BY <3>1 DEF OnePlace, Nowhere, InHand, InSlot, IsOut
    <3>. QED BY <1>5, <2>1, <3>1, <3>2 DEF InHand, InTake
  <2>2. CASE m # f
    BY <1>5, <2>2 DEF OnePlace, InSlot, InHand, InTake, IsOut, Nowhere
  <2>. QED BY <2>1, <2>2
<1>7. OnePlace'
  BY <1>6 DEF OnePlace
<1>. QED BY <1>2, <1>4, <1>7 DEF Kept

\* The controller sends a frame.
LEMMA Leave ==
    ASSUME HandsOk, ClaimsOk, OnePlace, UNCHANGED <<ctx, slots, offered, rejected, dropped>>,
           NEW f \in mailboxes, mailboxes' = mailboxes \ {f}, sent' = sent \cup {f}
    PROVE  Kept
<1>1. HandsOk' /\ ClaimsOk'
  BY DEF HandsOk, ClaimsOk, Readable, At
<1>2. ASSUME NEW m \in Messages
      PROVE  /\ SlotsOf(m)' = SlotsOf(m) /\ HandsOf(m)' = HandsOf(m) /\ TakesOf(m)' = TakesOf(m)
             /\ m # f => OutsOf(m)' = OutsOf(m)
             /\ m = f => OutsOf(m)' = (OutsOf(m) \ {"mailboxes"}) \cup {"sent"}
  BY DEF SlotsOf, HandsOf, TakesOf, OutsOf, Readable, Slot, At
<1>3. ASSUME NEW m \in Messages
      PROVE  IF m <= offered' THEN InSlot(m)' \/ InHand(m)' \/ InTake(m)' \/ IsOut(m)'
             ELSE Nowhere(m)'
  <2>1. CASE m = f
    <3>1. "mailboxes" \in OutsOf(m)
      BY <2>1 DEF OutsOf
    <3>2. m <= offered /\ IsOut(m)
      BY <3>1 DEF OnePlace, Nowhere, InHand, InSlot, InTake
    <3>3. OutsOf(m)' = {"sent"}
      BY <1>2, <2>1, <3>1, <3>2 DEF IsOut
    <3>. QED BY <1>2, <3>2, <3>3 DEF IsOut
  <2>2. CASE m # f
    BY <1>2, <2>2 DEF OnePlace, InSlot, InHand, InTake, IsOut, Nowhere
  <2>. QED BY <2>1, <2>2
<1>4. OnePlace'
  BY <1>3 DEF OnePlace
<1>. QED BY <1>1, <1>4 DEF Kept

\* The records a context and a slot go through.
CtxRecords ==
    [pc : {"idle", "put", "fill", "kick", "lock", "serve", "look", "get", "take", "send", "back",
           "refill", "unlock", "recheck"},
     i : 1..(PoolSize + 1), msg : Messages \cup {None}]
SlotRecords == [state : SlotStates, data : Messages \cup {None}]

LEMMA Stepped ==
    ASSUME ctx \in [Contexts -> CtxRecords], NEW c \in Contexts, NEW r \in CtxRecords,
           ctx' = [ctx EXCEPT ![c] = r]
    PROVE  ctx' \in [Contexts -> CtxRecords] /\ Others(c) /\ ctx'[c] = r
BY DEF Others

LEMMA SlotStepped ==
    ASSUME slots \in [Indices -> SlotRecords], NEW i \in Indices, NEW s \in SlotRecords,
           slots' = [slots EXCEPT ![i] = s]
    PROVE  slots' \in [Indices -> SlotRecords] /\ OtherSlots(i) /\ slots'[i] = s
BY DEF OtherSlots

----------------------------------------------------------------------------
(* A step.                                                                    *)

\* The lock, and what the driver that looks first knows, when one context steps.
LEMMA HolderKept ==
    ASSUME OneHolder, NEW c \in Contexts, Others(c), UNCHANGED tx_lock,
           ctx'[c].pc \in Holders => ctx[c].pc \in Holders
    PROVE  OneHolder'
BY DEF OneHolder, Others

LEMMA LookedKept ==
    ASSUME LookedFirst, NEW c \in Contexts, Others(c), UNCHANGED <<looks, mailboxes, dropped>>,
           ctx'[c].pc \in {"get", "take", "send"} /\ looks => Empty,
           ctx'[c].pc \in {"back", "refill"} => ctx[c].pc \in {"back", "refill"}
    PROVE  LookedFirst'
BY DEF LookedFirst, Others, Empty

LEMMA InvNext == CanAssumption /\ IInv /\ [Next]_vars => IInv'
<1> SUFFICES ASSUME CanAssumption, IInv, [Next]_vars PROVE IInv'
  OBVIOUS
<1> USE DEF CanAssumption, Carriers, Claimers, Holders, At
<1>0. /\ ctx \in [Contexts -> CtxRecords] /\ slots \in [Indices -> SlotRecords]
      /\ PoolSize \in Nat \ {0} /\ None \notin Messages /\ TypeOK /\ HandsOk /\ ClaimsOk
      /\ OneHolder /\ LookedFirst /\ OnePlace
  BY DEF IInv, TypeOK, CtxRecords, SlotRecords
<1>i. Isr \in Contexts /\ \A c \in Callers : c \in Contexts
  BY DEF Contexts
\* Where a context and its slot may be.
<1>c. 1 \in 1..(PoolSize + 1) /\ \A c \in Contexts : ctx[c] \in CtxRecords
  BY <1>0
<1>s. \A i \in Indices : slots[i] \in SlotRecords
  BY <1>0
\* The types of what a step leaves alone.
<1>t. ASSUME ctx' \in [Contexts -> CtxRecords], slots' \in [Indices -> SlotRecords],
             looks' \in BOOLEAN, tx_pend' \in BOOLEAN, tx_lock' \in BOOLEAN, irq' \in BOOLEAN,
             mailboxes' \subseteq Messages, Cardinality(mailboxes') <= Mailboxes,
             offered' \in 0..MaxMessages, sent' \subseteq Messages, rejected' \subseteq Messages,
             dropped' \subseteq Messages PROVE TypeOK'
  BY <1>t DEF TypeOK, CtxRecords, SlotRecords
<1>1. ASSUME NEW c \in Contexts, Kick(c) PROVE IInv'
  <2> DEFINE r == [ctx[c] EXCEPT !.pc = "lock"]
  <2>1. r \in CtxRecords
    BY <1>0, <1>c DEF CtxRecords
  <2>2. ctx' = [ctx EXCEPT ![c] = r]
    BY <1>0, <1>1 DEF Kick, Goto
  <2>3. ctx' \in [Contexts -> CtxRecords] /\ Others(c) /\ ctx'[c] = r
    BY <1>0, <2>1, <2>2, Stepped
  <2>4. r.msg = ctx[c].msg
    BY <1>0, <1>c, <1>1 DEF Kick, HandsOk, CtxRecords
  <2>5. Kept
    BY <1>0, <1>c, <1>1, <2>3, <2>4, Walk DEF Kick, OutsStay, flags, outside, fates, CtxRecords
  <2>6. TypeOK'
    BY <1>0, <1>t, <1>1, <2>3 DEF Kick, TypeOK, flags, outside, fates, SlotRecords
  <2>7. OneHolder'
    BY <1>0, <1>c, <1>1, <2>3, HolderKept DEF Kick, flags, CtxRecords
  <2>8. LookedFirst'
    BY <1>0, <1>c, <1>1, <2>3, LookedKept DEF Kick, flags, outside, fates, LookedFirst, CtxRecords
  <2>. QED BY <2>5, <2>6, <2>7, <2>8 DEF Kept, IInv
<1>2. ASSUME NEW c \in Contexts, TakeLock(c) PROVE IInv'
  <2> DEFINE r == IF tx_lock THEN Idle ELSE [ctx[c] EXCEPT !.pc = "serve"]
  <2>1. r \in CtxRecords
    BY <1>0, <1>c DEF CtxRecords, Idle
  <2>2. ctx' = [ctx EXCEPT ![c] = r]
    BY <1>0, <1>2 DEF TakeLock, Goto
  <2>3. ctx' \in [Contexts -> CtxRecords] /\ Others(c) /\ ctx'[c] = r
    BY <1>0, <2>1, <2>2, Stepped
  <2>4. r.msg = ctx[c].msg
    BY <1>0, <1>c, <1>2 DEF TakeLock, HandsOk, CtxRecords, Idle
  <2>5. Kept
    BY <1>0, <1>c, <1>2, <2>3, <2>4, Walk DEF TakeLock, OutsStay, flags, outside, fates, CtxRecords, Idle
  <2>6. TypeOK'
    BY <1>0, <1>t, <1>2, <2>3 DEF TakeLock, TypeOK, flags, outside, fates, SlotRecords
  <2>7. OneHolder'
    BY <1>0, <1>c, <1>2, <2>3 DEF TakeLock, flags, CtxRecords, Idle, OneHolder, Others
  <2>8. LookedFirst'
    BY <1>0, <1>c, <1>2, <2>3, LookedKept DEF TakeLock, flags, outside, fates, LookedFirst, CtxRecords, Idle
  <2>. QED BY <2>5, <2>6, <2>7, <2>8 DEF Kept, IInv
<1>3. ASSUME NEW c \in Contexts, Serve(c) PROVE IInv'
  <2> DEFINE r == [ctx[c] EXCEPT !.pc = IF looks THEN "look" ELSE "get", !.i = 1]
  <2>1. r \in CtxRecords
    BY <1>0, <1>c DEF CtxRecords
  <2>2. ctx' = [ctx EXCEPT ![c] = r]
    BY <1>0, <1>3 DEF Serve, NextFrame, Scan
  <2>3. ctx' \in [Contexts -> CtxRecords] /\ Others(c) /\ ctx'[c] = r
    BY <1>0, <2>1, <2>2, Stepped
  <2>4. r.msg = ctx[c].msg
    BY <1>0, <1>c, <1>3 DEF Serve, HandsOk, CtxRecords
  <2>5. Kept
    BY <1>0, <1>c, <1>3, <2>3, <2>4, Walk DEF Serve, OutsStay, flags, outside, fates, CtxRecords
  <2>6. TypeOK'
    BY <1>0, <1>t, <1>3, <2>3 DEF Serve, TypeOK, flags, outside, fates, SlotRecords
  <2>7. OneHolder'
    BY <1>0, <1>c, <1>3, <2>3, HolderKept DEF Serve, flags, CtxRecords
  <2>8. LookedFirst'
    BY <1>0, <1>c, <1>3, <2>3, LookedKept DEF Serve, flags, outside, fates, LookedFirst, CtxRecords
  <2>. QED BY <2>5, <2>6, <2>7, <2>8 DEF Kept, IInv
<1>4. ASSUME NEW c \in Contexts, Look(c) PROVE IInv'
  <2> DEFINE r == [ctx[c] EXCEPT !.pc = IF Empty THEN "get" ELSE "unlock"]
  <2>1. r \in CtxRecords
    BY <1>0, <1>c DEF CtxRecords
  <2>2. ctx' = [ctx EXCEPT ![c] = r]
    BY <1>0, <1>4 DEF Look, Goto
  <2>3. ctx' \in [Contexts -> CtxRecords] /\ Others(c) /\ ctx'[c] = r
    BY <1>0, <2>1, <2>2, Stepped
  <2>4. r.msg = ctx[c].msg
    BY <1>0, <1>c, <1>4 DEF Look, HandsOk, CtxRecords
  <2>5. Kept
    BY <1>0, <1>c, <1>4, <2>3, <2>4, Walk DEF Look, OutsStay, flags, outside, fates, CtxRecords
  <2>6. TypeOK'
    BY <1>0, <1>t, <1>4, <2>3 DEF Look, TypeOK, flags, outside, fates, SlotRecords
  <2>7. OneHolder'
    BY <1>0, <1>c, <1>4, <2>3, HolderKept DEF Look, flags, CtxRecords
  <2>8. LookedFirst'
    BY <1>0, <1>c, <1>4, <2>3, LookedKept DEF Look, flags, outside, fates, LookedFirst, CtxRecords
  <2>. QED BY <2>5, <2>6, <2>7, <2>8 DEF Kept, IInv
<1>5. ASSUME NEW c \in Contexts, Unlock(c) PROVE IInv'
  <2> DEFINE r == [ctx[c] EXCEPT !.pc = "recheck"]
  <2>1. r \in CtxRecords
    BY <1>0, <1>c DEF CtxRecords
  <2>2. ctx' = [ctx EXCEPT ![c] = r]
    BY <1>0, <1>5 DEF Unlock, Goto
  <2>3. ctx' \in [Contexts -> CtxRecords] /\ Others(c) /\ ctx'[c] = r
    BY <1>0, <2>1, <2>2, Stepped
  <2>4. r.msg = ctx[c].msg
    BY <1>0, <1>c, <1>5 DEF Unlock, HandsOk, CtxRecords
  <2>5. Kept
    BY <1>0, <1>c, <1>5, <2>3, <2>4, Walk DEF Unlock, OutsStay, flags, outside, fates, CtxRecords
  <2>6. TypeOK'
    BY <1>0, <1>t, <1>5, <2>3 DEF Unlock, TypeOK, flags, outside, fates, SlotRecords
  <2>7. OneHolder'
    BY <1>0, <1>c, <1>5, <2>3 DEF Unlock, flags, CtxRecords, OneHolder, Others
  <2>8. LookedFirst'
    BY <1>0, <1>c, <1>5, <2>3, LookedKept DEF Unlock, flags, outside, fates, LookedFirst, CtxRecords
  <2>. QED BY <2>5, <2>6, <2>7, <2>8 DEF Kept, IInv
<1>6. ASSUME NEW c \in Contexts, Recheck(c) PROVE IInv'
  <2> DEFINE r == IF NonePends THEN Idle ELSE [Idle EXCEPT !.pc = "lock"]
  <2>1. r \in CtxRecords
    BY <1>0, <1>c DEF CtxRecords, Idle
  <2>2. ctx' = [ctx EXCEPT ![c] = r]
    BY <1>0, <1>6 DEF Recheck
  <2>3. ctx' \in [Contexts -> CtxRecords] /\ Others(c) /\ ctx'[c] = r
    BY <1>0, <2>1, <2>2, Stepped
  <2>4. r.msg = ctx[c].msg
    BY <1>0, <1>c, <1>6 DEF Recheck, HandsOk, CtxRecords, Idle
  <2>5. Kept
    BY <1>0, <1>c, <1>6, <2>3, <2>4, Walk DEF Recheck, OutsStay, flags, outside, fates, CtxRecords, Idle
  <2>6. TypeOK'
    BY <1>0, <1>t, <1>6, <2>3 DEF Recheck, TypeOK, flags, outside, fates, SlotRecords
  <2>7. OneHolder'
    BY <1>0, <1>c, <1>6, <2>3, HolderKept DEF Recheck, flags, CtxRecords, Idle
  <2>8. LookedFirst'
    BY <1>0, <1>c, <1>6, <2>3, LookedKept DEF Recheck, flags, outside, fates, LookedFirst, CtxRecords, Idle
  <2>. QED BY <2>5, <2>6, <2>7, <2>8 DEF Kept, IInv
<1>7. ASSUME NEW c \in Callers, AddMessage(c) PROVE IInv'
  <2>0. c \in Contexts /\ offered + 1 \in Messages /\ offered \in Nat /\ offered' \in 0..MaxMessages
    BY <1>0, <1>i, <1>7 DEF AddMessage, TypeOK, Messages
  <2> DEFINE r == [pc |-> "put", i |-> 1, msg |-> offered + 1]
  <2>1. r \in CtxRecords
    BY <1>0, <1>c, <1>7, <2>0 DEF CtxRecords
  <2>2. ctx' = [ctx EXCEPT ![c] = r]
    BY <1>0, <1>7, <2>0 DEF AddMessage
  <2>3. ctx' \in [Contexts -> CtxRecords] /\ Others(c) /\ ctx'[c] = r
    BY <1>0, <2>0, <2>1, <2>2, Stepped
  <2>k. Kept
    BY <1>0, <1>7, <2>0, <2>3, Offer DEF AddMessage, OutsStay, outside, fates, Messages
  <2>t. TypeOK'
    BY <1>0, <1>t, <1>7, <2>0, <2>3 DEF AddMessage, TypeOK, flags, outside, fates, SlotRecords
  <2>h. OneHolder'
    BY <1>0, <1>c, <1>7, <2>0, <2>3, HolderKept DEF AddMessage, flags, CtxRecords
  <2>l. LookedFirst'
    BY <1>0, <1>c, <1>7, <2>0, <2>3, LookedKept DEF AddMessage, flags, outside, fates, LookedFirst, CtxRecords
  <2>. QED BY <2>k, <2>t, <2>h, <2>l DEF Kept, IInv
<1>8. ASSUME NEW c \in Contexts, Put(c) PROVE IInv'
  <2>0. ctx[c].i \in Indices /\ ctx[c].i + 1 \in 1..(PoolSize + 1)
    BY <1>0, <1>c, <1>8 DEF Put, AtEnd, Indices, CtxRecords
  <2>c. CASE Writable(ctx[c].i)
    <3> DEFINE r == [ctx[c] EXCEPT !.pc = IF ctx[c].pc = "put" THEN "fill" ELSE "refill"]
    <3>1. r \in CtxRecords
      BY <1>0, <1>c, <1>8, <2>0, <2>c DEF CtxRecords
    <3>2. ctx' = [ctx EXCEPT ![c] = r]
      BY <1>0, <1>8, <2>0, <2>c DEF Put, Goto
    <3>3. ctx' \in [Contexts -> CtxRecords] /\ Others(c) /\ ctx'[c] = r
      BY <1>0, <3>1, <3>2, Stepped
    <3> DEFINE s == [slots[ctx[c].i] EXCEPT !.state = "BUSY"]
    <3>4. s \in SlotRecords /\ s.state = "BUSY"
      BY <1>s, <2>0 DEF SlotRecords, SlotStates
    <3>5. slots' = [slots EXCEPT ![ctx[c].i] = s]
      BY <1>0, <1>8, <2>0, <2>c DEF Put, Claim
    <3>6. slots' \in [Indices -> SlotRecords] /\ OtherSlots(ctx[c].i) /\ slots'[ctx[c].i] = s
      BY <1>0, <2>0, <3>4, <3>5, SlotStepped
    <3>7. r.i = ctx[c].i /\ r.msg = ctx[c].msg /\ r.pc \in {"fill", "refill"}
      BY <1>c DEF CtxRecords
    <3>k. Kept
      BY <1>0, <1>c, <1>8, <2>0, <2>c, <3>3, <3>4, <3>6, <3>7, ClaimWritable
      DEF Put, OutsStay, outside, fates
    <3>t. TypeOK'
      BY <1>0, <1>t, <1>8, <2>0, <2>c, <3>3, <3>6 DEF Put, TypeOK, flags, outside, fates, SlotRecords
    <3>h. OneHolder'
      BY <1>0, <1>c, <1>8, <2>0, <2>c, <3>3, <3>6, HolderKept DEF Put, flags, CtxRecords
    <3>l. LookedFirst'
      BY <1>0, <1>c, <1>8, <2>0, <2>c, <3>3, <3>6, LookedKept DEF Put, flags, outside, fates, LookedFirst, CtxRecords
    <3>. QED BY <3>k, <3>t, <3>h, <3>l DEF Kept, IInv
  <2>n. CASE ~Writable(ctx[c].i)
    <3> DEFINE r == [ctx[c] EXCEPT !.i = @ + 1]
    <3>1. r \in CtxRecords
      BY <1>0, <1>c, <1>8, <2>0, <2>n DEF CtxRecords
    <3>2. ctx' = [ctx EXCEPT ![c] = r]
      BY <1>0, <1>8, <2>0, <2>n DEF Put, NextSlot
    <3>3. ctx' \in [Contexts -> CtxRecords] /\ Others(c) /\ ctx'[c] = r
      BY <1>0, <2>0, <3>1, <3>2, Stepped
    <3>4. r.msg = ctx[c].msg /\ r.pc = ctx[c].pc
      BY <1>c DEF CtxRecords
    <3>k. Kept
      BY <1>0, <1>8, <2>n, <3>3, <3>4, Walk DEF Put, OutsStay, outside, fates
    <3>t. TypeOK'
      BY <1>0, <1>t, <1>8, <2>n, <3>3, <3>4 DEF Put, TypeOK, flags, outside, fates, SlotRecords
    <3>h. OneHolder'
      BY <1>0, <1>c, <1>8, <2>n, <3>3, <3>4, HolderKept DEF Put, flags, CtxRecords
    <3>l. LookedFirst'
      BY <1>0, <1>c, <1>8, <2>n, <3>3, <3>4, LookedKept DEF Put, flags, outside, fates, LookedFirst, CtxRecords
    <3>. QED BY <3>k, <3>t, <3>h, <3>l DEF Kept, IInv
  <2>. QED BY <2>c, <2>n
<1>9. ASSUME NEW c \in Contexts, PutFull(c) PROVE IInv'
  <2>0. ctx[c].msg \in Messages
    BY <1>0, <1>c, <1>9 DEF PutFull, HandsOk, CtxRecords
  <2> DEFINE r == IF ctx[c].pc = "put" THEN Idle ELSE [Idle EXCEPT !.pc = "unlock"]
  <2>1. r \in CtxRecords
    BY <1>0, <1>c, <1>9 DEF CtxRecords, Idle
  <2>2. ctx' = [ctx EXCEPT ![c] = r]
    BY <1>0, <1>9 DEF PutFull
  <2>3. ctx' \in [Contexts -> CtxRecords] /\ Others(c) /\ ctx'[c] = r
    BY <1>0, <2>1, <2>2, Stepped
  <2>4. r.msg = None /\ r.pc \in {"idle", "unlock"}
    BY DEF Idle
  <2> DEFINE o == IF ctx[c].pc = "put" THEN "rejected" ELSE "dropped"
  <2>5. ASSUME NEW m \in Messages
        PROVE  OutsOf(m)' = IF m = ctx[c].msg THEN OutsOf(m) \cup {o} ELSE OutsOf(m)
    BY <1>9 DEF PutFull, OutsOf, outside
  <2>k. Kept
    BY <1>0, <1>9, <2>3, <2>4, <2>5, HandOver DEF PutFull
  <2>t. TypeOK'
    BY <1>0, <1>t, <1>9, <2>0, <2>3, <2>4 DEF PutFull, TypeOK, flags, outside, fates, SlotRecords
  <2>h. OneHolder'
    BY <1>0, <1>c, <1>9, <2>0, <2>3, <2>4, HolderKept DEF PutFull, flags, CtxRecords, Idle
  <2>l. LookedFirst'
    BY <1>0, <1>c, <1>9, <2>0, <2>3, <2>4, LookedKept DEF PutFull, flags, outside, fates, LookedFirst, CtxRecords, Others, Empty
  <2>. QED BY <2>k, <2>t, <2>h, <2>l DEF Kept, IInv
<1>10. ASSUME NEW c \in Contexts, PutDone(c) PROVE IInv'
  <2>0. ctx[c].i \in Indices /\ ctx[c].msg \in Messages
    BY <1>0, <1>c, <1>10 DEF PutDone, ClaimsOk, HandsOk, CtxRecords
  <2> DEFINE r == [Idle EXCEPT !.pc = IF ctx[c].pc = "fill" THEN "kick" ELSE "unlock"]
  <2>1. r \in CtxRecords
    BY <1>0, <1>c, <1>10 DEF CtxRecords, Idle
  <2>2. ctx' = [ctx EXCEPT ![c] = r]
    BY <1>0, <1>10 DEF PutDone
  <2>3. ctx' \in [Contexts -> CtxRecords] /\ Others(c) /\ ctx'[c] = r
    BY <1>0, <2>1, <2>2, Stepped
  <2>4. r.msg = None /\ r.pc \in {"kick", "unlock"} /\ (r.pc = "unlock" => ctx[c].pc # "fill")
    BY DEF Idle
  <2> DEFINE s == [state |-> "READY", data |-> ctx[c].msg]
  <2>5. s \in SlotRecords
    BY <2>0 DEF SlotRecords, SlotStates
  <2>6. slots' = [slots EXCEPT ![ctx[c].i] = s]
    BY <1>10 DEF PutDone, Store
  <2>7. slots' \in [Indices -> SlotRecords] /\ OtherSlots(ctx[c].i) /\ slots'[ctx[c].i] = s
    BY <1>0, <2>0, <2>5, <2>6, SlotStepped
  <2>k. Kept
    BY <1>0, <1>10, <2>0, <2>3, <2>4, <2>7, StoreFrame DEF PutDone, OutsStay, outside, fates
  <2>t. TypeOK'
    BY <1>0, <1>t, <1>10, <2>3, <2>4, <2>7 DEF PutDone, TypeOK, flags, outside, fates, SlotRecords
  <2>h. OneHolder'
    BY <1>0, <1>c, <1>10, <2>3, <2>4, <2>7, HolderKept DEF PutDone, flags, CtxRecords
  <2>l. LookedFirst'
    BY <1>0, <1>c, <1>10, <2>3, <2>4, <2>7, LookedKept DEF PutDone, flags, outside, fates, LookedFirst, CtxRecords
  <2>. QED BY <2>k, <2>t, <2>h, <2>l DEF Kept, IInv
<1>11. ASSUME NEW c \in Contexts, Get(c) PROVE IInv'
  <2> DEFINE stop == AtEnd(c) \/ (Indices \cap {ctx[c].i} # {} /\ NeverUsed(ctx[c].i))
  <2>0. ~stop => ctx[c].i \in Indices /\ ctx[c].i + 1 \in 1..(PoolSize + 1)
    BY <1>0, <1>c DEF AtEnd, Indices, CtxRecords
  <2>e. CASE stop
    <3> DEFINE r == [ctx[c] EXCEPT !.pc = "unlock", !.i = 1]
    <3>1. r \in CtxRecords
      BY <1>0, <1>c, <1>11, <2>e DEF CtxRecords
    <3>2. ctx' = [ctx EXCEPT ![c] = r]
      BY <1>0, <1>11, <2>e DEF Get, Scan
    <3>3. ctx' \in [Contexts -> CtxRecords] /\ Others(c) /\ ctx'[c] = r
      BY <1>0, <3>1, <3>2, Stepped
    <3>4. r.msg = ctx[c].msg /\ r.pc = "unlock" /\ UNCHANGED slots
      BY <1>c, <1>11, <2>e DEF CtxRecords, Get
    <3>k. Kept
      BY <1>0, <1>11, <3>3, <3>4, Walk DEF Get, OutsStay, outside, fates
    <3>t. TypeOK'
      BY <1>0, <1>t, <1>11, <3>3, <3>4 DEF Get, TypeOK, flags, outside, fates, SlotRecords
    <3>h. OneHolder'
      BY <1>0, <1>c, <1>11, <3>3, <3>4, HolderKept DEF Get, flags, CtxRecords
    <3>l. LookedFirst'
      BY <1>0, <1>c, <1>11, <3>3, <3>4, LookedKept DEF Get, flags, outside, fates, LookedFirst, CtxRecords
    <3>. QED BY <3>k, <3>t, <3>h, <3>l DEF Kept, IInv
  <2>n. CASE ~stop /\ ~Readable(ctx[c].i)
    <3> DEFINE r == [ctx[c] EXCEPT !.i = @ + 1]
    <3>1. r \in CtxRecords
      BY <1>0, <1>c, <1>11, <2>0, <2>n DEF CtxRecords
    <3>2. ctx' = [ctx EXCEPT ![c] = r]
      BY <1>0, <1>11, <2>0, <2>n DEF Get, NextSlot
    <3>3. ctx' \in [Contexts -> CtxRecords] /\ Others(c) /\ ctx'[c] = r
      BY <1>0, <2>0, <2>n, <3>1, <3>2, Stepped
    <3>4. r.msg = ctx[c].msg /\ r.pc = ctx[c].pc /\ UNCHANGED slots
      BY <1>c, <1>11, <2>n DEF CtxRecords, Get
    <3>k. Kept
      BY <1>0, <1>11, <3>3, <3>4, Walk DEF Get, OutsStay, outside, fates
    <3>t. TypeOK'
      BY <1>0, <1>t, <1>11, <3>3, <3>4 DEF Get, TypeOK, flags, outside, fates, SlotRecords
    <3>h. OneHolder'
      BY <1>0, <1>c, <1>11, <3>3, <3>4, HolderKept DEF Get, flags, CtxRecords
    <3>l. LookedFirst'
      BY <1>0, <1>c, <1>11, <3>3, <3>4, LookedKept DEF Get, flags, outside, fates, LookedFirst, CtxRecords
    <3>. QED BY <3>k, <3>t, <3>h, <3>l DEF Kept, IInv
  <2>c. CASE ~stop /\ Readable(ctx[c].i)
    <3> DEFINE r == [ctx[c] EXCEPT !.pc = "take"]
    <3>1. r \in CtxRecords
      BY <1>0, <1>c, <1>11, <2>c DEF CtxRecords
    <3>2. ctx' = [ctx EXCEPT ![c] = r]
      BY <1>0, <1>11, <2>c DEF Get, Goto
    <3>3. ctx' \in [Contexts -> CtxRecords] /\ Others(c) /\ ctx'[c] = r
      BY <1>0, <3>1, <3>2, Stepped
    <3> DEFINE s == [slots[ctx[c].i] EXCEPT !.state = "BUSY"]
    <3>4. s \in SlotRecords
      BY <1>s, <2>0, <2>c DEF SlotRecords, SlotStates
    <3>5. slots' = [slots EXCEPT ![ctx[c].i] = s]
      BY <1>0, <1>11, <2>0, <2>c DEF Get, Claim
    <3>6. slots' \in [Indices -> SlotRecords] /\ OtherSlots(ctx[c].i) /\ slots'[ctx[c].i] = s
      BY <1>0, <2>0, <2>c, <3>4, <3>5, SlotStepped
    <3>7. r.i = ctx[c].i /\ r.msg = ctx[c].msg /\ r.pc = "take" /\ ctx[c].pc = "get"
      BY <1>c, <1>11 DEF CtxRecords, Get
    <3>8. slots[ctx[c].i] \in [state : SlotStates, data : Messages \cup {None}]
      BY <1>s, <2>0, <2>c DEF SlotRecords
    <3>k. Kept
      BY <1>0, <1>11, <2>0, <2>c, <3>3, <3>6, <3>7, <3>8, ClaimReadable
      DEF Get, OutsStay, outside, fates
    <3>t. TypeOK'
      BY <1>0, <1>t, <1>11, <3>3, <3>6, <3>7 DEF Get, TypeOK, flags, outside, fates, SlotRecords
    <3>h. OneHolder'
      BY <1>0, <1>c, <1>11, <3>3, <3>6, <3>7, HolderKept DEF Get, flags, CtxRecords
    <3>l. LookedFirst'
      BY <1>0, <1>c, <1>11, <3>3, <3>6, <3>7, LookedKept DEF Get, flags, outside, fates, LookedFirst, CtxRecords
    <3>. QED BY <3>k, <3>t, <3>h, <3>l DEF Kept, IInv
  <2>. QED BY <2>e, <2>n, <2>c
<1>12. ASSUME NEW c \in Contexts, Take(c) PROVE IInv'
  <2>0. ctx[c].i \in Indices /\ slots[ctx[c].i].data \in Messages
    BY <1>0, <1>s, <1>12 DEF Take, ClaimsOk, SlotRecords
  <2> DEFINE r == [pc |-> "send", i |-> 1, msg |-> slots[ctx[c].i].data]
  <2>1. r \in CtxRecords
    BY <1>0, <1>c, <1>12, <2>0 DEF CtxRecords
  <2>2. ctx' = [ctx EXCEPT ![c] = r]
    BY <1>0, <1>12, <2>0 DEF Take
  <2>3. ctx' \in [Contexts -> CtxRecords] /\ Others(c) /\ ctx'[c] = r
    BY <1>0, <2>0, <2>1, <2>2, Stepped
  <2> DEFINE s == [slots[ctx[c].i] EXCEPT !.state = "RECYCLE"]
  <2>5. s \in SlotRecords /\ s.state = "RECYCLE"
    BY <1>s, <2>0 DEF SlotRecords, SlotStates
  <2>6. slots' = [slots EXCEPT ![ctx[c].i] = s]
    BY <1>12 DEF Take, Recycle
  <2>7. slots' \in [Indices -> SlotRecords] /\ OtherSlots(ctx[c].i) /\ slots'[ctx[c].i] = s
    BY <1>0, <2>0, <2>5, <2>6, SlotStepped
  <2>k. Kept
    BY <1>0, <1>12, <2>0, <2>3, <2>5, <2>7, TakeFrame DEF Take, OutsStay, outside, fates
  <2>t. TypeOK'
    BY <1>0, <1>t, <1>12, <2>3, <2>7 DEF Take, TypeOK, flags, outside, fates, SlotRecords
  <2>h. OneHolder'
    BY <1>0, <1>c, <1>12, <2>3, <2>7, HolderKept DEF Take, flags, CtxRecords
  <2>l. LookedFirst'
    BY <1>0, <1>c, <1>12, <2>3, <2>7, LookedKept DEF Take, flags, outside, fates, LookedFirst, CtxRecords
  <2>. QED BY <2>k, <2>t, <2>h, <2>l DEF Kept, IInv
<1>13. ASSUME NEW c \in Contexts, Send(c) PROVE IInv'
  <2>0. ctx[c].msg \in Messages
    BY <1>0, <1>c, <1>13 DEF Send, HandsOk, CtxRecords
  <2>c. CASE Empty
    <3> DEFINE r == [Idle EXCEPT !.pc = IF looks THEN "look" ELSE "get"]
    <3>1. r \in CtxRecords
      BY <1>0, <1>c, <1>13, <2>c DEF CtxRecords, Idle
    <3>2. ctx' = [ctx EXCEPT ![c] = r]
      BY <1>0, <1>13, <2>c DEF Send
    <3>3. ctx' \in [Contexts -> CtxRecords] /\ Others(c) /\ ctx'[c] = r
      BY <1>0, <3>1, <3>2, Stepped
    <3>4. r.msg = None /\ r.pc \in {"look", "get"} /\ (looks => r.pc = "look")
      BY DEF Idle
    <3>5. mailboxes' = mailboxes \cup {ctx[c].msg} /\ ctx[c].pc = "send"
      BY <1>13, <2>c DEF Send
    <3>6. ASSUME NEW m \in Messages
          PROVE  OutsOf(m)' = IF m = ctx[c].msg THEN OutsOf(m) \cup {"mailboxes"} ELSE OutsOf(m)
      BY <1>13, <3>5 DEF Send, OutsOf, fates
    <3>k. Kept
      BY <1>0, <1>13, <3>3, <3>4, <3>5, <3>6, HandOver DEF Send
    <3>m. mailboxes' \subseteq Messages /\ Cardinality(mailboxes') <= Mailboxes
      BY <1>0, <2>0, <2>c, <3>5, Posted
    <3>o. \A d \in Contexts \ {c} : ctx[d].pc \notin Holders
      BY <1>0, <3>5 DEF OneHolder
    <3>t. TypeOK'
      BY <1>0, <1>t, <1>13, <3>3, <3>4, <3>5, <3>m, <3>o DEF Send, TypeOK, flags, outside, fates, SlotRecords
    <3>h. OneHolder'
      BY <1>0, <1>c, <1>13, <3>3, <3>4, <3>5, <3>m, <3>o, HolderKept DEF Send, flags, CtxRecords
    <3>l. LookedFirst'
      BY <1>0, <1>c, <1>13, <3>3, <3>4, <3>5, <3>m, <3>o, LookedKept DEF Send, flags, outside, fates, LookedFirst, CtxRecords, Others
    <3>. QED BY <3>k, <3>t, <3>h, <3>l DEF Kept, IInv
  <2>n. CASE ~Empty
    <3> DEFINE r == [ctx[c] EXCEPT !.pc = "back"]
    <3>1. r \in CtxRecords
      BY <1>0, <1>c, <1>13, <2>n DEF CtxRecords
    <3>2. ctx' = [ctx EXCEPT ![c] = r]
      BY <1>0, <1>13, <2>n DEF Send, Goto
    <3>3. ctx' \in [Contexts -> CtxRecords] /\ Others(c) /\ ctx'[c] = r
      BY <1>0, <3>1, <3>2, Stepped
    <3>4. r.msg = ctx[c].msg /\ r.pc = "back" /\ ctx[c].pc = "send" /\ UNCHANGED mailboxes
      BY <1>c, <1>13, <2>n DEF CtxRecords, Send
    <3>k. Kept
      BY <1>0, <1>13, <3>3, <3>4, Walk DEF Send, OutsStay, fates
    <3>o. ~looks
      BY <1>0, <2>n, <3>4 DEF LookedFirst
    <3>t. TypeOK'
      BY <1>0, <1>t, <1>13, <3>3, <3>4, <3>o DEF Send, TypeOK, flags, outside, fates, SlotRecords
    <3>h. OneHolder'
      BY <1>0, <1>c, <1>13, <3>3, <3>4, <3>o, HolderKept DEF Send, flags, CtxRecords
    <3>l. LookedFirst'
      BY <1>0, <1>c, <1>13, <3>3, <3>4, <3>o, LookedKept DEF Send, flags, outside, fates, LookedFirst, CtxRecords
    <3>. QED BY <3>k, <3>t, <3>h, <3>l DEF Kept, IInv
  <2>. QED BY <2>c, <2>n
<1>14. CASE Transmit
  <2>0. PICK f \in mailboxes : mailboxes' = mailboxes \ {f} /\ sent' = sent \cup {f}
    BY <1>14 DEF Transmit
  <2>1. mailboxes' \subseteq Messages /\ Cardinality(mailboxes') <= Mailboxes /\ Empty'
    BY <1>0, <2>0, Emptied
  <2>2. f \in Messages
    BY <1>0, <2>0 DEF TypeOK
  <2>k. Kept
    BY <1>0, <1>14, <2>0, Leave DEF Transmit, fates
  <2>t. TypeOK'
    BY <1>0, <1>t, <1>14, <2>0, <2>1, <2>2 DEF Transmit, flags, fates, TypeOK
  <2>h. OneHolder' /\ LookedFirst'
    BY <1>0, <1>14, <2>1 DEF Transmit, flags, fates, OneHolder, LookedFirst
  <2>. QED BY <2>k, <2>t, <2>h DEF Kept, IInv
<1>15. CASE Interrupt
  <2> DEFINE r == [ctx[Isr] EXCEPT !.pc = "kick"]
  <2>1. r \in CtxRecords
    BY <1>0, <1>c, <1>15, <1>i DEF CtxRecords
  <2>2. ctx' = [ctx EXCEPT ![Isr] = r]
    BY <1>0, <1>15, <1>i DEF Interrupt, Goto
  <2>3. ctx' \in [Contexts -> CtxRecords] /\ Others(Isr) /\ ctx'[Isr] = r
    BY <1>0, <1>i, <2>1, <2>2, Stepped
  <2>4. r.msg = ctx[Isr].msg /\ r.pc = "kick" /\ ctx[Isr].pc = "idle"
    BY <1>c, <1>i, <1>15 DEF CtxRecords, Interrupt
  <2>k. Kept
    BY <1>0, <1>i, <1>15, <2>3, <2>4, Walk DEF Interrupt, OutsStay, fates
  <2>t. TypeOK'
    BY <1>0, <1>t, <1>i, <1>15, <2>3, <2>4 DEF Interrupt, TypeOK, flags, outside, fates, SlotRecords
  <2>h. OneHolder'
    BY <1>0, <1>c, <1>i, <1>15, <2>3, <2>4, HolderKept DEF Interrupt, flags, CtxRecords
  <2>l. LookedFirst'
    BY <1>0, <1>c, <1>i, <1>15, <2>3, <2>4, LookedKept DEF Interrupt, flags, outside, fates, LookedFirst, CtxRecords
  <2>. QED BY <2>k, <2>t, <2>h, <2>l DEF Kept, IInv
<1>16. CASE UNCHANGED vars
  <2>1. \A m : /\ SlotsOf(m)' = SlotsOf(m) /\ HandsOf(m)' = HandsOf(m)
               /\ TakesOf(m)' = TakesOf(m) /\ OutsOf(m)' = OutsOf(m)
    BY <1>16 DEF vars, SlotsOf, HandsOf, TakesOf, OutsOf, Readable, Slot
  <2>2. OnePlace'
    BY <1>0, <1>16, <2>1 DEF vars, OnePlace, InSlot, InHand, InTake, IsOut, Nowhere
  <2>3. TypeOK'
    BY <1>0, <1>t, <1>16 DEF vars, TypeOK
  <2>. QED
    BY <1>0, <1>16, <2>2, <2>3 DEF vars, IInv, HandsOk, ClaimsOk, OneHolder, LookedFirst, Readable,
       Empty
<1>. QED
  BY <1>1, <1>2, <1>3, <1>4, <1>5, <1>6, <1>7, <1>8, <1>9, <1>10, <1>11, <1>12, <1>13, <1>14, <1>15,
     <1>16 DEF Next, Step, Running

----------------------------------------------------------------------------
(* The theorems.                                                              *)

\* The types of the pool and of the driver, for any pool, any number of
\* mailboxes and of calling contexts.
THEOREM CanTypes == ASSUME CanAssumption PROVE Spec => []TypeOK
<1>1. IInv => TypeOK
  BY DEF IInv
<1>. QED BY <1>1, InvInit, InvNext, PTL DEF Spec

LEMMA OneFrame ==
    ASSUME NEW S, S = {} \/ \E x : S = {x}
    PROVE  Cardinality(S) = IF S = {} THEN 0 ELSE 1
BY FS_EmptySet, FS_Singleton

LEMMA Counted == CanAssumption /\ IInv => FramesAccounted
<1> SUFFICES ASSUME CanAssumption, IInv PROVE FramesAccounted
  OBVIOUS
<1>1. looks => dropped = {}
  BY DEF IInv, LookedFirst
<1>2. ASSUME NEW m \in 1..offered
      PROVE  Cardinality(SlotsOf(m)) + Cardinality(HandsOf(m)) + Cardinality(TakesOf(m))
             + One(m \in mailboxes) + One(m \in sent) + One(m \in rejected) + One(m \in dropped) = 1
  <2>1. m \in Messages /\ m <= offered
    BY <1>2 DEF IInv, TypeOK, Messages, CanAssumption
  <2>2. InSlot(m) \/ InHand(m) \/ InTake(m) \/ IsOut(m)
    BY <2>1 DEF IInv, OnePlace
  <2>3. /\ Cardinality(SlotsOf(m)) = IF SlotsOf(m) = {} THEN 0 ELSE 1
        /\ Cardinality(HandsOf(m)) = IF HandsOf(m) = {} THEN 0 ELSE 1
        /\ Cardinality(TakesOf(m)) = IF TakesOf(m) = {} THEN 0 ELSE 1
    BY <2>2, OneFrame DEF InSlot, InHand, InTake, IsOut
  <2>4. /\ One(m \in mailboxes) = IF "mailboxes" \in OutsOf(m) THEN 1 ELSE 0
        /\ One(m \in sent) = IF "sent" \in OutsOf(m) THEN 1 ELSE 0
        /\ One(m \in rejected) = IF "rejected" \in OutsOf(m) THEN 1 ELSE 0
        /\ One(m \in dropped) = IF "dropped" \in OutsOf(m) THEN 1 ELSE 0
    BY DEF One, OutsOf
  <2>5. CASE InSlot(m)
    BY <2>3, <2>4, <2>5 DEF InSlot
  <2>6. CASE InHand(m)
    BY <2>3, <2>4, <2>6 DEF InHand
  <2>7. CASE InTake(m)
    BY <2>3, <2>4, <2>7 DEF InTake
  <2>8. CASE IsOut(m)
    BY <2>3, <2>4, <2>8 DEF IsOut
  <2>. QED BY <2>2, <2>5, <2>6, <2>7, <2>8
<1>. QED BY <1>1, <1>2 DEF FramesAccounted, SlotsOf, HandsOf, TakesOf

\* A frame offered to AddMessage is in exactly one place, and the driver that
\* looks for an empty mailbox first drops none.
THEOREM NoFrameLost == ASSUME CanAssumption PROVE Spec => []FramesAccounted
<1>. QED BY InvInit, InvNext, Counted, PTL DEF Spec


----------------------------------------------------------------------------
(* CdcReceive: the inductive invariant.                                       *)

Enough == queue # <<>> /\ Len(queue) >= want

\* They hold at any time; the room left is never negative.
ReceiveBounds ==
    /\ Len(queue) <= Cap /\ Len(pending_data) <= MPS /\ made >= Len(pending_data)
    /\ pc \in {"size", "pop", "arm", "wait"} => want \in Reads
    /\ pc \in {"store", "storeAgain"} => tail <= Len(queue) /\ tail + Len(batch) <= Cap

\* The bytes 1..made: those read, those queued and those that wait for room.
BytesInLine ==
    /\ \A k \in 1..Len(queue) : queue[k] = got + k
    /\ \A k \in 1..Len(CdcIn!Waiting) : CdcIn!Waiting[k] = got + Len(queue) + k
    /\ made = got + Len(queue) + Len(CdcIn!Waiting)

\* Where the thread moves the packet that waits, and where it arms the endpoint.
Moving == {"dequeue", "pending", "room", "push", "store", "clear"}
Rearming == {"rearm", "paused", "roomAgain", "pushAgain", "storeAgain", "state", "transfer"}

\* The endpoint is held back while a packet waits that does not fit, and for as
\* long as the thread that made room for it takes to arm it again.
HeldBack ==
    /\ bound /\ ~armed => recv_pause /\ (pending_data # <<>> \/ pc \in Rearming)
    /\ ~bound => ~recv_pause
    /\ pending_data # <<>> => ~armed /\ recv_pause
    /\ pending_data # <<>> /\ pc \notin Moving => ~CdcIn!Fits(pending_data)
    /\ pc \in {"storeAgain", "state", "transfer", "resume"} => pending_data = <<>>
    /\ pc = "resume" /\ bound => armed

\* Nobody queues while the thread does, and the second push adds nothing.
Pushing ==
    /\ pc \in {"store", "storeAgain"} => tail = Len(queue)
    /\ pc = "storeAgain" => batch = <<>>

\* The reader waits, or is about to, only for bytes that are not there.
Waits ==
    /\ busy = "PENDING" <=> pc = "wait"
    /\ pc = "wait" \/ (pc = "arm" /\ busy = "IDLE") => ~Enough
    /\ pc = "pop" => Enough

Unraced == BytesInLine /\ HeldBack /\ Pushing /\ Waits

ReceiveInv == CdcIn!CdcReceiveTypeOK /\ ReceiveBounds /\ (~rraced => Unraced)

----------------------------------------------------------------------------
(* CdcReceive: the sequences it works with.                                   *)

LEMMA Drops ==
    ASSUME NEW S, NEW q \in Seq(S), NEW n \in Nat
    PROVE  /\ CdcIn!Drop(q, n) \in Seq(S)
           /\ n <= Len(q) => /\ Len(CdcIn!Drop(q, n)) = Len(q) - n
                             /\ \A k \in 1..(Len(q) - n) : CdcIn!Drop(q, n)[k] = q[n + k]
           /\ Len(CdcIn!Drop(q, n)) <= Len(q)
<1>1. n + 1 \in Int /\ Len(q) \in Int /\ \A i \in (n + 1)..Len(q) : q[i] \in S
  BY LenProperties
<1>2. /\ SubSeq(q, n + 1, Len(q)) \in Seq(S)
      /\ Len(SubSeq(q, n + 1, Len(q))) = IF n + 1 <= Len(q) THEN Len(q) - (n + 1) + 1 ELSE 0
      /\ \A i \in 1..(Len(q) - (n + 1) + 1) :
            SubSeq(q, n + 1, Len(q))[i] = q[n + 1 + i - 1]
  BY <1>1, SubSeqProperties
<1>. QED BY <1>1, <1>2 DEF CdcIn!Drop

LEMMA PacketIs ==
    ASSUME CdcIn!CdcReceiveAssumption, NEW size \in Packets, made \in Nat, made + size <= MaxBytes
    PROVE  /\ CdcIn!NextPacket(size) \in Seq(1..MaxBytes) /\ Len(CdcIn!NextPacket(size)) = size
           /\ CdcIn!NextPacket(size) # <<>> /\ size \in 1..MPS
           /\ \A k \in 1..size : CdcIn!NextPacket(size)[k] = made + k
<1>1. size \in 1..MPS /\ MPS \in Nat /\ MaxBytes \in Nat
  BY DEF CdcIn!CdcReceiveAssumption
<1>2. \A k \in 1..size : made + k \in 1..MaxBytes
  BY <1>1
<1>. QED BY <1>1, <1>2 DEF CdcIn!NextPacket

LEMMA Joined ==
    ASSUME NEW S, NEW p \in Seq(S), NEW q \in Seq(S)
    PROVE  /\ p \o q \in Seq(S) /\ Len(p \o q) = Len(p) + Len(q)
           /\ \A k \in 1..Len(p) : (p \o q)[k] = p[k]
           /\ \A k \in 1..Len(q) : (p \o q)[Len(p) + k] = q[k]
<1>1. Len(p) \in Nat /\ Len(q) \in Nat
  OBVIOUS
<1>. QED BY <1>1, ConcatProperties

\* What a read takes from the queue moves the line on.
LEMMA TakenInLine ==
    ASSUME NEW q \in Seq(1..MaxBytes), NEW n \in Nat, n <= Len(q), got \in Nat,
           \A k \in 1..Len(q) : q[k] = got + k
    PROVE  \A k \in 1..Len(CdcIn!Drop(q, n)) : CdcIn!Drop(q, n)[k] = got + n + k
<1>1. \A k \in 1..(Len(q) - n) : CdcIn!Drop(q, n)[k] = q[n + k] /\ n + k \in 1..Len(q)
  BY Drops
<1>. QED BY <1>1, Drops

----------------------------------------------------------------------------
(* CdcReceive: the invariant is inductive.                                    *)

LEMMA ReceiveInit == CdcIn!CdcReceiveAssumption /\ CdcIn!Init => ReceiveInv
<1> SUFFICES ASSUME CdcIn!CdcReceiveAssumption, CdcIn!Init PROVE ReceiveInv
  OBVIOUS
<1>1. <<>> \in Seq(1..MaxBytes) /\ Len(<<>>) = 0 /\ 0 \in 0..MaxBytes /\ 0 \in 0..Cap
  BY DEF CdcIn!CdcReceiveAssumption
<1>2. CdcIn!CdcReceiveTypeOK
  BY <1>1 DEF CdcIn!Init, CdcIn!CdcReceiveTypeOK
<1>3. ReceiveBounds
  BY <1>1 DEF CdcIn!CdcReceiveAssumption, CdcIn!Init, ReceiveBounds
<1>4. Unraced
  BY <1>1 DEF CdcIn!Init, Unraced, BytesInLine, HeldBack, Pushing, Waits, CdcIn!Waiting
<1>. QED BY <1>2, <1>3, <1>4 DEF ReceiveInv

\* What leaves the queue, the bytes read and sent, and the packet that waits, as
\* they are leaves the line as it is.
LEMMA SameLine ==
    ASSUME BytesInLine, UNCHANGED <<queue, got, made>>, CdcIn!Waiting' = CdcIn!Waiting
    PROVE  BytesInLine'
BY DEF BytesInLine

\* A sequence that follows the queue in line extends it.
LEMMA LineJoined ==
    ASSUME NEW p \in Seq(1..MaxBytes), queue \in Seq(1..MaxBytes), got \in Nat,
           \A k \in 1..Len(queue) : queue[k] = got + k,
           \A k \in 1..Len(p) : p[k] = got + Len(queue) + k
    PROVE  /\ queue \o p \in Seq(1..MaxBytes) /\ Len(queue \o p) = Len(queue) + Len(p)
           /\ \A k \in 1..Len(queue \o p) : (queue \o p)[k] = got + k
<1>1. /\ queue \o p \in Seq(1..MaxBytes) /\ Len(queue \o p) = Len(queue) + Len(p)
      /\ \A k \in 1..Len(queue) : (queue \o p)[k] = queue[k]
      /\ \A k \in 1..Len(p) : (queue \o p)[Len(queue) + k] = p[k]
  BY Joined
<1>2. Len(queue) \in Nat /\ Len(p) \in Nat
  OBVIOUS
<1>3. ASSUME NEW k \in 1..Len(queue \o p) PROVE (queue \o p)[k] = got + k
  <2>1. CASE k <= Len(queue)
    BY <1>1, <1>2, <1>3, <2>1
  <2>2. CASE ~(k <= Len(queue))
    <3>1. k - Len(queue) \in 1..Len(p)
      BY <1>1, <1>2, <1>3, <2>2
    <3>2. (queue \o p)[Len(queue) + (k - Len(queue))] = got + Len(queue) + (k - Len(queue))
      BY <1>1, <3>1
    <3>. QED BY <1>2, <1>3, <3>2
  <2>. QED BY <2>1, <2>2
<1>. QED BY <1>1, <1>3

\* A step that only looks disturbs nothing, if the endpoint is rightly held back
\* where it leads.
LEMMA LookKeeps ==
    ASSUME CdcIn!CdcReceiveAssumption, ReceiveInv,
           pc \in {"dequeue", "pending", "room", "push", "rearm", "paused", "roomAgain",
                  "pushAgain", "state"},
           NEW next \in {"idle", "pending", "room", "push", "rearm", "paused", "roomAgain",
                         "pushAgain", "state", "transfer"},
           CdcIn!GoTo(next), CdcIn!LookOnly, ~rraced => HeldBack'
    PROVE  ReceiveInv'
<1>1. /\ pc' = next /\ want' = (IF next = "idle" THEN 0 ELSE want)
      /\ UNCHANGED <<made, bound, armed, recv_pause, pending_data, queue, busy, tail, batch, got,
                     rraced>>
  BY DEF CdcIn!GoTo, CdcIn!LookOnly
<1>2. CdcIn!CdcReceiveTypeOK'
  BY <1>1 DEF ReceiveInv, CdcIn!CdcReceiveTypeOK
<1>3. ReceiveBounds'
  BY <1>1 DEF ReceiveInv, ReceiveBounds
<1>4. ASSUME ~rraced' PROVE Unraced'
  <2>1. CdcIn!Waiting' = CdcIn!Waiting
    BY <1>1 DEF CdcIn!Waiting
  <2>2. BytesInLine'
    BY <1>1, <1>4, <2>1, SameLine DEF ReceiveInv, Unraced
  <2>3. Pushing' /\ Waits'
    BY <1>1, <1>4 DEF ReceiveInv, Unraced, Pushing, Waits
  <2>. QED BY <1>1, <1>4, <2>2, <2>3 DEF Unraced
<1>. QED BY <1>2, <1>3, <1>4 DEF ReceiveInv

\* PushBatch() finds room, and has what it will store.
LEMMA PushKeeps ==
    ASSUME CdcIn!CdcReceiveAssumption, ReceiveInv,
           NEW next, \/ pc = "push" /\ next = "store"
                     \/ pc = "pushAgain" /\ next = "storeAgain",
           CdcIn!PushBatch(pc, next), CdcIn!Fits(pending_data)
    PROVE  ReceiveInv'
<1>1. /\ pc' = next /\ want' = want /\ tail' = Len(queue) /\ batch' = pending_data
      /\ UNCHANGED <<made, bound, armed, recv_pause, pending_data, queue, busy, got, rraced>>
  BY DEF CdcIn!PushBatch, CdcIn!GoTo
<1>2. /\ CdcIn!CdcReceiveTypeOK /\ ReceiveBounds /\ Cap \in Nat /\ Len(queue) \in Nat
      /\ Len(pending_data) \in Nat /\ Len(queue) \in 0..Cap
      /\ Len(queue) + Len(pending_data) <= Cap
  BY DEF ReceiveInv, CdcIn!CdcReceiveTypeOK, CdcIn!CdcReceiveAssumption, ReceiveBounds, CdcIn!Fits
<1>3. CdcIn!CdcReceiveTypeOK'
  BY <1>1, <1>2 DEF CdcIn!CdcReceiveTypeOK
<1>4. ReceiveBounds'
  BY <1>1, <1>2 DEF ReceiveBounds
<1>5. ASSUME ~rraced' PROVE Unraced'
  <2>0. BytesInLine /\ HeldBack /\ Pushing /\ Waits
    BY <1>1, <1>5 DEF ReceiveInv, Unraced
  <2>1. CdcIn!Waiting' = CdcIn!Waiting
    BY <1>1 DEF CdcIn!Waiting
  <2>2. BytesInLine'
    BY <1>1, <2>0, <2>1, SameLine
  <2>3. pc = "pushAgain" => pending_data = <<>>
    BY <2>0 DEF HeldBack, Moving
  <2>4. HeldBack'
    BY <1>1, <2>0, <2>3 DEF HeldBack, Moving, Rearming
  <2>5. Pushing' /\ Waits'
    BY <1>1, <2>0, <2>3 DEF Pushing, Waits
  <2>. QED BY <2>2, <2>4, <2>5 DEF Unraced
<1>. QED BY <1>3, <1>4, <1>5 DEF ReceiveInv

\* The batch is stored behind what was queued when its place was computed.
LEMMA StoreKeeps ==
    ASSUME CdcIn!CdcReceiveAssumption, ReceiveInv,
           NEW next, \/ pc = "store" /\ next = "clear" /\ UNCHANGED busy
                     \/ pc = "storeAgain" /\ next = "state" /\ busy' = "EVENT",
           CdcIn!StoreTail(pc, next)
    PROVE  ReceiveInv'
<1>1. /\ pc' = next /\ want' = want /\ tail' = 0 /\ batch' = <<>>
      /\ queue' = SubSeq(queue, 1, tail) \o batch
      /\ UNCHANGED <<made, bound, armed, recv_pause, pending_data, got, rraced>>
  BY DEF CdcIn!StoreTail, CdcIn!GoTo
<1>2. /\ CdcIn!CdcReceiveTypeOK /\ ReceiveBounds /\ Cap \in Nat /\ MaxBytes \in Nat
      /\ queue \in Seq(1..MaxBytes) /\ batch \in Seq(1..MaxBytes) /\ tail \in Nat
      /\ Len(queue) \in Nat /\ Len(batch) \in Nat /\ tail <= Len(queue)
      /\ tail + Len(batch) <= Cap /\ got \in Nat
  BY DEF ReceiveInv, CdcIn!CdcReceiveTypeOK, CdcIn!CdcReceiveAssumption, ReceiveBounds
<1>3. <<>> \in Seq(1..MaxBytes) /\ Len(<<>>) = 0
  OBVIOUS
<1>4. SubSeq(queue, 1, tail) \in Seq(1..MaxBytes) /\ Len(SubSeq(queue, 1, tail)) = tail
  <2>1. \A i \in 1..tail : queue[i] \in 1..MaxBytes
    BY <1>2
  <2>2. SubSeq(queue, 1, tail) \in Seq(1..MaxBytes)
        /\ Len(SubSeq(queue, 1, tail)) = IF 1 <= tail THEN tail - 1 + 1 ELSE 0
    BY <1>2, <2>1, SubSeqProperties
  <2>. QED BY <1>2, <2>2
<1>5. queue' \in Seq(1..MaxBytes) /\ Len(queue') = tail + Len(batch)
  <2> DEFINE front == SubSeq(queue, 1, tail)
  <2> HIDE DEF front
  <2>1. front \in Seq(1..MaxBytes) /\ Len(front) = tail
    BY <1>4 DEF front
  <2>2. front \o batch \in Seq(1..MaxBytes) /\ Len(front \o batch) = Len(front) + Len(batch)
    BY ONLY <1>2, <2>1, Joined
  <2>. QED BY <1>1, <2>1, <2>2 DEF front
<1>6. CdcIn!CdcReceiveTypeOK'
  <2>1. busy' \in {"IDLE", "EVENT", "PENDING"} /\ tail' \in 0..Cap
    BY <1>1, <1>2 DEF CdcIn!CdcReceiveTypeOK
  <2>. QED BY <1>1, <1>2, <1>3, <1>5, <2>1 DEF CdcIn!CdcReceiveTypeOK
<1>7. ReceiveBounds'
  BY <1>1, <1>2, <1>5 DEF ReceiveBounds
<1>8. ASSUME ~rraced' PROVE Unraced'
  <2>0. BytesInLine /\ HeldBack /\ Pushing /\ Waits /\ tail = Len(queue)
    BY <1>1, <1>8 DEF ReceiveInv, Unraced, Pushing
  <2>1. queue' = queue \o batch
    <3>1. SubSeq(queue, 1, tail) = queue
      BY <1>2, <2>0, SubSeqFull
    <3>. QED BY <1>1, <3>1
  <2>2. BytesInLine'
    <3>1. CASE pc = "store"
      <4>1. CdcIn!Waiting = batch /\ CdcIn!Waiting' = <<>>
        BY <1>1, <3>1 DEF CdcIn!Waiting
      <4>2. made' = got' + Len(queue')
        BY <1>1, <1>2, <1>5, <2>0, <4>1 DEF BytesInLine
      <4>3. \A k \in 1..Len(queue') : queue'[k] = got + k
        <5>1. /\ \A k \in 1..Len(queue) : queue[k] = got + k
              /\ \A k \in 1..Len(batch) : batch[k] = got + Len(queue) + k
          BY <2>0, <4>1 DEF BytesInLine
        <5>. QED BY ONLY <1>2, <2>1, <5>1, LineJoined
      <4>. QED BY <1>1, <1>2, <1>3, <1>5, <4>1, <4>2, <4>3 DEF BytesInLine
    <3>2. CASE pc = "storeAgain"
      <4>1. queue' = queue
        BY <1>2, <2>0, <2>1, <3>2, ConcatEmptySeq DEF Pushing
      <4>2. CdcIn!Waiting' = CdcIn!Waiting
        BY <1>1, <3>2 DEF CdcIn!Waiting
      <4>. QED BY <1>1, <2>0, <4>1, <4>2, SameLine
    <3>. QED BY <3>1, <3>2
  <2>3. HeldBack'
    BY <1>1, <2>0 DEF HeldBack, Moving, Rearming
  <2>4. Pushing' /\ Waits'
    BY <1>1, <2>0 DEF Pushing, Waits
  <2>. QED BY <2>2, <2>3, <2>4 DEF Unraced
<1>. QED BY <1>6, <1>7, <1>8 DEF ReceiveInv

LEMMA ReceiveNext ==
    ASSUME CdcIn!CdcReceiveAssumption, ReceiveInv, [CdcIn!Next]_CdcIn!vars
    PROVE  ReceiveInv'
<1>a. CdcIn!CdcReceiveTypeOK /\ ReceiveBounds
      /\ (~rraced => BytesInLine /\ HeldBack /\ Pushing /\ Waits)
  BY DEF ReceiveInv, Unraced
<1>b. /\ Cap \in Nat /\ MPS \in 1..Cap /\ Packets \subseteq 1..MPS /\ Reads \subseteq 1..Cap
      /\ MaxBytes \in Nat
  BY DEF CdcIn!CdcReceiveAssumption
<1>c. /\ made \in 0..MaxBytes /\ bound \in BOOLEAN /\ armed \in BOOLEAN /\ recv_pause \in BOOLEAN
      /\ rraced \in BOOLEAN /\ pending_data \in Seq(1..MaxBytes) /\ queue \in Seq(1..MaxBytes)
      /\ batch \in Seq(1..MaxBytes) /\ tail \in 0..Cap /\ got \in Nat
      /\ busy \in {"IDLE", "EVENT", "PENDING"} /\ want \in Reads \cup {0} /\ want \in Nat
      /\ Len(queue) \in Nat /\ Len(pending_data) \in Nat /\ Len(batch) \in Nat
  BY <1>a, <1>b DEF CdcIn!CdcReceiveTypeOK
<1>d. <<>> \in Seq(1..MaxBytes) /\ Len(<<>>) = 0
  OBVIOUS
<1> USE <1>b, <1>c
<1>1. ASSUME NEW size \in Packets, CdcIn!Receive(size) PROVE ReceiveInv'
  <2> DEFINE p == CdcIn!NextPacket(size)
             q == queue \o p
             t == CdcIn!Taken(q)
  <2>0. /\ made + size <= MaxBytes /\ made' = made + size /\ ~rraced /\ bound /\ armed
        /\ CdcIn!Fits(p) /\ queue' = CdcIn!Drop(q, t) /\ got' = got + t
        /\ busy' = CdcIn!Noticed(q) /\ recv_pause' = FALSE
        /\ pc' = (IF CdcIn!Serves(q) THEN "idle" ELSE pc)
        /\ want' = (IF CdcIn!Serves(q) THEN 0 ELSE want)
        /\ rraced' \in BOOLEAN /\ (~rraced' => pc \notin {"store", "storeAgain"})
        /\ UNCHANGED <<bound, armed, pending_data, tail, batch>>
    <3>1. rraced' = (pc \in {"store", "storeAgain"})
      BY <1>1 DEF CdcIn!Receive
    <3>2. ~rraced' => pc \notin {"store", "storeAgain"}
      BY ONLY <3>1, Zenon
    <3>3. rraced' \in BOOLEAN
      BY ONLY <3>1
    <3>. QED BY <1>1, <3>2, <3>3 DEF CdcIn!Receive, CdcIn!Arrives
  <2>1. /\ p \in Seq(1..MaxBytes) /\ Len(p) = size /\ size \in 1..MPS
        /\ \A k \in 1..size : p[k] = made + k
    BY <2>0, PacketIs
  <2> HIDE DEF p
  <2>2. /\ BytesInLine /\ HeldBack /\ Pushing /\ Waits /\ pending_data = <<>>
        /\ ~rraced' => CdcIn!Waiting = <<>> /\ made = got + Len(queue)
    <3>1. BytesInLine /\ HeldBack /\ Pushing /\ Waits
      BY <1>a, <2>0
    <3>2. pending_data = <<>>
      BY <2>0, <3>1 DEF HeldBack
    <3>3. ASSUME ~rraced' PROVE CdcIn!Waiting = <<>>
      BY <2>0, <3>2, <3>3 DEF CdcIn!Waiting
    <3>4. ASSUME CdcIn!Waiting = <<>> PROVE made = got + Len(queue)
      <4>1. made = got + Len(queue) + Len(<<>>)
        BY <3>1, <3>4 DEF BytesInLine
      <4>. QED BY <1>d, <4>1
    <3>. QED BY <3>1, <3>2, <3>3, <3>4
  <2>3. q \in Seq(1..MaxBytes) /\ Len(q) = Len(queue) + size /\ Len(q) <= Cap /\ q # <<>>
    <3>1. q \in Seq(1..MaxBytes) /\ Len(q) = Len(queue) + Len(p)
      BY ONLY <1>c, <2>1, Joined
    <3>. QED BY <1>d, <2>0, <2>1, <3>1 DEF CdcIn!Fits
  <2>4. t \in Nat /\ t <= Len(q) /\ t \in Reads \cup {0}
    BY <2>3 DEF CdcIn!Taken, CdcIn!Serves
  <2> HIDE DEF q, t
  <2>5. queue' \in Seq(1..MaxBytes) /\ Len(queue') = Len(q) - t
    BY <2>0, <2>3, <2>4, Drops
  <2>6. /\ CdcIn!Serves(q) => pc = "wait" /\ pc' = "idle" /\ busy' = "IDLE"
        /\ ~CdcIn!Serves(q) => /\ pc' = pc /\ want' = want /\ t = 0
                               /\ busy' = IF busy = "PENDING" THEN "PENDING" ELSE "EVENT"
    BY <2>0, <2>2 DEF CdcIn!Serves, CdcIn!Noticed, Waits, t, CdcIn!Taken
  <2>7. CdcIn!CdcReceiveTypeOK'
    <3>1. made' \in 0..MaxBytes /\ got' \in Nat
      BY <2>0, <2>1, <2>4
    <3>2. /\ want' \in Reads \cup {0} /\ busy' \in {"IDLE", "EVENT", "PENDING"}
          /\ {bound', armed', recv_pause', rraced'} \subseteq BOOLEAN
      BY <2>0, <2>6
    <3>. QED BY <1>a, <2>0, <2>5, <2>6, <3>1, <3>2 DEF CdcIn!CdcReceiveTypeOK
  <2>8. ReceiveBounds'
    <3>1. Len(queue') <= Cap /\ made' >= Len(pending_data')
      <4>1. made >= Len(pending_data)
        BY <1>a DEF ReceiveBounds
      <4>2. made' >= Len(pending_data)
        BY <2>0, <2>1, <4>1
      <4>. QED BY <2>0, <2>3, <2>4, <2>5, <4>2
    <3>2. ASSUME pc' \in {"store", "storeAgain"}
          PROVE  tail' <= Len(queue') /\ tail' + Len(batch') <= Cap
      <4>1. pc' = pc /\ t = 0
        BY <2>6, <3>2
      <4>. QED BY <1>a, <2>0, <2>1, <2>3, <2>5, <3>2, <4>1 DEF ReceiveBounds
    <3>3. pc' \in {"size", "pop", "arm", "wait"} => want' \in Reads
      BY <1>a, <2>6 DEF ReceiveBounds
    <3>. QED BY <1>a, <2>0, <3>1, <3>2, <3>3 DEF ReceiveBounds
  <2>9. ASSUME ~rraced' PROVE Unraced'
    <3>0. pc \notin {"store", "storeAgain"} /\ made = got + Len(queue)
      BY <2>0, <2>2, <2>9
    <3>1. \A k \in 1..Len(q) : q[k] = got + k
      <4>1. \A k \in 1..Len(p) : p[k] = got + Len(queue) + k
        BY <2>1, <3>0
      <4>. QED BY <1>c, <2>1, <2>2, <4>1, LineJoined DEF BytesInLine, q
    <3>2. BytesInLine'
      <4>1. \A k \in 1..Len(queue') : queue'[k] = got' + k
        BY <2>0, <2>3, <2>4, <3>1, TakenInLine
      <4>2. made' = got' + Len(queue')
        BY <2>0, <2>1, <2>3, <2>4, <2>5, <3>0
      <4>3. CdcIn!Waiting' = <<>>
        BY <2>0, <2>2, <2>6, <3>0 DEF CdcIn!Waiting
      <4>. QED BY <1>d, <2>5, <4>1, <4>2, <4>3 DEF BytesInLine
    <3>3. HeldBack'
      BY <2>0, <2>2, <2>6 DEF HeldBack
    <3>4. Pushing'
      BY <2>6, <3>0 DEF Pushing
    <3>5. Waits'
      <4>1. CASE CdcIn!Serves(q)
        BY <2>6, <4>1 DEF Waits
      <4>2. CASE ~CdcIn!Serves(q)
        <5>1. Len(queue') = Len(q) /\ queue' # <<>>
          BY <1>d, <2>1, <2>3, <2>5, <2>6, <4>2
        <5>2. pc = "wait" => ~(Len(queue') >= want)
          BY <2>2, <2>3, <4>2, <5>1 DEF Waits, CdcIn!Serves
        <5>3. pc = "pop" => Len(queue') >= want
          BY <2>1, <2>2, <2>3, <5>1 DEF Waits, Enough
        <5>. QED BY <2>2, <2>6, <4>2, <5>1, <5>2, <5>3 DEF Waits, Enough
      <4>. QED BY <4>1, <4>2
    <3>. QED BY <3>2, <3>3, <3>4, <3>5 DEF Unraced
  <2>. QED BY <2>7, <2>8, <2>9 DEF ReceiveInv
<1>2. ASSUME NEW size \in Packets, CdcIn!Pause(size) PROVE ReceiveInv'
  <2> DEFINE p == CdcIn!NextPacket(size)
  <2>0. /\ made + size <= MaxBytes /\ made' = made + size /\ ~rraced /\ bound /\ armed
        /\ ~CdcIn!Fits(p) /\ armed' = FALSE /\ recv_pause' = TRUE /\ pending_data' = p
        /\ rraced' \in BOOLEAN
        /\ ~rraced' => pc \notin {"store", "clear", "storeAgain", "state", "transfer", "resume"}
        /\ UNCHANGED <<bound, queue, busy, pc, want, tail, batch, got>>
    <3>1. rraced' = (pc \in {"store", "clear", "storeAgain", "state", "transfer", "resume"})
      BY <1>2 DEF CdcIn!Pause
    <3>2. ~rraced' => pc \notin {"store", "clear", "storeAgain", "state", "transfer", "resume"}
      BY ONLY <3>1, Zenon
    <3>3. rraced' \in BOOLEAN
      BY ONLY <3>1
    <3>. QED BY <1>2, <3>2, <3>3 DEF CdcIn!Pause, CdcIn!Arrives
  <2>1. /\ p \in Seq(1..MaxBytes) /\ Len(p) = size /\ size \in 1..MPS /\ p # <<>>
        /\ \A k \in 1..size : p[k] = made + k
    BY <2>0, PacketIs
  <2> HIDE DEF p
  <2>2. BytesInLine /\ HeldBack /\ Pushing /\ Waits
    BY <1>a, <2>0
  <2>3. CdcIn!CdcReceiveTypeOK' /\ ReceiveBounds'
    <3>1. made' \in 0..MaxBytes /\ made' >= Len(pending_data') /\ Len(pending_data') <= MPS
      BY <2>0, <2>1
    <3>2. {bound', armed', recv_pause', rraced'} \subseteq BOOLEAN
      BY <2>0
    <3>3. CdcIn!CdcReceiveTypeOK'
      BY <1>a, <2>0, <2>1, <3>1, <3>2 DEF CdcIn!CdcReceiveTypeOK
    <3>4. ReceiveBounds'
      BY <1>a, <2>0, <3>1 DEF ReceiveBounds
    <3>. QED BY <3>3, <3>4
  <2>4. ASSUME ~rraced' PROVE Unraced'
    <3>1. pending_data = <<>> /\ pc \notin {"store", "clear", "storeAgain", "state", "transfer", "resume"}
      BY <2>0, <2>2, <2>4 DEF HeldBack
    <3>2. CdcIn!Waiting = <<>> /\ CdcIn!Waiting' = p
      BY <2>0, <3>1 DEF CdcIn!Waiting
    <3>3. BytesInLine'
      <4>1. made = got + Len(queue) /\ \A k \in 1..Len(queue) : queue[k] = got + k
        BY <1>d, <2>2, <3>2 DEF BytesInLine
      <4>. QED BY <2>0, <2>1, <3>2, <4>1 DEF BytesInLine
    <3>4. HeldBack'
      BY <2>0, <2>1, <2>2, <3>1 DEF HeldBack, CdcIn!Fits
    <3>5. Pushing' /\ Waits'
      BY <2>0, <2>2 DEF Pushing, Waits, Enough
    <3>. QED BY <3>3, <3>4, <3>5 DEF Unraced
  <2>. QED BY <2>3, <2>4 DEF ReceiveInv
<1>3. CASE CdcIn!UnbindEndpoints
  <2>0. /\ ~rraced /\ bound /\ bound' = FALSE /\ armed' = FALSE /\ recv_pause' = FALSE
        /\ pending_data' = <<>> /\ made' = made - Len(CdcIn!Forgotten)
        /\ UNCHANGED <<queue, busy, pc, want, tail, batch, got>> /\ rraced' \in BOOLEAN
    BY <1>3 DEF CdcIn!UnbindEndpoints
  <2>1. /\ CdcIn!Forgotten \in {<<>>, pending_data} /\ Len(CdcIn!Forgotten) \in Nat
        /\ Len(CdcIn!Forgotten) <= made
    BY <1>a, <1>d DEF CdcIn!Forgotten, ReceiveBounds
  <2>2. CdcIn!CdcReceiveTypeOK'
    <3>1. made' \in 0..MaxBytes
      BY <2>0, <2>1
    <3>2. {bound', armed', recv_pause', rraced'} \subseteq BOOLEAN
      BY <2>0
    <3>. QED BY <1>a, <1>d, <2>0, <3>1, <3>2 DEF CdcIn!CdcReceiveTypeOK
  <2>3. ReceiveBounds'
    <3>1. Len(pending_data') = 0 /\ made' >= 0
      BY <1>d, <2>0, <2>1
    <3>. QED BY <1>a, <2>0, <3>1 DEF ReceiveBounds
  <2>4. ASSUME ~rraced' PROVE Unraced'
    <3>0. BytesInLine /\ HeldBack /\ Pushing /\ Waits
      BY <1>a, <2>0
    <3>1. BytesInLine'
      <4>1. CASE pc \in {"store", "clear"}
        <5>1. CdcIn!Waiting' = CdcIn!Waiting
          BY <2>0, <4>1 DEF CdcIn!Waiting
        <5>2. made' = made
          BY <1>d, <2>0, <4>1 DEF CdcIn!Forgotten
        <5>. QED BY <2>0, <3>0, <5>1, <5>2, SameLine
      <4>2. CASE pc \notin {"store", "clear"}
        <5>1. CdcIn!Waiting' = <<>> /\ CdcIn!Waiting = pending_data
          BY <2>0, <4>2 DEF CdcIn!Waiting
        <5>2. made' = made - Len(pending_data)
          BY <2>0, <4>2 DEF CdcIn!Forgotten
        <5>3. made' = got + Len(queue)
          BY <3>0, <5>1, <5>2 DEF BytesInLine
        <5>4. made' = got' + Len(queue') + Len(CdcIn!Waiting')
          BY <1>d, <2>0, <5>1, <5>3
        <5>5. \A k \in 1..Len(CdcIn!Waiting') : CdcIn!Waiting'[k] = got' + Len(queue') + k
          BY <1>d, <5>1
        <5>6. \A k \in 1..Len(queue') : queue'[k] = got' + k
          BY <2>0, <3>0 DEF BytesInLine
        <5>. QED BY <5>4, <5>5, <5>6 DEF BytesInLine
      <4>. QED BY <4>1, <4>2
    <3>2. HeldBack'
      BY <2>0, <3>0 DEF HeldBack
    <3>3. Pushing' /\ Waits'
      BY <2>0, <3>0 DEF Pushing, Waits, Enough
    <3>. QED BY <3>1, <3>2, <3>3 DEF Unraced
  <2>. QED BY <2>2, <2>3, <2>4 DEF ReceiveInv
<1>4. CASE CdcIn!BindEndpoints
  <2>0. /\ ~rraced /\ ~bound /\ bound' = TRUE /\ armed' = TRUE /\ rraced' \in BOOLEAN
        /\ UNCHANGED <<made, recv_pause, pending_data, queue, busy, pc, want, tail, batch, got>>
    BY <1>4 DEF CdcIn!BindEndpoints
  <2>1. CdcIn!CdcReceiveTypeOK' /\ ReceiveBounds'
    BY <1>a, <2>0 DEF CdcIn!CdcReceiveTypeOK, ReceiveBounds
  <2>2. ASSUME ~rraced' PROVE Unraced'
    <3>0. BytesInLine /\ HeldBack /\ Pushing /\ Waits
      BY <1>a, <2>0
    <3>1. CdcIn!Waiting' = CdcIn!Waiting
      BY <2>0 DEF CdcIn!Waiting
    <3>2. BytesInLine'
      BY <2>0, <3>0, <3>1, SameLine
    <3>3. HeldBack' /\ Pushing' /\ Waits'
      BY <2>0, <3>0 DEF HeldBack, Pushing, Waits, Enough
    <3>. QED BY <3>2, <3>3 DEF Unraced
  <2>. QED BY <2>1, <2>2 DEF ReceiveInv
<1>5. ASSUME NEW size \in Reads, CdcIn!Read(size) PROVE ReceiveInv'
  <2>1. CdcIn!CdcReceiveTypeOK' /\ ReceiveBounds'
    BY <1>5, <1>a DEF CdcIn!Read, CdcIn!CdcReceiveTypeOK, ReceiveBounds
  <2>2. ASSUME ~rraced' PROVE Unraced'
    <3>1. CdcIn!Waiting' = CdcIn!Waiting
      BY <1>5 DEF CdcIn!Read, CdcIn!Waiting
    <3>2. BytesInLine'
      BY <1>5, <1>a, <2>2, <3>1, SameLine DEF CdcIn!Read
    <3>3. HeldBack' /\ Pushing' /\ Waits'
      BY <1>5, <1>a, <2>2 DEF CdcIn!Read, HeldBack, Pushing, Waits, CdcIn!Fits, Enough, Moving, Rearming
    <3>. QED BY <3>2, <3>3 DEF Unraced
  <2>. QED BY <2>1, <2>2 DEF ReceiveInv
<1>6. CASE CdcIn!LookAtSize
  <2>1. CdcIn!CdcReceiveTypeOK' /\ ReceiveBounds'
    BY <1>6, <1>a DEF CdcIn!LookAtSize, CdcIn!CdcReceiveTypeOK, ReceiveBounds
  <2>2. ASSUME ~rraced' PROVE Unraced'
    <3>1. CdcIn!Waiting' = CdcIn!Waiting
      BY <1>6 DEF CdcIn!LookAtSize, CdcIn!Waiting
    <3>2. BytesInLine'
      BY <1>6, <1>a, <2>2, <3>1, SameLine DEF CdcIn!LookAtSize
    <3>3. HeldBack' /\ Pushing' /\ Waits'
      BY <1>6, <1>a, <2>2
         DEF CdcIn!LookAtSize, HeldBack, Pushing, Waits, CdcIn!Fits, Enough, Moving, Rearming
    <3>. QED BY <3>2, <3>3 DEF Unraced
  <2>. QED BY <2>1, <2>2 DEF ReceiveInv
<1>7. CASE CdcIn!Pop
  <2>1. queue' = CdcIn!Drop(queue, want) /\ got' = got + want /\ pc = "pop" /\ pc' = "dequeue"
        /\ UNCHANGED <<made, bound, armed, recv_pause, pending_data, busy, want, tail, batch, rraced>>
    BY <1>7 DEF CdcIn!Pop
  <2>2. queue' \in Seq(1..MaxBytes) /\ Len(queue') <= Len(queue)
        /\ (want <= Len(queue) => Len(queue') = Len(queue) - want)
    BY <2>1, Drops
  <2>3. CdcIn!CdcReceiveTypeOK' /\ ReceiveBounds'
    BY <1>a, <2>1, <2>2 DEF CdcIn!CdcReceiveTypeOK, ReceiveBounds
  <2>4. ASSUME ~rraced' PROVE Unraced'
    <3>0. BytesInLine /\ HeldBack /\ Pushing /\ Waits
      BY <1>a, <2>1, <2>4
    <3>1. want <= Len(queue)
      BY <2>1, <3>0 DEF Waits, Enough
    <3>2. \A k \in 1..Len(queue') : queue'[k] = got' + k
      BY <2>1, <3>0, <3>1, TakenInLine DEF BytesInLine
    <3>3. CdcIn!Waiting = pending_data /\ CdcIn!Waiting' = pending_data
      BY <2>1 DEF CdcIn!Waiting
    <3>4. got' + Len(queue') = got + Len(queue)
      <4>1. Len(queue') = Len(queue) - want /\ got' = got + want
        BY <2>1, <2>2, <3>1
      <4>. QED BY <4>1
    <3>5. BytesInLine'
      BY <2>1, <3>0, <3>2, <3>3, <3>4 DEF BytesInLine
    <3>6. HeldBack' /\ Pushing' /\ Waits'
      BY <2>1, <3>0 DEF HeldBack, Pushing, Waits, Moving, Rearming
    <3>. QED BY <3>5, <3>6 DEF Unraced
  <2>. QED BY <2>3, <2>4 DEF ReceiveInv
<1>8. CASE CdcIn!Arm
  <2>1. CdcIn!CdcReceiveTypeOK' /\ ReceiveBounds'
    BY <1>8, <1>a DEF CdcIn!Arm, CdcIn!CdcReceiveTypeOK, ReceiveBounds
  <2>2. ASSUME ~rraced' PROVE Unraced'
    <3>1. CdcIn!Waiting' = CdcIn!Waiting
      BY <1>8 DEF CdcIn!Arm, CdcIn!Waiting
    <3>2. BytesInLine'
      BY <1>8, <1>a, <2>2, <3>1, SameLine DEF CdcIn!Arm
    <3>3. HeldBack' /\ Pushing' /\ Waits'
      BY <1>8, <1>a, <2>2
         DEF CdcIn!Arm, HeldBack, Pushing, Waits, CdcIn!Fits, Enough, Moving, Rearming
    <3>. QED BY <3>2, <3>3 DEF Unraced
  <2>. QED BY <2>1, <2>2 DEF ReceiveInv
<1>9. CASE CdcIn!OnRxDequeue
  <2>1. CdcIn!GoTo(IF recv_pause THEN "pending" ELSE "idle") /\ CdcIn!LookOnly
    BY <1>9 DEF CdcIn!OnRxDequeue
  <2>2. ~rraced => HeldBack'
    BY <1>9, <1>a DEF CdcIn!OnRxDequeue, CdcIn!GoTo, CdcIn!LookOnly, HeldBack, CdcIn!Fits, Moving, Rearming
  <2>. QED BY <1>9, <2>1, <2>2, LookKeeps DEF CdcIn!OnRxDequeue
<1>10. CASE CdcIn!LookAtPending
  <2>1. CdcIn!GoTo(IF pending_data = <<>> THEN "rearm" ELSE "room") /\ CdcIn!LookOnly
    BY <1>10 DEF CdcIn!LookAtPending
  <2>2. ~rraced => HeldBack'
    BY <1>10, <1>a DEF CdcIn!LookAtPending, CdcIn!GoTo, CdcIn!LookOnly, HeldBack, CdcIn!Fits, Moving, Rearming
  <2>. QED BY <1>10, <2>1, <2>2, LookKeeps DEF CdcIn!LookAtPending
<1>11. CASE CdcIn!TryRearmOut
  <2>1. CdcIn!GoTo(IF bound THEN "paused" ELSE "idle") /\ CdcIn!LookOnly
    BY <1>11 DEF CdcIn!TryRearmOut
  <2>2. ~rraced => HeldBack'
    BY <1>11, <1>a DEF CdcIn!TryRearmOut, CdcIn!GoTo, CdcIn!LookOnly, HeldBack, CdcIn!Fits, Moving, Rearming
  <2>. QED BY <1>11, <2>1, <2>2, LookKeeps DEF CdcIn!TryRearmOut
<1>12. CASE CdcIn!LookAtPause
  <2>1. CdcIn!GoTo(IF recv_pause THEN "roomAgain" ELSE "state") /\ CdcIn!LookOnly
    BY <1>12 DEF CdcIn!LookAtPause
  <2>2. ~rraced => HeldBack'
    BY <1>12, <1>a DEF CdcIn!LookAtPause, CdcIn!GoTo, CdcIn!LookOnly, HeldBack, CdcIn!Fits, Moving, Rearming
  <2>. QED BY <1>12, <2>1, <2>2, LookKeeps DEF CdcIn!LookAtPause
<1>13. CASE CdcIn!LookAtState
  <2>1. CdcIn!GoTo(IF armed THEN "idle" ELSE "transfer") /\ CdcIn!LookOnly
    BY <1>13 DEF CdcIn!LookAtState
  <2>2. ~rraced => HeldBack'
    BY <1>13, <1>a DEF CdcIn!LookAtState, CdcIn!GoTo, CdcIn!LookOnly, HeldBack, CdcIn!Fits, Moving, Rearming
  <2>. QED BY <1>13, <2>1, <2>2, LookKeeps DEF CdcIn!LookAtState
<1>14. pending_data = <<>> => CdcIn!Fits(pending_data)
  BY <1>a, <1>d DEF CdcIn!Fits, ReceiveBounds
<1>15. ASSUME NEW at, NEW next, CdcIn!LookAtRoom(at, next),
              <<at, next>> \in {<<"room", "push">>, <<"roomAgain", "pushAgain">>}
       PROVE  ReceiveInv'
  <2>1. /\ pc = at /\ CdcIn!GoTo(IF CdcIn!Fits(pending_data) THEN next ELSE "idle")
        /\ CdcIn!LookOnly
    BY <1>15 DEF CdcIn!LookAtRoom
  <2>2. ~rraced => HeldBack'
    BY <1>15, <1>a, <1>14, <2>1 DEF CdcIn!GoTo, CdcIn!LookOnly, HeldBack, CdcIn!Fits, Moving, Rearming
  <2>. QED BY <1>15, <2>1, <2>2, LookKeeps
<1>16. ASSUME NEW at, NEW next, CdcIn!PushBatch(at, next),
              <<at, next>> \in {<<"push", "store">>, <<"pushAgain", "storeAgain">>}
       PROVE  ReceiveInv'
  <2>1. CASE CdcIn!Fits(pending_data)
    <3>1. pc = at /\ CdcIn!PushBatch(pc, next)
      BY <1>16 DEF CdcIn!PushBatch
    <3>. QED BY <1>16, <2>1, <3>1, PushKeeps
  <2>2. CASE ~CdcIn!Fits(pending_data)
    <3>1. pc = at /\ CdcIn!GoTo("idle") /\ CdcIn!LookOnly
      BY <1>16, <2>2 DEF CdcIn!PushBatch, CdcIn!GoTo, CdcIn!LookOnly
    <3>2. ~rraced => HeldBack'
      BY <1>16, <1>a, <1>14, <2>2, <3>1
         DEF CdcIn!GoTo, CdcIn!LookOnly, HeldBack, CdcIn!Fits, Moving, Rearming
    <3>. QED BY <1>16, <3>1, <3>2, LookKeeps
  <2>. QED BY <2>1, <2>2
<1>17. CASE CdcIn!PushPending
  <2>1. CASE CdcIn!StoreTail("store", "clear") /\ UNCHANGED busy
    <3>1. pc = "store" /\ CdcIn!StoreTail(pc, "clear")
      BY <2>1 DEF CdcIn!StoreTail
    <3>. QED BY <2>1, <3>1, StoreKeeps
  <2>. QED BY <1>15, <1>16, <1>17, <2>1 DEF CdcIn!PushPending
<1>18. CASE CdcIn!PushAgain
  <2>1. CASE CdcIn!StoreTail("storeAgain", "state") /\ busy' = "EVENT"
    <3>1. pc = "storeAgain" /\ CdcIn!StoreTail(pc, "state")
      BY <2>1 DEF CdcIn!StoreTail
    <3>. QED BY <2>1, <3>1, StoreKeeps
  <2>. QED BY <1>15, <1>16, <1>18, <2>1 DEF CdcIn!PushAgain
<1>19. CASE CdcIn!Clear
  <2>0. /\ pc = "clear" /\ pc' = "rearm" /\ want' = want /\ pending_data' = <<>> /\ busy' = "EVENT"
        /\ UNCHANGED <<made, bound, armed, recv_pause, queue, tail, batch, got, rraced>>
    BY <1>19 DEF CdcIn!Clear, CdcIn!GoTo
  <2>1. CdcIn!CdcReceiveTypeOK'
    BY <1>a, <1>d, <2>0 DEF CdcIn!CdcReceiveTypeOK
  <2>2. ReceiveBounds'
    <3>1. Len(pending_data') = 0
      BY <1>d, <2>0
    <3>. QED BY <1>a, <2>0, <3>1 DEF ReceiveBounds
  <2>3. ASSUME ~rraced' PROVE Unraced'
    <3>0. BytesInLine /\ HeldBack /\ Pushing /\ Waits
      BY <1>a, <2>0, <2>3
    <3>1. CdcIn!Waiting' = CdcIn!Waiting
      BY <2>0 DEF CdcIn!Waiting
    <3>2. BytesInLine'
      BY <2>0, <3>0, <3>1, SameLine
    <3>3. HeldBack' /\ Pushing' /\ Waits'
      BY <2>0, <3>0 DEF HeldBack, Pushing, Waits, Rearming
    <3>. QED BY <3>2, <3>3 DEF Unraced
  <2>. QED BY <2>1, <2>2, <2>3 DEF ReceiveInv
<1>20. CASE CdcIn!Transfer
  <2>1. CdcIn!CdcReceiveTypeOK' /\ ReceiveBounds'
    BY <1>20, <1>a DEF CdcIn!Transfer, CdcIn!GoTo, CdcIn!CdcReceiveTypeOK, ReceiveBounds
  <2>2. ASSUME ~rraced' PROVE Unraced'
    <3>0. BytesInLine /\ HeldBack /\ Pushing /\ Waits
      BY <1>20, <1>a, <2>2 DEF CdcIn!Transfer
    <3>1. CdcIn!Waiting' = CdcIn!Waiting
      BY <1>20 DEF CdcIn!Transfer, CdcIn!GoTo, CdcIn!Waiting
    <3>2. BytesInLine'
      BY <1>20, <3>0, <3>1, SameLine DEF CdcIn!Transfer
    <3>3. HeldBack' /\ Pushing' /\ Waits'
      BY <1>20, <3>0
         DEF CdcIn!Transfer, CdcIn!GoTo, HeldBack, Pushing, Waits, Moving, Rearming
    <3>. QED BY <3>2, <3>3 DEF Unraced
  <2>. QED BY <2>1, <2>2 DEF ReceiveInv
<1>21. CASE CdcIn!Resume
  <2>1. CdcIn!CdcReceiveTypeOK' /\ ReceiveBounds'
    BY <1>21, <1>a DEF CdcIn!Resume, CdcIn!GoTo, CdcIn!CdcReceiveTypeOK, ReceiveBounds
  <2>2. ASSUME ~rraced' PROVE Unraced'
    <3>0. BytesInLine /\ HeldBack /\ Pushing /\ Waits
      BY <1>21, <1>a, <2>2 DEF CdcIn!Resume
    <3>1. CdcIn!Waiting' = CdcIn!Waiting
      BY <1>21 DEF CdcIn!Resume, CdcIn!GoTo, CdcIn!Waiting
    <3>2. BytesInLine'
      BY <1>21, <3>0, <3>1, SameLine DEF CdcIn!Resume
    <3>3. HeldBack' /\ Pushing' /\ Waits'
      BY <1>21, <3>0
         DEF CdcIn!Resume, CdcIn!GoTo, HeldBack, Pushing, Waits, Moving, Rearming
    <3>. QED BY <3>2, <3>3 DEF Unraced
  <2>. QED BY <2>1, <2>2 DEF ReceiveInv
<1>22. CASE UNCHANGED CdcIn!vars
  <2>1. UNCHANGED <<made, bound, armed, recv_pause, pending_data, queue, busy, pc, want, tail, batch,
                    got, rraced>>
    BY <1>22 DEF CdcIn!vars
  <2>2. CdcIn!CdcReceiveTypeOK' /\ ReceiveBounds'
    BY <1>a, <2>1 DEF CdcIn!CdcReceiveTypeOK, ReceiveBounds
  <2>3. ASSUME ~rraced' PROVE Unraced'
    <3>1. CdcIn!Waiting' = CdcIn!Waiting
      BY <2>1 DEF CdcIn!Waiting
    <3>2. BytesInLine'
      BY <1>a, <2>1, <2>3, <3>1, SameLine
    <3>3. HeldBack' /\ Pushing' /\ Waits'
      BY <1>a, <2>1, <2>3 DEF HeldBack, Pushing, Waits, CdcIn!Fits, Enough
    <3>. QED BY <3>2, <3>3 DEF Unraced
  <2>. QED BY <2>2, <2>3 DEF ReceiveInv
<1>. QED BY <1>1, <1>2, <1>3, <1>4, <1>5, <1>6, <1>7, <1>8, <1>9, <1>10, <1>11, <1>12, <1>13,
            <1>17, <1>18, <1>19, <1>20, <1>21, <1>22
   DEF CdcIn!Next

LEMMA ReceiveInvariance == ASSUME CdcIn!CdcReceiveAssumption PROVE CdcIn!Spec => []ReceiveInv
<1>1. CdcIn!Init => ReceiveInv
  BY ReceiveInit
<1>2. ReceiveInv /\ [CdcIn!Next]_CdcIn!vars => ReceiveInv'
  BY ReceiveNext
<1>. QED BY <1>1, <1>2, PTL DEF CdcIn!Spec

\* The bytes read, the queue and the packet that waits make up what was sent.
LEMMA NothingMissed ==
    ASSUME CdcIn!CdcReceiveAssumption, CdcIn!CdcReceiveTypeOK, BytesInLine
    PROVE  CdcIn!NothingSkipped
<1> DEFINE wait == CdcIn!Waiting
           read == [k \in 1..got |-> k]
           given == [k \in 1..made |-> k]
           line == read \o queue \o wait
<1>1. /\ made \in Nat /\ got \in Nat /\ queue \in Seq(Nat) /\ wait \in Seq(Nat)
      /\ Len(queue) \in Nat /\ Len(wait) \in Nat
  BY DEF CdcIn!CdcReceiveAssumption, CdcIn!CdcReceiveTypeOK, CdcIn!Waiting
<1>2. read \in Seq(Nat) /\ Len(read) = got /\ given \in Seq(Nat) /\ Len(given) = made
  BY <1>1
<1>3. \A k \in 1..got : read[k] = k
  OBVIOUS
<1>4. \A k \in 1..made : given[k] = k
  OBVIOUS
<1>0. /\ \A k \in 1..Len(queue) : queue[k] = got + k
      /\ \A k \in 1..Len(wait) : wait[k] = got + Len(queue) + k
      /\ made = got + Len(queue) + Len(wait)
  BY DEF BytesInLine
<1> HIDE DEF wait, read, given
<1>5. /\ read \o queue \in Seq(Nat) /\ Len(read \o queue) = got + Len(queue)
      /\ \A k \in 1..(got + Len(queue)) :
            (read \o queue)[k] = IF k <= got THEN read[k] ELSE queue[k - got]
  BY <1>1, <1>2, ConcatProperties
<1>6. \A k \in 1..(got + Len(queue)) : (read \o queue)[k] = k
  <2>1. ASSUME NEW k \in 1..(got + Len(queue)) PROVE (read \o queue)[k] = k
    <3>1. CASE k <= got
      BY <1>1, <1>3, <1>5, <2>1, <3>1
    <3>2. CASE ~(k <= got)
      <4>1. k - got \in 1..Len(queue)
        BY <1>1, <2>1, <3>2
      <4>. QED BY <1>0, <1>1, <1>5, <2>1, <3>2, <4>1
    <3>. QED BY <3>1, <3>2
  <2>. QED BY <2>1
<1>7. /\ line \in Seq(Nat) /\ Len(line) = got + Len(queue) + Len(wait)
      /\ \A k \in 1..(got + Len(queue) + Len(wait)) :
            line[k] = IF k <= got + Len(queue) THEN (read \o queue)[k]
                      ELSE wait[k - (got + Len(queue))]
  <2> DEFINE front == read \o queue
  <2>1. front \in Seq(Nat) /\ Len(front) = got + Len(queue)
    BY <1>5
  <2> HIDE DEF front
  <2>2. /\ front \o wait \in Seq(Nat)
        /\ Len(front \o wait) = Len(front) + Len(wait)
        /\ \A k \in 1..Len(front) + Len(wait) :
              (front \o wait)[k] = IF k <= Len(front) THEN front[k]
                                           ELSE wait[k - Len(front)]
    BY <1>1, <2>1, ConcatProperties, ZenonT(60)
  <2>. QED BY <2>1, <2>2 DEF front
<1>8. Len(line) = made /\ \A k \in 1..made : line[k] = k
  <2>1. Len(line) = made
    BY <1>0, <1>7
  <2>2. ASSUME NEW k \in 1..made PROVE line[k] = k
    <3>0. made = got + Len(queue) + Len(wait)
      BY <1>0
    <3>1. CASE k <= got + Len(queue)
      BY <1>1, <1>6, <1>7, <2>2, <3>0, <3>1
    <3>2. CASE ~(k <= got + Len(queue))
      <4>1. k - (got + Len(queue)) \in 1..Len(wait)
        BY <1>1, <2>2, <3>0, <3>2
      <4>2. wait[k - (got + Len(queue))] = got + Len(queue) + (k - (got + Len(queue)))
        BY <1>0, <4>1
      <4>3. line[k] = wait[k - (got + Len(queue))]
        BY <1>1, <1>7, <2>2, <3>0, <3>2
      <4>. QED BY <1>1, <2>2, <4>2, <4>3
    <3>. QED BY <3>1, <3>2
  <2>. QED BY <2>1, <2>2
<1>. QED
  <2> HIDE DEF line
  <2>1. line = given
    BY <1>2, <1>4, <1>7, <1>8, SeqEqual
  <2>. QED BY <2>1 DEF CdcIn!NothingSkipped, line, wait, read, given

\* Types: what CdcReceive.tla says of its state, up to the end of the call in
\* which an interrupt did harm.
THEOREM ReceiveTypes ==
    ASSUME CdcIn!CdcReceiveAssumption PROVE CdcIn!Spec => []CdcIn!CdcReceiveTypeOK
<1>1. ReceiveInv => CdcIn!CdcReceiveTypeOK
  BY DEF ReceiveInv
<1>. QED BY <1>1, ReceiveInvariance, PTL

\* A USB serial port loses no byte of what the host sent and does not reorder
\* them, and the endpoint is held back only while a read can make room for the
\* packet that waits, except where an interrupt came in one of the windows of
\* OnRxDequeue() and TryRearmOut() that CdcReceive.tla names (raced).
THEOREM BytesReceived == ASSUME CdcIn!CdcReceiveAssumption PROVE CdcIn!Spec => []CdcIn!ReceivesAll
<1>1. ReceiveInv => CdcIn!ReceivesAll
  <2> SUFFICES ASSUME ReceiveInv PROVE CdcIn!ReceivesAll
    OBVIOUS
  <2>1. ASSUME ~rraced PROVE CdcIn!NothingSkipped
    BY <2>1, NothingMissed DEF ReceiveInv, Unraced
  <2>2. ASSUME ~rraced PROVE CdcIn!NeverStuck
    <3>1. CdcIn!CdcReceiveTypeOK /\ ReceiveBounds /\ HeldBack /\ Waits
      BY <2>2 DEF ReceiveInv, Unraced
    <3>2. SUFFICES ASSUME bound, ~armed, pc \in {"idle", "wait"}
                   PROVE  /\ recv_pause /\ pending_data # <<>>
                          /\ Cap - Len(queue) < Len(pending_data)
                          /\ pc = "wait" => ~CdcIn!Servable(want)
      BY DEF CdcIn!NeverStuck
    <3>3. /\ Cap \in Nat /\ MPS \in 1..Cap /\ Reads \subseteq 1..Cap /\ Len(queue) \in Nat
          /\ Len(pending_data) \in Nat /\ want \in Nat
      BY <3>1 DEF CdcIn!CdcReceiveAssumption, CdcIn!CdcReceiveTypeOK
    <3>4. recv_pause /\ pending_data # <<>> /\ ~CdcIn!Fits(pending_data)
      BY <3>1, <3>2 DEF HeldBack, Moving, Rearming
    <3>5. Cap - Len(queue) < Len(pending_data) /\ Len(queue) > Cap - MPS
      BY <3>1, <3>3, <3>4 DEF CdcIn!Fits, ReceiveBounds
    <3>6. ASSUME pc = "wait" PROVE ~CdcIn!Servable(want)
      BY <3>1, <3>3, <3>5, <3>6 DEF Waits, Enough, CdcIn!Servable
    <3>. QED BY <3>4, <3>5, <3>6
  <2>. QED BY <2>1, <2>2 DEF CdcIn!ReceivesAll, ReceiveInv
<1>. QED BY <1>1, ReceiveInvariance, PTL

----------------------------------------------------------------------------
(* CdcTransmit: the inductive invariant.                                      *)

CONSTANTS Sizes, MaxWrites, MaxUnbinds
VARIABLES
    queue_info, queue_data, head, offset, buffer, active_length, state, need_zlp, writes, now, slot_ec, to_send,
    unbinds, handed, last, reports, late, traced

CdcOut == INSTANCE CdcTransmit WITH sent <- handed, raced <- traced

\* What holds whatever a bus reset meets: the head is the first of the queue, and not
\* more of it is taken than there is.
HeadIsFirst(p) ==
    IF p.head = CdcOut!NoWrite THEN p.offset = 0
    ELSE p.info # <<>> /\ p.head = p.info[1] /\ p.offset <= p.head.size

PortType ==
    [info : Seq(CdcOut!Writes), data : Seq(CdcOut!Byte),
     head : CdcOut!Writes \cup {CdcOut!NoWrite}, offset : Nat]
PortKept(p) == p \in PortType /\ HeadIsFirst(p)

CdcTypes ==
    /\ CdcOut!CdcTransmitTypeOK /\ HeadIsFirst(CdcOut!Port) /\ Len(buffer) <= MPS
    /\ pc # "idle" => now \in CdcOut!Writes /\ now.n = writes

\* The bytes of the writes of ops are in data, one write after the other, from the byte
\* after the first off ones: byte p of write j is at start[j] + p.
CutAt(data, ops, off, start) ==
    /\ ops # <<>> => start[1] + off = 0 /\ Len(data) = start[Len(ops)] + ops[Len(ops)].size
    /\ \A j \in 1..Len(ops) : j + 1 <= Len(ops) => start[j + 1] = start[j] + ops[j].size
    /\ \A j \in 1..Len(ops) : \A p \in 1..ops[j].size : start[j] + p >= 1 =>
          start[j] + p <= Len(data) /\ data[start[j] + p] = <<ops[j].n, p>>
    /\ \A k \in 1..Len(data) : \E j \in 1..Len(ops) :
          start[j] < k /\ k <= start[j] + ops[j].size
Cut(data, ops, off) == \E start \in [1..Len(ops) -> Int] : CutAt(data, ops, off, start)

\* The writes whose bytes are in the data queue.
Queued == IF pc = "info" THEN Append(queue_info, now) ELSE queue_info

\* The bytes go out in order.
Sorted(s) == \A j, k \in 1..Len(s) : j < k => CdcOut!Before(s[j], s[k])
LineKept ==
    /\ Sorted(CdcOut!Line) /\ \A k \in 1..Len(CdcOut!Line) : CdcOut!Line[k][1] <= writes

\* A byte of the write went to the controller.
SentIn(s, n) == \E j \in 1..Len(s) : s[j][1] = n
Sent(n) == SentIn(handed, n)

\* What the thread finds at each place.
NoneQueued == queue_info = <<>>
Mine == queue_info = <<now>>
Starting ==
    \/ pc \in {"length", "clear", "kick"}
    \/ pc \in {"load", "check"} /\ active_length # 0 /\ state = "IDLE"
Places ==
    /\ active_length = 0 =>
          /\ pc \in {"idle", "info", "load", "check", "zlp"} => NoneQueued
          /\ pc = "enter" => NoneQueued \/ (Mine /\ head = CdcOut!NoWrite)
    /\ pc \in {"take", "length", "load", "check", "clear", "kick", "pop"} => NoneQueued \/ Mine
    /\ pc = "take" /\ head # CdcOut!NoWrite => offset < head.size
    /\ pc \in {"take", "length", "kick", "pop", "zlp"} => active_length = 0
    /\ Starting => Mine /\ head = now /\ (slot_ec = "OK" <=> offset = now.size) /\ buffer # <<>>
    /\ pc = "pop" /\ ~NoneQueued => head = now /\ (slot_ec = "OK" <=> offset = now.size)
    /\ pc \in {"pop", "zlp"} => Sent(now.n)
    /\ pc \in {"clear", "kick"} => to_send = Len(buffer) /\ state = "IDLE"
    /\ pc = "clear" => active_length # 0
    /\ pc = "check" /\ Starting => to_send = active_length
    /\ pc = "zlp" => NoneQueued

\* ... of the endpoint.
Endpoint ==
    /\ active_length # 0 => active_length = Len(buffer) /\ head # CdcOut!NoWrite
    /\ active_length # 0 /\ pc \notin {"load", "check", "clear"} => state = "BUSY"
    /\ pc \in {"length", "kick"} \/ active_length # 0 =>
          \A k \in 1..Len(buffer) : buffer[k][1] = head.n
    /\ state = "DISABLED" =>
          /\ active_length = 0 /\ pc \notin {"length", "clear", "kick"}
          /\ pc = "enter" => Mine
          /\ pc \in {"take", "pop"} => NoneQueued
          /\ last = 0 /\ (late \/ ~need_zlp)

\* The end of a transfer.
Ended == last % MPS # 0 \/ last = 0
Zlp ==
    /\ need_zlp => /\ active_length = 0 /\ pc \notin {"length", "clear", "kick", "pop", "zlp"}
                   /\ pc = "take" => NoneQueued
    /\ NoneQueued /\ pc \notin {"pop", "zlp"} =>
          IF state = "BUSY" THEN Ended \/ need_zlp ELSE late \/ (~need_zlp /\ Ended)
    /\ pc \in {"pop", "zlp"} => last = 0 \/ (last = to_send /\ ~(pc = "pop" /\ NoneQueued))

\* The writes, and which of them are reported.
Numbers(q) == {q[k].n : k \in 1..Len(q)}
Distinct(q) == \A j, k \in 1..Len(q) : q[j].n = q[k].n => j = k
Reports(r) == {r[k][1] : k \in 1..Len(r)}
Once(r) == \A j, k \in 1..Len(r) : r[j][1] = r[k][1] => j = k
Due == IF pc \in {"info", "zlp"} THEN {now.n} ELSE {}
Accounts ==
    /\ Once(reports) /\ Distinct(queue_info)
    /\ Reports(reports) \cup Numbers(queue_info) \cup Due = 1..writes
    /\ Reports(reports) \cap Numbers(queue_info) = {}
    /\ (Reports(reports) \cup Numbers(queue_info)) \cap Due = {}
OnlySent == \A k \in 1..Len(reports) : reports[k][2] => Sent(reports[k][1])

Clean ==
    /\ Cut(queue_data, Queued, offset) /\ LineKept /\ Places /\ Endpoint /\ Zlp /\ Accounts
    /\ OnlySent
CdcInv == CdcTypes /\ (~traced => Clean)

----------------------------------------------------------------------------
(* CdcTransmit: the bytes of the writes in the queue.                         *)

LEMMA DroppedFront ==
    ASSUME NEW S, NEW q \in Seq(S), NEW n \in 0..Len(q)
    PROVE  /\ SubSeq(q, n + 1, Len(q)) \in Seq(S) /\ Len(SubSeq(q, n + 1, Len(q))) = Len(q) - n
           /\ \A k \in 1..(Len(q) - n) : SubSeq(q, n + 1, Len(q))[k] = q[n + k]
           /\ SubSeq(q, 1, n) \in Seq(S) /\ Len(SubSeq(q, 1, n)) = n
           /\ \A k \in 1..n : SubSeq(q, 1, n)[k] = q[k]
           /\ SubSeq(q, 1, n) \o SubSeq(q, n + 1, Len(q)) = q
<1>0. Len(q) \in Nat /\ n \in Nat /\ n <= Len(q) /\ \A i \in 1..Len(q) : q[i] \in S
  BY LenProperties
<1>1. \A i \in (n + 1)..Len(q) : q[i] \in S
  BY <1>0
<1>2. \A i \in 1..n : q[i] \in S
  BY <1>0
<1>3. /\ SubSeq(q, n + 1, Len(q)) \in Seq(S)
      /\ Len(SubSeq(q, n + 1, Len(q))) = IF n + 1 <= Len(q) THEN Len(q) - (n + 1) + 1 ELSE 0
      /\ \A i \in 1..(Len(q) - (n + 1) + 1) : SubSeq(q, n + 1, Len(q))[i] = q[n + 1 + i - 1]
  BY <1>0, <1>1, SubSeqProperties
<1>4. /\ SubSeq(q, 1, n) \in Seq(S)
      /\ Len(SubSeq(q, 1, n)) = IF 1 <= n THEN n - 1 + 1 ELSE 0
      /\ \A i \in 1..(n - 1 + 1) : SubSeq(q, 1, n)[i] = q[1 + i - 1]
  BY <1>0, <1>2, SubSeqProperties
<1>5. SubSeq(q, 1, n) \o SubSeq(q, n + 1, Len(q)) = SubSeq(q, 1, Len(q))
  <2>1. 1 \in 1..Len(q) + 1 /\ n \in 1 - 1..Len(q) /\ Len(q) \in n..Len(q)
    BY <1>0
  <2>. QED BY <2>1, ConcatAdjacentSubSeq
<1>6. SubSeq(q, 1, Len(q)) = q
  BY SubSeqFull
<1>7. ASSUME NEW k \in 1..(Len(q) - n) PROVE SubSeq(q, n + 1, Len(q))[k] = q[n + k]
  <2>1. k \in 1..(Len(q) - (n + 1) + 1) /\ n + 1 + k - 1 = n + k
    BY <1>0, <1>7
  <2>. QED BY <1>3, <2>1
<1>8. ASSUME NEW k \in 1..n PROVE SubSeq(q, 1, n)[k] = q[k]
  <2>1. k \in 1..(n - 1 + 1) /\ 1 + k - 1 = k
    BY <1>0, <1>8
  <2>. QED BY <1>4, <2>1
<1>9. Len(SubSeq(q, n + 1, Len(q))) = Len(q) - n /\ Len(SubSeq(q, 1, n)) = n
  BY <1>0, <1>3, <1>4
<1>. QED BY <1>3, <1>4, <1>5, <1>6, <1>7, <1>8, <1>9

LEMMA BytesAre ==
    ASSUME CdcOut!CdcTransmitAssumption, NEW w \in CdcOut!Writes
    PROVE  /\ CdcOut!Bytes(w) \in Seq(CdcOut!Byte) /\ Len(CdcOut!Bytes(w)) = w.size
           /\ \A k \in 1..w.size : CdcOut!Bytes(w)[k] = <<w.n, k>>
           /\ w.size \in Nat /\ w.size > 0 /\ w.n \in 1..MaxWrites /\ w.n \in Nat /\ w.n > 0
<1>0. w.size \in Sizes /\ w.n \in 1..MaxWrites
  BY DEF CdcOut!Writes
<1>0a. Sizes \subseteq Nat \ {0} /\ MaxWrites \in Nat
  BY DEF CdcOut!CdcTransmitAssumption
<1>0b. \A s \in Nat \ {0} : s \in Nat /\ s > 0
  OBVIOUS
<1>0c. \A m \in Nat : \A s \in 1..m : s \in Nat /\ s > 0
  OBVIOUS
<1>1. w.size \in Nat /\ w.size > 0 /\ w.n \in Nat /\ w.n > 0
  BY <1>0, <1>0a, <1>0b, <1>0c, Zenon
<1>2. \A k \in 1..w.size : <<w.n, k>> \in CdcOut!Byte
  BY <1>0, <1>1 DEF CdcOut!Byte
<1>3. [k \in 1..w.size |-> <<w.n, k>>] \in Seq(CdcOut!Byte)
  BY <1>1, <1>2, IsASeq
<1>. QED BY <1>0, <1>1, <1>3 DEF CdcOut!Bytes

LEMMA NothingCut ==
    ASSUME NEW d \in Seq(CdcOut!Byte), NEW off, Cut(d, <<>>, off)
    PROVE  d = <<>>
<1>1. PICK start \in [1..0 -> Int] : CutAt(d, <<>>, off, start)
  BY DEF Cut
<1>2. \A k \in 1..Len(d) : FALSE
  BY <1>1 DEF CutAt
<1>3. Len(d) \in Nat
  BY LenProperties
<1>4. Len(d) = 0
  BY <1>2, <1>3
<1>. QED BY <1>4, EmptySeq

LEMMA EmptyCut == \A off : Cut(<<>>, <<>>, off)
<1>1. [j \in {} |-> 0] \in [1..0 -> Int]
  OBVIOUS
<1>2. ASSUME NEW off PROVE CutAt(<<>>, <<>>, off, [j \in {} |-> 0])
  BY DEF CutAt
<1>. QED BY <1>1, <1>2 DEF Cut

LEMMA SizesAre ==
    ASSUME CdcOut!CdcTransmitAssumption, NEW ops \in Seq(CdcOut!Writes), NEW j \in 1..Len(ops)
    PROVE  ops[j] \in CdcOut!Writes /\ ops[j].size \in Nat /\ ops[j].size > 0
BY BytesAre, ElementOfSeq

LEMMA BytesAdded ==
    ASSUME CdcOut!CdcTransmitAssumption, NEW d \in Seq(CdcOut!Byte), NEW w \in CdcOut!Writes
    PROVE  /\ d \o CdcOut!Bytes(w) \in Seq(CdcOut!Byte)
           /\ Len(d \o CdcOut!Bytes(w)) = Len(d) + w.size
           /\ \A k \in 1..Len(d) : (d \o CdcOut!Bytes(w))[k] = d[k]
           /\ \A k \in 1..w.size : (d \o CdcOut!Bytes(w))[Len(d) + k] = <<w.n, k>>
<1>1. SUFFICES ASSUME NEW b \in Seq(CdcOut!Byte), b = CdcOut!Bytes(w), Len(b) = w.size,
                      \A k \in 1..w.size : b[k] = <<w.n, k>>
               PROVE  /\ d \o b \in Seq(CdcOut!Byte) /\ Len(d \o b) = Len(d) + w.size
                      /\ \A k \in 1..Len(d) : (d \o b)[k] = d[k]
                      /\ \A k \in 1..w.size : (d \o b)[Len(d) + k] = <<w.n, k>>
  BY BytesAre
<1>. QED BY <1>1, Joined

\* The bytes of one more write.
LEMMA CutAdded ==
    ASSUME CdcOut!CdcTransmitAssumption, NEW d \in Seq(CdcOut!Byte),
           NEW ops \in Seq(CdcOut!Writes), NEW off \in Nat, NEW w \in CdcOut!Writes,
           Cut(d, ops, off), ops = <<>> => off = 0
    PROVE  Cut(d \o CdcOut!Bytes(w), Append(ops, w), off)
<1>a. /\ Append(ops, w) \in Seq(CdcOut!Writes) /\ Len(Append(ops, w)) = Len(ops) + 1
      /\ \A j \in 1..Len(ops) : Append(ops, w)[j] = ops[j] /\ Append(ops, w)[Len(ops) + 1] = w
  BY AppendProperties
<1>b. Append(ops, w)[Len(ops) + 1] = w /\ w.size \in Nat
  BY AppendProperties, BytesAre
<1> SUFFICES ASSUME NEW all \in Seq(CdcOut!Byte), NEW more \in Seq(CdcOut!Writes),
                      NEW size \in Nat, size = w.size,
                      Len(all) = Len(d) + size, \A k \in 1..Len(d) : all[k] = d[k],
                      \A k \in 1..size : all[Len(d) + k] = <<w.n, k>>,
                      Len(more) = Len(ops) + 1, \A j \in 1..Len(ops) : more[j] = ops[j],
                      more[Len(ops) + 1] = w
               PROVE  Cut(all, more, off)
  BY <1>a, <1>b, BytesAdded
<1> DEFINE n == Len(ops) + 1
<1>1. PICK start \in [1..Len(ops) -> Int] : CutAt(d, ops, off, start)
  BY DEF Cut
<1>2. Len(d) \in Nat /\ Len(ops) \in Nat
  BY LenProperties
<1>2a. Len(d) \in Nat /\ size \in Nat /\ Len(all) = Len(d) + size
  BY <1>2
<1> DEFINE begin == [j \in 1..n |-> IF j <= Len(ops) THEN start[j] ELSE Len(d)]
<1>3. begin \in [1..n -> Int]
  BY <1>2
<1>4. /\ Len(more) = n /\ \A j \in 1..Len(ops) : more[j] = ops[j]
      /\ more[n] = w
  BY <1>2
<1>6. /\ \A j \in 1..Len(ops) : begin[j] = start[j]
      /\ begin[n] = Len(d) /\ n \in Nat /\ n >= 1 /\ n \in 1..n
  BY <1>2
<1>6a. \A j \in 1..n : j \in 1..Len(ops) \/ j = n
  BY <1>2
<1> HIDE DEF begin, n
<1>7. more # <<>> => begin[1] + off = 0 /\ Len(all) = begin[Len(more)] + more[Len(more)].size
  <2>1. Len(all) = begin[Len(more)] + more[Len(more)].size
    BY <1>4, <1>6
  <2>2. CASE ops = <<>>
    <3>1. d = <<>> /\ off = 0
      BY <2>2, NothingCut
    <3>. QED BY <1>6, <2>1, <2>2, <3>1 DEF n
  <2>3. CASE ops # <<>>
    <3>1. Len(ops) >= 1
      BY <1>2, <2>3, EmptySeq
    <3>2. start[1] + off = 0 /\ 1 \in 1..Len(ops)
      BY <1>1, <1>2, <2>3, <3>1 DEF CutAt
    <3>. QED BY <1>6, <2>1, <3>2
  <2>. QED BY <2>2, <2>3
<1>8. ASSUME NEW j \in 1..Len(more), j + 1 <= Len(more) PROVE begin[j + 1] = begin[j] + more[j].size
  <2>1. j \in 1..Len(ops)
    BY <1>2, <1>4, <1>8 DEF n
  <2>2. CASE j + 1 <= Len(ops)
    <3>1. j + 1 \in 1..Len(ops)
      BY <1>2, <2>1, <2>2
    <3>2. start[j + 1] = start[j] + ops[j].size
      BY <1>1, <2>1, <2>2 DEF CutAt
    <3>. QED BY <1>4, <1>6, <2>1, <3>1, <3>2
  <2>3. CASE ~(j + 1 <= Len(ops))
    <3>1. j = Len(ops) /\ ops # <<>>
      BY <1>2, <2>1, <2>3
    <3>2. Len(d) = start[j] + ops[j].size
      BY <1>1, <3>1 DEF CutAt
    <3>3. j + 1 = n
      BY <3>1 DEF n
    <3>. QED BY <1>4, <1>6, <2>1, <3>2, <3>3
  <2>. QED BY <2>2, <2>3
<1>9. ASSUME NEW j \in 1..Len(more), NEW p \in 1..more[j].size, begin[j] + p >= 1
      PROVE  begin[j] + p <= Len(all) /\ all[begin[j] + p] = <<more[j].n, p>>
  <2>1. CASE j \in 1..Len(ops)
    <3>1. more[j] = ops[j] /\ begin[j] = start[j]
      BY <1>4, <1>6, <2>1
    <3>2. start[j] + p <= Len(d) /\ d[start[j] + p] = <<ops[j].n, p>>
      BY <1>1, <1>9, <2>1, <3>1 DEF CutAt
    <3>3. start[j] \in Int /\ p \in Int
      BY <1>2, <1>9, <2>1, <3>1
    <3>4. start[j] + p \in 1..Len(d)
      BY <1>2, <1>9, <3>1, <3>2, <3>3
    <3>5. all[start[j] + p] = <<ops[j].n, p>>
      BY <3>2, <3>4
    <3>6. start[j] + p <= Len(all)
      BY ONLY <1>2a, <3>2, <3>3
    <3>. QED BY <3>1, <3>5, <3>6
  <2>2. CASE j = n
    <3>1. p \in 1..size /\ begin[j] = Len(d) /\ more[j] = w
      BY <1>4, <1>6, <1>9, <2>2
    <3>2. all[Len(d) + p] = <<w.n, p>>
      BY <3>1, Zenon
    <3>3. Len(d) + p <= Len(all)
      BY ONLY <1>2a, <3>1
    <3>. QED BY <3>1, <3>2, <3>3
  <2>. QED BY <1>4, <1>6a, <2>1, <2>2
<1>10. ASSUME NEW k \in 1..Len(all)
       PROVE  \E j \in 1..Len(more) : begin[j] < k /\ k <= begin[j] + more[j].size
  <2>1. CASE k \in 1..Len(d)
    <3>1. PICK j \in 1..Len(ops) : start[j] < k /\ k <= start[j] + ops[j].size
      BY <1>1, <2>1 DEF CutAt
    <3>2. j \in 1..n /\ more[j] = ops[j] /\ begin[j] = start[j]
      BY <1>2, <1>4, <1>6 DEF n
    <3>. QED BY <1>4, <3>1, <3>2
  <2>2. CASE ~(k \in 1..Len(d))
    <3>1. begin[n] < k /\ k <= begin[n] + size
      BY ONLY <1>2, <1>2a, <1>6, <1>10, <2>2
    <3>. QED BY <1>4, <1>6, <3>1
  <2>. QED BY <2>1, <2>2
<1>11. CutAt(all, more, off, begin)
  BY <1>7, <1>8, <1>9, <1>10 DEF CutAt
<1>. QED BY <1>3, <1>4, <1>11 DEF Cut


\* Bytes taken from those of the first write.
LEMMA CutTaken ==
    ASSUME CdcOut!CdcTransmitAssumption,
           NEW d \in Seq(CdcOut!Byte), NEW ops \in Seq(CdcOut!Writes), NEW off \in Nat,
           NEW n \in Nat, ops # <<>>, off + n <= ops[1].size, n > 0,
           Cut(d, ops, off)
    PROVE  /\ n <= Len(d) /\ \A k \in 1..n : d[k][1] = ops[1].n
           /\ Cut(SubSeq(d, n + 1, Len(d)), ops, off + n)
<1> DEFINE size == ops[1].size
           left == SubSeq(d, n + 1, Len(d))
<1>1. PICK start \in [1..Len(ops) -> Int] : CutAt(d, ops, off, start)
  BY DEF Cut
<1>2. Len(d) \in Nat /\ Len(ops) \in Nat /\ 1 \in 1..Len(ops) /\ Len(ops) \in 1..Len(ops)
  BY LenProperties, EmptySeq
<1>3. start[1] \in Int /\ start[1] + off = 0 /\ Len(d) = start[Len(ops)] + ops[Len(ops)].size
  BY <1>1, <1>2 DEF CutAt
<1>4. size \in Nat /\ off + n <= size
  BY <1>2, SizesAre
<1> HIDE DEF size
<1>5. ASSUME NEW k \in 1..n PROVE k <= Len(d) /\ d[k] = <<ops[1].n, off + k>>
  <2>1. off + k \in 1..size /\ start[1] + (off + k) = k /\ k >= 1
    <3>1. k \in Nat /\ 1 <= k /\ k <= n
      BY ONLY <1>5, n \in Nat
    <3>. QED BY ONLY SMTT(30), <1>3, <1>4, <3>1, off \in Nat, n \in Nat
  <2>2. \A p \in 1..size : start[1] + p >= 1 =>
            start[1] + p <= Len(d) /\ d[start[1] + p] = <<ops[1].n, p>>
    BY <1>1, <1>2 DEF CutAt, size
  <2>. QED BY <2>1, <2>2
<1>6. n <= Len(d)
  BY <1>5
<1>7. /\ left \in Seq(CdcOut!Byte) /\ Len(left) = Len(d) - n
      /\ \A k \in 1..(Len(d) - n) : left[k] = d[n + k]
  <2>1. n \in 0..Len(d)
    BY <1>2, <1>6
  <2>. QED BY <2>1, DroppedFront
<1> HIDE DEF left
<1> DEFINE begin == [j \in 1..Len(ops) |-> start[j] - n]
<1>8. begin \in [1..Len(ops) -> Int] /\ \A j \in 1..Len(ops) : begin[j] = start[j] - n
  OBVIOUS
<1>8a. \A j \in 1..Len(ops) : start[j] \in Int
  OBVIOUS
<1> HIDE DEF begin
<1>9. begin[1] + (off + n) = 0
  <2>1. begin[1] = start[1] - n
    BY <1>2, <1>8
  <2>. QED BY ONLY <1>3, <2>1, off \in Nat, n \in Nat
<1>10. Len(left) = begin[Len(ops)] + ops[Len(ops)].size
  <2>1. begin[Len(ops)] = start[Len(ops)] - n /\ start[Len(ops)] \in Int
    BY <1>2, <1>8, <1>8a
  <2>2. ops[Len(ops)].size \in Nat
    BY <1>2, SizesAre
  <2>. QED BY ONLY SMTT(30), <1>2, <1>3, <1>7, <2>1, <2>2, n \in Nat
<1>11. ASSUME NEW j \in 1..Len(ops), j + 1 <= Len(ops)
       PROVE  begin[j + 1] = begin[j] + ops[j].size
  <2>1. j + 1 \in 1..Len(ops)
    BY ONLY <1>2, <1>11
  <2>2. start[j + 1] = start[j] + ops[j].size /\ start[j] \in Int
    BY <1>1, <1>8a, <1>11 DEF CutAt
  <2>3. ops[j].size \in Nat
    BY SizesAre
  <2>4. begin[j] = start[j] - n /\ begin[j + 1] = start[j + 1] - n
    BY <1>8, <2>1
  <2>. QED BY ONLY <2>2, <2>3, <2>4, n \in Nat
<1>12. ASSUME NEW j \in 1..Len(ops), NEW p \in 1..ops[j].size, begin[j] + p >= 1
       PROVE  begin[j] + p <= Len(left) /\ left[begin[j] + p] = <<ops[j].n, p>>
  <2>1. ops[j].size \in Nat /\ begin[j] = start[j] - n /\ start[j] \in Int
    BY <1>8, <1>8a, SizesAre
  <2>2. p \in Nat /\ start[j] + p >= 1
    BY ONLY <1>12, <2>1, n \in Nat
  <2>3. start[j] + p <= Len(d) /\ d[start[j] + p] = <<ops[j].n, p>>
    BY <1>1, <2>2 DEF CutAt
  <2>4. begin[j] + p \in 1..(Len(d) - n) /\ n + (begin[j] + p) = start[j] + p
    BY ONLY <1>2, <1>12, <2>1, <2>2, <2>3, n \in Nat
  <2>5. left[begin[j] + p] = d[n + (begin[j] + p)]
    BY <1>7, <2>4
  <2>6. begin[j] + p <= Len(left)
    BY <1>7, <2>4
  <2>. QED BY <2>3, <2>4, <2>5, <2>6
<1>13. ASSUME NEW k \in 1..Len(left)
       PROVE  \E j \in 1..Len(ops) : begin[j] < k /\ k <= begin[j] + ops[j].size
  <2>1. k \in 1..(Len(d) - n)
    BY <1>7
  <2>2. n + k \in 1..Len(d)
    BY ONLY <1>2, <1>6, <2>1, n \in Nat
  <2>3. PICK j \in 1..Len(ops) : start[j] < n + k /\ n + k <= start[j] + ops[j].size
    BY <1>1, <2>2 DEF CutAt
  <2>4. ops[j].size \in Nat /\ begin[j] = start[j] - n /\ start[j] \in Int
    BY <1>8, <1>8a, SizesAre
  <2>5. begin[j] < k /\ k <= begin[j] + ops[j].size
    BY ONLY <2>1, <2>3, <2>4, n \in Nat
  <2>. QED BY <2>5
<1>14. CutAt(left, ops, off + n, begin)
  BY <1>9, <1>10, <1>11, <1>12, <1>13 DEF CutAt
<1>15. \A k \in 1..n : d[k][1] = ops[1].n
  BY <1>5
<1>. QED BY <1>6, <1>8, <1>14, <1>15 DEF Cut, left

\* A write whose bytes are all taken.
LEMMA CutPopped ==
    ASSUME CdcOut!CdcTransmitAssumption,
           NEW d \in Seq(CdcOut!Byte), NEW ops \in Seq(CdcOut!Writes), ops # <<>>,
           Cut(d, ops, ops[1].size)
    PROVE  Cut(d, Tail(ops), 0)
<1> DEFINE left == Tail(ops)
<1>1. PICK start \in [1..Len(ops) -> Int] : CutAt(d, ops, ops[1].size, start)
  BY DEF Cut
<1>2. Len(d) \in Nat /\ Len(ops) \in Nat /\ 1 \in 1..Len(ops)
  BY LenProperties, EmptySeq
<1>3. /\ left \in Seq(CdcOut!Writes) /\ Len(left) = Len(ops) - 1
      /\ \A j \in 1..Len(left) : left[j] = ops[j + 1]
  BY HeadTailProperties
<1> HIDE DEF left
<1>4. Len(left) \in Nat /\ \A j \in 1..Len(left) : j + 1 \in 1..Len(ops)
  BY ONLY <1>2, <1>3
<1> DEFINE begin == [j \in 1..Len(left) |-> start[j + 1]]
<1>5. begin \in [1..Len(left) -> Int] /\ \A j \in 1..Len(left) : begin[j] = start[j + 1]
  BY <1>4
<1> HIDE DEF begin
<1>6. \A j \in 1..Len(ops) : start[j] \in Int /\ ops[j].size \in Nat
  BY SizesAre
<1>7. start[1] + ops[1].size = 0 /\ start[1] + ops[1].size = 0
  <2>1. start[1] + ops[1].size = 0
    BY <1>1 DEF CutAt
  <2>2. ops[1].size \in Nat
    BY <1>2, <1>6
  <2>. QED BY ONLY <2>1, <2>2
<1>8. left # <<>> => begin[1] + 0 = 0 /\ Len(d) = begin[Len(left)] + left[Len(left)].size
  <2> SUFFICES ASSUME left # <<>>
               PROVE  begin[1] + 0 = 0 /\ Len(d) = begin[Len(left)] + left[Len(left)].size
    OBVIOUS
  <2>1. 1 \in 1..Len(left) /\ Len(left) \in 1..Len(left)
    BY <1>3, <1>4, EmptySeq
  <2>2. begin[1] = start[1 + 1] /\ 1 + 1 \in 1..Len(ops)
    BY <1>4, <1>5, <2>1
  <2>2a. 1 + 1 <= Len(ops)
    BY ONLY <1>2, <2>2
  <2>3. start[1 + 1] = start[1] + ops[1].size
    BY <1>1, <1>2, <2>2a DEF CutAt
  <2>4. begin[1] = 0
    BY <1>7, <2>2, <2>3
  <2>5. Len(left) + 1 = Len(ops)
    BY ONLY <1>2, <1>3
  <2>6. begin[Len(left)] = start[Len(ops)] /\ left[Len(left)] = ops[Len(ops)]
    BY <1>3, <1>5, <2>1, <2>5
  <2>7. Len(d) = start[Len(ops)] + ops[Len(ops)].size
    BY <1>1 DEF CutAt
  <2>. QED BY <2>4, <2>6, <2>7
<1>9. ASSUME NEW j \in 1..Len(left), j + 1 <= Len(left)
      PROVE  begin[j + 1] = begin[j] + left[j].size
  <2>1. j + 1 \in 1..Len(left) /\ j + 1 \in 1..Len(ops) /\ (j + 1) + 1 <= Len(ops)
    BY ONLY <1>2, <1>3, <1>4, <1>9
  <2>2. start[(j + 1) + 1] = start[j + 1] + ops[j + 1].size
    BY <1>1, <2>1 DEF CutAt
  <2>. QED BY <1>3, <1>5, <2>1, <2>2
<1>10. ASSUME NEW j \in 1..Len(left), NEW p \in 1..left[j].size, begin[j] + p >= 1
       PROVE  begin[j] + p <= Len(d) /\ d[begin[j] + p] = <<left[j].n, p>>
  <2>1. j + 1 \in 1..Len(ops) /\ left[j] = ops[j + 1] /\ begin[j] = start[j + 1]
    BY <1>3, <1>4, <1>5
  <2>. QED BY <1>1, <1>10, <2>1 DEF CutAt
<1>11. ASSUME NEW k \in 1..Len(d)
       PROVE  \E j \in 1..Len(left) : begin[j] < k /\ k <= begin[j] + left[j].size
  <2>1. PICK i \in 1..Len(ops) : start[i] < k /\ k <= start[i] + ops[i].size
    BY <1>1 DEF CutAt
  <2>2. i # 1
    BY ONLY <1>7, <2>1, <1>11
  <2>3. i - 1 \in 1..Len(left) /\ (i - 1) + 1 = i
    BY ONLY <1>2, <1>3, <2>2, i \in 1..Len(ops)
  <2>4. left[i - 1] = ops[i] /\ begin[i - 1] = start[i]
    BY <1>3, <1>5, <2>3
  <2>. QED BY <2>1, <2>3, <2>4
<1>12. CutAt(d, left, 0, begin)
  BY <1>8, <1>9, <1>10, <1>11 DEF CutAt
<1>. QED BY <1>5, <1>12 DEF Cut, left

LEMMA CutNumbers ==
    ASSUME CdcOut!CdcTransmitAssumption,
           NEW d \in Seq(CdcOut!Byte), NEW ops \in Seq(CdcOut!Writes), NEW off, Cut(d, ops, off),
           NEW k \in 1..Len(d)
    PROVE  d[k][1] \in Numbers(ops)
<1>1. PICK start \in [1..Len(ops) -> Int] : CutAt(d, ops, off, start)
  BY DEF Cut
<1>2. PICK j \in 1..Len(ops) : start[j] < k /\ k <= start[j] + ops[j].size
  BY <1>1 DEF CutAt
<1>3. ops[j].size \in Nat /\ start[j] \in Int
  BY SizesAre
<1>4. k - start[j] \in 1..ops[j].size /\ start[j] + (k - start[j]) = k /\ k >= 1
  BY ONLY <1>2, <1>3, k \in 1..Len(d)
<1>5. d[start[j] + (k - start[j])] = <<ops[j].n, k - start[j]>>
  BY <1>1, <1>4 DEF CutAt
<1>6. d[k][1] = ops[j].n
  BY <1>4, <1>5
<1>. QED BY <1>6 DEF Numbers

----------------------------------------------------------------------------
(* CdcTransmit: lines of bytes, and the accounts of the writes.               *)

LEMMA LineGrows ==
    ASSUME NEW s \in Seq(CdcOut!Byte), NEW w \in CdcOut!Writes, CdcOut!CdcTransmitAssumption,
           Sorted(s), \A k \in 1..Len(s) : s[k][1] < w.n
    PROVE  /\ Sorted(s \o CdcOut!Bytes(w))
           /\ \A k \in 1..Len(s \o CdcOut!Bytes(w)) : (s \o CdcOut!Bytes(w))[k][1] <= w.n
<1> DEFINE size == w.size
<1>0. size \in Nat /\ w.n \in Nat /\ Len(s) \in Nat
  BY BytesAre, LenProperties
<1> SUFFICES ASSUME NEW all \in Seq(CdcOut!Byte), Len(all) = Len(s) + size,
                    \A k \in 1..Len(s) : all[k] = s[k],
                    \A k \in 1..size : all[Len(s) + k] = <<w.n, k>>
             PROVE  Sorted(all) /\ \A k \in 1..Len(all) : all[k][1] <= w.n
  BY BytesAdded
<1> HIDE DEF size
<1>1. \A k \in 1..Len(s) : s[k] \in CdcOut!Byte
  BY ElementOfSeq
<1>1a. \A k \in 1..Len(s) : s[k][1] \in Nat
  BY <1>1 DEF CdcOut!Byte, CdcOut!CdcTransmitAssumption
<1>2. \A k \in 1..Len(all) : k \in 1..Len(s) \/ k - Len(s) \in 1..size
  BY ONLY <1>0, Len(all) = Len(s) + size
<1>3. ASSUME NEW k \in 1..Len(all), k - Len(s) \in 1..size PROVE all[k] = <<w.n, k - Len(s)>>
  <2>1. Len(s) + (k - Len(s)) = k
    BY ONLY <1>0, k \in 1..Len(all)
  <2>. QED BY <1>3, <2>1
<1>4. \A k \in 1..Len(all) : all[k][1] <= w.n
  <2>1. ASSUME NEW k \in 1..Len(all) PROVE all[k][1] <= w.n
    <3>1. CASE k \in 1..Len(s)
      BY <1>0, <1>1a, <3>1
    <3>2. CASE k - Len(s) \in 1..size
      BY <1>0, <1>3, <3>2
    <3>. QED BY <1>2, <3>1, <3>2
  <2>. QED BY <2>1
<1>5. ASSUME NEW j \in 1..Len(all), NEW k \in 1..Len(all), j < k
      PROVE  CdcOut!Before(all[j], all[k])
  <2>1. CASE k \in 1..Len(s)
    <3>1. j \in 1..Len(s)
      BY ONLY <1>0, <1>5, <2>1
    <3>. QED BY <1>5, <2>1, <3>1 DEF Sorted
  <2>2. CASE k - Len(s) \in 1..size /\ j \in 1..Len(s)
    <3>1. all[j][1] < w.n /\ all[k][1] = w.n
      BY <1>3, <2>2
    <3>. QED BY <3>1 DEF CdcOut!Before
  <2>3. CASE k - Len(s) \in 1..size /\ j - Len(s) \in 1..size
    <3>1. all[j] = <<w.n, j - Len(s)>> /\ all[k] = <<w.n, k - Len(s)>>
      BY <1>3, <2>3
    <3>2. j - Len(s) < k - Len(s)
      BY ONLY <1>0, <1>5
    <3>. QED BY <3>1, <3>2 DEF CdcOut!Before
  <2>. QED BY <1>2, <2>1, <2>2, <2>3
<1>. QED BY <1>4, <1>5 DEF Sorted

LEMMA LineCut ==
    ASSUME NEW s \in Seq(CdcOut!Byte), NEW t \in Seq(CdcOut!Byte), Sorted(s \o t), NEW n,
           \A k \in 1..Len(s \o t) : (s \o t)[k][1] <= n
    PROVE  Sorted(s) /\ \A k \in 1..Len(s) : s[k][1] <= n
<1>1. Len(s) \in Nat /\ Len(t) \in Nat
  BY LenProperties
<1>2. /\ Len(s \o t) = Len(s) + Len(t)
      /\ \A k \in 1..Len(s) : (s \o t)[k] = s[k]
  BY Joined
<1>3. \A k \in 1..Len(s) : k \in 1..Len(s \o t)
  BY ONLY <1>1, <1>2
<1>4. ASSUME NEW j \in 1..Len(s), NEW k \in 1..Len(s), j < k PROVE CdcOut!Before(s[j], s[k])
  <2>1. CdcOut!Before((s \o t)[j], (s \o t)[k])
    BY <1>3, <1>4 DEF Sorted
  <2>. QED BY <1>2, <2>1
<1>5. ASSUME NEW k \in 1..Len(s) PROVE s[k][1] <= n
  BY <1>2, <1>3
<1>. QED BY <1>4, <1>5 DEF Sorted

LEMMA NumberAdded ==
    ASSUME NEW q \in Seq(CdcOut!Writes), NEW w \in CdcOut!Writes
    PROVE  /\ Append(q, w) \in Seq(CdcOut!Writes) /\ Append(q, w) # <<>>
           /\ q # <<>> => Append(q, w)[1] = q[1] /\ Tail(Append(q, w)) = Append(Tail(q), w)
           /\ q = <<>> => Append(q, w)[1] = w
           /\ Numbers(Append(q, w)) = Numbers(q) \cup {w.n}
           /\ Distinct(q) /\ w.n \notin Numbers(q) => Distinct(Append(q, w))
<1>1. /\ Append(q, w) \in Seq(CdcOut!Writes) /\ Append(q, w) # <<>>
      /\ Len(Append(q, w)) = Len(q) + 1 /\ \A k \in 1..Len(q) : Append(q, w)[k] = q[k]
      /\ Append(q, w)[Len(q) + 1] = w
  BY AppendProperties
<1>2. Len(q) \in Nat /\ (q # <<>> => Len(q) >= 1) /\ (q = <<>> => Len(q) = 0)
  BY LenProperties, EmptySeq
<1>3. \A k \in 1..Len(Append(q, w)) : k \in 1..Len(q) \/ k = Len(q) + 1
  BY ONLY <1>1, <1>2
<1>3a. \A k \in 1..Len(q) : k \in 1..Len(Append(q, w)) /\ k # Len(q) + 1
  BY ONLY <1>1, <1>2
<1>3b. Len(q) + 1 \in 1..Len(Append(q, w))
  BY ONLY <1>1, <1>2
<1>4. Numbers(Append(q, w)) = Numbers(q) \cup {w.n}
  BY <1>1, <1>3, <1>3a, <1>3b DEF Numbers
<1>5. ASSUME Distinct(q), w.n \notin Numbers(q),
             NEW j \in 1..Len(Append(q, w)), NEW k \in 1..Len(Append(q, w)),
             Append(q, w)[j].n = Append(q, w)[k].n
      PROVE  j = k
  <2>1. CASE j \in 1..Len(q) /\ k \in 1..Len(q)
    BY <1>1, <1>5, <2>1 DEF Distinct
  <2>2. CASE j = Len(q) + 1 /\ k \in 1..Len(q)
    BY <1>1, <1>5, <2>2 DEF Numbers
  <2>3. CASE k = Len(q) + 1 /\ j \in 1..Len(q)
    BY <1>1, <1>5, <2>3 DEF Numbers
  <2>. QED BY <1>3, <2>1, <2>2, <2>3
<1>6. ASSUME q # <<>> PROVE Append(q, w)[1] = q[1] /\ Tail(Append(q, w)) = Append(Tail(q), w)
  BY <1>1, <1>2, <1>6
<1>7. ASSUME q = <<>> PROVE Append(q, w)[1] = w
  BY <1>1, <1>2, <1>7
<1>. QED BY <1>1, <1>4, <1>5, <1>6, <1>7 DEF Distinct

LEMMA NumberTaken ==
    ASSUME NEW q \in Seq(CdcOut!Writes), q # <<>>
    PROVE  /\ Tail(q) \in Seq(CdcOut!Writes) /\ q[1] \in CdcOut!Writes /\ q[1].n \in Numbers(q)
           /\ \A k \in 1..Len(Tail(q)) : Tail(q)[k] = q[k + 1]
           /\ Distinct(q) => /\ Numbers(Tail(q)) = Numbers(q) \ {q[1].n}
                             /\ Distinct(Tail(q))
<1>1. /\ Tail(q) \in Seq(CdcOut!Writes) /\ Len(Tail(q)) = Len(q) - 1
      /\ \A k \in 1..Len(Tail(q)) : Tail(q)[k] = q[k + 1]
  BY HeadTailProperties
<1>2. Len(q) \in Nat /\ Len(q) >= 1 /\ 1 \in 1..Len(q)
  BY LenProperties, EmptySeq
<1>3. q[1] \in CdcOut!Writes /\ q[1].n \in Numbers(q)
  BY <1>2, ElementOfSeq DEF Numbers
<1>4. \A k \in 1..Len(Tail(q)) : k + 1 \in 1..Len(q) /\ k + 1 # 1
  BY ONLY <1>1, <1>2
<1>5. \A k \in 1..Len(q) : k = 1 \/ (k - 1 \in 1..Len(Tail(q)) /\ (k - 1) + 1 = k)
  BY ONLY <1>1, <1>2
<1>6. ASSUME Distinct(q) PROVE Numbers(Tail(q)) = Numbers(q) \ {q[1].n} /\ Distinct(Tail(q))
  <2>1. \A x \in Numbers(Tail(q)) : x \in Numbers(q) \ {q[1].n}
    BY <1>1, <1>2, <1>4, <1>6 DEF Numbers, Distinct
  <2>2. ASSUME NEW x \in Numbers(q) \ {q[1].n} PROVE x \in Numbers(Tail(q))
    <3>1. PICK k \in 1..Len(q) : x = q[k].n
      BY <2>2 DEF Numbers
    <3>2. k - 1 \in 1..Len(Tail(q)) /\ (k - 1) + 1 = k
      BY <1>5, <2>2, <3>1
    <3>. QED BY <1>1, <3>1, <3>2 DEF Numbers
  <2>3. ASSUME NEW j \in 1..Len(Tail(q)), NEW k \in 1..Len(Tail(q)), Tail(q)[j].n = Tail(q)[k].n
        PROVE  j = k
    <3>1. j + 1 = k + 1
      BY <1>1, <1>4, <1>6, <2>3 DEF Distinct
    <3>. QED BY ONLY <3>1, j \in 1..Len(Tail(q)), k \in 1..Len(Tail(q))
  <2>. QED BY <2>1, <2>2, <2>3 DEF Distinct
<1>. QED BY <1>1, <1>3, <1>6

ReportType == (1..MaxWrites) \X BOOLEAN

LEMMA ReportAdded ==
    ASSUME NEW r \in Seq(ReportType), NEW n \in 1..MaxWrites, NEW ok \in BOOLEAN
    PROVE  /\ Append(r, <<n, ok>>) \in Seq(ReportType) /\ Append(r, <<n, ok>>) = r \o << <<n, ok>> >>
           /\ Len(Append(r, <<n, ok>>)) = Len(r) + 1
           /\ \A k \in 1..Len(r) : Append(r, <<n, ok>>)[k] = r[k]
           /\ Append(r, <<n, ok>>)[Len(r) + 1] = <<n, ok>>
           /\ Reports(Append(r, <<n, ok>>)) = Reports(r) \cup {n}
           /\ Once(r) /\ n \notin Reports(r) => Once(Append(r, <<n, ok>>))
<1> DEFINE new == <<n, ok>>
           all == Append(r, new)
<1>0. new \in ReportType /\ new[1] = n
  BY DEF ReportType
<1> HIDE DEF new
<1>1. /\ all \in Seq(ReportType) /\ Len(all) = Len(r) + 1
      /\ \A k \in 1..Len(r) : all[k] = r[k]
      /\ all[Len(r) + 1] = new
  BY <1>0, AppendProperties
<1>1a. Append(r, new) = r \o <<new>>
  BY <1>0, AppendIsConcat
<1>2. Len(r) \in Nat
  BY LenProperties
<1> HIDE DEF all
<1>3. \A k \in 1..Len(all) : k \in 1..Len(r) \/ k = Len(r) + 1
  BY ONLY <1>1, <1>2
<1>3a. \A k \in 1..Len(r) : k \in 1..Len(all) /\ k # Len(r) + 1
  BY ONLY <1>1, <1>2
<1>3b. Len(r) + 1 \in 1..Len(all)
  BY ONLY <1>1, <1>2
<1>4. Reports(all) = Reports(r) \cup {n}
  BY <1>0, <1>1, <1>3, <1>3a, <1>3b DEF Reports
<1>5. ASSUME Once(r), n \notin Reports(r), NEW j \in 1..Len(all), NEW k \in 1..Len(all),
             all[j][1] = all[k][1]
      PROVE  j = k
  <2>1. CASE j \in 1..Len(r) /\ k \in 1..Len(r)
    BY <1>1, <1>5, <2>1 DEF Once
  <2>2. CASE j = Len(r) + 1 /\ k \in 1..Len(r)
    BY <1>0, <1>1, <1>5, <2>2 DEF Reports
  <2>3. CASE k = Len(r) + 1 /\ j \in 1..Len(r)
    BY <1>0, <1>1, <1>5, <2>3 DEF Reports
  <2>. QED BY <1>3, <2>1, <2>2, <2>3
<1>6. Once(r) /\ n \notin Reports(r) => Once(all)
  BY <1>5 DEF Once
<1>. QED BY <1>1, <1>1a, <1>4, <1>6 DEF all, new

----------------------------------------------------------------------------
(* CdcTransmit: the dequeue helper.                                           *)

LEMMA PortIs ==
    ASSUME NEW p \in PortType
    PROVE  /\ p.info \in Seq(CdcOut!Writes) /\ p.data \in Seq(CdcOut!Byte)
           /\ p.head \in CdcOut!Writes \cup {CdcOut!NoWrite} /\ p.offset \in Nat
           /\ Len(p.info) \in Nat /\ Len(p.data) \in Nat
           /\ CdcOut!NoWrite \notin CdcOut!Writes
<1>1. CdcOut!NoWrite \notin CdcOut!Writes
  BY DEF CdcOut!NoWrite, CdcOut!Writes
<1>2. /\ p.info \in Seq(CdcOut!Writes) /\ p.data \in Seq(CdcOut!Byte)
      /\ p.head \in CdcOut!Writes \cup {CdcOut!NoWrite} /\ p.offset \in Nat
  BY DEF PortType
<1>. QED BY <1>1, <1>2, LenProperties

LEMMA HeadEnsured ==
    ASSUME CdcOut!CdcTransmitAssumption, NEW p, PortKept(p)
    PROVE  LET q == CdcOut!EnsureHead(p) IN
           /\ PortKept(q) /\ q.info = p.info /\ q.data = p.data /\ q.offset = p.offset
           /\ p.info = <<>> => q = p /\ q.head = CdcOut!NoWrite
           /\ p.info # <<>> => q.head = p.info[1] /\ q.head \in CdcOut!Writes
           /\ p.head # CdcOut!NoWrite => q = p
<1> DEFINE q == CdcOut!EnsureHead(p)
<1>1. p \in PortType /\ HeadIsFirst(p)
  BY DEF PortKept
<1>2. p.info # <<>> => p.info[1] \in CdcOut!Writes /\ p.info[1].size \in Nat
  BY <1>1, PortIs, NumberTaken, BytesAre
<1>3. CASE p.head # CdcOut!NoWrite \/ p.info = <<>>
  <2>1. q = p
    BY <1>3 DEF CdcOut!EnsureHead
  <2>2. p.head # CdcOut!NoWrite => p.info # <<>> /\ p.head = p.info[1]
    BY <1>1 DEF HeadIsFirst
  <2>3. p.info = <<>> => p.head = CdcOut!NoWrite
    BY <2>2
  <2>4. p.info # <<>> => p.head # CdcOut!NoWrite
    BY <1>3
  <2>. QED BY <1>2, <2>1, <2>2, <2>3, <2>4, Zenon
<1>4. CASE p.head = CdcOut!NoWrite /\ p.info # <<>>
  <2>1. q = [p EXCEPT !.head = p.info[1], !.offset = 0]
    BY <1>4 DEF CdcOut!EnsureHead
  <2>2. p.offset = 0
    BY <1>1, <1>4 DEF HeadIsFirst
  <2> DEFINE first == p.info[1]
  <2> HIDE DEF q, first
  <2>2a. first \in CdcOut!Writes /\ q = [p EXCEPT !.head = first, !.offset = 0]
    BY <1>2, <1>4, <2>1 DEF first
  <2>2b. /\ q.info = p.info /\ q.data = p.data /\ q.offset = 0 /\ q.head = first
         /\ q \in PortType
    BY <1>1, <2>2a DEF PortType
  <2>3. /\ q.info = p.info /\ q.data = p.data /\ q.offset = 0 /\ q.head = p.info[1]
        /\ q \in PortType
    BY <2>2b DEF first
  <2>4. HeadIsFirst(q)
    <3>1. 0 <= p.info[1].size
      BY <1>2, <1>4
    <3>2. q.offset <= q.head.size
      BY <2>3, <3>1
    <3>. QED BY <1>4, <2>3, <3>2 DEF HeadIsFirst
  <2>5. PortKept(q)
    BY <2>3, <2>4 DEF PortKept
  <2>. QED BY <1>2, <1>4, <2>2, <2>3, <2>5 DEF q
<1>. QED BY <1>3, <1>4

LEMMA TakeKeeps ==
    ASSUME CdcOut!CdcTransmitAssumption, NEW p, PortKept(p)
    PROVE  LET t == CdcOut!Take(p) IN
           /\ PortKept(t.port) /\ t.port.info = p.info
           /\ t.bytes \in Seq(CdcOut!Byte) /\ Len(t.bytes) <= MPS
           /\ t.ans \in {"EMPTY", "FAILED", "OK", "PENDING"}
           /\ t.ans \in {"EMPTY", "FAILED"} => t.bytes = <<>>
           /\ t.ans \in {"OK", "PENDING"} =>
                 p.info # <<>> /\ t.port.head = p.info[1] /\ t.bytes # <<>>
           /\ p.info = <<>> => t.ans = "EMPTY" /\ t.port = p
<1> DEFINE t == CdcOut!Take(p)
           q == CdcOut!EnsureHead(p)
           size == CdcOut!Least(q.head.size - q.offset, MPS)
           rest == [q EXCEPT !.data = SubSeq(q.data, size + 1, Len(q.data)), !.offset = @ + size]
<1>1. /\ PortKept(q) /\ q.info = p.info /\ q.data = p.data /\ q.offset = p.offset
      /\ p.info = <<>> => q = p /\ q.head = CdcOut!NoWrite
      /\ p.info # <<>> => q.head = p.info[1] /\ q.head \in CdcOut!Writes
  BY HeadEnsured
<1> HIDE DEF q
<1>2. q \in PortType /\ HeadIsFirst(q)
  BY <1>1 DEF PortKept
<1>3. t = IF q.head = CdcOut!NoWrite THEN [ans |-> "EMPTY", bytes |-> <<>>, port |-> q]
          ELSE IF size = 0 \/ Len(q.data) < size THEN [ans |-> "FAILED", bytes |-> <<>>, port |-> q]
          ELSE [ans |-> IF CdcOut!HeadCompleted(rest) THEN "OK" ELSE "PENDING",
                bytes |-> SubSeq(q.data, 1, size), port |-> rest]
  BY DEF CdcOut!Take, q
<1> HIDE DEF t
<1>4. MPS \in Nat /\ <<>> \in Seq(CdcOut!Byte) /\ Len(<<>>) = 0 /\ 0 <= MPS
  BY DEF CdcOut!CdcTransmitAssumption
<1>5. CASE q.head = CdcOut!NoWrite
  <2>1. t = [ans |-> "EMPTY", bytes |-> <<>>, port |-> q]
    BY <1>3, <1>5
  <2>2. t.ans = "EMPTY" /\ t.bytes = <<>> /\ t.port = q
    BY <2>1
  <2>. QED BY <1>1, <1>4, <2>2 DEF t
<1>6. CASE q.head # CdcOut!NoWrite /\ (size = 0 \/ Len(q.data) < size)
  <2>1. t = [ans |-> "FAILED", bytes |-> <<>>, port |-> q]
    BY <1>3, <1>6
  <2>2. t.ans = "FAILED" /\ t.bytes = <<>> /\ t.port = q
    BY <2>1
  <2>. QED BY <1>1, <1>4, <1>6, <2>2 DEF t
<1>7. CASE q.head # CdcOut!NoWrite /\ ~(size = 0 \/ Len(q.data) < size)
  <2>1. /\ t.ans = IF CdcOut!HeadCompleted(rest) THEN "OK" ELSE "PENDING"
        /\ t.bytes = SubSeq(q.data, 1, size) /\ t.port = rest
    <3> HIDE DEF rest, size
    <3>. QED BY <1>3, <1>7
  <2>2. p.info # <<>> /\ q.head = p.info[1] /\ q.head \in CdcOut!Writes
    BY <1>1, <1>7
  <2>3. /\ q.info \in Seq(CdcOut!Writes) /\ q.data \in Seq(CdcOut!Byte) /\ q.offset \in Nat
        /\ Len(q.data) \in Nat
    BY <1>2, PortIs
  <2>4. q.head.size \in Nat /\ q.offset <= q.head.size
    BY <1>2, <1>7, <2>2, BytesAre DEF HeadIsFirst
  <2>5. size \in Nat /\ size > 0 /\ size <= MPS /\ q.offset + size <= q.head.size
        /\ size \in 0..Len(q.data)
    <3> DEFINE h == q.head.size
    <3>1. h \in Nat /\ q.offset \in Nat /\ q.offset <= h /\ Len(q.data) \in Nat
      BY <2>3, <2>4
    <3>2. size = IF h - q.offset < MPS THEN h - q.offset ELSE MPS
      BY DEF CdcOut!Least
    <3>3. ~(size = 0 \/ Len(q.data) < size)
      BY <1>7
    <3> HIDE DEF h, size
    <3>4. size \in Nat /\ size <= MPS /\ q.offset + size <= h
      BY ONLY <1>4, <3>1, <3>2
    <3>5. size > 0 /\ size \in 0..Len(q.data)
      BY ONLY <3>1, <3>3, <3>4
    <3>. QED BY <3>4, <3>5 DEF h
  <2> HIDE DEF size
  <2>6. /\ SubSeq(q.data, size + 1, Len(q.data)) \in Seq(CdcOut!Byte)
        /\ SubSeq(q.data, 1, size) \in Seq(CdcOut!Byte) /\ Len(SubSeq(q.data, 1, size)) = size
    BY <2>3, <2>5, DroppedFront
  <2>7. /\ rest.info = q.info /\ rest.head = q.head /\ rest.offset = q.offset + size
        /\ rest \in PortType
    <3>1. q.offset + size \in Nat
      BY ONLY <2>3, <2>5
    <3> DEFINE left == SubSeq(q.data, size + 1, Len(q.data))
               taken == q.offset + size
    <3>2. left \in Seq(CdcOut!Byte) /\ taken \in Nat
      BY <2>6, <3>1
    <3>3. rest = [q EXCEPT !.data = left, !.offset = taken]
      BY <1>2 DEF PortType
    <3> HIDE DEF left, taken, rest
    <3>4. rest.info = q.info /\ rest.head = q.head /\ rest.offset = taken /\ rest \in PortType
      BY <1>2, <3>2, <3>3 DEF PortType
    <3>. QED BY <3>4 DEF taken
  <2> HIDE DEF rest
  <2>8. PortKept(rest)
    BY <1>1, <1>7, <2>2, <2>5, <2>7 DEF PortKept, HeadIsFirst
  <2>9. t.bytes # <<>> /\ Len(t.bytes) <= MPS /\ t.bytes \in Seq(CdcOut!Byte)
    BY <2>1, <2>5, <2>6, EmptySeq
  <2>10. t.ans \in {"OK", "PENDING"}
    BY <2>1
  <2>. QED BY <1>1, <2>1, <2>2, <2>7, <2>8, <2>9, <2>10 DEF t
<1>. QED BY <1>5, <1>6, <1>7

\* What Take answers when the bytes of the writes of ops are in the queue, the first of
\* which it finds.
LEMMA TakeWorks ==
    ASSUME CdcOut!CdcTransmitAssumption, NEW p, PortKept(p), p.info # <<>>,
           NEW ops \in Seq(CdcOut!Writes), ops # <<>>, ops[1] = p.info[1],
           Cut(p.data, ops, p.offset), p.head # CdcOut!NoWrite => p.offset < p.head.size
    PROVE  LET t == CdcOut!Take(p) IN
           /\ t.ans \in {"OK", "PENDING"}
           /\ t.ans = "OK" <=> t.port.offset = p.info[1].size
           /\ p.data = t.bytes \o t.port.data
           /\ \A k \in 1..Len(t.bytes) : t.bytes[k][1] = p.info[1].n
           /\ Cut(t.port.data, ops, t.port.offset)
<1> DEFINE t == CdcOut!Take(p)
           q == CdcOut!EnsureHead(p)
           size == CdcOut!Least(q.head.size - q.offset, MPS)
           left == SubSeq(q.data, size + 1, Len(q.data))
           rest == [q EXCEPT !.data = SubSeq(q.data, size + 1, Len(q.data)), !.offset = @ + size]
<1>1. /\ PortKept(q) /\ q.info = p.info /\ q.data = p.data /\ q.offset = p.offset
      /\ q.head = p.info[1] /\ q.head \in CdcOut!Writes /\ q.head # CdcOut!NoWrite
      /\ p.head # CdcOut!NoWrite => q = p
  BY HeadEnsured, PortIs DEF PortKept
<1> HIDE DEF q
<1>2. q \in PortType /\ HeadIsFirst(q)
  BY <1>1 DEF PortKept
<1>3. /\ q.data \in Seq(CdcOut!Byte) /\ q.offset \in Nat /\ Len(q.data) \in Nat
      /\ q.head.size \in Nat /\ q.head.size > 0 /\ MPS \in Nat /\ MPS > 0
  BY <1>1, <1>2, PortIs, BytesAre DEF CdcOut!CdcTransmitAssumption
<1>4. q.offset < q.head.size
  <2>1. CASE p.head # CdcOut!NoWrite
    BY <1>1, <2>1
  <2>2. CASE p.head = CdcOut!NoWrite
    <3>1. q.offset = 0
      BY <1>1, <2>2 DEF PortKept, HeadIsFirst
    <3>. QED BY <1>3, <3>1
  <2>. QED BY <2>1, <2>2
<1>5. size \in Nat /\ size > 0 /\ q.offset + size <= q.head.size
  <2> DEFINE h == q.head.size
  <2>1. h \in Nat /\ q.offset \in Nat /\ q.offset < h /\ MPS \in Nat /\ MPS > 0
    BY <1>3, <1>4
  <2>2. size = IF h - q.offset < MPS THEN h - q.offset ELSE MPS
    BY DEF CdcOut!Least
  <2> HIDE DEF h, size
  <2>3. size \in Nat /\ size > 0 /\ q.offset + size <= h
    BY ONLY <2>1, <2>2
  <2>. QED BY <2>3 DEF h
<1> HIDE DEF size
<1>6. /\ size <= Len(q.data) /\ \A k \in 1..size : q.data[k][1] = ops[1].n
      /\ Cut(left, ops, q.offset + size)
  <2>1. q.offset + size <= ops[1].size /\ Cut(q.data, ops, q.offset)
    BY <1>1, <1>5
  <2>. QED BY <1>3, <1>5, <2>1, CutTaken
<1>7. size \in 0..Len(q.data)
  BY ONLY <1>3, <1>5, <1>6
<1>8. /\ left \in Seq(CdcOut!Byte)
      /\ SubSeq(q.data, 1, size) \in Seq(CdcOut!Byte) /\ Len(SubSeq(q.data, 1, size)) = size
      /\ \A k \in 1..size : SubSeq(q.data, 1, size)[k] = q.data[k]
      /\ SubSeq(q.data, 1, size) \o left = q.data
  BY <1>3, <1>7, DroppedFront
<1>9. rest.head = q.head /\ rest.offset = q.offset + size /\ rest.data = left
  BY <1>2 DEF PortType
<1>10. ~(size = 0 \/ Len(q.data) < size)
  BY ONLY <1>3, <1>5, <1>6
<1>11. t = [ans |-> IF CdcOut!HeadCompleted(rest) THEN "OK" ELSE "PENDING",
            bytes |-> SubSeq(q.data, 1, size), port |-> rest]
  BY <1>1, <1>10 DEF CdcOut!Take, q, size
<1> HIDE DEF t, rest
<1>12. /\ t.ans = IF CdcOut!HeadCompleted(rest) THEN "OK" ELSE "PENDING"
       /\ t.bytes = SubSeq(q.data, 1, size) /\ t.port = rest
  <2> HIDE DEF left
  <2>. QED BY <1>11
<1>13. CdcOut!HeadCompleted(rest) <=> rest.offset = p.info[1].size
  BY <1>1, <1>9 DEF CdcOut!HeadCompleted
<1>14. t.ans \in {"OK", "PENDING"} /\ (t.ans = "OK" <=> t.port.offset = p.info[1].size)
  BY <1>12, <1>13
<1>15. p.data = t.bytes \o t.port.data
  BY <1>1, <1>8, <1>9, <1>12
<1>16. \A k \in 1..Len(t.bytes) : t.bytes[k][1] = p.info[1].n
  BY <1>6, <1>8, <1>12
<1>17. Cut(t.port.data, ops, t.port.offset)
  BY <1>6, <1>9, <1>12
<1>. QED BY <1>14, <1>15, <1>16, <1>17 DEF t

LEMMA WithoutKeeps ==
    ASSUME CdcOut!CdcTransmitAssumption, NEW p, PortKept(p), p.info # <<>>
    PROVE  LET w == CdcOut!Without(p) IN
           /\ PortKept(w) /\ w.info = Tail(p.info) /\ w.data = p.data
           /\ w.head = CdcOut!NoWrite /\ w.offset = 0
<1> DEFINE w == CdcOut!Without(p)
           others == Tail(p.info)
<1>1. p \in PortType
  BY DEF PortKept
<1>2. others \in Seq(CdcOut!Writes)
  BY <1>1, PortIs, NumberTaken
<1>3. w = [p EXCEPT !.info = others, !.head = CdcOut!NoWrite, !.offset = 0]
  BY DEF CdcOut!Without
<1> HIDE DEF w, others
<1>4. /\ w \in PortType /\ w.info = others /\ w.data = p.data /\ w.head = CdcOut!NoWrite
      /\ w.offset = 0
  BY <1>1, <1>2, <1>3 DEF PortType
<1>. QED BY <1>4 DEF PortKept, HeadIsFirst, w, others

LEMMA DropHeadKeeps ==
    ASSUME CdcOut!CdcTransmitAssumption, NEW p, PortKept(p)
    PROVE  LET d == CdcOut!DropHead(p) IN
           /\ PortKept(d)
           /\ p.info # <<>> /\ Cut(p.data, p.info, p.offset) /\ p.offset = 0 =>
                 /\ d.info = Tail(p.info) /\ d.head = CdcOut!NoWrite /\ d.offset = 0
                 /\ Cut(d.data, Tail(p.info), 0)
<1> DEFINE d == CdcOut!DropHead(p)
           q == CdcOut!EnsureHead(p)
           rest == q.head.size - q.offset
           left == SubSeq(q.data, rest + 1, Len(q.data))
           r == [q EXCEPT !.data = left]
<1>1. /\ PortKept(q) /\ q.info = p.info /\ q.data = p.data /\ q.offset = p.offset
      /\ p.info = <<>> => q.head = CdcOut!NoWrite
      /\ p.info # <<>> => q.head = p.info[1] /\ q.head \in CdcOut!Writes
  BY HeadEnsured
<1> HIDE DEF q
<1>2. q \in PortType /\ HeadIsFirst(q)
  BY <1>1 DEF PortKept
<1>3. q.data \in Seq(CdcOut!Byte) /\ q.offset \in Nat /\ Len(q.data) \in Nat
      /\ q.info \in Seq(CdcOut!Writes)
  BY <1>2, PortIs
<1>4. d = IF q.head = CdcOut!NoWrite \/ Len(q.data) < rest THEN q ELSE CdcOut!Without(r)
  BY DEF CdcOut!DropHead, q
<1> HIDE DEF d
<1>5. ASSUME p.info # <<>>
      PROVE  /\ q.head.size \in Nat /\ q.head.size > 0 /\ rest \in Nat /\ q.head # CdcOut!NoWrite
             /\ q.offset <= q.head.size
    <2>1. q.head \in CdcOut!Writes /\ q.head # CdcOut!NoWrite
      BY <1>1, <1>2, <1>5, PortIs
    <2>2. q.head.size \in Nat /\ q.head.size > 0 /\ q.offset <= q.head.size
      BY <1>2, <2>1, BytesAre DEF HeadIsFirst
    <2>. QED BY ONLY <1>3, <2>1, <2>2
<1>6. ASSUME p.info # <<>>, ~(Len(q.data) < rest)
      PROVE  /\ PortKept(r) /\ r.info = q.info /\ r.data = left /\ r.info # <<>>
  <2>1. rest \in 0..Len(q.data)
    BY ONLY <1>3, <1>5, <1>6
  <2> HIDE DEF rest
  <2>2. left \in Seq(CdcOut!Byte)
    BY <1>3, <2>1, DroppedFront
  <2> HIDE DEF left
  <2>3. /\ r \in PortType /\ r.info = q.info /\ r.head = q.head /\ r.offset = q.offset
        /\ r.data = left
    BY <1>2, <2>2 DEF PortType
  <2>. QED BY <1>1, <1>2, <1>6, <2>3 DEF PortKept, HeadIsFirst
<1>7. PortKept(d)
  <2>1. CASE q.head = CdcOut!NoWrite \/ Len(q.data) < rest
    BY <1>1, <1>4, <2>1
  <2>2. CASE ~(q.head = CdcOut!NoWrite \/ Len(q.data) < rest)
    <3>1. p.info # <<>> /\ d = CdcOut!Without(r)
      BY <1>1, <1>4, <2>2
    <3>2. PortKept(r) /\ r.info # <<>>
      BY <1>6, <2>2, <3>1
    <3> HIDE DEF r
    <3>. QED BY <3>1, <3>2, WithoutKeeps
  <2>. QED BY <2>1, <2>2
<1>8. ASSUME p.info # <<>>, Cut(p.data, p.info, p.offset), p.offset = 0
      PROVE  /\ d.info = Tail(p.info) /\ d.head = CdcOut!NoWrite /\ d.offset = 0
             /\ Cut(d.data, Tail(p.info), 0)
  <2> DEFINE size == p.info[1].size
  <2>1. size \in Nat /\ size > 0 /\ rest = size /\ q.head # CdcOut!NoWrite
    BY <1>1, <1>5, <1>8
  <2>2. size <= Len(q.data) /\ Cut(SubSeq(q.data, size + 1, Len(q.data)), p.info, 0 + size)
    <3>1. 0 + size <= p.info[1].size /\ p.info \in Seq(CdcOut!Writes) /\ Cut(q.data, p.info, 0)
      BY <1>1, <1>3, <1>8, <2>1
    <3>. QED BY <1>3, <1>8, <2>1, <3>1, CutTaken
  <2>3. Cut(left, p.info, size) /\ ~(Len(q.data) < rest)
    BY <1>3, <2>1, <2>2
  <2>4. Cut(left, Tail(p.info), 0)
    <3>1. left \in Seq(CdcOut!Byte)
      <4>1. rest \in 0..Len(q.data)
        BY ONLY <1>3, <1>5, <1>8, <2>3
      <4>. QED BY <1>3, <4>1, DroppedFront
    <3> HIDE DEF left
    <3>. QED BY <1>1, <1>3, <1>8, <2>3, <3>1, CutPopped
  <2>5. d = CdcOut!Without(r) /\ PortKept(r) /\ r.info = q.info /\ r.data = left /\ r.info # <<>>
    BY <1>4, <1>6, <1>8, <2>1, <2>3
  <2> HIDE DEF r, left
  <2>. QED BY <1>1, <2>4, <2>5, WithoutKeeps
<1>. QED BY <1>7, <1>8 DEF d

----------------------------------------------------------------------------
(* CdcTransmit: types.                                                        *)

CdcAssumption == CdcOut!CdcTransmitAssumption

LEMMA PortIsKept == ASSUME CdcTypes PROVE PortKept(CdcOut!Port)
<1>1. CdcOut!Port \in PortType
  BY DEF CdcTypes, CdcOut!CdcTransmitTypeOK, CdcOut!Port, PortType
<1>. QED BY <1>1 DEF CdcTypes, PortKept

LEMMA PortFields ==
    /\ CdcOut!Port.info = queue_info /\ CdcOut!Port.data = queue_data
    /\ CdcOut!Port.head = head /\ CdcOut!Port.offset = offset
BY DEF CdcOut!Port

LEMMA PortBecomes ==
    ASSUME NEW p, PortKept(p), CdcOut!Becomes(p)
    PROVE  /\ CdcOut!Port' = p /\ HeadIsFirst(CdcOut!Port)'
           /\ queue_info' = p.info /\ queue_data' = p.data /\ head' = p.head /\ offset' = p.offset
           /\ queue_info' \in Seq(CdcOut!Writes) /\ queue_data' \in Seq(CdcOut!Byte)
           /\ head' \in CdcOut!Writes \cup {CdcOut!NoWrite} /\ offset' \in Nat
<1>1. /\ queue_info' = p.info /\ queue_data' = p.data /\ head' = p.head /\ offset' = p.offset
      /\ p \in PortType
  BY DEF CdcOut!Becomes, PortKept
<1>2. CdcOut!Port' = p
  BY <1>1 DEF CdcOut!Port, PortType
<1>3. HeadIsFirst(CdcOut!Port')
  BY <1>2 DEF PortKept
<1>. QED BY <1>1, <1>2, <1>3, PortIs DEF HeadIsFirst

LEMMA PortStays ==
    ASSUME UNCHANGED CdcOut!port, HeadIsFirst(CdcOut!Port)
    PROVE  HeadIsFirst(CdcOut!Port)' /\ CdcOut!Port' = CdcOut!Port
<1>1. CdcOut!Port' = CdcOut!Port
  BY DEF CdcOut!port, CdcOut!Port
<1>. QED BY <1>1 DEF HeadIsFirst

LEMMA Reporting ==
    ASSUME NEW ok \in BOOLEAN, reports \in Seq(ReportType), now.n \in 1..MaxWrites,
           CdcOut!Report(ok)
    PROVE  /\ reports' = Append(reports, <<now.n, ok>>) /\ reports' \in Seq(ReportType)
           /\ pc' = "idle" /\ now' = CdcOut!NoWrite
BY ReportAdded DEF CdcOut!Report, CdcOut!Return

LEMMA NothingReported ==
    ASSUME reports \in Seq(ReportType), CdcOut!Pending
    PROVE  reports' = reports /\ pc' = "idle" /\ now' = CdcOut!NoWrite
BY ConcatEmptySeq DEF CdcOut!Pending, CdcOut!Return

\* What an interrupt that ends a transfer finds behind it: the port without the write
\* that is over, and what the callback of that one wrote.
PoppedIs(left) ==
    LET over == CdcOut!HeadCompleted(CdcOut!Port)
    IN  /\ left.info = (IF over THEN Tail(queue_info) ELSE queue_info)
        /\ left.data = queue_data /\ writes' = writes
        /\ over => left.head = CdcOut!NoWrite /\ left.offset = 0
        /\ ~over => left.head = head /\ left.offset = offset
EchoIs(left, w) ==
    /\ CdcOut!HeadCompleted(CdcOut!Port) /\ pc = "idle" /\ writes < MaxWrites
    /\ w \in CdcOut!Writes /\ w.n = writes + 1 /\ writes' = writes + 1
    /\ left.info = Append(Tail(queue_info), w) /\ left.data = queue_data \o CdcOut!Bytes(w)
    /\ left.head = CdcOut!NoWrite /\ left.offset = 0

LEMMA ContinueIs ==
    ASSUME CdcAssumption, CdcTypes, CdcOut!Continue
    PROVE  \E left :
              /\ PortKept(left)
              /\ left.head # CdcOut!NoWrite => left.offset < left.head.size
              /\ PoppedIs(left) \/ \E w : EchoIs(left, w)
              /\ LET took == CdcOut!Take(left)
                 IN  /\ CdcOut!Becomes(took.port) /\ active_length' = Len(took.bytes)
                     /\ buffer' = IF took.bytes = <<>> THEN buffer ELSE took.bytes
                     /\ need_zlp' = CdcOut!EndsFull(active_length, active_length', took.port)
<1> DEFINE over == CdcOut!HeadCompleted(CdcOut!Port)
           popped == IF over THEN CdcOut!Without(CdcOut!Port) ELSE CdcOut!Port
           echoes == {<<>>} \cup
                        (IF over /\ pc = "idle" /\ writes < MaxWrites
                         THEN {<<[n |-> writes + 1, size |-> s]>> : s \in Sizes} ELSE {})
           left(echo) == [popped EXCEPT
                            !.info = @ \o echo,
                            !.data = IF echo = <<>> THEN @ ELSE @ \o CdcOut!Bytes(echo[1])]
<1>1. PortKept(CdcOut!Port)
  BY PortIsKept
<1>2. over => queue_info # <<>> /\ head # CdcOut!NoWrite
  BY <1>1, PortFields DEF CdcOut!HeadCompleted, PortKept, HeadIsFirst
<1>3. /\ PortKept(popped) /\ popped.data = queue_data
      /\ popped.info = (IF over THEN Tail(queue_info) ELSE queue_info)
      /\ over => popped.head = CdcOut!NoWrite /\ popped.offset = 0
      /\ ~over => popped.head = head /\ popped.offset = offset
  <2>1. CASE over
    BY <1>1, <1>2, <2>1, PortFields, WithoutKeeps DEF CdcAssumption
  <2>2. CASE ~over
    BY <1>1, <2>2, PortFields
  <2>. QED BY <2>1, <2>2
<1>4. popped.head # CdcOut!NoWrite => popped.offset < popped.head.size
  <2> SUFFICES ASSUME popped.head # CdcOut!NoWrite PROVE popped.offset < popped.head.size
    OBVIOUS
  <2>1. ~over /\ head # CdcOut!NoWrite /\ popped = CdcOut!Port
    BY <1>3
  <2>2. offset # head.size /\ offset <= head.size /\ head \in CdcOut!Writes /\ offset \in Nat
    BY <1>1, <2>1, PortFields
       DEF CdcOut!HeadCompleted, PortKept, HeadIsFirst, CdcTypes, CdcOut!CdcTransmitTypeOK
  <2>3. head.size \in Nat
    BY <2>2, BytesAre DEF CdcAssumption
  <2>4. offset < head.size
    BY ONLY <2>2, <2>3
  <2>. QED BY <2>1, <2>4, PortFields
<1>5. popped \in PortType /\ popped.info \in Seq(CdcOut!Writes) /\ popped.data \in Seq(CdcOut!Byte)
  BY <1>3, PortIs DEF PortKept
<1>6. PICK echo \in echoes :
        LET took == CdcOut!Take(left(echo))
        IN  /\ writes' = writes + Len(echo)
            /\ CdcOut!Becomes(took.port) /\ active_length' = Len(took.bytes)
            /\ buffer' = IF took.bytes = <<>> THEN buffer ELSE took.bytes
            /\ need_zlp' = CdcOut!EndsFull(active_length, active_length', took.port)
  BY DEF CdcOut!Continue
<1> HIDE DEF popped
<1>7. CASE echo = <<>>
  <2>1. popped.info \o echo = popped.info
    BY <1>5, <1>7, ConcatEmptySeq
  <2>2. left(echo) = popped
    BY <1>5, <1>7, <2>1 DEF PortType
  <2>3. writes' = writes
    BY <1>6, <1>7 DEF CdcTypes, CdcOut!CdcTransmitTypeOK
  <2>4. PoppedIs(popped)
    BY <1>3, <2>3 DEF PoppedIs
  <2>. QED BY <1>3, <1>4, <1>6, <2>2, <2>4
<1>8. CASE echo # <<>>
  <2>1. PICK s \in Sizes : /\ over /\ pc = "idle" /\ writes < MaxWrites
                           /\ echo = <<[n |-> writes + 1, size |-> s]>>
    BY <1>6, <1>8
  <2> DEFINE w == [n |-> writes + 1, size |-> s]
             info == popped.info \o echo
             data == popped.data \o CdcOut!Bytes(w)
  <2>2. w \in CdcOut!Writes /\ w.n = writes + 1
    <3>1. writes + 1 \in 1..MaxWrites
      BY <2>1 DEF CdcTypes, CdcOut!CdcTransmitTypeOK, CdcAssumption, CdcOut!CdcTransmitAssumption
    <3>. QED BY <3>1 DEF CdcOut!Writes
  <2>3. echo = <<w>> /\ Len(echo) = 1 /\ echo[1] = w
    BY <2>1
  <2> HIDE DEF w
  <2>4. info = Append(popped.info, w) /\ info \in Seq(CdcOut!Writes)
    <3>1. popped.info \o <<w>> = Append(popped.info, w)
      BY <1>5, <2>2, AppendIsConcat
    <3>. QED BY <1>5, <2>2, <2>3, <3>1, NumberAdded
  <2>5. data \in Seq(CdcOut!Byte)
    BY <1>5, <2>2, BytesAdded DEF CdcAssumption
  <2> HIDE DEF info, data
  <2>6. left(echo) = [popped EXCEPT !.info = info, !.data = data]
    BY <1>5, <1>8, <2>3 DEF PortType, info, data
  <2>7. /\ left(echo) \in PortType /\ left(echo).info = info /\ left(echo).data = data
        /\ left(echo).head = popped.head /\ left(echo).offset = popped.offset
    <3> HIDE DEF left
    <3>. QED BY <1>5, <2>4, <2>5, <2>6 DEF PortType
  <2> HIDE DEF left
  <2>8. popped.head = CdcOut!NoWrite /\ popped.offset = 0 /\ popped.info = Tail(queue_info)
        /\ popped.data = queue_data
    BY <1>3, <2>1
  <2>9. PortKept(left(echo))
    BY <2>7, <2>8 DEF PortKept, HeadIsFirst
  <2>10. writes' = writes + 1
    BY <1>6, <2>3
  <2>11. EchoIs(left(echo), w)
    BY <2>1, <2>2, <2>4, <2>7, <2>8, <2>10 DEF EchoIs, data
  <2>12. left(echo).head = CdcOut!NoWrite
    BY <2>7, <2>8
  <2>. QED BY <1>6, <2>9, <2>11, <2>12
<1>. QED BY <1>7, <1>8

LEMMA CdcInitTypes == CdcAssumption /\ CdcOut!Init => CdcTypes
<1> SUFFICES ASSUME CdcAssumption, CdcOut!Init PROVE CdcTypes
  OBVIOUS
<1>1. /\ <<>> \in Seq(CdcOut!Writes) /\ <<>> \in Seq(CdcOut!Byte) /\ Len(<<>>) = 0
      /\ <<>> \in Seq((1..MaxWrites) \X BOOLEAN)
      /\ 0 \in 0..MPS /\ 0 \in 0..MaxWrites /\ 0 \in 0..MaxUnbinds /\ 0 <= MPS
  BY DEF CdcAssumption, CdcOut!CdcTransmitAssumption
<1>2. CdcOut!CdcTransmitTypeOK
  BY <1>1 DEF CdcOut!Init, CdcOut!CdcTransmitTypeOK
<1>. QED BY <1>1, <1>2 DEF CdcOut!Init, CdcTypes, HeadIsFirst, CdcOut!Port

LEMMA CdcTypesNext ==
    ASSUME CdcAssumption, CdcTypes, [CdcOut!Next]_CdcOut!vars
    PROVE  CdcTypes'
<1>a. /\ queue_info \in Seq(CdcOut!Writes) /\ queue_data \in Seq(CdcOut!Byte)
      /\ buffer \in Seq(CdcOut!Byte) /\ handed \in Seq(CdcOut!Byte)
      /\ head \in CdcOut!Writes \cup {CdcOut!NoWrite} /\ offset \in Nat /\ active_length \in 0..MPS
      /\ need_zlp \in BOOLEAN /\ late \in BOOLEAN /\ traced \in BOOLEAN
      /\ to_send \in 0..MPS /\ writes \in 0..MaxWrites /\ unbinds \in 0..MaxUnbinds
      /\ last \in 0..MPS /\ reports \in Seq(ReportType) /\ Len(buffer) <= MPS /\ Len(buffer) \in Nat
  BY DEF CdcTypes, CdcOut!CdcTransmitTypeOK, ReportType
<1>b. MPS \in Nat \ {0} /\ Sizes \subseteq Nat \ {0} /\ MaxWrites \in Nat /\ MaxUnbinds \in Nat
  BY DEF CdcAssumption, CdcOut!CdcTransmitAssumption
<1>c. PortKept(CdcOut!Port) /\ HeadIsFirst(CdcOut!Port)
  BY PortIsKept DEF CdcTypes
<1>d. pc # "idle" => now \in CdcOut!Writes /\ now.n = writes /\ now.n \in 1..MaxWrites
  BY BytesAre DEF CdcTypes, CdcAssumption
\* A step that leaves the port alone.
<1>e. ASSUME UNCHANGED CdcOut!port, CdcOut!CdcTransmitTypeOK', Len(buffer') <= MPS,
             pc' # "idle" => now' \in CdcOut!Writes /\ now'.n = writes'
      PROVE  CdcTypes'
  BY <1>c, <1>e, PortStays DEF CdcTypes
<1>f. ASSUME NEW size \in Nat
      PROVE  /\ SubSeq(buffer, 1, CdcOut!Least(size, Len(buffer))) \in Seq(CdcOut!Byte)
             /\ handed \o SubSeq(buffer, 1, CdcOut!Least(size, Len(buffer))) \in Seq(CdcOut!Byte)
  <2> DEFINE n == CdcOut!Least(size, Len(buffer))
  <2>1. n \in 0..Len(buffer)
    BY <1>a, <1>f DEF CdcOut!Least
  <2> HIDE DEF n
  <2>2. SubSeq(buffer, 1, n) \in Seq(CdcOut!Byte)
    BY <1>a, <2>1, DroppedFront
  <2>3. handed \o SubSeq(buffer, 1, n) \in Seq(CdcOut!Byte)
    BY <1>a, <2>2, ConcatProperties
  <2>. QED BY <2>2, <2>3 DEF n
<1>1. ASSUME NEW size \in Sizes, CdcOut!Write(size) PROVE CdcTypes'
  <2>1. now' = [n |-> writes + 1, size |-> size] /\ writes' = writes + 1 /\ writes < MaxWrites
    BY <1>1 DEF CdcOut!Write
  <2>2. writes + 1 \in 1..MaxWrites /\ writes + 1 \in 0..MaxWrites
    BY <1>a, <1>b, <2>1
  <2>3. now' \in CdcOut!Writes /\ now'.n = writes'
    BY <2>1, <2>2 DEF CdcOut!Writes
  <2>4. queue_data' \in Seq(CdcOut!Byte)
    BY <1>1, <1>a, <2>3, BytesAdded DEF CdcOut!Write, CdcAssumption
  <2>5. CdcOut!CdcTransmitTypeOK'
    BY <1>1, <2>1, <2>2, <2>3, <2>4
       DEF CdcTypes, CdcOut!Write, CdcOut!CdcTransmitTypeOK, CdcOut!ep
  <2>6. HeadIsFirst(CdcOut!Port)'
    BY <1>1, <1>c DEF CdcOut!Write, HeadIsFirst, CdcOut!Port
  <2>. QED BY <1>1, <1>a, <2>3, <2>5, <2>6 DEF CdcTypes, CdcOut!Write, CdcOut!ep
<1>2. ASSUME CdcOut!PushInfo PROVE CdcTypes'
  <2>1. pc = "info" /\ queue_info' = Append(queue_info, now) /\ now \in CdcOut!Writes
    BY <1>2, <1>d DEF CdcOut!PushInfo
  <2>2. /\ queue_info' \in Seq(CdcOut!Writes) /\ queue_info' # <<>>
        /\ queue_info # <<>> => queue_info'[1] = queue_info[1]
    BY <1>a, <2>1, NumberAdded
  <2>3. CdcOut!CdcTransmitTypeOK'
    BY <1>2, <2>2
       DEF CdcTypes, CdcOut!PushInfo, CdcOut!CdcTransmitTypeOK, CdcOut!ep, CdcOut!call
  <2>4. HeadIsFirst(CdcOut!Port)'
    BY <1>2, <1>c, <2>2 DEF CdcOut!PushInfo, HeadIsFirst, CdcOut!Port
  <2>. QED BY <1>2, <1>a, <1>d, <2>1, <2>3, <2>4 DEF CdcTypes, CdcOut!PushInfo, CdcOut!ep, CdcOut!call
<1>3. ASSUME CdcOut!NotInited PROVE CdcTypes'
  <2>1. reports' \in Seq(ReportType) /\ pc' = "idle" /\ now' = CdcOut!NoWrite
    BY <1>3, <1>a, <1>d, Reporting DEF CdcOut!NotInited
  <2> DEFINE p == CdcOut!DropHead(CdcOut!Port)
  <2>2. PortKept(p) /\ CdcOut!Becomes(p)
    BY <1>3, <1>c, DropHeadKeeps DEF CdcOut!NotInited, CdcAssumption
  <2> HIDE DEF p
  <2>3. /\ HeadIsFirst(CdcOut!Port)' /\ queue_info' \in Seq(CdcOut!Writes)
        /\ queue_data' \in Seq(CdcOut!Byte)
        /\ head' \in CdcOut!Writes \cup {CdcOut!NoWrite} /\ offset' \in Nat
    BY <2>2, PortBecomes
  <2>4. CdcOut!CdcTransmitTypeOK'
    BY <1>3, <2>1, <2>3
       DEF CdcTypes, CdcOut!NotInited, CdcOut!CdcTransmitTypeOK, CdcOut!ep, ReportType
  <2>. QED BY <1>3, <1>a, <2>1, <2>3, <2>4 DEF CdcTypes, CdcOut!NotInited, CdcOut!ep
<1>4. ASSUME CdcOut!Filled PROVE CdcTypes'
  <2>1. reports' = reports /\ pc' = "idle" /\ now' = CdcOut!NoWrite
    BY <1>4, <1>a, NothingReported DEF CdcOut!Filled
  <2>2. CdcOut!CdcTransmitTypeOK'
    BY <1>4, <2>1 DEF CdcTypes, CdcOut!Filled, CdcOut!CdcTransmitTypeOK, CdcOut!ep, CdcOut!port
  <2>. QED BY <1>4, <1>a, <1>e, <2>1, <2>2 DEF CdcOut!Filled, CdcOut!ep
<1>5. ASSUME CdcOut!Enter PROVE CdcTypes'
  <2>1. CdcOut!CdcTransmitTypeOK'
    <3>1. need_zlp' \in BOOLEAN
      BY <1>5 DEF CdcOut!Enter
    <3>. QED BY <1>5, <3>1 DEF CdcTypes, CdcOut!Enter, CdcOut!CdcTransmitTypeOK, CdcOut!ep,
                 CdcOut!port, CdcOut!call
  <2>. QED BY <1>5, <1>a, <1>d, <1>e, <2>1 DEF CdcOut!Enter, CdcOut!ep, CdcOut!call
<1>6. ASSUME CdcOut!Prefill PROVE CdcTypes'
  <2> DEFINE t == CdcOut!Take(CdcOut!Port)
  <2>1. /\ PortKept(t.port) /\ t.bytes \in Seq(CdcOut!Byte) /\ Len(t.bytes) <= MPS
        /\ t.ans \in {"EMPTY", "FAILED", "OK", "PENDING"}
    BY <1>c, TakeKeeps DEF CdcAssumption
  <2>2. /\ CdcOut!Becomes(t.port) /\ pc = "take"
        /\ IF t.ans \in {"EMPTY", "FAILED"}
           THEN CdcOut!Pending /\ UNCHANGED <<slot_ec, buffer>>
           ELSE /\ slot_ec' = t.ans /\ buffer' = t.bytes /\ pc' = "length"
                /\ UNCHANGED <<now, reports>>
        /\ UNCHANGED <<active_length, state, handed, last, late, need_zlp, to_send, writes,
                       unbinds, traced>>
    BY <1>6 DEF CdcOut!Prefill
  <2> HIDE DEF t
  <2>3. /\ HeadIsFirst(CdcOut!Port)' /\ queue_info' \in Seq(CdcOut!Writes)
        /\ queue_data' \in Seq(CdcOut!Byte)
        /\ head' \in CdcOut!Writes \cup {CdcOut!NoWrite} /\ offset' \in Nat
    BY <2>1, <2>2, PortBecomes
  <2>4. /\ slot_ec' \in {"OK", "PENDING"} /\ buffer' \in Seq(CdcOut!Byte) /\ Len(buffer') <= MPS
        /\ pc' \in {"idle", "length"} /\ reports' \in Seq(ReportType)
        /\ now' \in CdcOut!Writes \cup {CdcOut!NoWrite}
        /\ pc' # "idle" => now' \in CdcOut!Writes /\ now'.n = writes'
    <3>1. CASE t.ans \in {"EMPTY", "FAILED"}
      <4>1. reports' = reports /\ pc' = "idle" /\ now' = CdcOut!NoWrite /\ UNCHANGED <<slot_ec, buffer>>
        BY <1>a, <2>2, <3>1, NothingReported
      <4>. QED BY <1>a, <4>1 DEF CdcTypes, CdcOut!CdcTransmitTypeOK
    <3>2. CASE t.ans \in {"OK", "PENDING"}
      BY <1>a, <1>d, <2>1, <2>2, <3>2
    <3>. QED BY <2>1, <3>1, <3>2
  <2>5. CdcOut!CdcTransmitTypeOK'
    BY <2>2, <2>3, <2>4 DEF CdcTypes, CdcOut!CdcTransmitTypeOK, ReportType
  <2>. QED BY <2>3, <2>4, <2>5 DEF CdcTypes
<1>7. ASSUME CdcOut!SetActiveLength PROVE CdcTypes'
  <2>1. active_length' \in 0..MPS
    BY <1>7, <1>a, <1>b DEF CdcOut!SetActiveLength
  <2>2. CdcOut!CdcTransmitTypeOK'
    BY <1>7, <2>1 DEF CdcTypes, CdcOut!SetActiveLength, CdcOut!CdcTransmitTypeOK, CdcOut!port,
                      CdcOut!call
  <2>. QED BY <1>7, <1>a, <1>d, <1>e, <2>2 DEF CdcOut!SetActiveLength, CdcOut!call
<1>8. ASSUME CdcOut!Load PROVE CdcTypes'
  <2>1. CdcOut!CdcTransmitTypeOK'
    BY <1>8, <1>a DEF CdcTypes, CdcOut!Load, CdcOut!CdcTransmitTypeOK, CdcOut!port, CdcOut!ep
  <2>. QED BY <1>8, <1>a, <1>d, <1>e, <2>1 DEF CdcOut!Load, CdcOut!ep
<1>9. ASSUME CdcOut!Check PROVE CdcTypes'
  <2>1. /\ reports' = reports
        /\ (pc' = "clear" /\ now' = now) \/ (pc' = "idle" /\ now' = CdcOut!NoWrite)
    BY <1>9, <1>a, NothingReported DEF CdcOut!Check
  <2>2. CdcOut!CdcTransmitTypeOK'
    BY <1>9, <2>1 DEF CdcTypes, CdcOut!Check, CdcOut!CdcTransmitTypeOK, CdcOut!port, CdcOut!ep
  <2>. QED BY <1>9, <1>a, <1>d, <1>e, <2>1, <2>2 DEF CdcOut!Check, CdcOut!ep
<1>10. ASSUME CdcOut!Clear PROVE CdcTypes'
  <2>1. 0 \in 0..MPS
    BY <1>b
  <2>2. CdcOut!CdcTransmitTypeOK'
    BY <1>10, <2>1 DEF CdcTypes, CdcOut!Clear, CdcOut!CdcTransmitTypeOK, CdcOut!port, CdcOut!call
  <2>. QED BY <1>10, <1>a, <1>d, <1>e, <2>2 DEF CdcOut!Clear, CdcOut!call
<1>11. ASSUME CdcOut!Kick PROVE CdcTypes'
  <2>1. to_send \in Nat
    BY <1>a
  <2>2. handed' \in Seq(CdcOut!Byte)
    BY <1>11, <1>f, <2>1 DEF CdcOut!Kick, CdcOut!Transfer
  <2>3. CdcOut!CdcTransmitTypeOK'
    BY <1>11, <1>a, <2>2
       DEF CdcTypes, CdcOut!Kick, CdcOut!Transfer, CdcOut!CdcTransmitTypeOK, CdcOut!port,
           CdcOut!call
  <2>. QED BY <1>11, <1>a, <1>d, <1>e, <2>3 DEF CdcOut!Kick, CdcOut!call
<1>12. ASSUME CdcOut!PopCompleted PROVE CdcTypes'
  <2>1. /\ reports' = reports
        /\ \/ pc' \in {"zlp", "take"} /\ now' = now
           \/ pc' = "idle" /\ now' = CdcOut!NoWrite
    BY <1>12, <1>a, NothingReported DEF CdcOut!PopCompleted
  <2>2. CASE slot_ec = "OK" /\ CdcOut!HeadCompleted(CdcOut!Port)
    <3> DEFINE p == CdcOut!Without(CdcOut!Port)
    <3>1. CdcOut!Port.info # <<>>
      BY <1>c, <2>2 DEF CdcOut!HeadCompleted, HeadIsFirst
    <3>2. PortKept(p) /\ CdcOut!Becomes(p)
      BY <1>12, <1>c, <2>2, <3>1, WithoutKeeps DEF CdcOut!PopCompleted, CdcAssumption
    <3> HIDE DEF p
    <3>3. /\ HeadIsFirst(CdcOut!Port)' /\ queue_info' \in Seq(CdcOut!Writes)
          /\ queue_data' \in Seq(CdcOut!Byte)
          /\ head' \in CdcOut!Writes \cup {CdcOut!NoWrite} /\ offset' \in Nat
      BY <3>2, PortBecomes
    <3>4. CdcOut!CdcTransmitTypeOK'
      BY <1>12, <2>1, <3>3
         DEF CdcTypes, CdcOut!PopCompleted, CdcOut!CdcTransmitTypeOK, CdcOut!ep
    <3>. QED BY <1>12, <1>a, <1>d, <2>1, <3>3, <3>4 DEF CdcTypes, CdcOut!PopCompleted, CdcOut!ep
  <2>3. CASE ~(slot_ec = "OK" /\ CdcOut!HeadCompleted(CdcOut!Port))
    <3>1. UNCHANGED CdcOut!port
      BY <1>12, <2>3 DEF CdcOut!PopCompleted
    <3>2. CdcOut!CdcTransmitTypeOK'
      BY <1>12, <2>1, <3>1
         DEF CdcTypes, CdcOut!PopCompleted, CdcOut!CdcTransmitTypeOK, CdcOut!ep, CdcOut!port
    <3>. QED BY <1>12, <1>a, <1>d, <1>e, <2>1, <3>1, <3>2 DEF CdcOut!PopCompleted, CdcOut!ep
  <2>. QED BY <2>2, <2>3
<1>13. ASSUME CdcOut!DecideZlp PROVE CdcTypes'
  <2>1. reports' \in Seq(ReportType) /\ pc' = "idle" /\ now' = CdcOut!NoWrite
    BY <1>13, <1>a, <1>d, Reporting DEF CdcOut!DecideZlp
  <2>2. need_zlp' \in BOOLEAN /\ late' \in BOOLEAN
    BY <1>13, <1>a DEF CdcOut!DecideZlp
  <2>3. CdcOut!CdcTransmitTypeOK'
    BY <1>13, <2>1, <2>2
       DEF CdcTypes, CdcOut!DecideZlp, CdcOut!CdcTransmitTypeOK, CdcOut!port, ReportType
  <2>. QED BY <1>13, <1>a, <1>e, <2>1, <2>3 DEF CdcOut!DecideZlp
<1>14. ASSUME CdcOut!SendZlp PROVE CdcTypes'
  <2>1. 0 \in Nat /\ 0 \in 0..MPS
    BY <1>b
  <2>2. handed' \in Seq(CdcOut!Byte)
    BY <1>14, <1>f, <2>1 DEF CdcOut!SendZlp, CdcOut!Transfer
  <2>3. CdcOut!CdcTransmitTypeOK'
    BY <1>14, <1>a, <2>1, <2>2
       DEF CdcTypes, CdcOut!SendZlp, CdcOut!Transfer, CdcOut!CdcTransmitTypeOK, CdcOut!port,
           CdcOut!call
  <2>. QED BY <1>14, <1>a, <1>d, <1>e, <2>3 DEF CdcOut!SendZlp, CdcOut!call
<1>15. ASSUME CdcOut!Rest PROVE CdcTypes'
  <2>1. CdcOut!CdcTransmitTypeOK'
    BY <1>15 DEF CdcTypes, CdcOut!Rest, CdcOut!CdcTransmitTypeOK, CdcOut!port, CdcOut!call
  <2>. QED BY <1>15, <1>a, <1>d, <1>e, <2>1 DEF CdcOut!Rest, CdcOut!call
<1>16. ASSUME CdcOut!Continue PROVE CdcTypes'
  <2>1. PICK left :
              /\ PortKept(left)
              /\ PoppedIs(left) \/ \E w : EchoIs(left, w)
              /\ LET took == CdcOut!Take(left)
                 IN  /\ CdcOut!Becomes(took.port) /\ active_length' = Len(took.bytes)
                     /\ buffer' = IF took.bytes = <<>> THEN buffer ELSE took.bytes
                     /\ need_zlp' = CdcOut!EndsFull(active_length, active_length', took.port)
    BY <1>16, ContinueIs, Zenon
  <2> DEFINE t == CdcOut!Take(left)
  <2>2. PortKept(t.port) /\ t.bytes \in Seq(CdcOut!Byte) /\ Len(t.bytes) <= MPS
    BY <2>1, TakeKeeps DEF CdcAssumption
  <2>3. /\ CdcOut!Becomes(t.port) /\ active_length' = Len(t.bytes)
        /\ buffer' = IF t.bytes = <<>> THEN buffer ELSE t.bytes
        /\ need_zlp' = CdcOut!EndsFull(active_length, active_length', t.port)
    BY <2>1
  <2> HIDE DEF t
  <2>4. /\ HeadIsFirst(CdcOut!Port)' /\ queue_info' \in Seq(CdcOut!Writes)
        /\ queue_data' \in Seq(CdcOut!Byte)
        /\ head' \in CdcOut!Writes \cup {CdcOut!NoWrite} /\ offset' \in Nat
    BY <2>2, <2>3, PortBecomes
  <2>5. active_length' \in 0..MPS /\ need_zlp' \in BOOLEAN /\ Len(buffer') <= MPS
        /\ buffer' \in Seq(CdcOut!Byte)
    <3>1. active_length' \in 0..MPS
      <4>1. Len(t.bytes) \in Nat
        BY <2>2, LenProperties
      <4>. QED BY <1>b, <2>2, <2>3, <4>1
    <3>2. need_zlp' \in BOOLEAN
      BY <2>3 DEF CdcOut!EndsFull
    <3>. QED BY <1>a, <2>2, <2>3, <3>1, <3>2
  <2>6. writes' \in 0..MaxWrites /\ (pc # "idle" => writes' = writes)
    <3>1. CASE PoppedIs(left)
      BY <1>a, <3>1 DEF PoppedIs
    <3>2. CASE \E w : EchoIs(left, w)
      <4>1. writes < MaxWrites /\ writes' = writes + 1 /\ pc = "idle"
        BY <3>2 DEF EchoIs
      <4>. QED BY <1>a, <1>b, <4>1
    <3>. QED BY <2>1, <3>1, <3>2
  <2>7. handed' \in Seq(CdcOut!Byte) /\ last' \in 0..MPS /\ state' = "BUSY" /\ late' = FALSE
    <3>1. active_length \in Nat
      BY <1>a
    <3>. QED BY <1>16, <1>a, <1>f, <3>1 DEF CdcOut!Continue, CdcOut!Transfer
  <2>8. reports' \in Seq(ReportType)
    <3>1. reports' = IF CdcOut!HeadCompleted(CdcOut!Port) THEN Append(reports, <<head.n, TRUE>>)
                     ELSE reports
      BY <1>16 DEF CdcOut!Continue
    <3>2. CdcOut!HeadCompleted(CdcOut!Port) => head.n \in 1..MaxWrites
      <4>1. CdcOut!HeadCompleted(CdcOut!Port) => head \in CdcOut!Writes
        BY <1>a DEF CdcOut!HeadCompleted, CdcOut!Port
      <4>. QED BY <4>1, BytesAre DEF CdcAssumption
    <3>. QED BY <1>a, <3>1, <3>2, ReportAdded
  <2>9. UNCHANGED <<pc, CdcOut!call, unbinds, traced>>
    BY <1>16 DEF CdcOut!Continue
  <2>10. CdcOut!CdcTransmitTypeOK'
    BY <2>4, <2>5, <2>6, <2>7, <2>8, <2>9
       DEF CdcTypes, CdcOut!CdcTransmitTypeOK, CdcOut!call, ReportType
  <2>. QED BY <1>d, <2>4, <2>5, <2>6, <2>9, <2>10 DEF CdcTypes, CdcOut!call
<1>17. ASSUME CdcOut!UnbindEndpoints PROVE CdcTypes'
  <2> DEFINE flushed == [k \in DOMAIN queue_info |-> <<queue_info[k].n, FALSE>>]
  <2>1. flushed \in Seq(ReportType)
    <3>1. DOMAIN queue_info = 1..Len(queue_info) /\ Len(queue_info) \in Nat
      BY <1>a, LenProperties
    <3>2. \A k \in 1..Len(queue_info) : <<queue_info[k].n, FALSE>> \in ReportType
      <4>1. \A k \in 1..Len(queue_info) : queue_info[k].n \in 1..MaxWrites
        BY <1>a, ElementOfSeq, BytesAre DEF CdcAssumption
      <4>. QED BY <4>1 DEF ReportType
    <3> DEFINE item(k) == <<queue_info[k].n, FALSE>>
               n == Len(queue_info)
    <3>2a. n \in Nat /\ \A k \in 1..n : item(k) \in ReportType
      BY <3>1, <3>2
    <3> HIDE DEF item, n
    <3>2b. [k \in 1..n |-> item(k)] \in Seq(ReportType)
      BY <3>2a
    <3>3. [k \in 1..Len(queue_info) |-> <<queue_info[k].n, FALSE>>] \in Seq(ReportType)
      BY <3>2b DEF item, n
    <3>. QED BY <3>1, <3>3
  <2>2. reports' = reports \o flushed
    BY <1>17 DEF CdcOut!UnbindEndpoints
  <2> HIDE DEF flushed
  <2>3. reports' \in Seq(ReportType)
    BY <1>a, <2>1, <2>2, ConcatProperties
  <2>4. /\ queue_info' = <<>> /\ queue_data' = <<>> /\ head' = CdcOut!NoWrite /\ offset' = 0
        /\ state' = "DISABLED" /\ active_length' = 0 /\ need_zlp' = FALSE /\ late' = FALSE
        /\ last' = 0 /\ unbinds' = unbinds + 1 /\ unbinds < MaxUnbinds
        /\ traced' = (traced \/ CdcOut!Unexpected)
        /\ UNCHANGED <<buffer, handed, pc, CdcOut!call, writes>>
    BY <1>17 DEF CdcOut!UnbindEndpoints, CdcOut!Becomes
  <2>5. /\ <<>> \in Seq(CdcOut!Writes) /\ <<>> \in Seq(CdcOut!Byte) /\ 0 \in 0..MPS
        /\ unbinds + 1 \in 0..MaxUnbinds
    BY <1>a, <1>b, <2>4
  <2>6. CdcOut!CdcTransmitTypeOK'
    BY <2>3, <2>4, <2>5
       DEF CdcTypes, CdcOut!CdcTransmitTypeOK, CdcOut!call, ReportType, CdcOut!Unexpected
  <2>7. HeadIsFirst(CdcOut!Port)'
    BY <2>4 DEF HeadIsFirst, CdcOut!Port
  <2>. QED BY <1>a, <1>d, <2>4, <2>6, <2>7 DEF CdcTypes, CdcOut!call
<1>18. ASSUME CdcOut!BindEndpoints PROVE CdcTypes'
  <2>1. CdcOut!CdcTransmitTypeOK'
    BY <1>18 DEF CdcTypes, CdcOut!BindEndpoints, CdcOut!CdcTransmitTypeOK, CdcOut!port, CdcOut!call
  <2>. QED BY <1>18, <1>a, <1>d, <1>e, <2>1 DEF CdcOut!BindEndpoints, CdcOut!call
<1>19. CASE UNCHANGED CdcOut!vars
  <2>1. UNCHANGED CdcOut!port
    BY <1>19 DEF CdcOut!vars
  <2>2. CdcOut!CdcTransmitTypeOK'
    BY <1>19 DEF CdcTypes, CdcOut!CdcTransmitTypeOK, CdcOut!vars, CdcOut!port, CdcOut!ep, CdcOut!call
  <2>. QED BY <1>19, <1>a, <1>d, <1>e, <2>1, <2>2 DEF CdcOut!vars, CdcOut!ep, CdcOut!call
<1>. QED BY <1>1, <1>2, <1>3, <1>4, <1>5, <1>6, <1>7, <1>8, <1>9, <1>10, <1>11, <1>12, <1>13,
            <1>14, <1>15, <1>16, <1>17, <1>18, <1>19
         DEF CdcOut!Next, CdcOut!Thread, CdcOut!Interrupt

----------------------------------------------------------------------------
(* CdcTransmit: what a step leaves alone.                                     *)

LEMMA HasOpIs ==
    ASSUME NEW p, PortKept(p)
    PROVE  CdcOut!HasOp(p) <=> p.info # <<>>
BY DEF CdcOut!HasOp, PortKept, HeadIsFirst

LEMMA PortHasOp == ASSUME CdcTypes PROVE CdcOut!HasOp(CdcOut!Port) <=> ~NoneQueued
BY PortIsKept, PortFields, HasOpIs DEF NoneQueued

\* Prefilled, of the values of its variables.
PrefilledOf(p, b, s, a) ==
    IF p = "length" THEN b ELSE SubSeq(b, 1, IF p = "kick" THEN s ELSE a)

LEMMA PrefilledIs ==
    ASSUME NEW p, NEW b \in Seq(CdcOut!Byte), NEW s, NEW a,
           p = "kick" => s = Len(b), p \notin {"length", "kick"} /\ a # 0 => a = Len(b),
           p \in {"length", "kick"} => a = 0
    PROVE  /\ p \in {"length", "kick"} \/ a # 0 => PrefilledOf(p, b, s, a) = b
           /\ ~(p \in {"length", "kick"} \/ a # 0) => PrefilledOf(p, b, s, a) = <<>>
<1>1. SubSeq(b, 1, Len(b)) = b
  BY SubSeqFull
<1>2. SubSeq(b, 1, 0) = <<>>
  OBVIOUS
<1>. QED BY <1>1, <1>2 DEF PrefilledOf

LEMMA PrefilledNow ==
    /\ CdcOut!Prefilled = PrefilledOf(pc, buffer, to_send, active_length)
    /\ CdcOut!Prefilled' = PrefilledOf(pc', buffer', to_send', active_length')
BY DEF CdcOut!Prefilled, PrefilledOf

LEMMA PrefilledBefore ==
    ASSUME CdcTypes, Places, Endpoint
    PROVE  /\ pc \in {"length", "kick"} \/ active_length # 0 => CdcOut!Prefilled = buffer
           /\ ~(pc \in {"length", "kick"} \/ active_length # 0) => CdcOut!Prefilled = <<>>
           /\ CdcOut!Prefilled \in Seq(CdcOut!Byte)
<1>1. buffer \in Seq(CdcOut!Byte) /\ <<>> \in Seq(CdcOut!Byte)
  BY DEF CdcTypes, CdcOut!CdcTransmitTypeOK
<1>2. /\ pc = "kick" => to_send = Len(buffer)
      /\ active_length # 0 => active_length = Len(buffer)
      /\ pc \in {"length", "kick"} => active_length = 0
  BY DEF Places, Endpoint
<1> DEFINE f == PrefilledOf(pc, buffer, to_send, active_length)
<1>3. /\ pc \in {"length", "kick"} \/ active_length # 0 => f = buffer
      /\ ~(pc \in {"length", "kick"} \/ active_length # 0) => f = <<>>
  BY <1>1, <1>2, PrefilledIs
<1>4. CdcOut!Prefilled = f
  BY PrefilledNow
<1> HIDE DEF f
<1>. QED BY <1>1, <1>3, <1>4

LEMMA HeadNone == ASSUME CdcTypes, NoneQueued PROVE head = CdcOut!NoWrite /\ offset = 0
BY DEF CdcTypes, HeadIsFirst, NoneQueued, CdcOut!Port

LEMMA PrefilledAfter ==
    ASSUME CdcTypes', Places', Endpoint'
    PROVE  /\ pc' \in {"length", "kick"} \/ active_length' # 0 => CdcOut!Prefilled' = buffer'
           /\ ~(pc' \in {"length", "kick"} \/ active_length' # 0) => CdcOut!Prefilled' = <<>>
<1>1. buffer' \in Seq(CdcOut!Byte)
  BY DEF CdcTypes, CdcOut!CdcTransmitTypeOK
<1>2. /\ pc' = "kick" => to_send' = Len(buffer')
      /\ active_length' # 0 => active_length' = Len(buffer')
      /\ pc' \in {"length", "kick"} => active_length' = 0
  BY DEF Places, Endpoint
<1>. QED BY <1>1, <1>2, PrefilledIs, PrefilledNow

\* The parts of the invariant that are about the queues and the line.
Tracked == Cut(queue_data, Queued, offset) /\ LineKept /\ Accounts /\ OnlySent

LEMMA Parts ==
    /\ Tracked /\ Places /\ Endpoint /\ Zlp => Clean
    /\ Tracked' /\ Places' /\ Endpoint' /\ Zlp' => Clean'
    /\ Clean => Tracked /\ Places /\ Endpoint /\ Zlp
BY DEF Tracked, Clean

\* The queues after a step, by what the step makes of them.
LEMMA CutSame ==
    ASSUME NEW d, NEW ops, NEW off, Cut(d, ops, off),
           queue_data' = d, Queued' = ops, offset' = off
    PROVE  Cut(queue_data, Queued, offset)'
<1>1. Cut(queue_data', Queued', offset')
  OBVIOUS
<1>. QED BY <1>1

LEMMA QueueStays ==
    ASSUME Cut(queue_data, Queued, offset), UNCHANGED CdcOut!port,
           pc = "info" <=> pc' = "info", pc = "info" => now' = now
    PROVE  Cut(queue_data, Queued, offset)'
<1>1. Queued' = Queued /\ queue_data' = queue_data /\ offset' = offset
  BY DEF Queued, CdcOut!port
<1>. QED BY <1>1, CutSame

LEMMA LineStays ==
    ASSUME LineKept, CdcOut!Line' = CdcOut!Line, writes' = writes
    PROVE  LineKept'
BY DEF LineKept, Sorted

LEMMA SentStays ==
    ASSUME OnlySent, UNCHANGED <<handed, reports>>
    PROVE  OnlySent'
BY DEF OnlySent, Sent

\* A step that moves no byte and reports nothing.
LEMMA Quiet ==
    ASSUME Clean, UNCHANGED <<CdcOut!port, handed, writes, reports>>,
           CdcOut!Prefilled' = CdcOut!Prefilled,
           pc \in {"info", "zlp"} => pc' = pc /\ now' = now,
           pc' \in {"info", "zlp"} => pc \in {"info", "zlp"}
    PROVE  Tracked'
<1>1. Tracked
  BY Parts
<1>2. Cut(queue_data, Queued, offset)'
  BY <1>1, QueueStays DEF Tracked
<1>3. LineKept'
  <2>1. CdcOut!Line' = CdcOut!Line
    BY DEF CdcOut!Line, CdcOut!port
  <2>. QED BY <1>1, <2>1, LineStays DEF Tracked
<1>4. Due' = Due
  BY DEF Due
<1>5. Accounts'
  BY <1>1, <1>4 DEF Tracked, Accounts, CdcOut!port, Once, Distinct, Reports, Numbers
<1>. QED BY <1>1, <1>2, <1>3, <1>5, SentStays DEF Tracked

----------------------------------------------------------------------------
(* CdcTransmit: the steps that move no byte.                                  *)

LEMMA AtFilled ==
    ASSUME CdcAssumption, CdcInv, CdcTypes', CdcOut!Filled, ~traced'
    PROVE  Clean'
<1>0. CdcTypes /\ Clean /\ Places /\ Endpoint /\ Zlp
  BY Parts DEF CdcInv, CdcOut!Filled
<1>1. /\ reports' = reports /\ pc' = "idle" /\ now' = CdcOut!NoWrite /\ pc = "enter"
      /\ active_length # 0 /\ state # "DISABLED"
      /\ UNCHANGED <<queue_info, queue_data, head, offset, buffer, active_length, state, handed, last,
                     late, need_zlp, slot_ec, to_send, writes>>
  BY <1>0, NothingReported
     DEF CdcOut!Filled, CdcOut!Bound, CdcOut!port, CdcOut!ep, CdcTypes, CdcOut!CdcTransmitTypeOK,
         ReportType
<1>2. Places'
  BY <1>0, <1>1 DEF Places, Starting, NoneQueued, Mine
<1>3. Endpoint'
  BY <1>0, <1>1 DEF Endpoint
<1>4. Zlp'
  BY <1>0, <1>1 DEF Zlp, NoneQueued, Ended
<1>5. CdcOut!Prefilled' = CdcOut!Prefilled
  BY <1>1, PrefilledNow DEF PrefilledOf
<1>6. Tracked'
  BY <1>0, <1>1, <1>5, Quiet DEF CdcOut!port
<1>. QED BY <1>2, <1>3, <1>4, <1>6, Parts

LEMMA AtEnter ==
    ASSUME CdcAssumption, CdcInv, CdcTypes', CdcOut!Enter, ~traced'
    PROVE  Clean'
<1>0. CdcTypes /\ Clean /\ Places /\ Endpoint /\ Zlp
  BY Parts DEF CdcInv, CdcOut!Enter
<1>1. /\ pc' = "take" /\ pc = "enter" /\ active_length = 0 /\ state # "DISABLED"
      /\ need_zlp' = (need_zlp /\ NoneQueued)
      /\ UNCHANGED <<queue_info, queue_data, head, offset, buffer, active_length, state, handed, last,
                     late, now, slot_ec, to_send, writes, reports>>
  BY <1>0, PortHasOp DEF CdcOut!Enter, CdcOut!Bound, CdcOut!port, CdcOut!ep, CdcOut!call
<1>2. Places'
  BY <1>0, <1>1, HeadNone DEF Places, Starting, NoneQueued, Mine
<1>3. Endpoint'
  BY <1>0, <1>1 DEF Endpoint
<1>4. Zlp'
  BY <1>0, <1>1 DEF Zlp, NoneQueued, Ended
<1>5. CdcOut!Prefilled' = CdcOut!Prefilled
  BY <1>1, PrefilledNow DEF PrefilledOf
<1>6. Tracked'
  BY <1>0, <1>1, <1>5, Quiet DEF CdcOut!port
<1>. QED BY <1>2, <1>3, <1>4, <1>6, Parts

LEMMA AtSetActiveLength ==
    ASSUME CdcAssumption, CdcInv, CdcTypes', CdcOut!SetActiveLength, ~traced'
    PROVE  Clean'
<1>0. CdcTypes /\ Clean /\ Places /\ Endpoint /\ Zlp
  BY Parts DEF CdcInv, CdcOut!SetActiveLength
<1>1. /\ pc' = "load" /\ pc = "length" /\ active_length' = Len(buffer)
      /\ UNCHANGED <<queue_info, queue_data, head, offset, buffer, state, handed, last, need_zlp,
                     late, now, slot_ec, to_send, writes, reports>>
  BY <1>0 DEF CdcOut!SetActiveLength, CdcOut!port, CdcOut!call
<1>1a. Len(buffer) # 0 /\ active_length = 0 /\ Mine /\ head = now /\ head # CdcOut!NoWrite
  <2>1. buffer # <<>> /\ active_length = 0 /\ Mine /\ head = now
    BY <1>0, <1>1 DEF Places, Starting
  <2>2. now \in CdcOut!Writes
    BY <1>0, <1>1 DEF CdcTypes
  <2>. QED BY <1>0, <2>1, <2>2, EmptySeq
           DEF CdcTypes, CdcOut!CdcTransmitTypeOK, CdcOut!Writes, CdcOut!NoWrite
<1>1b. ~NoneQueued
  BY <1>1a DEF Mine, NoneQueued
<1>2. Places'
  BY <1>0, <1>1, <1>1a DEF Places, Starting, NoneQueued, Mine
<1>3. Endpoint'
  BY <1>0, <1>1, <1>1a DEF Endpoint
<1>4. Zlp'
  BY <1>0, <1>1, <1>1a, <1>1b DEF Zlp, NoneQueued, Ended
<1>5. CdcOut!Prefilled' = CdcOut!Prefilled
  BY <1>0, <1>1, <1>1a, <1>2, <1>3, PrefilledBefore, PrefilledAfter
<1>6. Tracked'
  BY <1>0, <1>1, <1>5, Quiet DEF CdcOut!port
<1>. QED BY <1>2, <1>3, <1>4, <1>6, Parts

LEMMA AtLoad ==
    ASSUME CdcAssumption, CdcInv, CdcTypes', CdcOut!Load, ~traced'
    PROVE  Clean'
<1>0. CdcTypes /\ Clean /\ Places /\ Endpoint /\ Zlp
  BY Parts DEF CdcInv, CdcOut!Load
<1>1. /\ pc' = "check" /\ pc = "load" /\ to_send' = active_length
      /\ UNCHANGED <<queue_info, queue_data, head, offset, buffer, active_length, state, handed, last,
                     late, need_zlp, now, slot_ec, writes, reports>>
  BY <1>0 DEF CdcOut!Load, CdcOut!port, CdcOut!ep
<1>2. Places'
  BY <1>0, <1>1 DEF Places, Starting, NoneQueued, Mine
<1>3. Endpoint'
  BY <1>0, <1>1 DEF Endpoint
<1>4. Zlp'
  BY <1>0, <1>1 DEF Zlp, NoneQueued, Ended
<1>5. CdcOut!Prefilled' = CdcOut!Prefilled
  BY <1>1, PrefilledNow DEF PrefilledOf
<1>6. Tracked'
  BY <1>0, <1>1, <1>5, Quiet DEF CdcOut!port
<1>. QED BY <1>2, <1>3, <1>4, <1>6, Parts

LEMMA AtCheck ==
    ASSUME CdcAssumption, CdcInv, CdcTypes', CdcOut!Check, ~traced'
    PROVE  Clean'
<1>0. CdcTypes /\ Clean /\ Places /\ Endpoint /\ Zlp
  BY Parts DEF CdcInv, CdcOut!Check
<1>1. /\ pc = "check"
      /\ IF state = "IDLE" /\ to_send # 0 /\ ~NoneQueued THEN pc' = "clear" /\ now' = now
         ELSE pc' = "idle" /\ now' = CdcOut!NoWrite
      /\ UNCHANGED <<queue_info, queue_data, head, offset, buffer, active_length, state, handed, last,
                     late, need_zlp, slot_ec, to_send, writes, reports>>
  BY <1>0, NothingReported, PortHasOp
     DEF CdcOut!Check, CdcOut!Sendable, CdcOut!port, CdcOut!ep, CdcTypes,
         CdcOut!CdcTransmitTypeOK, ReportType
<1>1a. active_length = 0 => NoneQueued
  BY <1>0, <1>1 DEF Places
<1>1b. active_length # 0 => ~NoneQueued
  BY <1>0 DEF Endpoint, CdcTypes, HeadIsFirst, NoneQueued, CdcOut!Port
<1>2. Places'
  <2>1. CASE state = "IDLE" /\ to_send # 0 /\ ~NoneQueued
    <3>1. pc' = "clear" /\ now' = now /\ active_length # 0
      BY <1>1, <1>1a, <2>1
    <3>2. Starting /\ Mine /\ to_send = active_length /\ active_length = Len(buffer)
      BY <1>0, <1>1, <2>1, <3>1 DEF Places, Starting, Endpoint
    <3>. QED BY <1>0, <1>1, <2>1, <3>1, <3>2 DEF Places, Starting, NoneQueued, Mine
  <2>2. CASE ~(state = "IDLE" /\ to_send # 0 /\ ~NoneQueued)
    BY <1>0, <1>1, <1>1a, <2>2 DEF Places, Starting, NoneQueued, Mine
  <2>. QED BY <2>1, <2>2
<1>3. Endpoint'
  <2>1. pc' \in {"clear", "idle"}
    BY <1>1
  <2>2. pc' = "idle" /\ active_length # 0 => state = "BUSY"
    <3> SUFFICES ASSUME pc' = "idle", active_length # 0, state # "BUSY" PROVE FALSE
      OBVIOUS
    <3>1. state = "IDLE"
      BY <1>0 DEF Endpoint, CdcTypes, CdcOut!CdcTransmitTypeOK
    <3>2. to_send = active_length /\ ~NoneQueued
      BY <1>0, <1>1, <1>1b, <3>1 DEF Places, Starting
    <3>. QED BY <1>1, <3>1, <3>2
  <2>3. state = "DISABLED" => pc' = "idle"
    BY <1>1
  <2>. QED BY <1>0, <1>1, <2>1, <2>2, <2>3 DEF Endpoint
<1>4. Zlp'
  <2>1. pc' = "clear" => active_length # 0
    BY <1>1, <1>1a
  <2>. QED BY <1>0, <1>1, <2>1 DEF Zlp, NoneQueued, Ended
<1>5. CdcOut!Prefilled' = CdcOut!Prefilled
  BY <1>1, PrefilledNow DEF PrefilledOf
<1>6. Tracked'
  BY <1>0, <1>1, <1>5, Quiet DEF CdcOut!port
<1>. QED BY <1>2, <1>3, <1>4, <1>6, Parts

LEMMA AtClear ==
    ASSUME CdcAssumption, CdcInv, CdcTypes', CdcOut!Clear, ~traced'
    PROVE  Clean'
<1>0. CdcTypes /\ Clean /\ Places /\ Endpoint /\ Zlp
  BY Parts DEF CdcInv, CdcOut!Clear
<1>1. /\ pc' = "kick" /\ pc = "clear" /\ active_length' = 0
      /\ UNCHANGED <<queue_info, queue_data, head, offset, buffer, state, handed, last, need_zlp,
                     late, now, slot_ec, to_send, writes, reports>>
  BY <1>0 DEF CdcOut!Clear, CdcOut!port, CdcOut!call
<1>1a. active_length # 0 /\ Mine /\ ~NoneQueued
  BY <1>0, <1>1 DEF Places, Starting, Mine, NoneQueued
<1>2. Places'
  BY <1>0, <1>1, <1>1a DEF Places, Starting, NoneQueued, Mine
<1>3. Endpoint'
  BY <1>0, <1>1, <1>1a DEF Endpoint
<1>4. Zlp'
  BY <1>0, <1>1, <1>1a DEF Zlp, NoneQueued, Ended
<1>5. CdcOut!Prefilled' = CdcOut!Prefilled
  BY <1>0, <1>1, <1>1a, <1>2, <1>3, PrefilledBefore, PrefilledAfter
<1>6. Tracked'
  BY <1>0, <1>1, <1>5, Quiet DEF CdcOut!port
<1>. QED BY <1>2, <1>3, <1>4, <1>6, Parts

LEMMA AtRest ==
    ASSUME CdcAssumption, CdcInv, CdcTypes', CdcOut!Rest, ~traced'
    PROVE  Clean'
<1>0. CdcTypes /\ Clean /\ Places /\ Endpoint /\ Zlp
  BY Parts DEF CdcInv, CdcOut!Rest
<1>1. /\ state = "BUSY" /\ state' = "IDLE" /\ need_zlp' = FALSE /\ active_length = 0
      /\ ~(need_zlp /\ NoneQueued)
      /\ UNCHANGED <<queue_info, queue_data, head, offset, buffer, active_length, handed, last,
                     late, now, slot_ec, to_send, writes, reports, pc>>
  BY <1>0, PortHasOp DEF CdcOut!Rest, CdcOut!port, CdcOut!call
<1>s. Sent(now.n)' <=> Sent(now.n)
  BY <1>1 DEF Sent
<1>2. Places'
  BY <1>0, <1>1, <1>s DEF Places, Starting, NoneQueued, Mine
<1>3. Endpoint'
  BY <1>0, <1>1 DEF Endpoint
<1>4. Zlp'
  BY <1>0, <1>1 DEF Zlp, NoneQueued, Ended
<1>5. CdcOut!Prefilled' = CdcOut!Prefilled
  BY <1>1, PrefilledNow DEF PrefilledOf
<1>6. Tracked'
  BY <1>0, <1>1, <1>5, Quiet DEF CdcOut!port
<1>. QED BY <1>2, <1>3, <1>4, <1>6, Parts

LEMMA AtBindEndpoints ==
    ASSUME CdcAssumption, CdcInv, CdcTypes', CdcOut!BindEndpoints, ~traced'
    PROVE  Clean'
<1>0. CdcTypes /\ Clean /\ Places /\ Endpoint /\ Zlp
  BY Parts DEF CdcInv, CdcOut!BindEndpoints
<1>1. /\ state = "DISABLED" /\ state' = "IDLE"
      /\ UNCHANGED <<queue_info, queue_data, head, offset, buffer, active_length, handed, last,
                     late, need_zlp, now, slot_ec, to_send, writes, reports, pc>>
  BY <1>0 DEF CdcOut!BindEndpoints, CdcOut!Bound, CdcOut!port, CdcOut!call
<1>s. Sent(now.n)' <=> Sent(now.n)
  BY <1>1 DEF Sent
<1>2. Places'
  BY <1>0, <1>1, <1>s DEF Places, Starting, NoneQueued, Mine, Endpoint
<1>3. Endpoint'
  BY <1>0, <1>1 DEF Endpoint
<1>4. Zlp'
  BY <1>0, <1>1 DEF Zlp, NoneQueued, Ended, Endpoint
<1>5. CdcOut!Prefilled' = CdcOut!Prefilled
  BY <1>1, PrefilledNow DEF PrefilledOf
<1>6. Tracked'
  BY <1>0, <1>1, <1>5, Quiet DEF CdcOut!port
<1>. QED BY <1>2, <1>3, <1>4, <1>6, Parts

LEMMA AtNothing ==
    ASSUME CdcAssumption, CdcInv, CdcTypes', UNCHANGED CdcOut!vars, ~traced'
    PROVE  Clean'
<1>0. CdcTypes /\ Clean /\ Places /\ Endpoint /\ Zlp
  BY Parts DEF CdcInv, CdcOut!vars
<1>1. UNCHANGED <<queue_info, queue_data, head, offset, buffer, active_length, state, handed, last,
                  late, need_zlp, now, slot_ec, to_send, writes, reports, pc>>
  BY DEF CdcOut!vars, CdcOut!port, CdcOut!ep, CdcOut!call
<1>s. Sent(now.n)' <=> Sent(now.n)
  BY <1>1 DEF Sent
<1>q. (NoneQueued' <=> NoneQueued) /\ (Mine' <=> Mine) /\ (Starting' <=> Starting)
  BY <1>1 DEF NoneQueued, Mine, Starting
<1>2. Places'
  BY <1>0, <1>1, <1>s, <1>q DEF Places
<1>3. Endpoint'
  BY <1>0, <1>1, <1>q DEF Endpoint
<1>4. Zlp'
  BY <1>0, <1>1 DEF Zlp, NoneQueued, Ended
<1>5. CdcOut!Prefilled' = CdcOut!Prefilled
  BY <1>1, PrefilledNow DEF PrefilledOf
<1>6. Tracked'
  BY <1>0, <1>1, <1>5, Quiet DEF CdcOut!port
<1>. QED BY <1>2, <1>3, <1>4, <1>6, Parts

----------------------------------------------------------------------------
(* CdcTransmit: the steps that move bytes, or report.                         *)

LEMMA LineTyped ==
    ASSUME CdcTypes, Places, Endpoint
    PROVE  /\ handed \in Seq(CdcOut!Byte) /\ CdcOut!Prefilled \in Seq(CdcOut!Byte)
           /\ queue_data \in Seq(CdcOut!Byte) /\ CdcOut!Line \in Seq(CdcOut!Byte)
           /\ CdcOut!Line = (handed \o CdcOut!Prefilled) \o queue_data
<1>1. handed \in Seq(CdcOut!Byte) /\ queue_data \in Seq(CdcOut!Byte)
  BY DEF CdcTypes, CdcOut!CdcTransmitTypeOK
<1>2. CdcOut!Prefilled \in Seq(CdcOut!Byte)
  BY PrefilledBefore
<1>3. CdcOut!Line = (handed \o CdcOut!Prefilled) \o queue_data
  BY DEF CdcOut!Line
<1>4. handed \o CdcOut!Prefilled \in Seq(CdcOut!Byte)
  BY <1>1, <1>2, ConcatProperties
<1>5. (handed \o CdcOut!Prefilled) \o queue_data \in Seq(CdcOut!Byte)
  BY <1>1, <1>4, ConcatProperties
<1>. QED BY <1>1, <1>2, <1>3, <1>5

\* What went to the controller stays there.
LEMMA SentGrows ==
    ASSUME handed \in Seq(CdcOut!Byte), NEW b \in Seq(CdcOut!Byte), handed' = handed \o b
    PROVE  /\ \A n : Sent(n) => SentIn(handed', n)
           /\ \A k \in 1..Len(b) : SentIn(handed', b[k][1])
<1>1. /\ Len(handed) \in Nat /\ Len(b) \in Nat /\ Len(handed') = Len(handed) + Len(b)
      /\ \A j \in 1..Len(handed) : handed'[j] = handed[j]
      /\ \A k \in 1..Len(b) : handed'[Len(handed) + k] = b[k]
  BY Joined, LenProperties
<1>2. /\ \A j \in 1..Len(handed) : j \in 1..Len(handed')
      /\ \A k \in 1..Len(b) : Len(handed) + k \in 1..Len(handed')
  BY ONLY <1>1
<1>. QED BY <1>1, <1>2 DEF Sent, SentIn

\* One more report.
LEMMA OneReported ==
    ASSUME reports \in Seq(ReportType), NEW n \in 1..MaxWrites, NEW ok \in BOOLEAN, OnlySent,
           reports' = Append(reports, <<n, ok>>), \A m : Sent(m) => SentIn(handed', m), ok => SentIn(handed', n)
    PROVE  OnlySent'
<1>1. /\ reports' \in Seq(ReportType) /\ Len(reports') = Len(reports) + 1 /\ Len(reports) \in Nat
      /\ \A k \in 1..Len(reports) : reports'[k] = reports[k]
      /\ reports'[Len(reports) + 1] = <<n, ok>>
  BY ReportAdded, LenProperties
<1>2. \A k \in 1..Len(reports') : k \in 1..Len(reports) \/ k = Len(reports) + 1
  BY ONLY <1>1
<1>3. ASSUME NEW k \in 1..Len(reports'), reports'[k][2] PROVE SentIn(handed', reports'[k][1])
  <2>1. CASE k \in 1..Len(reports)
    BY <1>1, <1>3, <2>1 DEF OnlySent
  <2>2. CASE k = Len(reports) + 1
    <3>1. reports'[k][1] = n /\ reports'[k][2] = ok
      BY <1>1, <2>2
    <3>. QED BY <1>3, <3>1
  <2>. QED BY <1>2, <2>1, <2>2
<1>. QED BY <1>3 DEF OnlySent, Sent

LEMMA AtWrite ==
    ASSUME CdcAssumption, CdcInv, CdcTypes', NEW size \in Sizes, CdcOut!Write(size), ~traced'
    PROVE  Clean'
<1>0. CdcTypes /\ Clean /\ Tracked /\ Places /\ Endpoint /\ Zlp
  BY Parts DEF CdcInv, CdcOut!Write
<1>1. /\ pc = "idle" /\ pc' = "info" /\ writes' = writes + 1 /\ now'.n = writes'
      /\ queue_data' = queue_data \o CdcOut!Bytes(now') /\ now' = [n |-> writes', size |-> size]
      /\ UNCHANGED <<queue_info, head, offset, buffer, active_length, state, handed, last, late,
                     need_zlp, slot_ec, to_send, reports>>
  BY DEF CdcOut!Write, CdcOut!ep
<1>1a. now' \in CdcOut!Writes /\ writes \in Nat /\ queue_info \in Seq(CdcOut!Writes) /\ offset \in Nat
  BY <1>0, <1>1 DEF CdcTypes, CdcOut!CdcTransmitTypeOK
<1>2. Places'
  BY <1>0, <1>1 DEF Places, Starting, NoneQueued, Mine
<1>3. Endpoint'
  BY <1>0, <1>1 DEF Endpoint
<1>4. Zlp'
  BY <1>0, <1>1 DEF Zlp, NoneQueued, Ended
<1>5. CdcOut!Prefilled' = CdcOut!Prefilled
  BY <1>1, PrefilledNow DEF PrefilledOf
<1> DEFINE w == now'
<1>6. Cut(queue_data, Queued, offset)'
  <2>1. Cut(queue_data, queue_info, offset)
    BY <1>0, <1>1 DEF Tracked, Queued
  <2>2. queue_info = <<>> => offset = 0
    BY <1>0, HeadNone DEF NoneQueued
  <2>3. queue_data \in Seq(CdcOut!Byte) /\ w \in CdcOut!Writes
    BY <1>0, <1>1a, LineTyped
  <2>4. Queued' = Append(queue_info, w) /\ queue_data' = queue_data \o CdcOut!Bytes(w)
        /\ offset' = offset
    BY <1>1 DEF Queued
  <2> HIDE DEF w
  <2>5. Cut(queue_data \o CdcOut!Bytes(w), Append(queue_info, w), offset)
    BY <1>1a, <2>1, <2>2, <2>3, CutAdded DEF CdcAssumption
  <2>. QED BY <2>4, <2>5, CutSame
<1>7. LineKept'
  <2>1. CdcOut!Line' = CdcOut!Line \o CdcOut!Bytes(w)
    <3>1. /\ handed \o CdcOut!Prefilled \in Seq(CdcOut!Byte) /\ queue_data \in Seq(CdcOut!Byte)
          /\ CdcOut!Line = (handed \o CdcOut!Prefilled) \o queue_data
      BY <1>0, LineTyped, ConcatProperties
    <3>2. CdcOut!Bytes(w) \in Seq(CdcOut!Byte)
      BY <1>1a, BytesAre DEF CdcAssumption
    <3>3. CdcOut!Line' = (handed \o CdcOut!Prefilled) \o (queue_data \o CdcOut!Bytes(w))
      BY <1>1, <1>5 DEF CdcOut!Line
    <3> HIDE DEF w
    <3> DEFINE before == handed \o CdcOut!Prefilled
               more == CdcOut!Bytes(w)
    <3>4. before \in Seq(CdcOut!Byte) /\ more \in Seq(CdcOut!Byte) /\ queue_data \in Seq(CdcOut!Byte)
      BY <3>1, <3>2
    <3>5. CdcOut!Line = before \o queue_data /\ CdcOut!Line' = before \o (queue_data \o more)
      BY <3>1, <3>3
    <3> HIDE DEF before, more
    <3>6. (before \o queue_data) \o more = before \o (queue_data \o more)
      BY ONLY <3>4, ConcatAssociative
    <3>. QED BY <3>5, <3>6 DEF more
  <2>2. CdcOut!Line \in Seq(CdcOut!Byte) /\ Sorted(CdcOut!Line)
    BY <1>0, LineTyped DEF Tracked, LineKept
  <2>3. \A k \in 1..Len(CdcOut!Line) : CdcOut!Line[k][1] < w.n
    <3>1. ASSUME NEW k \in 1..Len(CdcOut!Line) PROVE CdcOut!Line[k][1] < writes + 1
      <4>1. CdcOut!Line[k] \in CdcOut!Byte /\ CdcOut!Line[k][1] <= writes
        BY <1>0, <2>2, ElementOfSeq DEF Tracked, LineKept
      <4>2. CdcOut!Line[k][1] \in Nat
        BY <4>1 DEF CdcOut!Byte
      <4>. QED BY ONLY <1>1a, <4>1, <4>2
    <3>. QED BY <1>1, <3>1
  <2>4. w \in CdcOut!Writes /\ w.n = writes'
    BY <1>1, <1>1a
  <2> HIDE DEF w
  <2>5. /\ Sorted(CdcOut!Line \o CdcOut!Bytes(w))
        /\ \A k \in 1..Len(CdcOut!Line \o CdcOut!Bytes(w)) :
              (CdcOut!Line \o CdcOut!Bytes(w))[k][1] <= w.n
    BY <2>2, <2>3, <2>4, LineGrows DEF CdcAssumption
  <2>6. Sorted(CdcOut!Line') /\ \A k \in 1..Len(CdcOut!Line') : CdcOut!Line'[k][1] <= writes'
    BY <2>1, <2>4, <2>5
  <2>. QED BY <2>6 DEF LineKept, Sorted
<1>8. Accounts'
  <2>1. Due = {} /\ Due' = {writes + 1}
    BY <1>1 DEF Due
  <2>2. /\ Once(reports)' /\ Distinct(queue_info)' /\ Reports(reports)' = Reports(reports)
        /\ Numbers(queue_info)' = Numbers(queue_info)
    BY <1>0, <1>1 DEF Tracked, Accounts, Once, Distinct, Reports, Numbers
  <2>3. /\ Reports(reports) \cup Numbers(queue_info) = 1..writes
        /\ Reports(reports) \cap Numbers(queue_info) = {}
    BY <1>0, <2>1 DEF Tracked, Accounts
  <2>4. (1..writes) \cup {writes + 1} = 1..(writes + 1) /\ writes + 1 \notin 1..writes
    BY <1>1a
  <2>. QED BY <1>1, <2>1, <2>2, <2>3, <2>4 DEF Accounts
<1>9. OnlySent'
  BY <1>0, <1>1, SentStays DEF Tracked
<1>10. Tracked'
  BY <1>6, <1>7, <1>8, <1>9 DEF Tracked
<1>. QED BY <1>2, <1>3, <1>4, <1>10, Parts

LEMMA AtPushInfo ==
    ASSUME CdcAssumption, CdcInv, CdcTypes', CdcOut!PushInfo, ~traced'
    PROVE  Clean'
<1>0. CdcTypes /\ Clean /\ Tracked /\ Places /\ Endpoint /\ Zlp
  BY Parts DEF CdcInv, CdcOut!PushInfo
<1>1. /\ pc = "info" /\ pc' = "enter" /\ queue_info' = Append(queue_info, now)
      /\ UNCHANGED <<queue_data, head, offset, buffer, active_length, state, handed, last, late,
                     need_zlp, now, slot_ec, to_send, reports, writes>>
  BY DEF CdcOut!PushInfo, CdcOut!ep, CdcOut!call
<1>1a. now \in CdcOut!Writes /\ queue_info \in Seq(CdcOut!Writes)
  BY <1>0, <1>1 DEF CdcTypes, CdcOut!CdcTransmitTypeOK
<1>1b. /\ queue_info' # <<>> /\ Numbers(queue_info') = Numbers(queue_info) \cup {now.n}
       /\ Distinct(queue_info) /\ now.n \notin Numbers(queue_info) => Distinct(queue_info')
  BY <1>1, <1>1a, NumberAdded
<1>1c. NoneQueued => Mine' /\ head' = CdcOut!NoWrite
  BY <1>0, <1>1, HeadNone DEF NoneQueued, Mine
<1>1d. ~NoneQueued'
  BY <1>1b DEF NoneQueued
<1>1e. active_length = 0 => NoneQueued
  BY <1>0, <1>1 DEF Places
<1>2. Places'
  BY <1>0, <1>1, <1>1c, <1>1d, <1>1e DEF Places, Starting
<1>3. Endpoint'
  BY <1>0, <1>1, <1>1c, <1>1e DEF Endpoint
<1>4. Zlp'
  BY <1>0, <1>1, <1>1d DEF Zlp
<1>5. CdcOut!Prefilled' = CdcOut!Prefilled
  BY <1>1, PrefilledNow DEF PrefilledOf
<1>6. Cut(queue_data, Queued, offset)'
  <2>1. Queued' = Queued
    BY <1>1 DEF Queued
  <2>2. Cut(queue_data, Queued, offset)
    BY <1>0 DEF Tracked
  <2>3. queue_data' = queue_data /\ offset' = offset
    BY <1>1
  <2>. QED BY <2>1, <2>2, <2>3, CutSame
<1>7. LineKept'
  <2>1. CdcOut!Line' = CdcOut!Line
    BY <1>1, <1>5 DEF CdcOut!Line
  <2>. QED BY <1>0, <1>1, <2>1, LineStays DEF Tracked
<1>8. Accounts'
  <2>1. Due = {now.n} /\ Due' = {}
    BY <1>1 DEF Due
  <2>2. Once(reports)' /\ Reports(reports)' = Reports(reports)
    BY <1>0, <1>1 DEF Tracked, Accounts, Once, Reports
  <2>3. /\ Reports(reports) \cup Numbers(queue_info) \cup {now.n} = 1..writes
        /\ Reports(reports) \cap Numbers(queue_info) = {}
        /\ now.n \notin Reports(reports) /\ now.n \notin Numbers(queue_info)
        /\ Distinct(queue_info)
    BY <1>0, <2>1 DEF Tracked, Accounts
  <2>4. Numbers(queue_info)' = Numbers(queue_info) \cup {now.n} /\ Distinct(queue_info)'
    BY <1>1b, <2>3 DEF Numbers, Distinct
  <2>. QED BY <1>1, <2>1, <2>2, <2>3, <2>4 DEF Accounts
<1>9. OnlySent'
  BY <1>0, <1>1, SentStays DEF Tracked
<1>10. Tracked'
  BY <1>6, <1>7, <1>8, <1>9 DEF Tracked
<1>. QED BY <1>2, <1>3, <1>4, <1>10, Parts

LEMMA Regrouped ==
    ASSUME NEW h \in Seq(CdcOut!Byte), NEW c \in Seq(CdcOut!Byte), NEW d \in Seq(CdcOut!Byte)
    PROVE  /\ (h \o c) \o d = h \o (c \o d) /\ h \o c \in Seq(CdcOut!Byte)
           /\ (h \o <<>>) \o d = h \o d /\ (h \o c) \o <<>> = h \o c
<1>1. (h \o c) \o d = h \o (c \o d)
  BY ConcatAssociative
<1>2. h \o c \in Seq(CdcOut!Byte)
  BY ConcatProperties
<1>3. h \o <<>> = h
  BY ConcatEmptySeq
<1>4. (h \o c) \o <<>> = h \o c
  BY <1>2, ConcatEmptySeq
<1>. QED BY <1>1, <1>2, <1>3, <1>4

\* The bytes that are queued but not filled are dropped.
LEMMA LineEnds ==
    ASSUME CdcTypes, Places, Endpoint, LineKept, writes' = writes, CdcOut!Line' = handed
    PROVE  LineKept'
<1> DEFINE more == CdcOut!Prefilled \o queue_data
<1>1. /\ handed \in Seq(CdcOut!Byte) /\ more \in Seq(CdcOut!Byte)
      /\ CdcOut!Line = handed \o more
  <2>1. /\ handed \in Seq(CdcOut!Byte) /\ CdcOut!Prefilled \in Seq(CdcOut!Byte)
        /\ queue_data \in Seq(CdcOut!Byte)
        /\ CdcOut!Line = (handed \o CdcOut!Prefilled) \o queue_data
    BY LineTyped
  <2>2. more \in Seq(CdcOut!Byte)
    BY <2>1, ConcatProperties
  <2>3. (handed \o CdcOut!Prefilled) \o queue_data = handed \o more
    BY ONLY <2>1, ConcatAssociative
  <2>. QED BY <2>1, <2>2, <2>3
<1>2. Sorted(handed \o more) /\ \A k \in 1..Len(handed \o more) : (handed \o more)[k][1] <= writes
  BY <1>1 DEF LineKept
<1> HIDE DEF more
<1>3. Sorted(handed) /\ \A k \in 1..Len(handed) : handed[k][1] <= writes
  BY <1>1, <1>2, LineCut
<1>. QED BY <1>3 DEF LineKept, Sorted

LEMMA AtNotInited ==
    ASSUME CdcAssumption, CdcInv, CdcTypes', CdcOut!NotInited, ~traced'
    PROVE  Clean'
<1>0. CdcTypes /\ Clean /\ Tracked /\ Places /\ Endpoint /\ Zlp
  BY Parts DEF CdcInv, CdcOut!NotInited
<1>1. /\ pc = "enter" /\ state = "DISABLED" /\ CdcOut!Becomes(CdcOut!DropHead(CdcOut!Port))
      /\ CdcOut!Report(FALSE)
      /\ UNCHANGED <<buffer, active_length, state, handed, last, late, need_zlp, slot_ec, to_send,
                     writes>>
  BY DEF CdcOut!NotInited, CdcOut!Bound, CdcOut!ep
<1>1a. /\ now \in CdcOut!Writes /\ now.n \in 1..MaxWrites /\ reports \in Seq(ReportType)
       /\ handed \in Seq(CdcOut!Byte) /\ buffer \in Seq(CdcOut!Byte)
  BY <1>0, <1>1, BytesAre
     DEF CdcTypes, CdcOut!CdcTransmitTypeOK, ReportType, CdcAssumption
<1>1b. /\ pc' = "idle" /\ reports' = Append(reports, <<now.n, FALSE>>)
  BY <1>1, <1>1a, Reporting
<1>1c. /\ active_length = 0 /\ Mine /\ head = CdcOut!NoWrite /\ offset = 0
       /\ last = 0 /\ (late \/ ~need_zlp)
  BY <1>0, <1>1 DEF Places, Endpoint, NoneQueued, Mine, CdcTypes, HeadIsFirst, CdcOut!Port
<1>1d. /\ queue_info' = <<>> /\ head' = CdcOut!NoWrite /\ offset' = 0 /\ queue_data' = <<>>
       /\ Cut(queue_data', queue_info', offset')
  <2> DEFINE p == CdcOut!Port
             d == CdcOut!DropHead(p)
  <2>1. PortKept(p) /\ p.info = queue_info /\ p.data = queue_data /\ p.offset = 0
    BY <1>0, <1>1c, PortIsKept, PortFields
  <2>2. p.info # <<>> /\ Tail(p.info) = <<>>
    BY <1>1c, <2>1 DEF Mine
  <2>3. Cut(p.data, p.info, p.offset)
    BY <1>0, <1>1, <1>1c, <2>1 DEF Tracked, Queued
  <2> HIDE DEF p
  <2>4. /\ PortKept(d) /\ d.info = Tail(p.info) /\ d.head = CdcOut!NoWrite /\ d.offset = 0
        /\ Cut(d.data, Tail(p.info), 0)
    BY <2>1, <2>2, <2>3, DropHeadKeeps DEF CdcAssumption
  <2>5. d.data \in Seq(CdcOut!Byte) /\ Cut(d.data, <<>>, 0)
    BY <2>2, <2>4, PortIs DEF PortKept
  <2>6. CdcOut!Becomes(d)
    BY <1>1 DEF p
  <2> HIDE DEF d
  <2>7. d.data = <<>>
    BY <2>5, NothingCut
  <2>. QED BY <2>2, <2>4, <2>5, <2>6, <2>7 DEF CdcOut!Becomes
<1>2. Places'
  BY <1>1b, <1>1d DEF Places, Starting, NoneQueued, Mine
<1>3. Endpoint'
  BY <1>0, <1>1, <1>1b, <1>1c DEF Endpoint
<1>4. Zlp'
  BY <1>0, <1>1, <1>1b, <1>1c DEF Zlp, NoneQueued, Ended
<1>5. Cut(queue_data, Queued, offset)'
  <2>1. Queued' = queue_info'
    BY <1>1b DEF Queued
  <2>2. Cut(queue_data', queue_info', offset')
    BY <1>1d
  <2>. QED BY <2>1, <2>2, CutSame
<1>6. LineKept'
  <2>1. CdcOut!Prefilled' = <<>>
    BY <1>1, <1>1a, <1>1b, <1>1c DEF CdcOut!Prefilled
  <2>2. CdcOut!Line' = (handed \o <<>>) \o <<>>
    BY <1>1, <1>1d, <2>1 DEF CdcOut!Line
  <2>3. CdcOut!Line' = handed
    BY <1>1a, <2>2, ConcatEmptySeq
  <2>. QED BY <1>0, <1>1, <2>3, LineEnds DEF Tracked
<1>7. Accounts'
  <2>1. Due = {} /\ Due' = {} /\ Numbers(queue_info)' = {} /\ Distinct(queue_info)'
    BY <1>1, <1>1b, <1>1d DEF Due, Numbers, Distinct
  <2>2. Numbers(queue_info) = {now.n}
    BY <1>1c DEF Mine, Numbers
  <2>3. /\ Once(reports) /\ Reports(reports) \cup {now.n} = 1..writes /\ now.n \notin Reports(reports)
    BY <1>0, <2>1, <2>2 DEF Tracked, Accounts
  <2>4. Reports(reports)' = Reports(reports) \cup {now.n} /\ Once(reports)'
    <3>1. Reports(reports') = Reports(reports) \cup {now.n} /\ Once(reports')
      BY <1>1a, <1>1b, <2>3, ReportAdded
    <3>. QED BY <3>1 DEF Reports, Once
  <2>. QED BY <1>1, <2>1, <2>3, <2>4 DEF Accounts
<1>8. OnlySent'
  <2>1. \A m : Sent(m) => SentIn(handed', m)
    BY <1>1 DEF Sent
  <2>. QED BY <1>0, <1>1a, <1>1b, <2>1, OneReported DEF Tracked
<1>9. Tracked'
  BY <1>5, <1>6, <1>7, <1>8 DEF Tracked
<1>. QED BY <1>2, <1>3, <1>4, <1>9, Parts

LEMMA AtPrefill ==
    ASSUME CdcAssumption, CdcInv, CdcTypes', CdcOut!Prefill, ~traced'
    PROVE  Clean'
<1>0. CdcTypes /\ Clean /\ Tracked /\ Places /\ Endpoint /\ Zlp
  BY Parts DEF CdcInv, CdcOut!Prefill
<1> DEFINE p == CdcOut!Port
           t == CdcOut!Take(p)
<1>1. /\ pc = "take" /\ CdcOut!Becomes(t.port)
      /\ IF t.ans \in {"EMPTY", "FAILED"}
         THEN CdcOut!Pending /\ UNCHANGED <<slot_ec, buffer>>
         ELSE /\ slot_ec' = t.ans /\ buffer' = t.bytes /\ pc' = "length"
              /\ UNCHANGED <<now, reports>>
      /\ UNCHANGED <<active_length, state, handed, last, late, need_zlp, to_send, writes>>
  BY DEF CdcOut!Prefill
<1>1a. /\ active_length = 0 /\ (NoneQueued \/ Mine) /\ now \in CdcOut!Writes
       /\ reports \in Seq(ReportType) /\ queue_info \in Seq(CdcOut!Writes)
  BY <1>0, <1>1 DEF Places, CdcTypes, CdcOut!CdcTransmitTypeOK, ReportType
<1>1b. /\ PortKept(p) /\ p.info = queue_info /\ p.data = queue_data /\ p.offset = offset
       /\ p.head = head
  BY <1>0, PortIsKept, PortFields
<1> HIDE DEF p
<1>1c. /\ PortKept(t.port) /\ t.port.info = queue_info /\ t.bytes \in Seq(CdcOut!Byte)
       /\ t.ans \in {"EMPTY", "FAILED", "OK", "PENDING"}
       /\ t.ans \in {"OK", "PENDING"} =>
             queue_info # <<>> /\ t.port.head = queue_info[1] /\ t.bytes # <<>>
       /\ queue_info = <<>> => t.ans = "EMPTY" /\ t.port = p
  BY <1>1b, TakeKeeps DEF CdcAssumption
<1>2. CASE NoneQueued
  <2>1. t.ans = "EMPTY" /\ t.port = p
    BY <1>1c, <1>2 DEF NoneQueued
  <2>2. CdcOut!Pending /\ UNCHANGED <<slot_ec, buffer, queue_info, queue_data, head, offset>>
    BY <1>1, <1>1b, <2>1 DEF CdcOut!Becomes
  <2>3. reports' = reports /\ pc' = "idle" /\ now' = CdcOut!NoWrite
    BY <1>1a, <2>2, NothingReported
  <2>4. NoneQueued'
    BY <1>2, <2>2 DEF NoneQueued
  <2>5. Places'
    BY <1>1, <1>1a, <2>3, <2>4 DEF Places, Starting
  <2>6. Endpoint'
    BY <1>0, <1>1, <1>1a, <2>2, <2>3 DEF Endpoint
  <2>7. Zlp'
    BY <1>0, <1>1, <1>1a, <1>2, <2>2, <2>3, <2>4 DEF Zlp, Ended
  <2>8. CdcOut!Prefilled' = CdcOut!Prefilled
    BY <1>1, <2>2, <2>3, PrefilledNow DEF PrefilledOf
  <2>9. Tracked'
    BY <1>0, <1>1, <2>2, <2>3, <2>8, Quiet DEF CdcOut!port
  <2>. QED BY <2>5, <2>6, <2>7, <2>9, Parts
<1>3. CASE Mine
  <2>1. queue_info # <<>> /\ queue_info[1] = now /\ ~NoneQueued
    BY <1>3 DEF Mine, NoneQueued
  <2>2. /\ t.ans \in {"OK", "PENDING"} /\ (t.ans = "OK" <=> t.port.offset = now.size)
        /\ queue_data = t.bytes \o t.port.data
        /\ \A k \in 1..Len(t.bytes) : t.bytes[k][1] = now.n
        /\ Cut(t.port.data, queue_info, t.port.offset)
    <3>1. Cut(p.data, queue_info, p.offset)
      BY <1>0, <1>1, <1>1b DEF Tracked, Queued
    <3>2. p.head # CdcOut!NoWrite => p.offset < p.head.size
      BY <1>0, <1>1, <1>1b DEF Places
    <3>. QED BY <1>1a, <1>1b, <2>1, <3>1, <3>2, TakeWorks DEF CdcAssumption
  <2>3. /\ t.port.head = now /\ t.bytes # <<>>
        /\ t.port.info = queue_info /\ t.bytes \in Seq(CdcOut!Byte)
        /\ t.port.data \in Seq(CdcOut!Byte)
    BY <1>1c, <2>1, <2>2, PortIs DEF PortKept
  <2>4. /\ slot_ec' = t.ans /\ buffer' = t.bytes /\ pc' = "length" /\ now' = now
        /\ reports' = reports /\ queue_info' = queue_info /\ queue_data' = t.port.data
        /\ head' = now /\ offset' = t.port.offset
    BY <1>1, <2>2, <2>3 DEF CdcOut!Becomes
  <2> HIDE DEF t
  <2>5. Mine' /\ ~NoneQueued' /\ ~NoneQueued
    BY <1>3, <2>4 DEF Mine, NoneQueued
  <2>6. Places'
    BY <1>1, <1>1a, <2>2, <2>3, <2>4, <2>5 DEF Places, Starting
  <2>6a. state # "DISABLED"
    BY <1>0, <1>1, <2>5 DEF Endpoint
  <2>7. Endpoint'
    BY <1>1, <1>1a, <2>2, <2>4, <2>6a DEF Endpoint
  <2>8. Zlp'
    BY <1>0, <1>1, <1>1a, <2>4, <2>5 DEF Zlp, Ended
  <2>9. Cut(queue_data, Queued, offset)'
    <3>1. Queued' = queue_info
      BY <2>4 DEF Queued
    <3>2. Cut(t.port.data, queue_info, t.port.offset)
      BY <2>2
    <3>3. queue_data' = t.port.data /\ offset' = t.port.offset
      BY <2>4
    <3>. QED BY <3>1, <3>2, <3>3, CutSame
  <2>10. LineKept'
    <3>1. CdcOut!Prefilled = <<>> /\ CdcOut!Prefilled' = t.bytes
      <4>1. pc \notin {"length", "kick"}
        BY <1>1
      <4>2. CdcOut!Prefilled = <<>>
        BY <1>0, <1>1a, <4>1, PrefilledBefore
      <4>. QED BY <2>4, <4>2 DEF CdcOut!Prefilled
    <3>2. CdcOut!Line = (handed \o <<>>) \o (t.bytes \o t.port.data)
      BY <2>2, <3>1 DEF CdcOut!Line
    <3>3. CdcOut!Line' = (handed \o t.bytes) \o t.port.data
      BY <1>1, <2>4, <3>1 DEF CdcOut!Line
    <3>4. /\ handed \in Seq(CdcOut!Byte) /\ t.bytes \in Seq(CdcOut!Byte)
          /\ t.port.data \in Seq(CdcOut!Byte)
      BY <1>0, <2>3, LineTyped
    <3> DEFINE b == t.bytes
               d == t.port.data
    <3>4a. b \in Seq(CdcOut!Byte) /\ d \in Seq(CdcOut!Byte)
      BY <3>4
    <3> HIDE DEF b, d
    <3>4b. (handed \o b) \o d = handed \o (b \o d) /\ handed \o <<>> = handed
      BY <3>4, <3>4a, Regrouped, ConcatEmptySeq
    <3>5. CdcOut!Line' = CdcOut!Line
      BY <3>2, <3>3, <3>4b DEF b, d
    <3>. QED BY <1>0, <1>1, <3>5, LineStays DEF Tracked
  <2>11. Accounts'
    <3>1. Due = {} /\ Due' = {}
      BY <1>1, <2>4 DEF Due
    <3>2. Reports(reports)' = Reports(reports) /\ Numbers(queue_info)' = Numbers(queue_info)
      BY <2>4 DEF Reports, Numbers
    <3>3. Once(reports)' /\ Distinct(queue_info)'
      BY <1>0, <2>4 DEF Tracked, Accounts, Once, Distinct
    <3>. QED BY <1>0, <1>1, <3>1, <3>2, <3>3 DEF Tracked, Accounts
  <2>12. OnlySent'
    BY <1>0, <1>1, <2>4, SentStays DEF Tracked
  <2>13. Tracked'
    BY <2>9, <2>10, <2>11, <2>12 DEF Tracked
  <2>. QED BY <2>6, <2>7, <2>8, <2>13, Parts
<1>. QED BY <1>1a, <1>2, <1>3

LEMMA AtKick ==
    ASSUME CdcAssumption, CdcInv, CdcTypes', CdcOut!Kick, ~traced'
    PROVE  Clean'
<1>0. CdcTypes /\ Clean /\ Tracked /\ Places /\ Endpoint /\ Zlp
  BY Parts DEF CdcInv, CdcOut!Kick
<1>1. /\ pc = "kick" /\ pc' = "pop" /\ state' = "BUSY" /\ last' = to_send /\ late' = FALSE
      /\ handed' = handed \o SubSeq(buffer, 1, CdcOut!Least(to_send, Len(buffer)))
      /\ UNCHANGED <<queue_info, queue_data, head, offset, buffer, active_length, need_zlp, now,
                     slot_ec, to_send, writes, reports>>
  BY DEF CdcOut!Kick, CdcOut!Transfer, CdcOut!port, CdcOut!call
<1>1a. /\ active_length = 0 /\ Mine /\ head = now /\ (slot_ec = "OK" <=> offset = now.size)
       /\ buffer # <<>> /\ to_send = Len(buffer) /\ now \in CdcOut!Writes
       /\ \A k \in 1..Len(buffer) : buffer[k][1] = now.n
       /\ ~need_zlp /\ ~NoneQueued
  <2>1. /\ active_length = 0 /\ Mine /\ head = now /\ (slot_ec = "OK" <=> offset = now.size)
        /\ buffer # <<>> /\ to_send = Len(buffer)
    BY <1>0, <1>1 DEF Places, Starting
  <2>2. \A k \in 1..Len(buffer) : buffer[k][1] = head.n
    BY <1>0, <1>1 DEF Endpoint
  <2>3. now \in CdcOut!Writes /\ ~need_zlp
    BY <1>0, <1>1 DEF CdcTypes, Zlp
  <2>4. ~NoneQueued
    BY <2>1 DEF Mine, NoneQueued
  <2>. QED BY <2>1, <2>2, <2>3, <2>4
<1>1b. /\ buffer \in Seq(CdcOut!Byte) /\ handed \in Seq(CdcOut!Byte)
       /\ queue_data \in Seq(CdcOut!Byte) /\ Len(buffer) \in Nat /\ 1 \in 1..Len(buffer)
  BY <1>0, <1>1a, EmptySeq, LenProperties DEF CdcTypes, CdcOut!CdcTransmitTypeOK
<1>1c. handed' = handed \o buffer
  <2>1. CdcOut!Least(to_send, Len(buffer)) = Len(buffer)
    BY <1>1a, <1>1b DEF CdcOut!Least
  <2>2. SubSeq(buffer, 1, Len(buffer)) = buffer
    BY <1>1b, SubSeqFull
  <2>. QED BY <1>1, <2>1, <2>2
<1>1d. (\A n : Sent(n) => SentIn(handed', n)) /\ SentIn(handed', now.n)
  <2>1. \A k \in 1..Len(buffer) : SentIn(handed', buffer[k][1])
    BY <1>1b, <1>1c, SentGrows
  <2>2. \A n : Sent(n) => SentIn(handed', n)
    BY <1>1b, <1>1c, SentGrows
  <2>. QED BY <1>1a, <1>1b, <2>1, <2>2
<1>2. Places'
  <2>1. Mine' /\ ~NoneQueued' /\ Sent(now.n)'
    BY <1>1, <1>1a, <1>1d DEF Mine, NoneQueued, Sent
  <2>. QED BY <1>1, <1>1a, <2>1 DEF Places, Starting
<1>3. Endpoint'
  BY <1>1, <1>1a DEF Endpoint
<1>4. Zlp'
  <2>1. ~NoneQueued'
    BY <1>1, <1>1a DEF NoneQueued
  <2>. QED BY <1>1, <1>1a, <2>1 DEF Zlp
<1>5. Cut(queue_data, Queued, offset)'
  <2>1. Queued' = Queued
    BY <1>1 DEF Queued
  <2>2. Cut(queue_data, Queued, offset)
    BY <1>0 DEF Tracked
  <2>3. queue_data' = queue_data /\ offset' = offset
    BY <1>1
  <2>. QED BY <2>1, <2>2, <2>3, CutSame
<1>6. LineKept'
  <2>1. CdcOut!Prefilled = buffer /\ CdcOut!Prefilled' = <<>>
    <3>1. CdcOut!Prefilled = buffer
      BY <1>0, <1>1, PrefilledBefore
    <3>. QED BY <1>1, <1>1a, <1>1b, <3>1 DEF CdcOut!Prefilled
  <2>2. /\ CdcOut!Line = (handed \o buffer) \o queue_data
        /\ CdcOut!Line' = ((handed \o buffer) \o <<>>) \o queue_data
    BY <1>1, <1>1c, <2>1 DEF CdcOut!Line
  <2>3. (handed \o buffer) \o <<>> = handed \o buffer
    BY ONLY <1>1b, Regrouped
  <2>4. CdcOut!Line' = CdcOut!Line
    BY <2>2, <2>3
  <2>. QED BY <1>0, <1>1, <2>4, LineStays DEF Tracked
<1>7. Accounts'
  <2>1. Due' = Due
    BY <1>1 DEF Due
  <2>2. Reports(reports)' = Reports(reports) /\ Numbers(queue_info)' = Numbers(queue_info)
    BY <1>1 DEF Reports, Numbers
  <2>3. Once(reports)' /\ Distinct(queue_info)'
    BY <1>0, <1>1 DEF Tracked, Accounts, Once, Distinct
  <2>. QED BY <1>0, <1>1, <2>1, <2>2, <2>3 DEF Tracked, Accounts
<1>8. OnlySent'
  BY <1>0, <1>1, <1>1d DEF Tracked, OnlySent, Sent
<1>9. Tracked'
  BY <1>5, <1>6, <1>7, <1>8 DEF Tracked
<1>. QED BY <1>2, <1>3, <1>4, <1>9, Parts

LEMMA AtPopCompleted ==
    ASSUME CdcAssumption, CdcInv, CdcTypes', CdcOut!PopCompleted, ~traced'
    PROVE  Clean'
<1>0. CdcTypes /\ Clean /\ Tracked /\ Places /\ Endpoint /\ Zlp
  BY Parts DEF CdcInv, CdcOut!PopCompleted
<1> DEFINE p == CdcOut!Port
           over == slot_ec = "OK" /\ CdcOut!HeadCompleted(p)
<1>1. /\ pc = "pop"
      /\ IF over THEN CdcOut!Becomes(CdcOut!Without(p)) /\ pc' = "zlp" /\ UNCHANGED <<now, reports>>
         ELSE /\ UNCHANGED CdcOut!port
              /\ IF CdcOut!HasOp(p) THEN pc' = "take" /\ UNCHANGED <<now, reports>>
                 ELSE CdcOut!Pending
      /\ UNCHANGED <<buffer, active_length, state, handed, last, late, need_zlp, slot_ec, to_send,
                     writes>>
  BY DEF CdcOut!PopCompleted, CdcOut!ep
<1>1a. /\ active_length = 0 /\ (NoneQueued \/ Mine) /\ Sent(now.n) /\ now \in CdcOut!Writes
       /\ ~NoneQueued => head = now /\ (slot_ec = "OK" <=> offset = now.size)
       /\ reports \in Seq(ReportType) /\ queue_info \in Seq(CdcOut!Writes)
       /\ ~need_zlp /\ (last = 0 \/ (last = to_send /\ ~NoneQueued))
  BY <1>0, <1>1 DEF Places, Zlp, CdcTypes, CdcOut!CdcTransmitTypeOK, ReportType
<1>1b. /\ PortKept(p) /\ p.info = queue_info /\ p.data = queue_data /\ p.offset = offset
       /\ p.head = head /\ (CdcOut!HasOp(p) <=> ~NoneQueued)
  BY <1>0, PortIsKept, PortFields, PortHasOp
<1>1c. CdcOut!HeadCompleted(p) <=> head # CdcOut!NoWrite /\ offset = head.size
  BY <1>1b DEF CdcOut!HeadCompleted
<1> HIDE DEF p
<1>2. CASE over
  <2>1. Mine /\ ~NoneQueued /\ head = now /\ offset = now.size
    BY <1>0, <1>1a, <1>1c, <1>2, HeadNone
  <2>2. queue_info # <<>> /\ queue_info[1] = now /\ Tail(queue_info) = <<>>
    BY <2>1 DEF Mine
  <2>3. /\ queue_info' = <<>> /\ queue_data' = queue_data /\ head' = CdcOut!NoWrite
        /\ offset' = 0 /\ pc' = "zlp" /\ now' = now /\ reports' = reports
    <3> DEFINE w == CdcOut!Without(p)
    <3>1. w.info = Tail(p.info) /\ w.data = p.data /\ w.head = CdcOut!NoWrite /\ w.offset = 0
      BY <1>1b, <2>2, WithoutKeeps DEF CdcAssumption
    <3>2. CdcOut!Becomes(w) /\ pc' = "zlp" /\ now' = now /\ reports' = reports
      BY <1>1, <1>2
    <3> HIDE DEF w
    <3>. QED BY <1>1b, <2>2, <3>1, <3>2 DEF CdcOut!Becomes
  <2>4. NoneQueued' /\ Sent(now.n)'
    BY <1>1, <1>1a, <2>3 DEF NoneQueued, Sent
  <2>5. Places'
    BY <1>1, <1>1a, <2>3, <2>4 DEF Places, Starting
  <2>6. Endpoint'
    BY <1>0, <1>1, <1>1a, <2>3, <2>4 DEF Endpoint
  <2>7. Zlp'
    BY <1>1, <1>1a, <2>3 DEF Zlp
  <2>8. Cut(queue_data, Queued, offset)'
    <3>1. Cut(queue_data, queue_info, queue_info[1].size)
      BY <1>0, <1>1, <2>1, <2>2 DEF Tracked, Queued
    <3>2. queue_data \in Seq(CdcOut!Byte)
      BY <1>0, LineTyped
    <3>3. Cut(queue_data, Tail(queue_info), 0)
      BY <1>1a, <2>2, <3>1, <3>2, CutPopped DEF CdcAssumption
    <3>4. Queued' = Tail(queue_info)
      BY <2>2, <2>3 DEF Queued
    <3>5. queue_data' = queue_data /\ offset' = 0
      BY <2>3
    <3>. QED BY <3>3, <3>4, <3>5, CutSame
  <2>9. LineKept'
    <3>1. CdcOut!Prefilled' = CdcOut!Prefilled
      BY <1>1, <2>3, PrefilledNow DEF PrefilledOf
    <3>2. CdcOut!Line' = CdcOut!Line
      BY <1>1, <2>3, <3>1 DEF CdcOut!Line
    <3>. QED BY <1>0, <1>1, <3>2, LineStays DEF Tracked
  <2>10. Accounts'
    <3>1. Due = {} /\ Due' = {now.n} /\ Numbers(queue_info)' = {} /\ Distinct(queue_info)'
      BY <1>1, <2>3 DEF Due, Numbers, Distinct
    <3>2. Numbers(queue_info) = {now.n}
      BY <2>1 DEF Mine, Numbers
    <3>3. Reports(reports)' = Reports(reports)
      BY <2>3 DEF Reports
    <3>4. Once(reports)'
      BY <1>0, <2>3 DEF Tracked, Accounts, Once
    <3>. QED BY <1>0, <1>1, <3>1, <3>2, <3>3, <3>4 DEF Tracked, Accounts
  <2>11. OnlySent'
    BY <1>0, <1>1, <2>3, SentStays DEF Tracked
  <2>12. Tracked'
    BY <2>8, <2>9, <2>10, <2>11 DEF Tracked
  <2>. QED BY <2>5, <2>6, <2>7, <2>12, Parts
<1>3. CASE ~over
  <2>1. /\ UNCHANGED <<queue_info, queue_data, head, offset>> /\ reports' = reports
        /\ (pc' = "take" /\ now' = now /\ ~NoneQueued) \/ (pc' = "idle" /\ NoneQueued)
    BY <1>1, <1>1a, <1>1b, <1>3, NothingReported DEF CdcOut!port
  <2>2. (NoneQueued' <=> NoneQueued) /\ (pc' = "take" => (Mine' <=> Mine))
    BY <2>1 DEF NoneQueued, Mine
  <2>3. ~NoneQueued /\ head # CdcOut!NoWrite => offset < head.size
    <3> SUFFICES ASSUME ~NoneQueued, head # CdcOut!NoWrite PROVE offset < head.size
      OBVIOUS
    <3>1. offset # head.size /\ offset <= head.size
      BY <1>0, <1>1a, <1>1b, <1>1c, <1>3 DEF CdcTypes, HeadIsFirst, p
    <3>2. offset \in Nat /\ head.size \in Nat
      BY <1>0, <1>1a, BytesAre DEF CdcTypes, CdcOut!CdcTransmitTypeOK, CdcAssumption
    <3>. QED BY ONLY <3>1, <3>2
  <2>4. Places'
    BY <1>1, <1>1a, <2>1, <2>2, <2>3 DEF Places, Starting
  <2>5. Endpoint'
    BY <1>0, <1>1, <1>1a, <2>1, <2>2 DEF Endpoint
  <2>6. Zlp'
    BY <1>1, <1>1a, <2>1, <2>2 DEF Zlp, Ended
  <2>7. CdcOut!Prefilled' = CdcOut!Prefilled
    BY <1>1, <2>1, PrefilledNow DEF PrefilledOf
  <2>8. Tracked'
    <3>1. UNCHANGED <<CdcOut!port, handed, writes, reports>>
      BY <1>1, <2>1 DEF CdcOut!port
    <3>. QED BY <1>0, <1>1, <2>1, <2>7, <3>1, Quiet
  <2>. QED BY <2>4, <2>5, <2>6, <2>8, Parts
<1>. QED BY <1>2, <1>3

LEMMA AtDecideZlp ==
    ASSUME CdcAssumption, CdcInv, CdcTypes', CdcOut!DecideZlp, ~traced'
    PROVE  Clean'
<1>0. CdcTypes /\ Clean /\ Tracked /\ Places /\ Endpoint /\ Zlp
  BY Parts DEF CdcInv, CdcOut!DecideZlp
<1>1. /\ pc = "zlp" /\ CdcOut!Report(TRUE)
      /\ IF CdcOut!EndsFull(to_send, active_length, CdcOut!Port)
         THEN need_zlp' = TRUE /\ late' = (state # "BUSY") ELSE UNCHANGED <<need_zlp, late>>
      /\ UNCHANGED <<queue_info, queue_data, head, offset, buffer, active_length, state, handed,
                     last, slot_ec, to_send, writes>>
  BY DEF CdcOut!DecideZlp, CdcOut!port
<1>1a. /\ now \in CdcOut!Writes /\ now.n \in 1..MaxWrites /\ reports \in Seq(ReportType)
       /\ active_length = 0 /\ NoneQueued /\ Sent(now.n) /\ ~need_zlp
       /\ last = 0 \/ last = to_send
  BY <1>0, <1>1, BytesAre
     DEF CdcTypes, CdcOut!CdcTransmitTypeOK, ReportType, CdcAssumption, Places, Zlp
<1>1b. pc' = "idle" /\ reports' = Append(reports, <<now.n, TRUE>>)
  BY <1>1, <1>1a, Reporting
<1>1c. NoneQueued' /\ (CdcOut!EndsFull(to_send, active_length, CdcOut!Port) <=> to_send % MPS = 0)
  BY <1>0, <1>1, <1>1a, PortHasOp DEF NoneQueued, CdcOut!EndsFull
<1>2. Places'
  BY <1>1, <1>1b, <1>1c DEF Places, Starting
<1>3. Endpoint'
  BY <1>0, <1>1, <1>1a, <1>1b DEF Endpoint
<1>4. Zlp'
  <2>1. CASE to_send % MPS = 0
    BY <1>1, <1>1a, <1>1b, <1>1c, <2>1 DEF Zlp
  <2>2. CASE to_send % MPS # 0
    BY <1>1, <1>1a, <1>1b, <1>1c, <2>2 DEF Zlp, Ended
  <2>. QED BY <2>1, <2>2
<1>5. CdcOut!Prefilled' = CdcOut!Prefilled
  BY <1>1, <1>1b, PrefilledNow DEF PrefilledOf
<1>6. Cut(queue_data, Queued, offset)'
  <2>1. Queued' = Queued
    BY <1>1, <1>1b DEF Queued
  <2>2. Cut(queue_data, Queued, offset)
    BY <1>0 DEF Tracked
  <2>3. queue_data' = queue_data /\ offset' = offset
    BY <1>1
  <2>. QED BY <2>1, <2>2, <2>3, CutSame
<1>7. LineKept'
  <2>1. CdcOut!Line' = CdcOut!Line
    BY <1>1, <1>5 DEF CdcOut!Line
  <2>. QED BY <1>0, <1>1, <2>1, LineStays DEF Tracked
<1>8. Accounts'
  <2>1. /\ Due = {now.n} /\ Due' = {} /\ Numbers(queue_info)' = Numbers(queue_info)
    BY <1>1, <1>1b DEF Due, Numbers
  <2>2. Distinct(queue_info)'
    BY <1>0, <1>1 DEF Tracked, Accounts, Distinct
  <2>3. /\ Once(reports) /\ now.n \notin Reports(reports) /\ now.n \notin Numbers(queue_info)
    BY <1>0, <2>1 DEF Tracked, Accounts
  <2>4. Reports(reports)' = Reports(reports) \cup {now.n} /\ Once(reports)'
    <3>1. Reports(reports') = Reports(reports) \cup {now.n} /\ Once(reports')
      BY <1>1a, <1>1b, <2>3, ReportAdded
    <3>. QED BY <3>1 DEF Reports, Once
  <2>. QED BY <1>0, <1>1, <2>1, <2>2, <2>3, <2>4 DEF Tracked, Accounts
<1>9. OnlySent'
  <2>1. (\A m : Sent(m) => SentIn(handed', m)) /\ SentIn(handed', now.n)
    BY <1>1, <1>1a DEF Sent
  <2>. QED BY <1>0, <1>1a, <1>1b, <2>1, OneReported DEF Tracked
<1>10. Tracked'
  BY <1>6, <1>7, <1>8, <1>9 DEF Tracked
<1>. QED BY <1>2, <1>3, <1>4, <1>10, Parts

LEMMA AtSendZlp ==
    ASSUME CdcAssumption, CdcInv, CdcTypes', CdcOut!SendZlp, ~traced'
    PROVE  Clean'
<1>0. CdcTypes /\ Clean /\ Tracked /\ Places /\ Endpoint /\ Zlp
  BY Parts DEF CdcInv, CdcOut!SendZlp
<1>1. /\ state = "BUSY" /\ need_zlp /\ active_length = 0 /\ NoneQueued /\ need_zlp' = FALSE
      /\ state' = "BUSY" /\ last' = 0 /\ late' = FALSE
      /\ handed' = handed \o SubSeq(buffer, 1, CdcOut!Least(0, Len(buffer)))
      /\ UNCHANGED <<queue_info, queue_data, head, offset, buffer, active_length, now, slot_ec,
                     to_send, writes, reports, pc>>
  BY <1>0, PortHasOp DEF CdcOut!SendZlp, CdcOut!Transfer, CdcOut!port, CdcOut!call
<1>1a. handed' = handed
  <2>1. buffer \in Seq(CdcOut!Byte) /\ handed \in Seq(CdcOut!Byte) /\ Len(buffer) \in Nat
    BY <1>0, LenProperties DEF CdcTypes, CdcOut!CdcTransmitTypeOK
  <2>2. CdcOut!Least(0, Len(buffer)) = 0
    BY <2>1 DEF CdcOut!Least
  <2>3. SubSeq(buffer, 1, 0) = <<>>
    BY <2>1
  <2>. QED BY <1>1, <2>1, <2>2, <2>3, ConcatEmptySeq
<1>s. /\ Sent(now.n)' <=> Sent(now.n)
      /\ (NoneQueued' <=> NoneQueued) /\ (Mine' <=> Mine)
  BY <1>1, <1>1a DEF Sent, NoneQueued, Mine
<1>1b. pc \notin {"length", "clear", "kick", "pop", "zlp"}
  BY <1>0, <1>1 DEF Zlp
<1>2. Places'
  BY <1>0, <1>1, <1>s, <1>1b DEF Places, Starting
<1>3. Endpoint'
  BY <1>0, <1>1, <1>1b DEF Endpoint
<1>4. Zlp'
  BY <1>0, <1>1, <1>s, <1>1b DEF Zlp, Ended
<1>5. CdcOut!Prefilled' = CdcOut!Prefilled
  BY <1>1, PrefilledNow DEF PrefilledOf
<1>6. Tracked'
  BY <1>0, <1>1, <1>1a, <1>5, Quiet DEF CdcOut!port
<1>. QED BY <1>2, <1>3, <1>4, <1>6, Parts

LEMMA AtContinue ==
    ASSUME CdcAssumption, CdcInv, CdcTypes', CdcOut!Continue, ~traced'
    PROVE  Clean'
<1>0. CdcTypes /\ Clean /\ Tracked /\ Places /\ Endpoint /\ Zlp
  BY Parts DEF CdcInv, CdcOut!Continue
<1> DEFINE over == CdcOut!HeadCompleted(CdcOut!Port)
<1>1. /\ state = "BUSY" /\ active_length # 0 /\ state' = "BUSY" /\ last' = active_length
      /\ late' = FALSE
      /\ handed' = handed \o SubSeq(buffer, 1, CdcOut!Least(active_length, Len(buffer)))
      /\ reports' = IF over THEN Append(reports, <<head.n, TRUE>>) ELSE reports
      /\ UNCHANGED <<pc, now, slot_ec, to_send>>
  BY DEF CdcOut!Continue, CdcOut!Transfer, CdcOut!call
<1>1a. /\ active_length = Len(buffer) /\ head # CdcOut!NoWrite
       /\ \A k \in 1..Len(buffer) : buffer[k][1] = head.n
       /\ pc \in {"idle", "info", "enter", "load", "check"}
  <2>1. pc \notin {"take", "length", "kick", "pop", "zlp", "clear"}
    BY <1>0, <1>1 DEF Places
  <2>2. pc \in {"idle", "info", "enter", "load", "check"}
    BY <1>0, <2>1 DEF CdcTypes, CdcOut!CdcTransmitTypeOK
  <2>. QED BY <1>0, <1>1, <2>2 DEF Endpoint
<1>1b. /\ buffer \in Seq(CdcOut!Byte) /\ handed \in Seq(CdcOut!Byte)
       /\ queue_data \in Seq(CdcOut!Byte) /\ queue_info \in Seq(CdcOut!Writes) /\ offset \in Nat
       /\ reports \in Seq(ReportType) /\ writes \in Nat /\ Len(buffer) \in Nat /\ 1 \in 1..Len(buffer)
       /\ head \in CdcOut!Writes
  <2>1. Len(buffer) \in Nat /\ Len(buffer) # 0
    BY <1>0, <1>1, <1>1a, LenProperties DEF CdcTypes, CdcOut!CdcTransmitTypeOK
  <2>2. 1 \in 1..Len(buffer)
    BY ONLY <2>1
  <2>. QED BY <1>0, <1>1a, <2>1, <2>2 DEF CdcTypes, CdcOut!CdcTransmitTypeOK, ReportType
<1>1c. handed' = handed \o buffer
  <2>1. CdcOut!Least(active_length, Len(buffer)) = Len(buffer)
    BY <1>1a, <1>1b DEF CdcOut!Least
  <2>2. SubSeq(buffer, 1, Len(buffer)) = buffer
    BY <1>1b, SubSeqFull
  <2>. QED BY <1>1, <2>1, <2>2
<1>1d. (\A n : Sent(n) => SentIn(handed', n)) /\ SentIn(handed', head.n)
  <2>1. \A k \in 1..Len(buffer) : SentIn(handed', buffer[k][1])
    BY <1>1b, <1>1c, SentGrows
  <2>2. \A n : Sent(n) => SentIn(handed', n)
    BY <1>1b, <1>1c, SentGrows
  <2>. QED BY <1>1a, <1>1b, <2>1, <2>2
<1>1e. queue_info # <<>> /\ head = queue_info[1]
  BY <1>0, <1>1a DEF CdcTypes, HeadIsFirst, CdcOut!Port
<1>1f. over <=> offset = head.size
  BY <1>1a DEF CdcOut!HeadCompleted, CdcOut!Port
<1>1g. head.n \in 1..MaxWrites /\ (pc = "info" => now \in CdcOut!Writes)
  BY <1>0, <1>1b, BytesAre DEF CdcAssumption, CdcTypes
<1>1h. pc \in {"load", "check"} => Mine
  <2>1. ~NoneQueued
    BY <1>1e DEF NoneQueued
  <2>. QED BY <1>0, <2>1 DEF Places
<1>2. PICK left :
        /\ PortKept(left)
        /\ left.head # CdcOut!NoWrite => left.offset < left.head.size
        /\ PoppedIs(left) \/ \E w : EchoIs(left, w)
        /\ LET took == CdcOut!Take(left)
           IN  /\ CdcOut!Becomes(took.port) /\ active_length' = Len(took.bytes)
               /\ buffer' = IF took.bytes = <<>> THEN buffer ELSE took.bytes
               /\ need_zlp' = CdcOut!EndsFull(active_length, active_length', took.port)
  BY <1>0, ContinueIs, Zenon
<1> DEFINE t == CdcOut!Take(left)
<1>2a. /\ CdcOut!Becomes(t.port) /\ active_length' = Len(t.bytes)
       /\ buffer' = IF t.bytes = <<>> THEN buffer ELSE t.bytes
       /\ need_zlp' = CdcOut!EndsFull(active_length, active_length', t.port)
  BY <1>2
<1>2b. /\ left.info \in Seq(CdcOut!Writes) /\ left.data \in Seq(CdcOut!Byte) /\ left.offset \in Nat
       /\ left.info = <<>> => left.offset = 0
  BY <1>2, PortIs DEF PortKept, HeadIsFirst
<1>2c. /\ PortKept(t.port) /\ t.port.info = left.info /\ t.bytes \in Seq(CdcOut!Byte)
       /\ t.ans \in {"OK", "PENDING"} =>
             left.info # <<>> /\ t.port.head = left.info[1] /\ t.bytes # <<>>
       /\ t.ans \in {"EMPTY", "FAILED"} => t.bytes = <<>>
       /\ left.info = <<>> => t.ans = "EMPTY" /\ t.port = left
       /\ t.port.data \in Seq(CdcOut!Byte) /\ Len(t.bytes) \in Nat
  BY <1>2, TakeKeeps, PortIs, LenProperties DEF CdcAssumption, PortKept
<1> HIDE DEF over
\* The writes whose bytes are queued, once the one that is over is popped.
<1> DEFINE rest == IF over THEN Tail(queue_info) ELSE queue_info
           ops == IF pc = "info" THEN Append(left.info, now) ELSE left.info
           popped == IF over THEN 0 ELSE offset
           kept == IF over THEN Tail(Queued) ELSE Queued
<1>3. /\ Queued \in Seq(CdcOut!Writes) /\ Queued # <<>> /\ Queued[1] = head
      /\ kept = IF pc = "info" THEN Append(rest, now) ELSE rest
      /\ rest \in Seq(CdcOut!Writes) /\ kept \in Seq(CdcOut!Writes)
  <2>1. Tail(queue_info) \in Seq(CdcOut!Writes)
    BY <1>1b, <1>1e, NumberTaken
  <2>2. pc = "info" => /\ Append(queue_info, now) \in Seq(CdcOut!Writes)
                       /\ Append(queue_info, now) # <<>>
                       /\ Append(queue_info, now)[1] = queue_info[1]
                       /\ Tail(Append(queue_info, now)) = Append(Tail(queue_info), now)
                       /\ Append(Tail(queue_info), now) \in Seq(CdcOut!Writes)
    BY <1>1b, <1>1e, <1>1g, <2>1, NumberAdded
  <2>. QED BY <1>1b, <1>1e, <2>1, <2>2 DEF Queued
<1>4. Cut(queue_data, kept, popped)
  <2>1. Cut(queue_data, Queued, offset)
    BY <1>0 DEF Tracked
  <2>2. CASE over
    <3>1. Cut(queue_data, Queued, Queued[1].size)
      BY <1>1f, <1>3, <2>1, <2>2 DEF over
    <3>2. Cut(queue_data, Tail(Queued), 0)
      BY <1>1b, <1>3, <3>1, CutPopped DEF CdcAssumption
    <3>. QED BY <2>2, <3>2
  <2>3. CASE ~over
    BY <2>1, <2>3
  <2>. QED BY <2>2, <2>3
<1>5. /\ Cut(left.data, ops, left.offset) /\ ops \in Seq(CdcOut!Writes)
      /\ left.info # <<>> => ops # <<>> /\ ops[1] = left.info[1]
  <2>1. CASE PoppedIs(left)
    <3>1. left.info = rest /\ left.data = queue_data /\ left.offset = popped
      BY <2>1 DEF PoppedIs, over
    <3>2. ops = kept
      BY <1>3, <3>1
    <3>3. Cut(left.data, ops, left.offset) /\ ops \in Seq(CdcOut!Writes)
      BY <1>3, <1>4, <3>1, <3>2
    <3>4. left.info # <<>> => ops # <<>> /\ ops[1] = left.info[1]
      BY <1>1g, <1>2b, NumberAdded
    <3>. QED BY <3>3, <3>4
  <2>2. CASE \E w : EchoIs(left, w)
    <3>1. PICK w : EchoIs(left, w)
      BY <2>2
    <3>2. /\ over /\ pc = "idle" /\ w \in CdcOut!Writes /\ left.info = Append(rest, w)
          /\ left.data = queue_data \o CdcOut!Bytes(w) /\ left.offset = 0
      BY <3>1 DEF EchoIs, over
    <3>3. ops = left.info /\ popped = 0 /\ kept = rest
      BY <1>3, <3>2
    <3> HIDE DEF rest, kept, popped, ops
    <3>4. Cut(queue_data \o CdcOut!Bytes(w), Append(rest, w), 0)
      <4>1. Cut(queue_data, rest, 0) /\ 0 \in Nat /\ (rest = <<>> => 0 = 0)
        BY <1>4, <3>3
      <4>. QED BY <1>1b, <1>3, <3>2, <4>1, CutAdded DEF CdcAssumption
    <3>. QED BY <1>2b, <3>2, <3>3, <3>4
  <2>. QED BY <1>2, <2>1, <2>2
<1> HIDE DEF ops, rest, kept, popped
\* What is filled behind the transfer.
<1>6. /\ left.data = t.bytes \o t.port.data /\ Cut(t.port.data, ops, t.port.offset)
      /\ \A k \in 1..Len(t.bytes) : t.bytes[k][1] = t.port.head.n
      /\ (t.bytes = <<>> <=> left.info = <<>>)
      /\ left.info # <<>> => t.port.head = left.info[1] /\ t.port.head # CdcOut!NoWrite
  <2>1. CASE left.info = <<>>
    <3>1. t.port = left /\ t.bytes = <<>>
      BY <1>2c, <2>1
    <3>2. left.data = <<>> \o left.data
      BY <1>2b, ConcatEmptySeq
    <3>. QED BY <1>5, <2>1, <3>1, <3>2
  <2>2. CASE left.info # <<>>
    <3>1. /\ t.ans \in {"OK", "PENDING"} /\ left.data = t.bytes \o t.port.data
          /\ \A k \in 1..Len(t.bytes) : t.bytes[k][1] = left.info[1].n
          /\ Cut(t.port.data, ops, t.port.offset)
      BY <1>2, <1>5, <2>2, TakeWorks DEF CdcAssumption
    <3>2. t.port.head = left.info[1] /\ t.bytes # <<>>
      BY <1>2c, <3>1
    <3>3. left.info[1] \in CdcOut!Writes /\ CdcOut!NoWrite \notin CdcOut!Writes
      <4>1. CdcOut!NoWrite \notin CdcOut!Writes
        BY DEF CdcOut!Writes, CdcOut!NoWrite
      <4>. QED BY <1>2b, <2>2, <4>1, NumberTaken
    <3>. QED BY <2>2, <3>1, <3>2, <3>3
  <2>. QED BY <2>1, <2>2
<1>6a. /\ queue_info' = left.info /\ queue_data' = t.port.data /\ head' = t.port.head
       /\ offset' = t.port.offset
  BY <1>2a, <1>2c DEF CdcOut!Becomes
<1>6b. need_zlp' <=> active_length % MPS = 0 /\ active_length' = 0 /\ left.info = <<>>
  BY <1>2a, <1>2c, HasOpIs DEF CdcOut!EndsFull
<1> HIDE DEF t
<1>7. /\ (active_length' = 0 <=> left.info = <<>>) /\ (NoneQueued' <=> left.info = <<>>)
      /\ active_length' # 0 => buffer' = t.bytes
  <2>1. Len(t.bytes) = 0 <=> t.bytes = <<>>
    BY <1>2c, EmptySeq
  <2>. QED BY <1>2a, <1>6, <1>6a, <2>1 DEF NoneQueued
<1>7a. pc \in {"load", "check"} => NoneQueued' \/ Mine'
  <2> SUFFICES ASSUME pc \in {"load", "check"} PROVE NoneQueued' \/ Mine'
    OBVIOUS
  <2>1. Mine /\ pc # "idle"
    BY <1>1h
  <2>2. PoppedIs(left)
    BY <1>2, <2>1 DEF EchoIs
  <2>3. left.info = queue_info \/ left.info = Tail(queue_info)
    BY <2>2 DEF PoppedIs
  <2>4. Tail(queue_info) = <<>>
    BY <2>1 DEF Mine
  <2>. QED BY <1>1, <1>6a, <2>1, <2>3, <2>4 DEF NoneQueued, Mine
<1>8. Places'
  <2>1. ~Starting'
    BY <1>1, <1>1a DEF Starting
  <2>. QED BY <1>1, <1>1a, <1>7, <1>7a, <2>1 DEF Places
<1>9. Endpoint'
  BY <1>1, <1>1a, <1>2a, <1>6, <1>6a, <1>7 DEF Endpoint
<1>10. Zlp'
  BY <1>1, <1>1a, <1>6b, <1>7 DEF Zlp, Ended
<1>11. Cut(queue_data, Queued, offset)'
  <2>1. Queued' = ops
    BY <1>1, <1>6a DEF Queued, ops
  <2>2. Cut(queue_data', ops, offset')
    BY <1>6, <1>6a
  <2>. QED BY <2>1, <2>2, CutSame
\* The line: what was filled is handed, what was queued is filled.
<1>12. CdcOut!Line = (handed \o buffer) \o queue_data
       /\ CdcOut!Line' = (handed \o buffer) \o left.data
  <2>1. CdcOut!Prefilled = buffer
    BY <1>0, <1>1, PrefilledBefore
  <2>2. CdcOut!Prefilled' = t.bytes
    <3>1. pc' \notin {"length", "kick"}
      BY <1>1, <1>1a
    <3>2. CASE active_length' = 0
      BY <1>6, <1>7, <1>8, <1>9, <3>1, <3>2, PrefilledAfter
    <3>3. CASE active_length' # 0
      BY <1>7, <1>8, <1>9, <3>3, PrefilledAfter
    <3>. QED BY <3>2, <3>3
  <2>3. CdcOut!Line' = ((handed \o buffer) \o t.bytes) \o t.port.data
    BY <1>1c, <1>6a, <2>2 DEF CdcOut!Line
  <2> DEFINE h == handed \o buffer
             b == t.bytes
             d == t.port.data
  <2>4. h \in Seq(CdcOut!Byte)
    BY <1>1b, ConcatProperties
  <2>5. b \in Seq(CdcOut!Byte) /\ d \in Seq(CdcOut!Byte)
    BY <1>2c
  <2> HIDE DEF h, b, d
  <2>6. (h \o b) \o d = h \o (b \o d)
    BY ONLY <2>4, <2>5, ConcatAssociative
  <2>7. CdcOut!Line' = h \o left.data
    BY <1>6, <2>3, <2>6 DEF h, b, d
  <2>. QED BY <2>1, <2>7 DEF h, CdcOut!Line
<1>13. LineKept'
  <2>1. CASE PoppedIs(left)
    <3>1. CdcOut!Line' = CdcOut!Line /\ writes' = writes
      BY <1>12, <2>1 DEF PoppedIs
    <3>. QED BY <1>0, <3>1, LineStays DEF Tracked
  <2>2. CASE \E w : EchoIs(left, w)
    <3>1. PICK w : EchoIs(left, w)
      BY <2>2
    <3>2. /\ w \in CdcOut!Writes /\ w.n = writes + 1 /\ writes' = writes + 1
          /\ left.data = queue_data \o CdcOut!Bytes(w)
      BY <3>1 DEF EchoIs
    <3> DEFINE h == handed \o buffer
               more == CdcOut!Bytes(w)
    <3>3. h \in Seq(CdcOut!Byte) /\ more \in Seq(CdcOut!Byte) /\ queue_data \in Seq(CdcOut!Byte)
      BY <1>1b, <3>2, ConcatProperties, BytesAre DEF CdcAssumption
    <3>4. CdcOut!Line = h \o queue_data /\ CdcOut!Line' = h \o (queue_data \o more)
      BY <1>12, <3>2
    <3> HIDE DEF h, more
    <3>5. (h \o queue_data) \o more = h \o (queue_data \o more)
      BY ONLY <3>3, ConcatAssociative
    <3>6. CdcOut!Line' = CdcOut!Line \o CdcOut!Bytes(w)
      BY <3>4, <3>5 DEF more
    <3>7. CdcOut!Line \in Seq(CdcOut!Byte) /\ Sorted(CdcOut!Line)
      BY <1>0, LineTyped DEF Tracked, LineKept
    <3>8. \A k \in 1..Len(CdcOut!Line) : CdcOut!Line[k][1] < w.n
      <4>1. ASSUME NEW k \in 1..Len(CdcOut!Line) PROVE CdcOut!Line[k][1] < writes + 1
        <5>1. CdcOut!Line[k] \in CdcOut!Byte /\ CdcOut!Line[k][1] <= writes
          BY <1>0, <3>7, ElementOfSeq DEF Tracked, LineKept
        <5>2. CdcOut!Line[k][1] \in Nat
          BY <5>1 DEF CdcOut!Byte
        <5>. QED BY ONLY <1>1b, <5>1, <5>2
      <4>. QED BY <3>2, <4>1
    <3>9. /\ Sorted(CdcOut!Line \o CdcOut!Bytes(w))
          /\ \A k \in 1..Len(CdcOut!Line \o CdcOut!Bytes(w)) :
                (CdcOut!Line \o CdcOut!Bytes(w))[k][1] <= w.n
      BY <3>2, <3>7, <3>8, LineGrows DEF CdcAssumption
    <3>10. Sorted(CdcOut!Line') /\ \A k \in 1..Len(CdcOut!Line') : CdcOut!Line'[k][1] <= writes'
      BY <3>2, <3>6, <3>9
    <3>. QED BY <3>10 DEF LineKept, Sorted
  <2>. QED BY <1>2, <2>1, <2>2
\* The write that is over is reported.
<1>14. /\ Once(reports') /\ Distinct(queue_info) /\ Distinct(rest)
       /\ Reports(reports') \cup Numbers(rest) = Reports(reports) \cup Numbers(queue_info)
       /\ Reports(reports') \cap Numbers(rest) = {}
  <2>1. /\ Once(reports) /\ Distinct(queue_info)
        /\ Reports(reports) \cap Numbers(queue_info) = {}
    BY <1>0 DEF Tracked, Accounts
  <2>2. CASE over
    <3>1. /\ Numbers(rest) = Numbers(queue_info) \ {head.n} /\ Distinct(rest)
          /\ head.n \in Numbers(queue_info)
      BY <1>1b, <1>1e, <2>1, <2>2, NumberTaken DEF rest
    <3>2. Reports(reports') = Reports(reports) \cup {head.n} /\ Once(reports')
      BY <1>1, <1>1b, <1>1g, <2>1, <2>2, <3>1, ReportAdded
    <3>. QED BY <2>1, <3>1, <3>2
  <2>3. CASE ~over
    BY <1>1, <2>1, <2>3 DEF rest
  <2>. QED BY <2>2, <2>3
<1>15. Accounts'
  <2>1. /\ Reports(reports) \cup Numbers(queue_info) \cup Due = 1..writes
        /\ (Reports(reports) \cup Numbers(queue_info)) \cap Due = {}
        /\ Due' = Due
    BY <1>0, <1>1 DEF Tracked, Accounts, Due
  <2>2. /\ Reports(reports)' = Reports(reports') /\ (Once(reports') => Once(reports)')
        /\ Numbers(queue_info)' = Numbers(left.info)
        /\ (Distinct(left.info) => Distinct(queue_info)')
    BY <1>6a DEF Reports, Once, Numbers, Distinct
  <2>3. CASE PoppedIs(left)
    <3>1. left.info = rest /\ writes' = writes
      BY <2>3 DEF PoppedIs, rest, over
    <3>. QED BY <1>14, <2>1, <2>2, <3>1 DEF Accounts
  <2>4. CASE \E w : EchoIs(left, w)
    <3>1. PICK w : EchoIs(left, w)
      BY <2>4
    <3>2. /\ pc = "idle" /\ w \in CdcOut!Writes /\ w.n = writes + 1 /\ writes' = writes + 1
          /\ left.info = Append(rest, w)
      BY <3>1 DEF EchoIs, rest, over
    <3>3. Due = {}
      BY <3>2 DEF Due
    <3>4. (1..writes) \cup {writes + 1} = 1..(writes + 1) /\ writes + 1 \notin 1..writes
      BY <1>1b
    <3>5. /\ Numbers(left.info) = Numbers(rest) \cup {writes + 1}
          /\ writes + 1 \notin Numbers(rest) => Distinct(left.info)
      BY <1>3, <1>14, <3>2, NumberAdded
    <3>. QED BY <1>14, <2>1, <2>2, <3>2, <3>3, <3>4, <3>5 DEF Accounts
  <2>. QED BY <1>2, <2>3, <2>4
<1>16. OnlySent'
  <2>1. CASE over
    <3>1. reports' = Append(reports, <<head.n, TRUE>>)
      BY <1>1, <2>1
    <3>. QED BY <1>0, <1>1b, <1>1d, <1>1g, <3>1, OneReported DEF Tracked
  <2>2. CASE ~over
    BY <1>0, <1>1, <1>1d, <2>2 DEF Tracked, OnlySent, Sent
  <2>. QED BY <2>1, <2>2
<1>17. Tracked'
  BY <1>11, <1>13, <1>15, <1>16 DEF Tracked
<1>. QED BY <1>8, <1>9, <1>10, <1>17, Parts

\* The writes of a queue, reported as dropped.
Refused(q) == [k \in DOMAIN q |-> <<q[k].n, FALSE>>]

LEMMA Flushed ==
    ASSUME CdcAssumption, NEW r \in Seq(ReportType), NEW q \in Seq(CdcOut!Writes),
           Once(r), Distinct(q), Reports(r) \cap Numbers(q) = {},
           NEW all, all = r \o Refused(q)
    PROVE  /\ Once(all) /\ Reports(all) = Reports(r) \cup Numbers(q)
           /\ \A k \in 1..Len(all) :
                 (k \in 1..Len(r) /\ all[k] = r[k]) \/ all[k][2] = FALSE
<1> DEFINE flushed == Refused(q)
           m == Len(r)
           n == Len(q)
<1>1. DOMAIN q = 1..n /\ n \in Nat /\ m \in Nat
  BY LenProperties
<1>2. flushed \in Seq(ReportType) /\ Len(flushed) = n
  <2>1. \A k \in 1..n : <<q[k].n, FALSE>> \in ReportType
    <3>1. \A k \in 1..n : q[k].n \in 1..MaxWrites
      BY ElementOfSeq, BytesAre DEF CdcAssumption
    <3>. QED BY <3>1 DEF ReportType
  <2> DEFINE item(k) == <<q[k].n, FALSE>>
  <2>2. \A k \in 1..n : item(k) \in ReportType
    BY <2>1
  <2> HIDE DEF item, n
  <2>3. [k \in 1..n |-> item(k)] \in Seq(ReportType) /\ Len([k \in 1..n |-> item(k)]) = n
    BY <1>1, <2>2
  <2>. QED BY <1>1, <2>3 DEF item, Refused
<1> DEFINE num(k) == q[k].n
<1>3. \A k \in 1..n : flushed[k] = <<num(k), FALSE>>
  BY <1>1 DEF Refused
<1>3a. all = r \o flushed /\ r \in Seq(ReportType)
  OBVIOUS
<1> HIDE DEF flushed, num
<1>3b. /\ Len(r \o flushed) = Len(r) + Len(flushed) /\ \A k \in 1..Len(r) : (r \o flushed)[k] = r[k]
       /\ \A k \in 1..Len(flushed) : (r \o flushed)[Len(r) + k] = flushed[k]
  <2>1. r \in Seq(ReportType) /\ flushed \in Seq(ReportType)
    BY <1>2, <1>3a
  <2>. QED BY ONLY <2>1, Joined
<1>4. /\ Len(all) = m + n /\ \A k \in 1..m : all[k] = r[k]
      /\ \A k \in 1..n : all[m + k] = <<num(k), FALSE>>
  BY ONLY <1>2, <1>3, <1>3a, <1>3b
<1> HIDE DEF m, n
<1>4a. /\ \A k \in 1..m : r[k][1] \in Reports(r)
       /\ \A k \in 1..n : num(k) \in Numbers(q)
  BY DEF Reports, Numbers, m, n, num
<1>5. ASSUME NEW k \in 1..Len(all)
      PROVE  k \in 1..m \/ (k - m \in 1..n /\ m + (k - m) = k)
  BY ONLY <1>1, <1>4, <1>5
<1>6. ASSUME NEW k \in 1..Len(all)
      PROVE  \/ k \in 1..m /\ all[k] = r[k] /\ all[k][1] \in Reports(r)
             \/ /\ k - m \in 1..n /\ all[k][2] = FALSE /\ all[k][1] = num(k - m)
                /\ all[k][1] \in Numbers(q)
  <2>1. CASE k \in 1..m
    BY <1>4, <1>4a, <2>1
  <2>2. CASE k - m \in 1..n /\ m + (k - m) = k
    <3>1. all[m + (k - m)] = <<num(k - m), FALSE>> /\ num(k - m) \in Numbers(q)
      BY <1>4, <1>4a, <2>2
    <3>2. all[k] = <<num(k - m), FALSE>>
      BY <2>2, <3>1
    <3>3. all[k][1] = num(k - m) /\ all[k][2] = FALSE
      BY ONLY <3>2
    <3>. QED BY <2>2, <3>1, <3>3
  <2>. QED BY <1>5, <2>1, <2>2
<1>7. Once(all)
  <2> SUFFICES ASSUME NEW j \in 1..Len(all), NEW k \in 1..Len(all), all[j][1] = all[k][1]
               PROVE  j = k
    BY DEF Once
  <2>1. CASE all[j][1] \in Reports(r)
    <3>1. j \in 1..m /\ all[j] = r[j]
      BY <1>6, <2>1
    <3>2. k \in 1..m /\ all[k] = r[k]
      BY <1>6, <2>1
    <3>. QED BY <3>1, <3>2 DEF Once, m
  <2>2. CASE all[j][1] \notin Reports(r)
    <3>1. j - m \in 1..n /\ all[j][1] = num(j - m)
      BY <1>6, <2>2
    <3>2. k - m \in 1..n /\ all[k][1] = num(k - m)
      BY <1>6, <2>2
    <3>3. j - m = k - m
      BY <3>1, <3>2 DEF Distinct, n, num
    <3>. QED BY ONLY <1>1, <3>3, j \in 1..Len(all), k \in 1..Len(all)
  <2>. QED BY <2>1, <2>2
<1>8. Reports(all) = Reports(r) \cup Numbers(q)
  <2>1. ASSUME NEW k \in 1..Len(all) PROVE all[k][1] \in Reports(r) \cup Numbers(q)
    BY <1>6
  <2>2. ASSUME NEW k \in 1..m PROVE r[k][1] \in Reports(all)
    <3>1. k \in 1..Len(all)
      BY ONLY <1>1, <1>4, <2>2
    <3>. QED BY <1>4, <3>1 DEF Reports
  <2>3. ASSUME NEW k \in 1..n PROVE num(k) \in Reports(all)
    <3>1. m + k \in 1..Len(all)
      BY ONLY <1>1, <1>4, <2>3
    <3>2. all[m + k] = <<num(k), FALSE>>
      BY <1>4
    <3>3. all[m + k][1] = num(k)
      BY ONLY <3>2
    <3>. QED BY <3>1, <3>3 DEF Reports
  <2>4. Reports(all) \subseteq Reports(r) \cup Numbers(q)
    <3> SUFFICES ASSUME NEW x \in Reports(all) PROVE x \in Reports(r) \cup Numbers(q)
      OBVIOUS
    <3>1. PICK k \in 1..Len(all) : x = all[k][1]
      BY DEF Reports
    <3>. QED BY <2>1, <3>1
  <2>5. Reports(r) \subseteq Reports(all)
    <3>1. \A x \in Reports(r) : \E k \in 1..m : x = r[k][1]
      BY DEF Reports, m
    <3>. QED BY <2>2, <3>1
  <2>6. Numbers(q) \subseteq Reports(all)
    <3>1. \A x \in Numbers(q) : \E k \in 1..n : x = num(k)
      BY DEF Numbers, n, num
    <3>. QED BY <2>3, <3>1
  <2>. QED BY <2>4, <2>5, <2>6
<1>9. \A k \in 1..Len(all) : (k \in 1..m /\ all[k] = r[k]) \/ all[k][2] = FALSE
  BY <1>6
<1>. QED BY <1>7, <1>8, <1>9 DEF m

LEMMA AtUnbindEndpoints ==
    ASSUME CdcAssumption, CdcInv, CdcTypes', CdcOut!UnbindEndpoints, ~traced'
    PROVE  Clean'
<1>0. CdcTypes /\ Clean /\ Tracked /\ Places /\ Endpoint /\ Zlp
  BY Parts DEF CdcInv, CdcOut!UnbindEndpoints
<1>1. /\ pc \notin {"info", "enter", "length", "clear", "kick"}
      /\ state' = "DISABLED" /\ active_length' = 0 /\ need_zlp' = FALSE /\ late' = FALSE
      /\ last' = 0 /\ queue_info' = <<>> /\ queue_data' = <<>> /\ head' = CdcOut!NoWrite /\ offset' = 0
      /\ reports' = reports \o [k \in DOMAIN queue_info |-> <<queue_info[k].n, FALSE>>]
      /\ UNCHANGED <<buffer, handed, pc, now, slot_ec, to_send, writes>>
  BY DEF CdcOut!UnbindEndpoints, CdcOut!Unexpected, CdcOut!Becomes, CdcOut!call
<1>1a. /\ reports \in Seq(ReportType) /\ queue_info \in Seq(CdcOut!Writes)
       /\ Once(reports) /\ Distinct(queue_info) /\ Reports(reports) \cap Numbers(queue_info) = {}
  BY <1>0 DEF CdcTypes, CdcOut!CdcTransmitTypeOK, ReportType, Tracked, Accounts
<1>1b. /\ Once(reports') /\ Reports(reports') = Reports(reports) \cup Numbers(queue_info)
       /\ \A k \in 1..Len(reports') :
             (k \in 1..Len(reports) /\ reports'[k] = reports[k]) \/ reports'[k][2] = FALSE
  <2> DEFINE all == reports \o Refused(queue_info)
  <2>1. all = reports \o Refused(queue_info) /\ reports' = all
    BY <1>1 DEF Refused
  <2> HIDE DEF all
  <2>2. /\ Once(all) /\ Reports(all) = Reports(reports) \cup Numbers(queue_info)
        /\ \A k \in 1..Len(all) :
              (k \in 1..Len(reports) /\ all[k] = reports[k]) \/ all[k][2] = FALSE
    BY ONLY <1>1a, <2>1, CdcAssumption, Flushed
  <2>. QED BY <2>1, <2>2
<1>1c. NoneQueued' /\ (Sent(now.n)' <=> Sent(now.n))
  BY <1>1 DEF NoneQueued, Sent
<1>2. Places'
  BY <1>0, <1>1, <1>1c DEF Places, Starting
<1>3. Endpoint'
  BY <1>1, <1>1c DEF Endpoint
<1>4. Zlp'
  BY <1>1 DEF Zlp, Ended
<1>5. Cut(queue_data, Queued, offset)'
  <2>1. Queued' = <<>>
    BY <1>1 DEF Queued
  <2>2. Cut(queue_data', Queued', offset')
    BY <1>1, <2>1, EmptyCut
  <2>. QED BY <2>2, CutSame
<1>6. LineKept'
  <2>1. buffer \in Seq(CdcOut!Byte) /\ handed \in Seq(CdcOut!Byte)
    BY <1>0 DEF CdcTypes, CdcOut!CdcTransmitTypeOK
  <2>2. CdcOut!Prefilled' = <<>>
    BY <1>1, <2>1 DEF CdcOut!Prefilled
  <2>3. CdcOut!Line' = (handed \o <<>>) \o <<>>
    BY <1>1, <2>2 DEF CdcOut!Line
  <2>4. CdcOut!Line' = handed
    BY <2>1, <2>3, ConcatEmptySeq
  <2>. QED BY <1>0, <1>1, <2>4, LineEnds DEF Tracked
<1>7. Accounts'
  <2>1. Due' = Due /\ Numbers(queue_info)' = {} /\ Distinct(queue_info)'
    BY <1>1 DEF Due, Numbers, Distinct
  <2>2. Once(reports)' /\ Reports(reports)' = Reports(reports) \cup Numbers(queue_info)
    BY <1>1b DEF Once, Reports
  <2>. QED BY <1>0, <1>1, <2>1, <2>2 DEF Tracked, Accounts
<1>8. OnlySent'
  BY <1>0, <1>1, <1>1b DEF Tracked, OnlySent, Sent
<1>9. Tracked'
  BY <1>5, <1>6, <1>7, <1>8 DEF Tracked
<1>. QED BY <1>2, <1>3, <1>4, <1>9, Parts

----------------------------------------------------------------------------
(* CdcTransmit: the invariant holds, and what follows from it.                *)

LEMMA CdcInit == CdcAssumption /\ CdcOut!Init => CdcInv
<1> SUFFICES ASSUME CdcAssumption, CdcOut!Init PROVE CdcInv
  OBVIOUS
<1>1. CdcTypes
  BY CdcInitTypes
<1>2. /\ queue_info = <<>> /\ queue_data = <<>> /\ head = CdcOut!NoWrite /\ offset = 0
      /\ buffer = <<>> /\ active_length = 0 /\ state = "IDLE" /\ handed = <<>> /\ last = 0
      /\ ~need_zlp /\ pc = "idle" /\ writes = 0 /\ reports = <<>>
  BY DEF CdcOut!Init
<1>3. Places /\ Endpoint /\ Zlp
  BY <1>2 DEF Places, Starting, NoneQueued, Endpoint, Zlp, Ended
<1>4. Cut(queue_data, Queued, offset)
  BY <1>2, EmptyCut DEF Queued
<1>5. LineKept
  <2>1. CdcOut!Prefilled = <<>>
    BY <1>1, <1>2, <1>3, PrefilledBefore
  <2>2. CdcOut!Line = (<<>> \o <<>>) \o <<>>
    BY <1>2, <2>1 DEF CdcOut!Line
  <2>3. <<>> \in Seq(CdcOut!Byte)
    OBVIOUS
  <2>4. CdcOut!Line = <<>>
    BY <2>2, <2>3, ConcatEmptySeq
  <2>. QED BY <2>4 DEF LineKept, Sorted
<1>6. Accounts
  BY <1>2 DEF Accounts, Once, Distinct, Reports, Numbers, Due
<1>7. OnlySent
  BY <1>2 DEF OnlySent
<1>. QED BY <1>1, <1>3, <1>4, <1>5, <1>6, <1>7 DEF CdcInv, Clean

LEMMA CdcNext ==
    CdcAssumption /\ CdcInv /\ [CdcOut!Next]_CdcOut!vars => CdcInv'
<1> SUFFICES ASSUME CdcAssumption, CdcInv, [CdcOut!Next]_CdcOut!vars PROVE CdcInv'
  OBVIOUS
<1>1. CdcTypes'
  BY CdcTypesNext DEF CdcInv
<1>2. ASSUME ~traced' PROVE Clean'
  <2>1. CASE CdcOut!Thread
    BY <1>1, <1>2, <2>1, AtWrite, AtPushInfo, AtNotInited, AtFilled, AtEnter, AtPrefill,
       AtSetActiveLength, AtLoad, AtCheck, AtClear, AtKick, AtPopCompleted, AtDecideZlp
       DEF CdcOut!Thread
  <2>2. CASE CdcOut!Interrupt
    BY <1>1, <1>2, <2>2, AtSendZlp, AtRest, AtContinue, AtUnbindEndpoints, AtBindEndpoints
       DEF CdcOut!Interrupt
  <2>3. CASE UNCHANGED CdcOut!vars
    BY <1>1, <1>2, <2>3, AtNothing
  <2>. QED BY <2>1, <2>2, <2>3 DEF CdcOut!Next
<1>. QED BY <1>1, <1>2 DEF CdcInv

LEMMA CdcInvariance == ASSUME CdcAssumption PROVE CdcOut!Spec => []CdcInv
<1>1. CdcOut!Init => CdcInv
  BY CdcInit
<1>2. CdcInv /\ [CdcOut!Next]_CdcOut!vars => CdcInv'
  BY CdcNext
<1>. QED BY <1>1, <1>2, PTL DEF CdcOut!Spec

\* What is filled or queued is of a write that is not reported.
LEMMA RestIsOpen ==
    ASSUME CdcAssumption, CdcTypes, Clean,
           NEW j \in 1..Len(CdcOut!Line), j \notin 1..Len(handed)
    PROVE  CdcOut!Line[j][1] \notin Reports(reports)
<1>0. Tracked /\ Places /\ Endpoint /\ Zlp
  BY Parts
<1>1. /\ handed \in Seq(CdcOut!Byte) /\ CdcOut!Prefilled \in Seq(CdcOut!Byte)
      /\ queue_data \in Seq(CdcOut!Byte) /\ CdcOut!Line = (handed \o CdcOut!Prefilled) \o queue_data
      /\ queue_info \in Seq(CdcOut!Writes)
  BY <1>0, LineTyped DEF CdcTypes, CdcOut!CdcTransmitTypeOK
<1> DEFINE f == CdcOut!Prefilled
           h == handed \o f
<1>2. f \in Seq(CdcOut!Byte) /\ h \in Seq(CdcOut!Byte) /\ Len(h) = Len(handed) + Len(f)
      /\ \A k \in 1..Len(f) : h[Len(handed) + k] = f[k]
  BY <1>1, Joined
<1>3. CdcOut!Line = h \o queue_data
  BY <1>1
<1> HIDE DEF h
<1>4. /\ Len(CdcOut!Line) = Len(h) + Len(queue_data)
      /\ \A k \in 1..Len(h) : CdcOut!Line[k] = h[k]
      /\ \A k \in 1..Len(queue_data) : CdcOut!Line[Len(h) + k] = queue_data[k]
  <2>1. h \in Seq(CdcOut!Byte) /\ queue_data \in Seq(CdcOut!Byte)
    BY <1>1, <1>2
  <2>2. /\ Len(h \o queue_data) = Len(h) + Len(queue_data)
        /\ \A k \in 1..Len(h) : (h \o queue_data)[k] = h[k]
        /\ \A k \in 1..Len(queue_data) : (h \o queue_data)[Len(h) + k] = queue_data[k]
    BY ONLY <2>1, Joined
  <2>. QED BY <1>3, <2>2
<1>5. Len(handed) \in Nat /\ Len(f) \in Nat /\ Len(queue_data) \in Nat
  BY <1>1, <1>2, LenProperties
<1>6. \/ j - Len(handed) \in 1..Len(f) /\ j \in 1..Len(h) /\ Len(handed) + (j - Len(handed)) = j
      \/ j - Len(h) \in 1..Len(queue_data) /\ Len(h) + (j - Len(h)) = j
  BY ONLY <1>2, <1>4, <1>5, j \in 1..Len(CdcOut!Line), j \notin 1..Len(handed)
<1>7. ASSUME NEW k \in 1..Len(f) PROVE f[k][1] \in Numbers(queue_info)
  <2>1. f = buffer /\ (pc \in {"length", "kick"} \/ active_length # 0)
    <3>1. f # <<>>
      BY <1>5, <1>7
    <3>. QED BY <1>0, <3>1, PrefilledBefore
  <2>2. f[k][1] = head.n
    BY <1>0, <1>7, <2>1 DEF Endpoint
  <2>3. queue_info # <<>> /\ head = queue_info[1]
    <3>1. CASE active_length # 0
      BY <1>0, <3>1 DEF Endpoint, CdcTypes, HeadIsFirst, CdcOut!Port
    <3>2. CASE pc \in {"length", "kick"}
      BY <1>0, <3>2 DEF Places, Starting, Mine
    <3>. QED BY <2>1, <3>1, <3>2
  <2>. QED BY <1>1, <2>2, <2>3, NumberTaken
<1>8. ASSUME NEW k \in 1..Len(queue_data) PROVE queue_data[k][1] \in Numbers(queue_info) \cup Due
  <2>1. Queued \in Seq(CdcOut!Writes) /\ Numbers(Queued) \subseteq Numbers(queue_info) \cup Due
    <3>1. CASE pc = "info"
      <4>1. now \in CdcOut!Writes
        BY <3>1 DEF CdcTypes
      <4>2. Queued = Append(queue_info, now) /\ Due = {now.n}
        BY <3>1 DEF Queued, Due
      <4>. QED BY <1>1, <4>1, <4>2, NumberAdded
    <3>2. CASE pc # "info"
      BY <1>1, <3>2 DEF Queued
    <3>. QED BY <3>1, <3>2
  <2>2. Cut(queue_data, Queued, offset)
    BY <1>0 DEF Tracked
  <2>3. queue_data[k][1] \in Numbers(Queued)
    BY <1>1, <2>1, <2>2, CutNumbers DEF CdcAssumption
  <2>. QED BY <2>1, <2>3
<1>9. CdcOut!Line[j][1] \in Numbers(queue_info) \cup Due
  <2>1. CASE j - Len(handed) \in 1..Len(f) /\ j \in 1..Len(h) /\ Len(handed) + (j - Len(handed)) = j
    <3>1. CdcOut!Line[j] = f[j - Len(handed)]
      BY <1>2, <1>4, <2>1
    <3>. QED BY <1>7, <2>1, <3>1
  <2>2. CASE j - Len(h) \in 1..Len(queue_data) /\ Len(h) + (j - Len(h)) = j
    <3>1. CdcOut!Line[j] = queue_data[j - Len(h)]
      BY <1>4, <2>2
    <3>. QED BY <1>8, <2>2, <3>1
  <2>. QED BY <1>6, <2>1, <2>2
<1>. QED BY <1>0, <1>9 DEF Tracked, Accounts

LEMMA CdcHolds ==
    ASSUME CdcAssumption, CdcInv
    PROVE  CdcOut!WritesGoOut
<1>1. CdcTypes /\ CdcOut!CdcTransmitTypeOK
  BY DEF CdcInv, CdcTypes
<1> SUFFICES ASSUME ~traced
             PROVE  CdcOut!InOrder /\ CdcOut!Whole /\ CdcOut!ReportedOnce /\ CdcOut!NothingLeft
  BY <1>1 DEF CdcOut!WritesGoOut
<1>2. Clean /\ Tracked /\ Places /\ Endpoint /\ Zlp
  BY Parts DEF CdcInv
<1>3. /\ handed \in Seq(CdcOut!Byte) /\ CdcOut!Prefilled \in Seq(CdcOut!Byte)
      /\ queue_data \in Seq(CdcOut!Byte) /\ CdcOut!Line \in Seq(CdcOut!Byte)
      /\ CdcOut!Line = (handed \o CdcOut!Prefilled) \o queue_data
      /\ reports \in Seq(ReportType) /\ queue_info \in Seq(CdcOut!Writes)
  BY <1>1, <1>2, LineTyped DEF CdcOut!CdcTransmitTypeOK, ReportType
<1>4. /\ DOMAIN CdcOut!Line = 1..Len(CdcOut!Line) /\ DOMAIN handed = 1..Len(handed)
      /\ DOMAIN reports = 1..Len(reports) /\ DOMAIN queue_info = 1..Len(queue_info)
      /\ Len(reports) \in Nat
  BY <1>3, LenProperties
<1>5. CdcOut!InOrder
  BY <1>2, <1>4 DEF Tracked, LineKept, Sorted, CdcOut!InOrder
<1>6. CdcOut!Whole
  <2> SUFFICES ASSUME NEW k \in 1..Len(reports), reports[k][2]
               PROVE  /\ {j \in DOMAIN handed : handed[j][1] = reports[k][1]}
                             = {j \in DOMAIN CdcOut!Line : CdcOut!Line[j][1] = reports[k][1]}
                      /\ \E j \in DOMAIN handed : handed[j][1] = reports[k][1]
    BY <1>4 DEF CdcOut!Whole
  <2>1. \E j \in DOMAIN handed : handed[j][1] = reports[k][1]
    BY <1>2, <1>4 DEF Tracked, OnlySent, Sent, SentIn
  <2>2. reports[k][1] \in Reports(reports)
    BY DEF Reports
  <2>3. \A j \in 1..Len(handed) : j \in 1..Len(CdcOut!Line) /\ CdcOut!Line[j] = handed[j]
    <3> DEFINE h == handed \o CdcOut!Prefilled
    <3>1. /\ h \in Seq(CdcOut!Byte) /\ Len(h) = Len(handed) + Len(CdcOut!Prefilled)
          /\ \A j \in 1..Len(handed) : h[j] = handed[j]
      BY <1>3, Joined
    <3>2. CdcOut!Line = h \o queue_data
      BY <1>3
    <3> HIDE DEF h
    <3>3. /\ Len(CdcOut!Line) = Len(h) + Len(queue_data)
          /\ \A j \in 1..Len(h) : CdcOut!Line[j] = h[j]
      <4>1. h \in Seq(CdcOut!Byte) /\ queue_data \in Seq(CdcOut!Byte)
        BY <1>3, <3>1
      <4>2. /\ Len(h \o queue_data) = Len(h) + Len(queue_data)
            /\ \A j \in 1..Len(h) : (h \o queue_data)[j] = h[j]
        BY ONLY <4>1, Joined
      <4>. QED BY <3>2, <4>2
    <3>4. Len(handed) \in Nat /\ Len(CdcOut!Prefilled) \in Nat /\ Len(queue_data) \in Nat
      BY <1>3, LenProperties
    <3>5. \A j \in 1..Len(handed) : j \in 1..Len(h) /\ j \in 1..Len(CdcOut!Line)
      BY ONLY <3>1, <3>3, <3>4
    <3>. QED BY <3>1, <3>3, <3>5
  <2>4. \A j \in 1..Len(CdcOut!Line) :
           CdcOut!Line[j][1] = reports[k][1] => j \in 1..Len(handed)
    BY <1>1, <1>2, <2>2, RestIsOpen
  <2>. QED BY <1>4, <2>1, <2>3, <2>4
<1>7. CdcOut!ReportedOnce
  <2>1. CdcOut!Reported = Reports(reports)
    BY <1>4 DEF CdcOut!Reported, Reports
  <2>2. Len(reports) = Cardinality(Reports(reports))
    <3> DEFINE n == Len(reports)
               f == [k \in 1..n |-> reports[k][1]]
    <3>1. f \in Surjection(1..n, Reports(reports)) /\ f \in Injection(1..n, Reports(reports))
      <4>1. f \in [1..n -> Reports(reports)] /\ \A r \in Reports(reports) : \E k \in 1..n : f[k] = r
        BY DEF Reports
      <4>2. \A j, k \in 1..n : f[j] = f[k] => j = k
        BY <1>2 DEF Tracked, Accounts, Once
      <4> HIDE DEF f, n
      <4>3. f \in Surjection(1..n, Reports(reports))
        BY <4>1 DEF Surjection
      <4>4. f \in Injection(1..n, Reports(reports))
        BY <4>1, <4>2 DEF Injection, IsInjective
      <4>. QED BY <4>3, <4>4
    <3>2. n \in Nat /\ IsFiniteSet(1..n) /\ Cardinality(1..n) = n
      <4>1. n \in Nat /\ 1 \in Int /\ n \in Int
        BY <1>4
      <4> HIDE DEF n
      <4>2. IsFiniteSet(1..n) /\ Cardinality(1..n) = IF 1 > n THEN 0 ELSE n - 1 + 1
        BY <4>1, FS_Interval
      <4>. QED BY <4>1, <4>2
    <3> HIDE DEF f, n
    <3>3. Cardinality(Reports(reports)) = Cardinality(1..n)
      BY <3>1, <3>2, FS_Surjection
    <3>. QED BY <3>2, <3>3 DEF n
  <2>3. {queue_info[k].n : k \in DOMAIN queue_info} = Numbers(queue_info)
    BY <1>4 DEF Numbers
  <2>4. pc = "idle" => Reports(reports) \cup Numbers(queue_info) = 1..writes
    BY <1>2 DEF Tracked, Accounts, Due
  <2>5. \A k \in DOMAIN queue_info : queue_info[k].n \notin Reports(reports)
    <3>1. Reports(reports) \cap Numbers(queue_info) = {}
      BY <1>2 DEF Tracked, Accounts
    <3>2. \A k \in DOMAIN queue_info : queue_info[k].n \in Numbers(queue_info)
      BY <1>4 DEF Numbers
    <3>. QED BY <3>1, <3>2
  <2>6. /\ Len(reports) = CdcOut!Cardinality(CdcOut!Reported)
        /\ \A k \in DOMAIN queue_info : queue_info[k].n \notin CdcOut!Reported
    <3>1. CdcOut!Cardinality(Reports(reports)) = Cardinality(Reports(reports))
      BY DEF CdcOut!Cardinality, Cardinality
    <3>. QED BY <2>1, <2>2, <2>5, <3>1
  <2>7. pc = "idle" =>
           CdcOut!Reported \cup {queue_info[k].n : k \in DOMAIN queue_info} = 1..writes
    BY <2>1, <2>3, <2>4
  <2>. QED BY <2>6, <2>7, Zenon DEF CdcOut!ReportedOnce
<1>8. CdcOut!NothingLeft
  <2> SUFFICES ASSUME pc = "idle", state = "IDLE"
               PROVE  /\ ~CdcOut!HasOp(CdcOut!Port) /\ queue_data = <<>> /\ active_length = 0
                      /\ late \/ (~need_zlp /\ (last % MPS # 0 \/ last = 0))
    BY DEF CdcOut!NothingLeft
  <2>1. active_length = 0
    BY <1>2 DEF Endpoint
  <2>2. NoneQueued
    BY <1>2, <2>1 DEF Places
  <2>3. queue_data = <<>>
    <3>1. Queued = <<>> /\ Cut(queue_data, Queued, offset)
      BY <1>2, <2>2 DEF Queued, NoneQueued, Tracked
    <3>. QED BY <1>3, <3>1, NothingCut
  <2>4. late \/ (~need_zlp /\ (last % MPS # 0 \/ last = 0))
    BY <1>2, <2>2 DEF Zlp, Ended
  <2>. QED BY <1>1, <2>1, <2>2, <2>3, <2>4, PortHasOp
<1>. QED BY <1>5, <1>6, <1>7, <1>8

\* The driver's queues, buffers and answers stay within their types.
THEOREM TransmitTypes ==
    ASSUME CdcAssumption PROVE CdcOut!Spec => []CdcOut!CdcTransmitTypeOK
<1>1. CdcInv => CdcOut!CdcTransmitTypeOK
  BY DEF CdcInv, CdcTypes
<1>. QED BY <1>1, CdcInvariance, PTL

\* For any writes, packet size and bus resets: as long as no reset meets WriteFun() where
\* it is not expected, the bytes go out in the order of the writes and once, a write that
\* is OK has all of them handed over, each write is reported once, and when the endpoint
\* rests nothing waits for it and the host has the end of the last transfer.
THEOREM CdcWritesGoOut ==
    ASSUME CdcAssumption PROVE CdcOut!Spec => []CdcOut!WritesGoOut
<1>1. CdcInv => CdcOut!WritesGoOut
  BY CdcHolds
<1>. QED BY <1>1, CdcInvariance, PTL
=============================================================================
