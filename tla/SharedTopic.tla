---------------------------- MODULE SharedTopic ----------------------------
(***************************************************************************)
(* LinuxSharedTopic: one publisher process and the subscriber processes of *)
(* a topic in shared memory.  A message is a slot of the payload pool; a   *)
(* descriptor of it is pushed into the ring of every subscriber it goes    *)
(* to, and the slot's reference count says how many have still to let go.  *)
(* A subscriber may die anywhere; the publisher finds out and takes back   *)
(* what the dead one held.                                                 *)
(*                                                                         *)
(* Every access to a shared word is a step, with these exceptions, each    *)
(* one step: the publisher reclaims a dead subscriber; it drops a          *)
(* descriptor for it (DropOld: CAS, dropped, ready count, reference count  *)
(* and recycling); a subscriber joins or leaves; and it looks at its ring  *)
(* (Look: head, tail and cell, of which the CAS checks only the head).     *)
(***************************************************************************)
EXTENDS Integers, Sequences, SequencesExt, FiniteSetsExt

CONSTANTS
    N,            \* subscriber_num
    NSlots,       \* slot_num
    Cap,          \* queue_num: descriptors of a ring, of which one stays unused
    None,
    Envs          \* the modes of the subscribers at first (None: it has not joined),
                  \* and the bounds on publishes, deaths, and joins and leaves

Subs == 1..N
Slots == 1..NSlots
Modes == {"FULL", "DROP_OLD", "BALANCE"}

ASSUME SharedAssumption ==
    /\ N \in Nat \ {0} /\ NSlots \in Nat \ {0} /\ Cap \in Nat \ {0, 1}
    /\ None \notin Slots \cup Subs /\ None \notin Modes
    /\ \A e \in Envs : /\ e.modes \in [Subs -> Modes \cup {None}]
                      /\ \A b \in {e.publishes, e.deaths, e.joins} : b \in Nat

VARIABLES
    refcount,   \* SlotControl.refcount
    payload,    \* the sequence number of the message in a slot
    free,       \* the free queue: slots whose cell is filled, or only reserved
    seq,        \* next_sequence
    ctl,        \* SubscriberControl of each index
    members, cursor,   \* balanced_members_, rr_cursor
    pub,        \* the publisher's thread
    sub,        \* each subscriber's thread
    got, joined, last, \* auxiliary: messages popped, next_sequence when it
                \* joined, and the last message popped
    orphans,    \* auxiliary: references that nobody is left to drop
    lost,       \* auxiliary: slots that died on the way to the free queue
    left        \* what is left of the bounds

aux == <<got, joined, last, orphans, lost>>
pool == <<refcount, free>>
balance == <<members, cursor>>
vars == <<pool, payload, seq, ctl, balance, pub, sub, aux, left>>

Descriptors == [slot : Slots, seq : Nat]
NoDesc == [slot |-> None, seq |-> 0]

Control(m) ==
    [active |-> TRUE, mode |-> m, head |-> 0, tail |-> 0, ring |-> [k \in 0..(Cap - 1) |-> NoDesc],
     ready |-> 0, held |-> None, dropped |-> 0]
Unused == [Control("FULL") EXCEPT !.active = FALSE]
Thread == [pc |-> "idle", alive |-> TRUE, head |-> 0, peek |-> NoDesc, desc |-> NoDesc,
           cur |-> NoDesc, gone |-> None]
Left == [Thread EXCEPT !.pc = "gone"]
Publisher == [pc |-> "idle", i |-> 0, data |-> None, count |-> 0, balanced |-> FALSE,
              base |-> 0, tries |-> 0, target |-> None]

TypeOK ==
    /\ refcount \in [Slots -> Nat] /\ payload \in [Slots -> Nat] /\ seq \in Nat
    /\ free \in Seq([slot : Slots, full : BOOLEAN]) /\ Len(free) <= NSlots
    /\ ctl \in [Subs -> [active : BOOLEAN, mode : Modes, head : 0..(Cap - 1), tail : 0..(Cap - 1),
                         ring : [0..(Cap - 1) -> Descriptors \cup {NoDesc}], ready : Int,
                         held : Slots \cup {None}, dropped : Nat]]
    /\ members \in [Subs -> Subs \cup {None}] /\ cursor \in Nat
    /\ pub \in [pc : {"idle", "scavenge", "created", "check", "drop", "select", "stamp",
                      "push", "post"},
                i : 0..(N + 2), data : Slots \cup {None}, count : 0..N, balanced : BOOLEAN,
                base : Nat, tries : 0..2, target : Subs \cup {None}]
    /\ sub \in [Subs -> [pc : {"idle", "cas", "consume", "wait", "asleep", "clear", "unref",
                               "reserve", "fill", "hold", "gone"},
                         alive : BOOLEAN, head : 0..(Cap - 1),
                         peek : Descriptors \cup {NoDesc}, desc : Descriptors \cup {NoDesc},
                         cur : Descriptors \cup {NoDesc}, gone : Slots \cup {None}]]
    /\ got \in [Subs -> Nat] /\ joined \in [Subs -> Nat] /\ last \in [Subs -> Nat]
    /\ orphans \in [Slots -> Nat] /\ lost \subseteq Slots
    /\ left \in [publishes : Nat, deaths : Nat, joins : Nat]

Init ==
    /\ \E e \in Envs : LET g == e.modes IN
          /\ ctl = [s \in Subs |-> IF g[s] = None THEN Unused ELSE Control(g[s])]
          /\ sub = [s \in Subs |-> IF g[s] = None THEN Left ELSE Thread]
          /\ left = [publishes |-> e.publishes, deaths |-> e.deaths, joins |-> e.joins]
          /\ members = [i \in Subs |->
                LET rr == {s \in Subs : g[s] = "BALANCE"}
                    at == {s \in rr : Cardinality({t \in rr : t < s}) = i - 1}
                IN  IF at = {} THEN None ELSE CHOOSE s \in at : TRUE]
    /\ refcount = [x \in Slots |-> 0] /\ payload = [x \in Slots |-> 0]
    /\ free = [x \in Slots |-> [slot |-> x, full |-> TRUE]]
    /\ seq = 0 /\ cursor = 0 /\ pub = Publisher
    /\ got = [s \in Subs |-> 0] /\ joined = got /\ last = got
    /\ orphans = [x \in Slots |-> 0] /\ lost = {}

Use(b) == left[b] > 0 /\ left' = [left EXCEPT ![b] = @ - 1]

----------------------------------------------------------------------------
(* Rings and the free queue.                                                  *)

QueueLen(s) == (ctl[s].tail - ctl[s].head) % Cap
Queued(s) == [k \in 1..QueueLen(s) |-> ctl[s].ring[(ctl[s].head + k - 1) % Cap]]
SpaceUnchecked(s) == TRUE  \* mutant: a full ring is pushed to
QueueHasSpace(s) == (ctl[s].tail + 1) % Cap # ctl[s].head
CanPopFree(f) == f # <<>> /\ Head(f).full
Filled(x) == [slot |-> x, full |-> TRUE]

\* The cells in use, and those in the rings of D that have slot x.
UsedCells(s) == {(ctl[s].head + k - 1) % Cap : k \in 1..QueueLen(s)}
InRings(D, x) ==
    {p \in D \X (0..(Cap - 1)) : p[2] \in UsedCells(p[1]) /\ ctl[p[1]].ring[p[2]].slot = x}

One(b) == IF b THEN 1 ELSE 0

----------------------------------------------------------------------------
(* ReclaimSubscriber, ScavengeDeadSubscribers.                                *)

DeadUnseen == {}  \* mutant: the dead are not looked for
Dead == {s \in Subs : ctl[s].active /\ ~sub[s].alive}

HeldNot(D, x) == {}  \* mutant: the slot a dead subscriber holds is forgotten
HeldBy(D, x) == {s \in D : ctl[s].held = x}

Refs(D, x) == Cardinality(HeldBy(D, x)) + Cardinality(InRings(D, x))
FreeAfter(D) ==
    free \o SetToSeq({Filled(x) : x \in {y \in Slots : Refs(D, y) > 0 /\ refcount[y] = Refs(D, y)}})
Reclaimed(D) ==
    [s \in Subs |->
        IF s \in D THEN [ctl[s] EXCEPT !.active = FALSE, !.mode = "FULL", !.held = None,
                                       !.head = ctl[s].tail, !.ready = @ - QueueLen(s)]
        ELSE ctl[s]]
Reclaim(D) ==
    /\ refcount' = [x \in Slots |-> refcount[x] - Refs(D, x)]
    /\ members' = [i \in Subs |-> IF members[i] \in D THEN None ELSE members[i]]

----------------------------------------------------------------------------
(* The publisher: CreateData, SharedData::Reset, PublishData.                 *)

\* CreateData has popped slot x, and the publisher fills in its payload.
Take(x) ==
    /\ pub' = [Publisher EXCEPT !.pc = "created", !.data = x]
    /\ payload' = [payload EXCEPT ![x] = seq + 1]

CreateData ==
    /\ pub.pc = "idle" /\ Use("publishes")
    /\ IF CanPopFree(free) THEN Take(Head(free).slot) /\ free' = Tail(free)
       ELSE pub' = [pub EXCEPT !.pc = "scavenge"] /\ UNCHANGED <<payload, free>>
    /\ UNCHANGED <<refcount, seq, ctl, balance, sub, aux>>

\* No slot is free: reclaim what the dead hold, and try once more.
CreateAgain ==
    /\ pub.pc = "scavenge"
    /\ ctl' = Reclaimed(Dead) /\ Reclaim(Dead)
    /\ IF CanPopFree(FreeAfter(Dead))
       THEN Take(Head(FreeAfter(Dead)).slot) /\ free' = Tail(FreeAfter(Dead))
       ELSE pub' = Publisher /\ free' = FreeAfter(Dead) /\ UNCHANGED payload
    /\ UNCHANGED <<seq, cursor, sub, aux, left>>

\* The publisher drops its handle.
Abandon ==
    /\ pub.pc = "created" /\ pub' = Publisher /\ free' = Append(free, Filled(pub.data))
    /\ UNCHANGED <<refcount, payload, seq, ctl, balance, sub, aux, left>>

Publish ==
    /\ pub.pc = "created" /\ pub' = [pub EXCEPT !.pc = "check", !.i = 1]
    /\ UNCHANGED <<pool, payload, seq, ctl, balance, sub, aux, left>>

\* The publish fails, or has nobody to go to: the handle is reset.
GiveUp(D) ==
    /\ pub' = Publisher /\ free' = Append(FreeAfter(D), Filled(pub.data))

NextIndex == pub' = [pub EXCEPT !.pc = "check", !.i = @ + 1]
Count == pub' = [pub EXCEPT !.pc = "check", !.i = @ + 1, !.count = @ + 1]

\* The first pass, one subscriber a step.
Check ==
    /\ pub.pc = "check" /\ pub.i <= N
    /\ LET c == ctl[pub.i]
       IN  IF ~c.active THEN NextIndex /\ UNCHANGED <<pool, ctl, members>>
           ELSE IF c.mode = "BALANCE"
           THEN /\ pub' = [pub EXCEPT !.i = @ + 1, !.balanced = TRUE]
                /\ UNCHANGED <<pool, ctl, members>>
           ELSE IF QueueHasSpace(pub.i) THEN Count /\ UNCHANGED <<pool, ctl, members>>
           ELSE /\ Reclaim(Dead)
                /\ IF pub.i \in Dead
                   THEN NextIndex /\ free' = FreeAfter(Dead) /\ ctl' = Reclaimed(Dead)
                   ELSE IF c.mode = "DROP_OLD"
                   THEN /\ pub' = [pub EXCEPT !.pc = "drop"]
                        /\ free' = FreeAfter(Dead) /\ ctl' = Reclaimed(Dead)
                   ELSE /\ GiveUp(Dead)
                        /\ ctl' = [Reclaimed(Dead) EXCEPT ![pub.i].dropped = @ + 1]
    /\ UNCHANGED <<payload, seq, cursor, sub, aux, left>>

Kept(c) == c.ready  \* mutant: DropDescriptor leaves the ready count
Consumed(c) == c.ready - 1

\* DropDescriptor, unless the subscriber has emptied its ring by now.
DropOld ==
    /\ pub.pc = "drop" /\ Count
    /\ IF QueueLen(pub.i) = 0 THEN UNCHANGED <<pool, ctl>>
       ELSE LET c == ctl[pub.i]
                x == c.ring[c.head].slot
            IN  /\ ctl' = [ctl EXCEPT ![pub.i].head = (@ + 1) % Cap, ![pub.i].ready = Consumed(c),
                                      ![pub.i].dropped = @ + 1]
                /\ refcount' = [refcount EXCEPT ![x] = @ - 1]
                /\ free' = IF refcount[x] = 1 THEN Append(free, Filled(x)) ELSE free
    /\ UNCHANGED <<payload, seq, balance, sub, aux, left>>

Checked ==
    /\ pub.pc = "check" /\ pub.i > N
    /\ IF pub.balanced
       THEN /\ pub' = [pub EXCEPT !.pc = "select", !.i = 0, !.tries = 1, !.base = cursor]
            /\ cursor' = cursor + 1 /\ UNCHANGED free
       ELSE /\ UNCHANGED cursor
            /\ IF pub.count = 0 THEN GiveUp({})
               ELSE pub' = [pub EXCEPT !.pc = "stamp"] /\ UNCHANGED free
    /\ UNCHANGED <<refcount, payload, seq, ctl, members, sub, aux, left>>

\* SelectBalancedSubscriber, one member a step.
Select ==
    /\ pub.pc = "select" /\ pub.i < N
    /\ LET m == members[((pub.base + pub.i) % N) + 1]
       IN  IF m \in Dead
           THEN /\ pub' = [pub EXCEPT !.i = @ + 1] /\ free' = FreeAfter({m})
                /\ ctl' = Reclaimed({m}) /\ Reclaim({m})
           ELSE /\ UNCHANGED <<pool, ctl, members>>
                /\ pub' = IF m # None /\ QueueHasSpace(m)
                          THEN [pub EXCEPT !.pc = "stamp", !.target = m, !.count = @ + 1]
                          ELSE [pub EXCEPT !.i = @ + 1]
    /\ UNCHANGED <<payload, seq, cursor, sub, aux, left>>

\* No member has room: reclaim the dead and select once more, then fail.
SelectAgain ==
    /\ pub.pc = "select" /\ pub.i = N
    /\ IF pub.tries = 1
       THEN /\ pub' = [pub EXCEPT !.i = 0, !.tries = 2, !.base = cursor] /\ cursor' = cursor + 1
            /\ free' = FreeAfter(Dead) /\ ctl' = Reclaimed(Dead) /\ Reclaim(Dead)
       ELSE GiveUp({}) /\ UNCHANGED <<refcount, ctl, balance>>
    /\ UNCHANGED <<payload, seq, sub, aux, left>>

\* The subscribers the second pass will push to.
Broadcast == {s \in Subs : ctl[s].active /\ ctl[s].mode # "BALANCE"}

Stamp ==
    /\ pub.pc = "stamp" /\ pub' = [pub EXCEPT !.pc = "push", !.i = 1]
    /\ seq' = seq + 1
    /\ refcount' = [refcount EXCEPT ![pub.data] = pub.count]
    \* a subscriber that was counted has been reclaimed since
    /\ orphans' = [orphans EXCEPT ![pub.data] =
                      @ + pub.count - Cardinality(Broadcast) - One(pub.target # None)]
    /\ UNCHANGED <<free, payload, ctl, balance, sub, got, joined, last, lost, left>>

\* The second pass, and the balanced subscriber last: PushDescriptor.
Receiver == IF pub.i <= N THEN pub.i ELSE pub.target

Push ==
    /\ pub.pc = "push"
    /\ IF pub.i > N + 1 \/ (pub.i = N + 1 /\ pub.target = None)
       THEN pub' = Publisher /\ UNCHANGED ctl
       ELSE IF pub.i <= N /\ pub.i \notin Broadcast
       THEN pub' = [pub EXCEPT !.i = @ + 1] /\ UNCHANGED ctl
       ELSE /\ pub' = [pub EXCEPT !.pc = "post"]
            /\ ctl' = [ctl EXCEPT ![Receiver].ring[ctl[Receiver].tail] =
                                      [slot |-> pub.data, seq |-> seq],
                                  ![Receiver].tail = (@ + 1) % Cap]
    /\ UNCHANGED <<pool, payload, seq, balance, sub, aux, left>>

NoWake == sub  \* mutant: PostReady does not wake
Woken == IF sub[Receiver].pc = "asleep" THEN [sub EXCEPT ![Receiver].pc = "wait"] ELSE sub

PostReady ==
    /\ pub.pc = "post" /\ pub' = [pub EXCEPT !.pc = "push", !.i = @ + 1]
    /\ ctl' = [ctl EXCEPT ![Receiver].ready = @ + 1] /\ sub' = Woken
    /\ UNCHANGED <<pool, payload, seq, balance, aux, left>>

----------------------------------------------------------------------------
(* A subscriber: Wait, Release.                                               *)

Alive(s) == ctl[s].active /\ sub[s].alive
At(s, p) == Alive(s) /\ sub[s].pc = p
Goto(s, p) == sub' = [sub EXCEPT ![s].pc = p]

\* TryPopDescriptor reads the ring; an empty one sends Wait() to sleep.  Head,
\* tail and cell are of one moment.  Read one after the other they can differ from
\* that only if the head moves in between, and then the CAS fails, or if the
\* publisher turns the ring: it may look empty then.
Look(s) ==
    /\ Alive(s)
    /\ IF QueueLen(s) = 0 THEN Goto(s, "wait")
       ELSE sub' = [sub EXCEPT ![s].pc = "cas", ![s].head = ctl[s].head,
                               ![s].peek = ctl[s].ring[ctl[s].head]]

Wait(s) ==
    /\ At(s, "idle") /\ Look(s)
    /\ UNCHANGED <<pool, payload, seq, ctl, balance, pub, aux, left>>

\* ... and takes what it read if the head is still where it was.
PopBlind(s) == TRUE  \* mutant: the head is stored, not compared
PopExpected(s) == ctl[s].head = sub[s].head

Pop(s) ==
    /\ At(s, "cas")
    /\ IF PopExpected(s)
       THEN /\ sub' = [sub EXCEPT ![s].pc = "consume", ![s].desc = sub[s].peek, ![s].peek = NoDesc,
                                  ![s].head = 0]
            /\ ctl' = [ctl EXCEPT ![s].head = (@ + 1) % Cap]
            /\ got' = [got EXCEPT ![s] = @ + 1] /\ last' = [last EXCEPT ![s] = sub[s].peek.seq]
       ELSE Look(s) /\ UNCHANGED <<ctl, got, last>>
    /\ UNCHANGED <<pool, payload, seq, balance, pub, joined, orphans, lost, left>>

ConsumeReady(s) ==
    /\ At(s, "consume") /\ ctl' = [ctl EXCEPT ![s].ready = @ - 1]
    /\ Goto(s, IF sub[s].cur = NoDesc THEN "hold" ELSE "clear")
    /\ UNCHANGED <<pool, payload, seq, balance, pub, aux, left>>

\* WaitReady: a count that is not zero, or the futex, whose compare is atomic.
WaitReady(s) ==
    /\ At(s, "wait")
    /\ IF ctl[s].ready # 0 THEN Look(s) ELSE Goto(s, "asleep")
    /\ UNCHANGED <<pool, payload, seq, ctl, balance, pub, aux, left>>

Timeout(s) ==
    /\ Alive(s) /\ sub[s].pc \in {"wait", "asleep"} /\ Goto(s, "idle")
    /\ UNCHANGED <<pool, payload, seq, ctl, balance, pub, aux, left>>

Release(s) ==
    /\ At(s, "idle") /\ sub[s].cur # NoDesc /\ Goto(s, "clear")
    /\ UNCHANGED <<pool, payload, seq, ctl, balance, pub, aux, left>>

ClearHeldSlot(s) ==
    /\ At(s, "clear") /\ Goto(s, "unref")
    /\ ctl' = IF ctl[s].held = sub[s].cur.slot THEN [ctl EXCEPT ![s].held = None] ELSE ctl
    /\ UNCHANGED <<pool, payload, seq, balance, pub, aux, left>>

Resume(s) == IF sub[s].desc = NoDesc THEN "idle" ELSE "hold"

LastRef(x) == refcount[x] = 1

ReleaseSlot(s) ==
    /\ At(s, "unref")
    /\ LET x == sub[s].cur.slot
       IN  /\ refcount' = [refcount EXCEPT ![x] = @ - 1]
           /\ sub' = [sub EXCEPT ![s].cur = NoDesc,
                                 ![s].gone = IF LastRef(x) THEN x ELSE None,
                                 ![s].pc = IF LastRef(x) THEN "reserve" ELSE Resume(s)]
    /\ UNCHANGED <<free, payload, seq, ctl, balance, pub, aux, left>>

\* RecycleSlot: take a cell of the free queue, then fill it.
Reserve(s) ==
    /\ At(s, "reserve") /\ Goto(s, "fill")
    /\ free' = Append(free, [slot |-> sub[s].gone, full |-> FALSE])
    /\ UNCHANGED <<refcount, payload, seq, ctl, balance, pub, aux, left>>

Fill(s) ==
    /\ At(s, "fill")
    /\ sub' = [sub EXCEPT ![s].pc = Resume(s), ![s].gone = None]
    /\ free' = [k \in DOMAIN free |->
                  IF free[k].slot = sub[s].gone THEN Filled(sub[s].gone) ELSE free[k]]
    /\ UNCHANGED <<refcount, payload, seq, ctl, balance, pub, aux, left>>

HoldSlot(s) ==
    /\ At(s, "hold")
    /\ ctl' = [ctl EXCEPT ![s].held = sub[s].desc.slot]
    /\ sub' = [sub EXCEPT ![s].pc = "idle", ![s].cur = sub[s].desc, ![s].desc = NoDesc]
    /\ UNCHANGED <<pool, payload, seq, balance, pub, aux, left>>

----------------------------------------------------------------------------
(* Leaving, joining and dying.  Subscribers join and leave between publishes. *)

Leave(s) ==
    /\ At(s, "idle") /\ pub.pc = "idle" /\ Use("joins")
    /\ ctl' = Reclaimed({s}) /\ Reclaim({s}) /\ free' = FreeAfter({s})
    /\ sub' = [sub EXCEPT ![s] = Left]
    /\ UNCHANGED <<payload, seq, cursor, pub, aux>>

Attach(m) ==
    /\ pub.pc = "idle" /\ Use("joins")
    /\ \E s \in Subs :
          /\ ~ctl[s].active /\ \A t \in Subs : t < s => ctl[t].active
          /\ ctl' = [ctl EXCEPT ![s] = Control(m)] /\ sub' = [sub EXCEPT ![s] = Thread]
          /\ members' = IF m = "BALANCE"
                        THEN [members EXCEPT ![Min({i \in Subs : members[i] = None})] = s]
                        ELSE members
          /\ got' = [got EXCEPT ![s] = 0] /\ joined' = [joined EXCEPT ![s] = seq]
          /\ last' = [last EXCEPT ![s] = seq]
    /\ UNCHANGED <<pool, payload, seq, cursor, pub, orphans, lost>>

\* References in a dead thread's hands: a descriptor it had popped and not yet
\* noted in held_slot, and a slot it had cleared there and not yet dropped.
InHand(s, x) ==
    One(sub[s].desc.slot = x) + One(sub[s].pc = "unref" /\ sub[s].cur.slot = x)

Die(s) ==
    /\ Alive(s) /\ Use("deaths")
    /\ sub' = [sub EXCEPT ![s] = [Left EXCEPT !.alive = FALSE]]
    /\ orphans' = [x \in Slots |-> orphans[x] + InHand(s, x)]
    /\ lost' = IF sub[s].pc \in {"reserve", "fill"} THEN lost \cup {sub[s].gone} ELSE lost
    /\ UNCHANGED <<pool, payload, seq, ctl, balance, pub, got, joined, last>>

----------------------------------------------------------------------------
PublisherStep ==
    \/ CreateAgain \/ Check \/ DropOld \/ Checked \/ Select \/ SelectAgain
    \/ Stamp \/ Push \/ PostReady
SubscriberStep(s) ==
    \/ Pop(s) \/ ConsumeReady(s) \/ WaitReady(s) \/ ClearHeldSlot(s) \/ ReleaseSlot(s)
    \/ Reserve(s) \/ Fill(s) \/ HoldSlot(s)

Next ==
    \/ PublisherStep \/ CreateData \/ Publish \/ Abandon
    \/ \E s \in Subs : \/ SubscriberStep(s) \/ Wait(s) \/ Timeout(s) \/ Release(s)
                       \/ Leave(s) \/ Die(s)
    \/ \E m \in Modes : Attach(m)

\* Processes run; whether they call anything is up to them.
Spec == Init /\ [][Next]_vars
Fairness == WF_vars(PublisherStep) /\ \A s \in Subs : WF_vars(SubscriberStep(s))
FairSpec == Spec /\ Fairness

----------------------------------------------------------------------------
(* Properties.                                                                *)

\* The publisher has still to push to s.
Pending(s) ==
    /\ pub.pc \in {"push", "post"}
    /\ LET from == IF pub.pc = "push" THEN pub.i ELSE pub.i + 1
       IN  (s \in Broadcast /\ s >= from) \/ (s = pub.target /\ from <= N + 1)

\* Who has slot x: a push to come, a ring, a live subscriber as the message it has or as
\* the one it is about to take, and a dead one's control block.
Arriving(x) == {s \in Subs : pub.data = x /\ Pending(s)}
Current(x) == {s \in Subs : Alive(s) /\ sub[s].cur.slot = x}
Handed(x) == {s \in Subs : Alive(s) /\ sub[s].desc.slot = x}
HeldByDead(x) == {s \in Subs : ctl[s].active /\ ~sub[s].alive /\ ctl[s].held = x}

References(x) ==
    orphans[x] + Cardinality(Arriving(x)) + Cardinality(InRings({s \in Subs : ctl[s].active}, x))
    + Cardinality(Current(x)) + Cardinality(Handed(x)) + Cardinality(HeldByDead(x))

RefsAccounted == \A x \in Slots : refcount[x] = References(x)

SlotInOnePlace ==
    \A x \in Slots :
        Cardinality({k \in DOMAIN free : free[k].slot = x})
        + One(pub.data = x /\ pub.pc \in {"created", "check", "drop", "select", "stamp"})
        + One(refcount[x] > 0)
        + Cardinality({s \in Subs : sub[s].pc = "reserve" /\ sub[s].gone = x})
        + One(x \in lost /\ \A k \in DOMAIN free : free[k].slot # x) = 1

\* The reference count is the number of rings, hands and pushes to come that
\* have the slot: none is recycled early, and none is leaked but where a
\* subscriber dies with a slot in its hands.  And a slot is in one place: in
\* the free queue once, with the publisher, in use, on its way back, or lost
\* with the subscriber that was recycling it.
SlotsAccounted == TypeOK /\ RefsAccounted /\ SlotInOnePlace

\* What a subscriber holds is the message it was handed, for as long as it
\* holds it.
HeldDataStable ==
    \A s \in Subs : \A d \in {sub[s].cur, sub[s].desc} :
        Alive(s) /\ d # NoDesc => payload[d.slot] = d.seq

\* A subscriber that is not balanced gets every message published since it
\* joined, in order, but for those its dropped count tells of.
NothingLost ==
    \A s \in Broadcast :
        /\ got[s] + QueueLen(s) + One(Pending(s))
           + (IF ctl[s].mode = "DROP_OLD" THEN ctl[s].dropped ELSE 0) = seq - joined[s]
        /\ \A k \in 1..QueueLen(s) :
              Queued(s)[k].seq > IF k = 1 THEN last[s] ELSE Queued(s)[k - 1].seq

\* The ready count is the number of descriptors, but for a push that is not
\* posted yet (which takes it below zero) and a pop that is not consumed.
ReadyCountsQueue ==
    \A s \in Subs :
        Alive(s) => ctl[s].ready = QueueLen(s) + One(sub[s].pc = "consume")
                                   - One(pub.pc = "post" /\ Receiver = s)

\* CreateData fails only if every slot is with somebody alive, or lost.
FullIsTrue ==
    [][pub.pc = "scavenge" /\ pub'.pc = "idle" =>
          \A x \in Slots :
             \/ orphans[x] > 0 \/ lost # {}
             \/ \E s \in Subs : /\ Alive(s)
                                /\ \/ x \in {sub[s].cur.slot, sub[s].desc.slot, sub[s].gone}
                                   \/ InRings({s}, x) # {} \/ sub[s].pc = "fill"]_vars

\* A subscriber waiting in Wait() gets what is in its ring.
WaiterServed ==
    \A s \in Subs :
        At(s, "asleep") /\ QueueLen(s) > 0 ~> ~At(s, "asleep")

\* What the ASSERT of ReleaseSlot says.
ReleaseExpected == \A s \in Subs : At(s, "unref") => refcount[sub[s].cur.slot] > 0
=============================================================================
