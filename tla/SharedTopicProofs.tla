------------------------- MODULE SharedTopicProofs -------------------------
(***************************************************************************)
(* Proofs about SharedTopic, for any number of subscribers, slots and      *)
(* descriptors of a ring, any modes, deaths, and joins and leaves between  *)
(* publishes: the ready count is the length of the ring; every subscriber  *)
(* that is not balanced gets every message but those that its dropped      *)
(* count tells of; a reference count is the number of those who have the   *)
(* slot, which is in one place; and what a subscriber holds is what it was *)
(* handed.  One thing is assumed: no compare-and-swap of a subscriber      *)
(* falls for a publisher that has turned its ring once (NoTurn).  Where    *)
(* nobody asks for DROP_OLD, nobody can turn a ring.                       *)
(*                                                                         *)
(* IInv is about the rings, the members and the room the publisher found;  *)
(* HInv, which needs it, about where the slots are.                        *)
(***************************************************************************)
EXTENDS SharedTopic, FiniteSetTheorems, SequenceTheorems, TLAPS

----------------------------------------------------------------------------
(* The inductive invariant.                                                   *)

\* The cells of a ring: how many are used, the next one, and the k-th used.
Used(h, t) == (t - h) % Cap
After(h) == (h + 1) % Cap
Cell(h, k) == (h + k - 1) % Cap

\* No compare-and-swap of a subscriber falls for a turn of its ring: if the head is where
\* it was, then so is what was read there.
NoTurn ==
    \A s \in Subs :
        At(s, "cas") /\ ctl[s].mode = "DROP_OLD" /\ PopExpected(s) =>
            QueueLen(s) > 0 /\ sub[s].peek = ctl[s].ring[ctl[s].head]

\* No subscriber has asked for DROP_OLD, so that only a subscriber moves its head.
NoDropOld == \A s \in Subs : ctl[s].mode # "DROP_OLD"

\* Types, without the reference counts, which are sums.
Cells == [slot : Slots \cup {None}, seq : Nat]
FreeCells == [slot : Slots \cup {None}, full : BOOLEAN]
Controls == [active : BOOLEAN, mode : Modes, head : 0..(Cap - 1), tail : 0..(Cap - 1),
             ring : [0..(Cap - 1) -> Cells], ready : Int, held : Slots \cup {None}, dropped : Nat]
Threads == [pc : {"idle", "cas", "consume", "wait", "asleep", "clear", "unref", "reserve", "fill",
                  "hold", "gone"},
            alive : BOOLEAN, head : 0..(Cap - 1), peek : Cells, desc : Cells, cur : Cells,
            gone : Slots \cup {None}]
Publishers == [pc : {"idle", "scavenge", "created", "check", "drop", "select", "stamp", "push",
                     "post"},
               i : Nat, data : Slots \cup {None}, count : Nat, balanced : BOOLEAN,
               base : Nat, tries : Nat, target : Subs \cup {None}]
RingTypes ==
    /\ free \in Seq(FreeCells) /\ seq \in Nat /\ cursor \in Nat
    /\ ctl \in [Subs -> Controls] /\ sub \in [Subs -> Threads] /\ pub \in Publishers
    /\ members \in [Subs -> Subs \cup {None}]
    /\ got \in [Subs -> Nat] /\ joined \in [Subs -> Nat] /\ last \in [Subs -> Nat]

\* Where the publisher is in the list, and that nobody who is dead runs.
Places ==
    /\ pub.pc \in {"check", "push"} => pub.i >= 1
    /\ pub.pc = "post" => pub.i \in 1..(N + 1) /\ Receiver \in Subs
    /\ pub.target # None => pub.pc \in {"stamp", "push", "post"}
    /\ \A s \in Subs : ~sub[s].alive \/ ~ctl[s].active => sub[s].pc = "gone"

\* The subscriber whose oldest message is about to be dropped has asked for it.
Dropping == pub.pc = "drop" => pub.i \in Broadcast /\ ctl[pub.i].mode = "DROP_OLD"

\* Members, and the one that is chosen, are balanced subscribers.
Balanced(s) == ctl[s].active /\ ctl[s].mode = "BALANCE"
Members ==
    /\ \A i \in Subs : members[i] # None => Balanced(members[i])
    /\ pub.target # None => Balanced(pub.target)

\* A subscriber that the publisher is going to push to has room.
Looked(s) ==
    \/ /\ s \in Broadcast
       /\ \/ pub.pc \in {"check", "drop"} /\ s < pub.i
          \/ pub.pc \in {"select", "stamp"}
          \/ Pending(s)
    \/ s = pub.target /\ (pub.pc = "stamp" \/ Pending(s))
RoomKept == \A s \in Subs : Looked(s) => QueueHasSpace(s)

\* What TryPopDescriptor has read is still at the head of the ring, unless the publisher
\* drops what is there.
PeekHolds ==
    \A s \in Subs : sub[s].pc = "cas" /\ ctl[s].mode # "DROP_OLD" =>
        sub[s].head = ctl[s].head /\ sub[s].peek = ctl[s].ring[ctl[s].head] /\ QueueLen(s) > 0

\* The ring of a subscriber has the newest messages without a gap, all of them newer than
\* the last one it popped; the others it has popped, or the publisher has dropped.
Entry(s, k) == ctl[s].ring[Cell(ctl[s].head, k)].seq
Dropped(s) == IF ctl[s].mode = "DROP_OLD" THEN ctl[s].dropped ELSE 0
Coming(s) == One(Pending(s))
InRing(s) ==
    /\ got[s] + QueueLen(s) + Coming(s) + Dropped(s) = seq - joined[s]
    /\ last[s] + QueueLen(s) + Coming(s) <= seq
    /\ \A k \in 1..QueueLen(s) : Entry(s, k) = seq + k - QueueLen(s) - Coming(s)

IInv ==
    /\ RingTypes /\ Places /\ Dropping /\ Members /\ RoomKept /\ PeekHolds
    /\ \A s \in Broadcast : InRing(s)
    /\ ReadyCountsQueue

----------------------------------------------------------------------------
(* The arithmetic of a ring.                                                  *)

\* The three ranges in which the code takes a remainder.
LEMMA Wrap ==
    ASSUME NEW i \in Int
    PROVE  /\ 0 <= i /\ i < Cap => i % Cap = i
           /\ Cap <= i /\ i < Cap + Cap => i % Cap = i - Cap
           /\ 0 - Cap <= i /\ i < 0 => i % Cap = i + Cap
<1>0. Cap \in Nat /\ Cap > 1
  BY SharedAssumption
<1>1. 0 <= i /\ i < Cap => i % Cap = i
  BY <1>0
<1>2. Cap <= i /\ i < Cap + Cap => i % Cap = i - Cap
  BY <1>0
<1>3. 0 - Cap <= i /\ i < 0 => i % Cap = i + Cap
  BY <1>0
<1>. QED BY <1>1, <1>2, <1>3

\* The same without %.
Ahead(h, t) == IF h <= t THEN t - h ELSE t - h + Cap
Plus(h, k) == IF h + k < Cap THEN h + k ELSE h + k - Cap

\* The length of a ring and its cells, without a remainder.
LEMMA WrapForms ==
    ASSUME NEW h \in 0..(Cap - 1), NEW t \in 0..(Cap - 1)
    PROVE  /\ Cap \in Nat /\ Cap > 1
           /\ (t - h) % Cap = Ahead(h, t)
           /\ \A k \in 0..Cap : (h + k) % Cap = Plus(h, k)
<1>0. Cap \in Nat /\ Cap > 1
  BY SharedAssumption
<1>1. (t - h) % Cap = Ahead(h, t)
  <2>1. t - h \in Int /\ 0 - Cap <= t - h /\ t - h < Cap
    BY <1>0
  <2>. QED BY <1>0, <2>1, Wrap DEF Ahead
<1>2. ASSUME NEW k \in 0..Cap PROVE (h + k) % Cap = Plus(h, k)
  <2>1. h + k \in Int /\ 0 <= h + k /\ h + k < Cap + Cap
    BY <1>0
  <2>. QED BY <1>0, <2>1, Wrap DEF Plus
<1>. QED BY <1>0, <1>1, <1>2

\* What a push and a pop do to the length and the cells of a ring with head h and tail t.
LEMMA RingFacts ==
    ASSUME NEW h \in 0..(Cap - 1), NEW t \in 0..(Cap - 1)
    PROVE  /\ Used(h, t) \in 0..(Cap - 1) /\ (Used(h, t) = 0 <=> h = t)
           /\ After(h) \in 0..(Cap - 1) /\ After(t) \in 0..(Cap - 1)
           /\ Cell(h, 1) = h
           /\ \A k \in 1..Used(h, t) : Cell(h, k) \in 0..(Cap - 1) /\ Cell(h, k) # t
           /\ Cell(h, Used(h, t) + 1) = t
           /\ After(t) # h => Used(h, After(t)) = Used(h, t) + 1
           /\ h # t => /\ Used(After(h), t) = Used(h, t) - 1
                       /\ After(t) # h => After(t) # After(h)
                       /\ \A k \in 1..(Used(h, t) - 1) : Cell(After(h), k) = Cell(h, k + 1)
<1> DEFINE n == (t - h) % Cap
           t1 == (t + 1) % Cap
           h1 == (h + 1) % Cap
<1>0. Cap \in Nat /\ Cap > 1
  BY SharedAssumption
<1>1. n = Ahead(h, t) /\ t1 = Plus(t, 1) /\ h1 = Plus(h, 1)
  BY <1>0, WrapForms
<1>2. n \in 0..(Cap - 1) /\ (n = 0 <=> h = t) /\ h1 \in 0..(Cap - 1) /\ t1 \in 0..(Cap - 1)
  BY <1>0, <1>1 DEF Ahead, Plus
<1> HIDE DEF n, t1, h1
<1>3. \A k \in 1..(n + 1) : (h + k - 1) % Cap = Plus(h, k - 1)
  <2> TAKE k \in 1..(n + 1)
  <2>1. k - 1 \in 0..Cap /\ h + k - 1 = h + (k - 1)
    BY <1>0, <1>2
  <2>. QED BY <2>1, WrapForms
<1>4. \A k \in 1..n : Plus(h, k - 1) \in 0..(Cap - 1) /\ Plus(h, k - 1) # t
  BY <1>0, <1>1, <1>2 DEF Ahead, Plus
<1>5. Plus(h, (n + 1) - 1) = t
  BY <1>0, <1>1, <1>2 DEF Ahead, Plus
<1>6. t1 # h => (t1 - h) % Cap = n + 1
  <2>1. (t1 - h) % Cap = Ahead(h, t1)
    BY <1>2, WrapForms
  <2>. QED BY <1>0, <1>1, <2>1 DEF Ahead, Plus
<1>7. n > 0 => (t - h1) % Cap = n - 1
  <2>1. (t - h1) % Cap = Ahead(h1, t)
    BY <1>2, WrapForms
  <2>. QED BY <1>0, <1>1, <2>1 DEF Ahead, Plus
<1>8. n > 0 => \A k \in 1..(n - 1) : (h1 + k - 1) % Cap = (h + (k + 1) - 1) % Cap
  <2> SUFFICES ASSUME n > 0, NEW k \in 1..(n - 1)
               PROVE  (h1 + k - 1) % Cap = (h + (k + 1) - 1) % Cap
    OBVIOUS
  <2>1. k - 1 \in 0..Cap /\ h1 + k - 1 = h1 + (k - 1) /\ k + 1 \in 1..(n + 1)
    BY <1>0, <1>2
  <2>2. (h1 + k - 1) % Cap = Plus(h1, k - 1) /\ (h + (k + 1) - 1) % Cap = Plus(h, (k + 1) - 1)
    BY <1>2, <1>3, <2>1, WrapForms
  <2>. QED BY <1>0, <1>1, <1>2, <2>2 DEF Ahead, Plus
<1>9. h # t /\ t1 # h => t1 # h1
  BY <1>0, <1>1 DEF Plus
<1>10. Cell(h, 1) = h
  BY <1>0, Wrap DEF Cell
<1>11. \A k \in 1..n : Cell(h, k) \in 0..(Cap - 1) /\ Cell(h, k) # t
  <2> TAKE k \in 1..n
  <2>1. k \in 1..(n + 1)
    BY <1>2
  <2>. QED BY <2>1, <1>3, <1>4 DEF Cell
<1>12. Cell(h, n + 1) = t
  BY <1>2, <1>3, <1>5 DEF Cell
<1>. QED BY <1>2, <1>6, <1>7, <1>8, <1>9, <1>10, <1>11, <1>12 DEF n, t1, h1, Used, After, Cell

\* A pop moves the head, so the tail does not run into it.
LEMMA PopMovesHead ==
    ASSUME NEW h \in 0..(Cap - 1), NEW t \in 0..(Cap - 1)
    PROVE  h # t => After(t) # After(h)
<1>1. Cap \in Nat /\ Cap > 1 /\ 1 \in 0..Cap
  BY SharedAssumption
<1>2. After(t) = Plus(t, 1) /\ After(h) = Plus(h, 1)
  BY <1>1, WrapForms DEF After
<1>. QED BY <1>1, <1>2 DEF Plus

\* The cells that are left are the next ones.
LEMMA PopMovesCells ==
    ASSUME NEW h \in 0..(Cap - 1), NEW t \in 0..(Cap - 1)
    PROVE  h # t => \A k \in 1..(Used(h, t) - 1) : Cell(After(h), k) = Cell(h, k + 1)
<1> SUFFICES ASSUME NEW k \in 1..(Used(h, t) - 1)
             PROVE  Cell(After(h), k) = Cell(h, k + 1)
  OBVIOUS
<1>1. /\ Cap \in Nat /\ Cap > 1 /\ 1 \in 0..Cap /\ k - 1 \in 0..Cap /\ k \in 0..Cap
      /\ k \in Nat /\ h \in Nat
  <2>1. Used(h, t) = Ahead(h, t) /\ Cap \in Nat /\ Cap > 1
    BY WrapForms DEF Used
  <2>. QED BY <2>1 DEF Ahead
<1>2. After(h) = Plus(h, 1) /\ After(h) \in 0..(Cap - 1)
  BY <1>1, WrapForms DEF After, Plus
<1>3. Cell(After(h), k) = Plus(After(h), k - 1)
  <2>1. After(h) + k - 1 = After(h) + (k - 1)
    BY <1>1, <1>2
  <2>. QED BY <1>1, <1>2, <2>1, WrapForms DEF Cell
<1>4. Cell(h, k + 1) = Plus(h, k)
  <2>1. h + (k + 1) - 1 = h + k
    BY <1>1
  <2>. QED BY <1>1, <2>1, WrapForms DEF Cell
<1>. QED BY <1>1, <1>2, <1>3, <1>4 DEF Plus

\* What a pop does to a ring.
LEMMA PopFacts ==
    ASSUME NEW h \in 0..(Cap - 1), NEW t \in 0..(Cap - 1)
    PROVE  /\ (Used(h, t) = 0 <=> h = t) /\ After(h) \in 0..(Cap - 1) /\ Cell(h, 1) = h
           /\ h # t => /\ Used(After(h), t) = Used(h, t) - 1
                       /\ After(t) # After(h)
                       /\ \A k \in 1..(Used(h, t) - 1) : Cell(After(h), k) = Cell(h, k + 1)
<1>1. (Used(h, t) = 0 <=> h = t) /\ After(h) \in 0..(Cap - 1) /\ Cell(h, 1) = h
  BY ZenonT(60), RingFacts
<1>2. h # t => Used(After(h), t) = Used(h, t) - 1
  BY ZenonT(60), RingFacts
<1>3. h # t => After(t) # After(h)
  BY PopMovesHead
<1>4. h # t => \A k \in 1..(Used(h, t) - 1) : Cell(After(h), k) = Cell(h, k + 1)
  BY PopMovesCells
<1>. QED BY ZenonT(60), <1>1, <1>2, <1>3, <1>4

----------------------------------------------------------------------------
(* What reclaiming the dead does.                                             *)

\* A finite set, in some order, is a sequence of its elements.
LEMMA SetToSeqType ==
    ASSUME NEW S, IsFiniteSet(S)
    PROVE  SetToSeq(S) \in Seq(S)
<1>1. Cardinality(S) \in Nat /\ \E f : ExistsBijection(1..Cardinality(S), S)
  BY FS_CardinalityType
<1>2. PICK f \in Bijection(1..Cardinality(S), S) : TRUE
  BY <1>1 DEF ExistsBijection
<1>3. f \in [1..Cardinality(S) -> S] /\ IsInjective(f)
  BY <1>2 DEF Bijection, Injection, IsInjective
<1>4. SetToSeq(S) \in [1..Cardinality(S) -> S]
  BY <1>3 DEF SetToSeq
<1>. QED BY <1>1, <1>4, SeqDef

\* Reclaiming appends cells to the free queue.
LEMMA FreeAfterType ==
    ASSUME free \in Seq(FreeCells), NEW D
    PROVE  FreeAfter(D) \in Seq(FreeCells)
<1> DEFINE T == {y \in Slots : Refs(D, y) > 0 /\ refcount[y] = Refs(D, y)}
           F == {Filled(x) : x \in T}
<1>1. IsFiniteSet(Slots)
  BY SharedAssumption, FS_Interval DEF Slots
<1>2. IsFiniteSet(T)
  BY <1>1, FS_Subset
<1>3. IsFiniteSet(F)
  <2>1. [x \in T |-> Filled(x)] \in Surjection(T, F)
    BY DEF Surjection
  <2>. QED BY <1>2, <2>1, FS_Surjection DEF ExistsSurjection
<1>4. SetToSeq(F) \in Seq(F)
  BY <1>3, SetToSeqType
<1>5. F \subseteq FreeCells
  <2> SUFFICES ASSUME NEW x \in T PROVE Filled(x) \in FreeCells
    OBVIOUS
  <2>. QED BY DEF Filled, FreeCells
<1>6. SetToSeq(F) \in Seq(FreeCells)
  BY <1>4, <1>5
<1>. QED BY <1>6, ConcatProperties DEF FreeAfter

\* Heads, tails and lengths are numbers.
LEMMA LenType ==
    ASSUME ctl \in [Subs -> Controls], NEW s \in Subs
    PROVE  /\ ctl[s].head \in 0..(Cap - 1) /\ ctl[s].tail \in 0..(Cap - 1)
           /\ QueueLen(s) = Used(ctl[s].head, ctl[s].tail) /\ QueueLen(s) \in Nat
           /\ ctl[s].ready \in Int
<1>1. ctl[s].head \in 0..(Cap - 1) /\ ctl[s].tail \in 0..(Cap - 1) /\ ctl[s].ready \in Int
  BY DEF Controls
<1>2. ASSUME NEW h \in 0..(Cap - 1), NEW t \in 0..(Cap - 1) PROVE Used(h, t) \in Nat
  <2>1. Used(h, t) \in 0..(Cap - 1)
    BY RingFacts
  <2>. QED BY <2>1, SharedAssumption
<1>3. QueueLen(s) = Used(ctl[s].head, ctl[s].tail)
  BY DEF QueueLen, Used
<1>. QED BY <1>1, <1>2, <1>3

\* What NothingLost adds up are numbers.
LEMMA CountTypes ==
    ASSUME RingTypes, NEW s \in Subs
    PROVE  /\ got[s] \in Nat /\ joined[s] \in Nat /\ last[s] \in Nat /\ seq \in Nat
           /\ QueueLen(s) \in Nat /\ Dropped(s) \in Nat /\ Coming(s) \in {0, 1}
<1>1. got[s] \in Nat /\ joined[s] \in Nat /\ last[s] \in Nat /\ seq \in Nat
  BY DEF RingTypes
<1>2. QueueLen(s) \in Nat
  BY LenType DEF RingTypes
<1>3. ctl[s].dropped \in Nat
  BY DEF RingTypes, Controls
<1>. QED BY <1>1, <1>2, <1>3 DEF Dropped, Coming, One

\* Reclaiming D changes nobody else, and nobody in D is active any more.
LEMMA ReclaimedFacts ==
    ASSUME RingTypes, NEW D \in SUBSET Subs
    PROVE  /\ Reclaimed(D) \in [Subs -> Controls]
           /\ \A s \in Subs \ D : Reclaimed(D)[s] = ctl[s]
           /\ \A s \in D : ~Reclaimed(D)[s].active /\ Reclaimed(D)[s].mode = "FULL"
<1>1. ASSUME NEW s \in Subs PROVE QueueLen(s) \in Int
  BY LenType DEF RingTypes
<1>2. ASSUME NEW s \in Subs PROVE Reclaimed(D)[s] \in Controls
  <2>1. ctl[s].ready - QueueLen(s) \in Int
    BY <1>1 DEF RingTypes, Controls
  <2>. QED BY ZenonT(40), <2>1 DEF Reclaimed, RingTypes, Controls, Modes
<1>3. Reclaimed(D) \in [Subs -> Controls]
  BY <1>2 DEF Reclaimed
<1>4. \A s \in Subs \ D : Reclaimed(D)[s] = ctl[s]
  BY DEF Reclaimed
<1>5. \A s \in D : ~Reclaimed(D)[s].active /\ Reclaimed(D)[s].mode = "FULL"
  BY DEF Reclaimed, RingTypes, Controls
<1>. QED BY <1>3, <1>4, <1>5

----------------------------------------------------------------------------
(* Kinds of steps.                                                            *)

SameRing(s) ==
    /\ ctl'[s].active = ctl[s].active /\ ctl'[s].mode = ctl[s].mode
    /\ ctl'[s].head = ctl[s].head /\ ctl'[s].tail = ctl[s].tail /\ ctl'[s].ring = ctl[s].ring
    /\ Dropped(s)' = Dropped(s)

\* A ring that stays has its length, its room and its entries.
LEMMA Frame ==
    ASSUME NEW s, SameRing(s)
    PROVE  /\ QueueLen(s)' = QueueLen(s) /\ QueueHasSpace(s)' = QueueHasSpace(s)
           /\ \A k : Entry(s, k)' = Entry(s, k)
           /\ Dropped(s)' = Dropped(s)
BY DEF SameRing, QueueLen, QueueHasSpace, Entry

\* A subscriber's thread goes to t; its ring and everyone's stay.
LEMMA ThreadMoves ==
    ASSUME IInv, NEW s \in Subs, NEW t \in Threads, Alive(s),
           sub' = [sub EXCEPT ![s] = t], ctl' \in [Subs -> Controls], free' \in Seq(FreeCells),
           \A r \in Subs : SameRing(r), \A r \in Subs \ {s} : ctl'[r].ready = ctl[r].ready,
           UNCHANGED <<seq, cursor, pub, members, got, joined, last>>,
           t.pc = "cas" => /\ t.head = ctl[s].head /\ t.peek = ctl[s].ring[ctl[s].head]
                           /\ QueueLen(s) > 0,
           IF t.alive THEN ctl'[s].ready - One(t.pc = "consume")
                           = ctl[s].ready - One(sub[s].pc = "consume")
           ELSE t.pc = "gone"
    PROVE  IInv'
<1>1. RingTypes'
  BY DEF IInv, RingTypes
<1>2. /\ sub'[s] = t /\ \A r \in Subs : r # s => sub'[r] = sub[r]
      /\ sub \in [Subs -> Threads] /\ ctl \in [Subs -> Controls]
  BY DEF IInv, RingTypes
<1>3. Broadcast' = Broadcast
  BY DEF Broadcast, SameRing
<1>4. \A r : Pending(r)' = Pending(r) /\ Looked(r)' = Looked(r)
  BY <1>3 DEF Pending, Looked
<1>5. Places'
  BY <1>2 DEF IInv, Places, Receiver, SameRing, Alive
<1>6. Members'
  BY SMTT(40), ZenonT(60) DEF IInv, Members, Balanced, SameRing, RingTypes, Publishers
<1>7. RoomKept'
  BY <1>4, Frame DEF IInv, RoomKept
<1>8. PeekHolds'
  BY <1>2, Frame DEF IInv, PeekHolds, SameRing
<1>9. \A r \in Broadcast' : InRing(r)'
  BY <1>3, <1>4, Frame DEF IInv, InRing, Coming, Broadcast
<1>10. ReadyCountsQueue'
  <2> SUFFICES ASSUME NEW r \in Subs, Alive(r)'
               PROVE  ctl'[r].ready = QueueLen(r)' + One(sub'[r].pc = "consume")
                                      - One(pub'.pc = "post" /\ Receiver' = r)
    BY DEF ReadyCountsQueue
  <2>1. QueueLen(r)' = QueueLen(r) /\ Receiver' = Receiver /\ pub' = pub
    BY Frame DEF Receiver
  <2>2. Alive(r)
    BY <1>2 DEF Alive, SameRing
  <2>3. ctl[r].ready = QueueLen(r) + One(sub[r].pc = "consume")
                       - One(pub.pc = "post" /\ Receiver = r)
    BY <2>2 DEF IInv, ReadyCountsQueue
  <2>4. QueueLen(r) \in Int /\ ctl[r].ready \in Int /\ ctl'[r].ready \in Int
    <3>1. ctl'[r].ready \in Int
      BY DEF Controls
    <3>. QED BY <1>2, <3>1, LenType
  <2>5. CASE r = s
    <3>1. t.alive
      BY <1>2, <2>5 DEF Alive
    <3>. QED BY <1>2, <2>1, <2>3, <2>4, <2>5, <3>1 DEF One
  <2>6. CASE r # s
    BY <1>2, <2>1, <2>3, <2>4, <2>6
  <2>. QED BY <2>5, <2>6
<1>11. Dropping'
  BY <1>3 DEF IInv, Dropping, SameRing, Broadcast
<1>. QED BY <1>1, <1>5, <1>6, <1>7, <1>8, <1>9, <1>10, <1>11 DEF IInv

\* The publisher looks for room, and reclaims the dead in D on its way.
LEMMA PublisherLooks ==
    ASSUME IInv, NEW D \in SUBSET Subs, \A s \in D : ~sub[s].alive,
           pub.pc \notin {"push", "post"},
           pub' \in Publishers, pub'.pc \notin {"push", "post"},
           pub'.pc = "check" => pub'.i >= 1,
           pub'.pc = "drop" => pub'.i \in Broadcast' /\ ctl'[pub'.i].mode = "DROP_OLD",
           pub'.target # None =>
              /\ pub'.pc = "stamp" /\ pub'.target \notin D
              /\ Balanced(pub'.target) /\ QueueHasSpace(pub'.target),
           \A s \in Broadcast \ D :
              (pub'.pc \in {"check", "drop"} /\ s < pub'.i) \/ pub'.pc \in {"select", "stamp"} =>
                 QueueHasSpace(s),
           ctl' \in [Subs -> Controls], \A s \in D : ~ctl'[s].active,
           \A s \in Subs \ D : SameRing(s) /\ ctl'[s].ready = ctl[s].ready,
           members' \in [Subs -> Subs \cup {None}],
           \A i \in Subs : members'[i] # None => members'[i] = members[i] /\ members[i] \notin D,
           free' \in Seq(FreeCells), cursor' \in Nat, UNCHANGED <<seq, sub, got, joined, last>>
    PROVE  IInv'
<1>1. RingTypes'
  BY DEF IInv, RingTypes
<1>2. Broadcast' = Broadcast \ D
  BY DEF Broadcast, SameRing
<1>3. \A s : ~Pending(s) /\ ~Pending(s)'
  BY DEF Pending
<1>4. Places'
  BY DEF IInv, Places, SameRing
<1>5. Members'
  <2>1. ASSUME NEW i \in Subs, members'[i] # None
         PROVE  ctl'[members'[i]].active /\ ctl'[members'[i]].mode = "BALANCE"
    <3>1. members'[i] \in Subs \ D /\ Balanced(members'[i])
      BY <2>1 DEF IInv, Members
    <3>. QED BY <3>1 DEF Balanced, SameRing
  <2>2. ASSUME pub'.target # None
         PROVE  ctl'[pub'.target].active /\ ctl'[pub'.target].mode = "BALANCE"
    <3>1. pub'.target \in Subs \ D /\ Balanced(pub'.target)
      BY <2>2 DEF Publishers
    <3>. QED BY <3>1 DEF Balanced, SameRing
  <2>. QED BY <2>1, <2>2 DEF Members, Balanced
<1>6. RoomKept'
  <2> SUFFICES ASSUME NEW s \in Subs, Looked(s)' PROVE QueueHasSpace(s)'
    BY DEF RoomKept
  <2>1. s \notin D /\ QueueHasSpace(s)
    <3>1. CASE s = pub'.target
      <4>1. pub'.target # None
        BY <3>1, SharedAssumption
      <4>. QED BY <3>1, <4>1
    <3>2. CASE s # pub'.target
      BY <1>2, <1>3, <3>2 DEF Looked
    <3>. QED BY <3>1, <3>2
  <2>. QED BY <2>1, Frame
<1>7. PeekHolds'
  <2> SUFFICES ASSUME NEW s \in Subs, sub[s].pc = "cas", ctl'[s].mode # "DROP_OLD"
               PROVE  /\ sub[s].head = ctl'[s].head /\ sub[s].peek = ctl'[s].ring[ctl'[s].head]
                      /\ QueueLen(s)' > 0
    BY DEF PeekHolds
  <2>1. s \notin D
    BY DEF IInv, Places
  <2>. QED BY <2>1, Frame DEF IInv, PeekHolds, SameRing
<1>8. \A s \in Broadcast' : InRing(s)'
  <2> SUFFICES ASSUME NEW s \in Broadcast \ D PROVE InRing(s)'
    BY <1>2
  <2>1. s \in Subs \ D /\ InRing(s)
    BY DEF IInv, Broadcast
  <2>. QED BY <1>3, <2>1, Frame DEF InRing, Coming, One
<1>9. ReadyCountsQueue'
  <2> SUFFICES ASSUME NEW s \in Subs, Alive(s)'
               PROVE  ctl'[s].ready = QueueLen(s)' + One(sub'[s].pc = "consume")
                                      - One(pub'.pc = "post" /\ Receiver' = s)
    BY DEF ReadyCountsQueue
  <2>1. s \notin D /\ Alive(s)
    BY DEF Alive, SameRing
  <2>2. ctl[s].ready = QueueLen(s) + One(sub[s].pc = "consume")
                       - One(pub.pc = "post" /\ Receiver = s)
    BY <2>1 DEF IInv, ReadyCountsQueue
  <2>. QED BY <2>1, <2>2, Frame DEF One
<1>10. Dropping'
  BY DEF Dropping
<1>. QED BY <1>1, <1>4, <1>5, <1>6, <1>7, <1>8, <1>9, <1>10 DEF IInv

\* SharedData becomes a message: everyone who was looked at has it to come.
LEMMA Stamped == ASSUME IInv, Stamp PROVE IInv'
<1>0. /\ pub.pc = "stamp" /\ pub' = [pub EXCEPT !.pc = "push", !.i = 1] /\ seq' = seq + 1
      /\ UNCHANGED <<free, cursor, ctl, sub, members, got, joined, last>>
  BY DEF Stamp, balance
<1>1. RingTypes'
  <2>1. pub \in Publishers /\ seq \in Nat
    BY DEF IInv, RingTypes
  <2>2. pub' \in Publishers /\ seq' \in Nat
    <3>1. pub' = [pc |-> "push", i |-> 1, data |-> pub.data, count |-> pub.count,
                  balanced |-> pub.balanced, base |-> pub.base, tries |-> pub.tries,
                  target |-> pub.target]
      BY <1>0, <2>1 DEF Publishers
    <3>. QED BY <1>0, <2>1, <3>1 DEF Publishers
  <2>. QED BY <1>0, <2>2 DEF IInv, RingTypes
<1>2. /\ pub'.pc = "push" /\ pub'.i = 1 /\ pub'.target = pub.target /\ pub.pc = "stamp"
      /\ UNCHANGED <<ctl, sub, members, got, joined, last>> /\ seq' = seq + 1
  BY <1>0 DEF IInv, RingTypes, Publishers
<1>3. Broadcast' = Broadcast
  BY <1>2 DEF Broadcast
<1>4. Places'
  BY <1>2 DEF IInv, Places
<1>5. Members'
  BY <1>2 DEF IInv, Members, Balanced
<1>6. RoomKept'
  BY <1>2, <1>3 DEF IInv, RoomKept, Looked, QueueHasSpace
<1>7. PeekHolds'
  BY <1>2 DEF IInv, PeekHolds, QueueLen
<1>8. \A s \in Broadcast' : InRing(s)'
  <2> SUFFICES ASSUME NEW s \in Broadcast PROVE InRing(s)'
    BY <1>3
  <2>1. s \in Subs /\ s >= 1 /\ InRing(s)
    BY DEF IInv, Broadcast, Subs
  <2>2. ~Pending(s) /\ Pending(s)'
    BY <1>2, <1>3, <2>1 DEF Pending
  <2>3. QueueLen(s)' = QueueLen(s) /\ \A k : Entry(s, k)' = Entry(s, k)
    BY <1>2 DEF QueueLen, Entry
  <2>4. /\ QueueLen(s) \in Nat /\ last[s] \in Nat /\ seq \in Nat /\ got[s] \in Nat
        /\ joined[s] \in Nat /\ Dropped(s) \in Nat
    BY <2>1, CountTypes DEF IInv
  <2>5. Dropped(s)' = Dropped(s) /\ Coming(s) = 0 /\ Coming(s)' = 1
    BY <1>2, <2>2 DEF Dropped, Coming, One
  <2>6. /\ got'[s] + QueueLen(s)' + Coming(s)' + Dropped(s)' = seq' - joined'[s]
        /\ last'[s] + QueueLen(s)' + Coming(s)' <= seq'
    BY <1>2, <2>1, <2>3, <2>4, <2>5 DEF InRing
  <2>7. ASSUME NEW k \in 1..QueueLen(s)
        PROVE  Entry(s, k)' = seq' + k - QueueLen(s)' - Coming(s)'
    <3>1. Entry(s, k) = seq + k - QueueLen(s) - Coming(s)
      BY <2>1 DEF InRing
    <3>. QED BY <1>2, <2>3, <2>4, <2>5, <3>1
  <2>. QED BY <1>2, <2>1, <2>3, <2>4, <2>5, <2>6, <2>7 DEF InRing
<1>9. ReadyCountsQueue'
  BY <1>2 DEF IInv, ReadyCountsQueue, Alive, QueueLen, Receiver
<1>10. Dropping'
  BY <1>2 DEF Dropping
<1>. QED BY <1>1, <1>4, <1>5, <1>6, <1>7, <1>8, <1>9, <1>10 DEF IInv

\* PushDescriptor: the last cell that is free gets the message.
LEMMA Pushed ==
    ASSUME IInv, pub.pc = "push", NEW r \in Subs, r = Receiver, Pending(r),
           pub.i <= N => r \in Broadcast, pub.i <= N + 1,
           pub' = [pub EXCEPT !.pc = "post"],
           ctl' = [ctl EXCEPT ![r].ring[ctl[r].tail] = [slot |-> pub.data, seq |-> seq],
                              ![r].tail = (@ + 1) % Cap],
           UNCHANGED <<free, seq, cursor, sub, members, got, joined, last>>
    PROVE  IInv'
<1> USE DEF Subs
<1>h. PICK h \in 0..(Cap - 1) : h = ctl[r].head
  BY LenType DEF IInv, RingTypes
<1>t. PICK t \in 0..(Cap - 1) : t = ctl[r].tail
  BY LenType DEF IInv, RingTypes
<1>0. N \in Nat /\ Cap \in Nat /\ None \notin Subs
  BY SharedAssumption
<1>1. /\ ctl \in [Subs -> Controls] /\ pub \in Publishers /\ seq \in Nat /\ r \in Subs
      /\ pub.i \in Nat
  BY DEF IInv, RingTypes, Publishers
<1>2. /\ ctl'[r].head = h /\ ctl'[r].tail = After(t) /\ ctl'[r].ready = ctl[r].ready
      /\ ctl'[r].active = ctl[r].active /\ ctl'[r].mode = ctl[r].mode
      /\ ctl'[r].ring = [ctl[r].ring EXCEPT ![t] = [slot |-> pub.data, seq |-> seq]]
      /\ \A s \in Subs : s # r => ctl'[s] = ctl[s]
  BY <1>1, <1>h, <1>t DEF Controls, After
<1>3. /\ ctl[r].ring \in [0..(Cap - 1) -> Cells] /\ After(t) \in 0..(Cap - 1)
      /\ [slot |-> pub.data, seq |-> seq] \in Cells
  BY <1>1, RingFacts DEF Controls, Cells, Publishers
<1>4. /\ ctl'[r].ring \in [0..(Cap - 1) -> Cells] /\ ctl'[r].ring[t].seq = seq
      /\ \A k \in 0..(Cap - 1) : k # t => ctl'[r].ring[k] = ctl[r].ring[k]
  <2>1. ASSUME NEW R \in [0..(Cap - 1) -> Cells], NEW i \in 0..(Cap - 1), NEW c \in Cells,
               NEW Q, Q = [R EXCEPT ![i] = c]
        PROVE  /\ Q \in [0..(Cap - 1) -> Cells] /\ Q[i] = c
               /\ \A k \in 0..(Cap - 1) : k # i => Q[k] = R[k]
    BY <2>1
  <2>2. [slot |-> pub.data, seq |-> seq].seq = seq
    OBVIOUS
  <2>. QED BY <1>1, <1>2, <1>3, <1>t, <2>1, <2>2
<1>5. After(t) # h
  <2>1. QueueHasSpace(r)
    BY DEF IInv, RoomKept, Looked, Pending, Broadcast
  <2>. QED BY <1>h, <1>t, <2>1 DEF QueueHasSpace, After
<1>6. /\ pub'.pc = "post" /\ pub'.i = pub.i /\ pub'.target = pub.target /\ Receiver' = r
      /\ pub' \in Publishers
  BY <1>1 DEF Publishers, Receiver
<1>7. RingTypes'
  <2>1. ctl' \in [Subs -> Controls]
    <3>1. ctl'[r] = [ctl[r] EXCEPT !.ring = [@ EXCEPT ![t] = [slot |-> pub.data, seq |-> seq]],
                                   !.tail = After(t)]
      BY <1>1, <1>t DEF Controls, After
    <3>2. ctl[r] \in Controls
      BY <1>1
    <3>3. ctl'[r] = [ctl[r] EXCEPT !.ring = ctl'[r].ring, !.tail = After(t)]
      BY <1>2, <3>1, <3>2 DEF Controls
    <3>4. ctl'[r] \in Controls
      <4>1. ASSUME NEW c \in Controls, NEW d, NEW ring \in [0..(Cap - 1) -> Cells],
                   NEW tail \in 0..(Cap - 1), d = [c EXCEPT !.ring = ring, !.tail = tail]
            PROVE  d \in Controls
        BY <4>1 DEF Controls
      <4>. QED BY <1>3, <1>4, <3>2, <3>3, <4>1
    <3>. QED BY <1>1, <3>4
  <2>. QED BY <1>6, <2>1 DEF IInv, RingTypes
<1>8. Broadcast' = Broadcast
  BY <1>1, <1>2 DEF Broadcast
<1>9. pub.target # None =>
         Balanced(pub.target) /\ pub.target \in Subs /\ pub.target \notin Broadcast
  BY <1>1 DEF IInv, Members, Balanced, Broadcast, Publishers
<1>10. ~Pending(r)' /\ \A s \in Subs : s # r => Pending(s)' = Pending(s)
  BY <1>0, <1>1, <1>6, <1>8, <1>9 DEF Pending, Receiver
<1>11. Places'
  BY <1>1, <1>2, <1>6 DEF IInv, Places
<1>12. Members'
  <2>1. \A s \in Subs : Balanced(s) => Balanced(s)'
    BY <1>1, <1>2 DEF Balanced
  <2>. QED BY <1>6, <1>9, <2>1, SMTT(40) DEF IInv, Members, RingTypes, Balanced
<1>13. RoomKept'
  <2> SUFFICES ASSUME NEW s \in Subs, Looked(s)' PROVE QueueHasSpace(s)'
    BY DEF RoomKept
  <2>1. s # r /\ Pending(s)
    BY <1>6, <1>10 DEF Looked
  <2>2. QueueHasSpace(s)
    BY <2>1 DEF IInv, RoomKept, Looked, Pending
  <2>. QED BY <1>2, <2>1, <2>2 DEF QueueHasSpace
<1>r. /\ Used(h, t) \in 0..(Cap - 1) /\ (Used(h, t) = 0 <=> h = t)
      /\ \A k \in 1..Used(h, t) : Cell(h, k) \in 0..(Cap - 1) /\ Cell(h, k) # t
      /\ Cell(h, Used(h, t) + 1) = t
      /\ After(t) # h => Used(h, After(t)) = Used(h, t) + 1
  <2>1. h \in 0..(Cap - 1) /\ t \in 0..(Cap - 1)
    BY <1>h, <1>t
  <2>. QED BY <2>1, RingFacts, ZenonT(60)
<1>14. QueueLen(r)' = QueueLen(r) + 1 /\ QueueLen(r) = Used(h, t) /\ QueueLen(r) \in Nat
  <2>1. QueueLen(r) = Used(h, t) /\ QueueLen(r) \in Nat
    BY <1>1, <1>h, <1>t, LenType
  <2>2. QueueLen(r)' = Used(h, After(t))
    BY <1>2 DEF QueueLen, Used
  <2>. QED BY <1>5, <1>r, <2>1, <2>2
<1>18. \A k : /\ Entry(r, k) = ctl[r].ring[Cell(h, k)].seq
              /\ Entry(r, k)' = ctl'[r].ring[Cell(h, k)].seq
  BY <1>2, <1>h DEF Entry
<1>15. PeekHolds'
  <2> SUFFICES ASSUME NEW s \in Subs, sub[s].pc = "cas", ctl'[s].mode # "DROP_OLD"
               PROVE  /\ sub[s].head = ctl'[s].head /\ sub[s].peek = ctl'[s].ring[ctl'[s].head]
                      /\ QueueLen(s)' > 0
    BY DEF PeekHolds
  <2>1. /\ sub[s].head = ctl[s].head /\ sub[s].peek = ctl[s].ring[ctl[s].head]
        /\ QueueLen(s) > 0
    BY <1>2 DEF IInv, PeekHolds
  <2>2. CASE s = r
    <3>1. h # t
      BY <1>14, <1>r, <2>1, <2>2
    <3>. QED BY <1>1, <1>2, <1>4, <1>14, <2>1, <2>2, <1>h, <3>1
  <2>3. CASE s # r
    BY <1>2, <2>1, <2>3 DEF QueueLen
  <2>. QED BY <2>2, <2>3
<1>16. \A s \in Broadcast' : InRing(s)'
  <2> SUFFICES ASSUME NEW s \in Broadcast PROVE InRing(s)'
    BY <1>8
  <2>1. /\ s \in Subs /\ InRing(s) /\ seq' = seq /\ last' = last /\ got' = got /\ joined' = joined
        /\ got[s] \in Nat /\ joined[s] \in Nat /\ last[s] \in Nat /\ QueueLen(s) \in Nat
        /\ Dropped(s) \in Nat /\ Dropped(s)' = Dropped(s)
    <3>1. s \in Subs /\ InRing(s) /\ RingTypes
      BY DEF IInv, Broadcast
    <3>2. Dropped(s)' = Dropped(s)
      BY <1>1, <1>2, <3>1 DEF Dropped
    <3>. QED BY <3>1, <3>2, CountTypes
  <2>2. CASE s = r
    <3>0. Coming(r) = 1 /\ Coming(r)' = 0
      BY <1>10 DEF Coming, One
    <3>1. /\ got'[r] + QueueLen(r)' + Coming(r)' + Dropped(r)' = seq' - joined'[r]
          /\ last'[r] + QueueLen(r)' + Coming(r)' <= seq'
      <4>1. /\ got[r] + QueueLen(r) + 1 + Dropped(r) = seq - joined[r]
            /\ last[r] + QueueLen(r) + 1 <= seq
        BY <2>1, <2>2, <3>0 DEF InRing
      <4>2. /\ got'[r] = got[r] /\ joined'[r] = joined[r] /\ last'[r] = last[r] /\ seq' = seq
            /\ QueueLen(r)' = QueueLen(r) + 1 /\ Dropped(r)' = Dropped(r) /\ Coming(r)' = 0
        BY <1>14, <2>1, <2>2, <3>0
      <4>3. /\ got[r] \in Nat /\ joined[r] \in Nat /\ last[r] \in Nat /\ seq \in Nat
            /\ QueueLen(r) \in Nat /\ Dropped(r) \in Nat
        BY <1>1, <2>1, <2>2
      <4>. QED BY <4>1, <4>2, <4>3
    <3>2. ASSUME NEW k \in 1..(QueueLen(r) + 1)
          PROVE  Entry(r, k)' = seq' + k - QueueLen(r)' - Coming(r)'
      <4>1. CASE k = QueueLen(r) + 1
        <5>1. Cell(h, k) = t
          BY <1>14, <1>r, <4>1
        <5>2. Entry(r, k)' = seq
          BY <1>4, <1>18, <5>1
        <5>. QED BY <1>1, <1>14, <2>1, <3>0, <4>1, <5>2
      <4>2. CASE k # QueueLen(r) + 1
        <5>1. k \in 1..QueueLen(r)
          BY <1>14, <4>2
        <5>2. Cell(h, k) \in 0..(Cap - 1) /\ Cell(h, k) # t
          BY <1>14, <1>r, <5>1
        <5>3. Entry(r, k) = seq + k - QueueLen(r) - Coming(r)
          BY <2>1, <2>2, <5>1 DEF InRing
        <5>4. ctl'[r].ring[Cell(h, k)] = ctl[r].ring[Cell(h, k)]
          BY <1>4, <5>2
        <5>5. /\ Entry(r, k)' = ctl'[r].ring[Cell(h, k)].seq
              /\ Entry(r, k) = ctl[r].ring[Cell(h, k)].seq
          BY <1>18
        <5>6. k \in Nat
          BY <5>1
        <5>. QED BY <1>1, <1>14, <2>1, <2>2, <3>0, <5>3, <5>4, <5>5, <5>6
      <4>. QED BY <4>1, <4>2
    <3>. QED BY <1>14, <2>2, <3>1, <3>2 DEF InRing
  <2>3. CASE s # r
    <3>1. QueueLen(s)' = QueueLen(s) /\ \A k : Entry(s, k)' = Entry(s, k)
      BY <1>2, <2>1, <2>3 DEF QueueLen, Entry
    <3>. QED BY <1>10, <2>1, <2>3, <3>1 DEF InRing, Coming
  <2>. QED BY <2>2, <2>3
<1>17. ReadyCountsQueue'
  <2> SUFFICES ASSUME NEW s \in Subs, Alive(s)'
               PROVE  ctl'[s].ready = QueueLen(s)' + One(sub'[s].pc = "consume")
                                      - One(pub'.pc = "post" /\ Receiver' = s)
    BY DEF ReadyCountsQueue
  <2>1. Alive(s)
    BY <1>2 DEF Alive
  <2>2. ctl[s].ready = QueueLen(s) + One(sub[s].pc = "consume")
    BY <2>1, LenType DEF IInv, ReadyCountsQueue, One, RingTypes
  <2>3. CASE s = r
    BY <1>1, <1>2, <1>6, <1>14, <2>2, <2>3, LenType DEF One
  <2>4. CASE s # r
    <3>1. QueueLen(s)' = QueueLen(s) /\ QueueLen(s) \in Nat
      BY <1>1, <1>2, <2>4, LenType DEF QueueLen
    <3>2. ctl'[s] = ctl[s] /\ sub' = sub /\ Receiver' # s
      BY <1>2, <1>6, <2>4
    <3>. QED BY <2>2, <3>1, <3>2 DEF One
  <2>. QED BY <2>3, <2>4
<1>19. Dropping'
  BY <1>6 DEF Dropping
<1>. QED BY <1>7, <1>11, <1>12, <1>13, <1>15, <1>16, <1>17, <1>19 DEF IInv

\* PostReady: the count catches up with the push, and the sleeper wakes.
LEMMA Posted == ASSUME IInv, PostReady PROVE IInv'
<1> USE DEF Subs
<1>0. /\ pub.pc = "post" /\ pub' = [pub EXCEPT !.pc = "push", !.i = @ + 1]
      /\ ctl' = [ctl EXCEPT ![Receiver].ready = @ + 1] /\ sub' = Woken
      /\ UNCHANGED <<free, seq, cursor, members, got, joined, last>>
  BY DEF PostReady, balance, pool, aux
<1>1. PICK r \in Subs : r = Receiver
  BY <1>0 DEF IInv, Places
<1>2. /\ ctl \in [Subs -> Controls] /\ pub \in Publishers /\ sub \in [Subs -> Threads]
      /\ pub.i \in Nat /\ N \in Nat
  BY SharedAssumption DEF IInv, RingTypes, Publishers
<1>3. /\ pub'.pc = "push" /\ pub'.i = pub.i + 1 /\ pub'.target = pub.target /\ pub' \in Publishers
  <2>1. pub' = [pc |-> "push", i |-> pub.i + 1, data |-> pub.data, count |-> pub.count,
                balanced |-> pub.balanced, base |-> pub.base, tries |-> pub.tries,
                target |-> pub.target]
    BY <1>0, <1>2 DEF Publishers
  <2>. QED BY <1>2, <2>1 DEF Publishers
<1>4. /\ ctl'[r].ready = ctl[r].ready + 1 /\ \A s \in Subs : SameRing(s)
      /\ \A s \in Subs : s # r => ctl'[s].ready = ctl[s].ready
  BY <1>0, <1>1, <1>2 DEF Controls, SameRing, Dropped
<1>5. ctl' \in [Subs -> Controls]
  <2>1. ctl[r].ready + 1 \in Int
    BY <1>2, LenType
  <2>. QED BY ZenonT(40), <1>0, <1>1, <1>2, <2>1 DEF Controls
<1>6. /\ sub' \in [Subs -> Threads]
      /\ \A s \in Subs : /\ sub'[s].alive = sub[s].alive /\ sub'[s].head = sub[s].head
                         /\ sub'[s].peek = sub[s].peek
                         /\ sub'[s].pc = sub[s].pc \/ (sub[s].pc = "asleep" /\ sub'[s].pc = "wait")
  <2>1. sub' = IF sub[r].pc = "asleep" THEN [sub EXCEPT ![r].pc = "wait"] ELSE sub
    BY <1>0, <1>1 DEF Woken
  <2>2. ASSUME NEW v \in Threads, NEW w, w = [v EXCEPT !.pc = "wait"]
        PROVE  /\ w \in Threads /\ w.alive = v.alive /\ w.head = v.head /\ w.peek = v.peek
               /\ w.pc = "wait"
    BY ONLY <2>2, v \in Threads DEF Threads
  <2>3. CASE sub[r].pc = "asleep"
    <3>1. /\ sub' = [sub EXCEPT ![r] = [sub[r] EXCEPT !.pc = "wait"]] /\ sub[r] \in Threads
          /\ sub'[r] = [sub[r] EXCEPT !.pc = "wait"]
          /\ \A s \in Subs : s # r => sub'[s] = sub[s]
      BY <1>2, <2>1, <2>3
    <3>. QED BY <1>2, <2>2, <2>3, <3>1
  <2>4. CASE sub[r].pc # "asleep"
    BY <1>2, <2>1, <2>4
  <2>. QED BY <2>3, <2>4
<1>7. RingTypes'
  BY <1>0, <1>3, <1>5, <1>6 DEF IInv, RingTypes
<1>8. Broadcast' = Broadcast /\ \A s \in Subs : Pending(s)' = Pending(s)
  <2>1. Broadcast' = Broadcast
    BY <1>4 DEF Broadcast, SameRing
  <2>. QED BY <1>0, <1>2, <1>3, <2>1 DEF Pending
<1>9. Places'
  <2>1. \A s \in Subs : ctl'[s].active = ctl[s].active
    BY <1>4 DEF SameRing
  <2>. QED BY SMTT(40), <1>2, <1>3, <1>6, <2>1 DEF IInv, Places
<1>10. Members'
  <2>1. \A s \in Subs : Balanced(s)' = Balanced(s)
    BY <1>4 DEF Balanced, SameRing
  <2>. QED BY <1>0, <1>2, <1>3, <2>1 DEF IInv, Members, RingTypes, Publishers, Balanced
<1>11. RoomKept'
  BY <1>0, <1>3, <1>4, <1>8, Frame DEF IInv, RoomKept, Looked
<1>12. PeekHolds'
  BY <1>4, <1>6, Frame DEF IInv, PeekHolds, SameRing
<1>13. \A s \in Broadcast' : InRing(s)'
  BY <1>0, <1>4, <1>8, Frame DEF IInv, InRing, Coming, Broadcast
<1>14. ReadyCountsQueue'
  <2> SUFFICES ASSUME NEW s \in Subs, Alive(s)'
               PROVE  ctl'[s].ready = QueueLen(s)' + One(sub'[s].pc = "consume")
                                      - One(pub'.pc = "post" /\ Receiver' = s)
    BY DEF ReadyCountsQueue
  <2>1. Alive(s)
    BY <1>4, <1>6 DEF Alive, SameRing
  <2>2. ctl[s].ready = QueueLen(s) + One(sub[s].pc = "consume")
                       - One(pub.pc = "post" /\ Receiver = s)
    BY <2>1 DEF IInv, ReadyCountsQueue
  <2>3. QueueLen(s)' = QueueLen(s) /\ QueueLen(s) \in Nat /\ ctl[s].ready \in Int
    BY <1>2, <1>4, Frame, LenType
  <2>4. (sub'[s].pc = "consume") = (sub[s].pc = "consume")
    BY <1>6
  <2>5. CASE s = r
    BY <1>0, <1>1, <1>3, <1>4, <2>2, <2>3, <2>4, <2>5 DEF One
  <2>6. CASE s # r
    BY <1>0, <1>1, <1>3, <1>4, <2>2, <2>3, <2>4, <2>6 DEF One
  <2>. QED BY <2>5, <2>6
<1>15. Dropping'
  BY <1>3 DEF Dropping
<1>. QED BY <1>7, <1>9, <1>10, <1>11, <1>12, <1>13, <1>14, <1>15 DEF IInv

\* The CAS of TryPopDescriptor takes what it has read: the head is where it was, and there
\* was no turn.
LEMMA Popped ==
    ASSUME IInv, NoTurn, NEW s \in Subs, Pop(s), PopExpected(s)
    PROVE  IInv'
<1>1. /\ ctl \in [Subs -> Controls] /\ sub \in [Subs -> Threads] /\ Alive(s) /\ sub[s].pc = "cas"
      /\ sub[s].head = ctl[s].head /\ sub[s].peek = ctl[s].ring[ctl[s].head] /\ QueueLen(s) > 0
      /\ last \in [Subs -> Nat] /\ got \in [Subs -> Nat]
  <2>1. At(s, "cas") /\ sub[s].pc = "cas" /\ Alive(s)
    BY DEF Pop, At
  <2>2. /\ sub[s].head = ctl[s].head /\ sub[s].peek = ctl[s].ring[ctl[s].head]
        /\ QueueLen(s) > 0
    BY <2>1 DEF IInv, PeekHolds, NoTurn, PopExpected
  <2>. QED BY <2>1, <2>2 DEF IInv, RingTypes
<1>2. /\ sub' = [sub EXCEPT ![s].pc = "consume", ![s].desc = sub[s].peek, ![s].peek = NoDesc,
                           ![s].head = 0]
      /\ ctl' = [ctl EXCEPT ![s].head = (@ + 1) % Cap]
      /\ got' = [got EXCEPT ![s] = @ + 1] /\ last' = [last EXCEPT ![s] = sub[s].peek.seq]
      /\ UNCHANGED <<free, seq, cursor, members, pub, joined>>
  BY DEF Pop, pool, balance
<1>3. PICK h \in 0..(Cap - 1) : h = ctl[s].head
  BY <1>1, LenType
<1>4. PICK t \in 0..(Cap - 1) : t = ctl[s].tail
  BY <1>1, LenType
<1>5. QueueLen(s) = Used(h, t) /\ QueueLen(s) \in Nat
  BY <1>1, <1>3, <1>4, LenType
<1>6. /\ (Used(h, t) = 0 <=> h = t) /\ After(h) \in 0..(Cap - 1) /\ Cell(h, 1) = h
      /\ h # t => /\ Used(After(h), t) = Used(h, t) - 1
                  /\ After(t) # After(h)
                  /\ \A k \in 1..(Used(h, t) - 1) : Cell(After(h), k) = Cell(h, k + 1)
  BY PopFacts
<1>7. h # t
  BY <1>1, <1>5, <1>6
<1>8. /\ ctl'[s].head = After(h) /\ ctl'[s].tail = t /\ ctl'[s].ring = ctl[s].ring
      /\ ctl'[s].active = ctl[s].active /\ ctl'[s].mode = ctl[s].mode
      /\ ctl'[s].ready = ctl[s].ready /\ \A r \in Subs : r # s => ctl'[r] = ctl[r]
  BY <1>1, <1>2, <1>3, <1>4 DEF Controls, After
<1>9. ctl' \in [Subs -> Controls]
  <2>1. ctl' = [ctl EXCEPT ![s].head = After(h)]
    BY <1>2, <1>3 DEF After
  <2>. QED BY <1>1, <1>6, <2>1, ZenonT(60) DEF Controls
<1>10. /\ sub' \in [Subs -> Threads] /\ sub'[s].pc = "consume"
       /\ \A r \in Subs : r # s => sub'[r] = sub[r]
  <2>1. 0 \in 0..(Cap - 1) /\ NoDesc \in Cells
    BY SharedAssumption DEF NoDesc, Cells
  <2>2. sub[s].peek \in Cells /\ sub[s] \in Threads
    BY <1>1 DEF Threads
  <2>3. sub'[s] = [pc |-> "consume", alive |-> sub[s].alive, head |-> 0, peek |-> NoDesc,
                   desc |-> sub[s].peek, cur |-> sub[s].cur, gone |-> sub[s].gone]
    BY ZenonT(40), <1>1, <1>2 DEF Threads
  <2>4. sub'[s] \in Threads
    BY <2>1, <2>2, <2>3 DEF Threads
  <2>. QED BY <1>1, <1>2, <2>3, <2>4
<1>11. sub[s].peek.seq \in Nat
  <2>1. sub[s].peek \in Cells
    BY <1>1 DEF Threads
  <2>. QED BY <2>1 DEF Cells
<1>12. RingTypes'
  <2>1. got' \in [Subs -> Nat] /\ last' \in [Subs -> Nat]
    BY <1>1, <1>2, <1>11
  <2>. QED BY <1>2, <1>9, <1>10, <2>1 DEF IInv, RingTypes
<1>13. Broadcast' = Broadcast
  BY <1>8 DEF Broadcast
<1>14. \A r : Pending(r)' = Pending(r) /\ Looked(r)' = Looked(r)
  BY <1>2, <1>13 DEF Pending, Looked
<1>15. Places'
  <2>1. Places /\ pub' = pub /\ Receiver' = Receiver
    BY <1>2 DEF IInv, Receiver
  <2>2. \A r \in Subs : ~sub'[r].alive \/ ~ctl'[r].active => sub'[r].pc = "gone"
    <3> TAKE r \in Subs
    <3>1. CASE r = s
      <4>1. sub'[s].alive
        BY <1>1, <1>2 DEF Threads, Alive
      <4>. QED BY <1>1, <1>8, <3>1, <4>1 DEF Alive
    <3>2. CASE r # s
      BY <1>8, <1>10, <2>1, <3>2 DEF Places
    <3>. QED BY <3>1, <3>2
  <2>. QED BY <2>1, <2>2 DEF Places
<1>16. Members'
  <2>1. \A r \in Subs : Balanced(r)' = Balanced(r)
    BY <1>8 DEF Balanced
  <2>. QED BY <1>2, <2>1 DEF IInv, Members, RingTypes, Publishers, Balanced
<1>17. RoomKept'
  <2> SUFFICES ASSUME NEW r \in Subs, Looked(r)' PROVE QueueHasSpace(r)'
    BY DEF RoomKept
  <2>1. QueueHasSpace(r)
    BY <1>14 DEF IInv, RoomKept
  <2>2. CASE r = s
    <3>2. After(t) # After(h)
      BY <1>6, <1>7
    <3>. QED BY <1>8, <2>2, <3>2 DEF QueueHasSpace, After
  <2>3. CASE r # s
    BY <1>8, <2>1, <2>3 DEF QueueHasSpace
  <2>. QED BY <2>2, <2>3
<1>18. PeekHolds'
  <2> SUFFICES ASSUME NEW r \in Subs, sub'[r].pc = "cas", ctl'[r].mode # "DROP_OLD"
               PROVE  /\ sub'[r].head = ctl'[r].head /\ sub'[r].peek = ctl'[r].ring[ctl'[r].head]
                      /\ QueueLen(r)' > 0
    BY DEF PeekHolds
  <2>1. r # s
    BY <1>10
  <2>2. ctl'[r] = ctl[r] /\ sub'[r] = sub[r] /\ QueueLen(r)' = QueueLen(r)
    BY <1>8, <1>10, <2>1 DEF QueueLen
  <2>. QED BY <2>2 DEF IInv, PeekHolds
<1>19. QueueLen(s)' = QueueLen(s) - 1
  <2>1. QueueLen(s)' = Used(After(h), t)
    BY <1>8 DEF QueueLen, Used
  <2>. QED BY <1>5, <1>6, <1>7, <2>1
<1>20. \A r \in Broadcast' : InRing(r)'
  <2> SUFFICES ASSUME NEW r \in Broadcast PROVE InRing(r)'
    BY <1>13
  <2>1. /\ r \in Subs /\ InRing(r) /\ last[r] \in Nat /\ got[r] \in Nat /\ joined[r] \in Nat
        /\ seq \in Nat /\ Dropped(r) \in Nat /\ Coming(r) \in {0, 1} /\ QueueLen(r) \in Nat
    <3>1. r \in Subs /\ RingTypes /\ InRing(r)
      BY DEF IInv, Broadcast
    <3>. QED BY <3>1, CountTypes
  <2>2. /\ Dropped(r)' = Dropped(r) /\ Coming(r)' = Coming(r) /\ seq' = seq /\ joined' = joined
    <3>1. ctl'[r].mode = ctl[r].mode /\ ctl'[r].dropped = ctl[r].dropped
      BY <1>1, <1>2, <2>1 DEF Controls
    <3>. QED BY <1>2, <1>14, <3>1 DEF Dropped, Coming
  <2>3. CASE r = s
    <3>1. Entry(s, 1) = seq + 1 - QueueLen(s) - Coming(s)
      BY <1>1, <1>5, <2>1, <2>3 DEF InRing
    <3>2. last'[s] = seq + 1 - QueueLen(s) - Coming(s) /\ got'[s] = got[s] + 1
      BY <1>1, <1>2, <1>3, <1>6, <3>1 DEF Entry
    <3>3. /\ got'[s] + QueueLen(s)' + Coming(s)' + Dropped(s)' = seq' - joined'[s]
          /\ last'[s] + QueueLen(s)' + Coming(s)' <= seq'
      BY <1>19, <2>1, <2>2, <2>3, <3>2 DEF InRing
    <3>4. ASSUME NEW k \in 1..QueueLen(s)'
          PROVE  Entry(s, k)' = seq' + k - QueueLen(s)' - Coming(s)'
      <4>1. k \in 1..(Used(h, t) - 1) /\ k + 1 \in 1..QueueLen(s) /\ k \in Nat
        BY <1>5, <1>19
      <4>2. Entry(s, k)' = ctl[s].ring[Cell(After(h), k)].seq
        BY <1>8 DEF Entry
      <4>3. Entry(s, k + 1) = ctl[s].ring[Cell(h, k + 1)].seq
        BY <1>3 DEF Entry
      <4>4. Entry(s, k + 1) = seq + (k + 1) - QueueLen(s) - Coming(s)
        BY <2>1, <2>3, <4>1 DEF InRing
      <4>5. Cell(After(h), k) = Cell(h, k + 1)
        BY <1>6, <1>7, <4>1
      <4>6. Entry(s, k)' = seq + (k + 1) - QueueLen(s) - Coming(s)
        BY <4>2, <4>3, <4>4, <4>5
      <4>. QED BY <1>19, <2>1, <2>2, <2>3, <4>1, <4>6
    <3>. QED BY <2>3, <3>3, <3>4 DEF InRing
  <2>4. CASE r # s
    <3>1. QueueLen(r)' = QueueLen(r) /\ \A k : Entry(r, k)' = Entry(r, k)
      BY <1>8, <2>1, <2>4 DEF QueueLen, Entry
    <3>2. last'[r] = last[r] /\ got'[r] = got[r]
      BY <1>1, <1>2, <2>1, <2>4
    <3>. QED BY <2>1, <2>2, <3>1, <3>2 DEF InRing
  <2>. QED BY <2>3, <2>4
<1>21. ReadyCountsQueue'
  <2> SUFFICES ASSUME NEW r \in Subs, Alive(r)'
               PROVE  ctl'[r].ready = QueueLen(r)' + One(sub'[r].pc = "consume")
                                      - One(pub'.pc = "post" /\ Receiver' = r)
    BY DEF ReadyCountsQueue
  <2>1. Receiver' = Receiver /\ pub' = pub
    BY <1>2 DEF Receiver
  <2>2. CASE r = s
    <3>1. ctl[s].ready = QueueLen(s) - One(pub.pc = "post" /\ Receiver = s)
      BY <1>1, <1>5 DEF IInv, ReadyCountsQueue, One
    <3>. QED BY <1>5, <1>8, <1>10, <1>19, <2>1, <2>2, <3>1 DEF One
  <2>3. CASE r # s
    <3>1. ctl'[r] = ctl[r] /\ sub'[r] = sub[r] /\ QueueLen(r)' = QueueLen(r) /\ Alive(r)
      BY <1>8, <1>10, <2>3 DEF QueueLen, Alive
    <3>. QED BY <2>1, <3>1 DEF IInv, ReadyCountsQueue
  <2>. QED BY <2>2, <2>3
<1>22. Dropping'
  BY <1>2, <1>8, <1>13 DEF IInv, Dropping, Broadcast
<1>. QED BY <1>12, <1>15, <1>16, <1>17, <1>18, <1>20, <1>21, <1>22 DEF IInv

\* A control block that is attached has its type.
LEMMA ControlType == ASSUME NEW m \in Modes PROVE Control(m) \in Controls
<1>1. NoDesc \in Cells /\ 0 \in 0..(Cap - 1)
  BY SharedAssumption DEF NoDesc, Cells
<1>. QED BY <1>1 DEF Control, Controls

\* A control block that is attached is empty.
LEMMA ControlFields ==
    ASSUME NEW m
    PROVE  /\ Control(m).active /\ Control(m).mode = m /\ Control(m).head = 0
           /\ Control(m).tail = 0 /\ Control(m).ready = 0 /\ Control(m).dropped = 0
BY DEF Control

\* So do the threads of one that joins and one that is away.
LEMMA ThreadType == Thread \in Threads /\ Left \in Threads
<1>1. NoDesc \in Cells /\ 0 \in 0..(Cap - 1)
  BY SharedAssumption DEF NoDesc, Cells
<1>. QED BY <1>1 DEF Thread, Left, Threads

\* A subscriber leaves or joins while the publisher is away.
LEMMA Rejoined ==
    ASSUME IInv, pub.pc = "idle", NEW s \in Subs,
           ctl' \in [Subs -> Controls], free' \in Seq(FreeCells), sub' \in [Subs -> Threads],
           \A r \in Subs : r # s => ctl'[r] = ctl[r] /\ sub'[r] = sub[r],
           members' \in [Subs -> Subs \cup {None}],
           \A i \in Subs : members'[i] # None =>
              \/ members'[i] = members[i] /\ members[i] # s
              \/ members'[i] = s /\ ctl'[s].active /\ ctl'[s].mode = "BALANCE",
           UNCHANGED <<seq, cursor, pub>>, got' \in [Subs -> Nat], joined' \in [Subs -> Nat],
           last' \in [Subs -> Nat],
           \A r \in Subs : r # s =>
              got'[r] = got[r] /\ joined'[r] = joined[r] /\ last'[r] = last[r],
           sub'[s] = IF ctl'[s].active THEN Thread ELSE Left,
           ctl'[s].active => /\ ctl'[s].head = 0 /\ ctl'[s].tail = 0 /\ ctl'[s].ready = 0
                            /\ ctl'[s].dropped = 0
                            /\ got'[s] = 0 /\ last'[s] = seq /\ joined'[s] = seq
    PROVE  IInv'
<1>1. RingTypes'
  BY DEF IInv, RingTypes
<1>2. pub' = pub /\ pub.target = None
  BY DEF IInv, Places
<1>3. \A r : ~Pending(r) /\ ~Pending(r)'
  BY <1>2 DEF Pending
<1>4. Places'
  <2>1. \A r \in Subs : ~sub'[r].alive \/ ~ctl'[r].active => sub'[r].pc = "gone"
    <3> TAKE r \in Subs
    <3>1. CASE r = s
      <4>1. Thread.alive /\ Left.pc = "gone"
        BY DEF Thread, Left
      <4>2. CASE ctl'[s].active
        <5>1. sub'[s] = Thread
          BY <4>2
        <5>. QED BY <3>1, <4>1, <4>2, <5>1
      <4>3. CASE ~ctl'[s].active
        BY <3>1, <4>1, <4>3
      <4>. QED BY <4>2, <4>3
    <3>2. CASE r # s
      <4>1. Places /\ ctl'[r] = ctl[r] /\ sub'[r] = sub[r]
        BY <3>2 DEF IInv
      <4>. QED BY <4>1 DEF Places
    <3>. QED BY <3>1, <3>2
  <2>. QED BY <1>2, <2>1 DEF Places
<1>5. Members'
  <2>1. ASSUME NEW i \in Subs, members'[i] # None
        PROVE  ctl'[members'[i]].active /\ ctl'[members'[i]].mode = "BALANCE"
    <3>1. CASE members'[i] = s /\ ctl'[s].active /\ ctl'[s].mode = "BALANCE"
      BY <3>1
    <3>2. CASE members'[i] = members[i] /\ members[i] # s
      <4>1. members[i] \in Subs /\ Balanced(members[i])
        BY <2>1, <3>2 DEF IInv, Members, RingTypes
      <4>. QED BY <3>2, <4>1 DEF Balanced
    <3>. QED BY <2>1, <3>1, <3>2
  <2>. QED BY <1>2, <2>1 DEF Members, Balanced
<1>6. RoomKept'
  BY <1>2, <1>3, SharedAssumption DEF RoomKept, Looked
<1>7. PeekHolds'
  <2> SUFFICES ASSUME NEW r \in Subs, sub'[r].pc = "cas", ctl'[r].mode # "DROP_OLD"
               PROVE  /\ sub'[r].head = ctl'[r].head /\ sub'[r].peek = ctl'[r].ring[ctl'[r].head]
                      /\ QueueLen(r)' > 0
    BY DEF PeekHolds
  <2>1. r # s
    BY DEF Thread, Left
  <2>2. ctl'[r] = ctl[r] /\ sub'[r] = sub[r] /\ QueueLen(r)' = QueueLen(r)
    BY <2>1 DEF QueueLen
  <2>. QED BY <2>2 DEF IInv, PeekHolds
<1>8. ctl'[s].active => QueueLen(s)' = 0
  <2>1. 0 \in 0..(Cap - 1) /\ 0 = 0
    BY SharedAssumption
  <2>2. Used(0, 0) = 0
    BY <2>1, RingFacts, ZenonT(60)
  <2>. QED BY <2>2 DEF QueueLen, Used
<1>9. \A r \in Broadcast' : InRing(r)'
  <2> SUFFICES ASSUME NEW r \in Broadcast' PROVE InRing(r)'
    OBVIOUS
  <2>1. CASE r = s
    <3>1. ctl'[s].active /\ seq \in Nat /\ seq' = seq
      BY <2>1 DEF Broadcast, IInv, RingTypes
    <3>2. /\ QueueLen(s)' = 0 /\ Coming(s)' = 0 /\ Dropped(s)' = 0
          /\ got'[s] = 0 /\ last'[s] = seq /\ joined'[s] = seq
      BY <1>3, <1>8, <3>1 DEF Coming, One, Dropped
    <3>. QED BY <2>1, <3>1, <3>2 DEF InRing
  <2>2. CASE r # s
    <3>1. r \in Subs /\ r \in Broadcast
      BY <2>2 DEF Broadcast
    <3>2. /\ QueueLen(r)' = QueueLen(r) /\ \A k : Entry(r, k)' = Entry(r, k)
          /\ Dropped(r)' = Dropped(r) /\ Coming(r)' = Coming(r)
      BY <1>3, <2>2, <3>1 DEF QueueLen, Entry, Dropped, Coming, One
    <3>3. /\ InRing(r) /\ last'[r] = last[r] /\ got'[r] = got[r] /\ joined'[r] = joined[r]
          /\ seq' = seq
      BY <2>2, <3>1 DEF IInv
    <3>. QED BY <3>2, <3>3 DEF InRing
  <2>. QED BY <2>1, <2>2
<1>10. ReadyCountsQueue'
  <2> SUFFICES ASSUME NEW r \in Subs, Alive(r)'
               PROVE  ctl'[r].ready = QueueLen(r)' + One(sub'[r].pc = "consume")
                                      - One(pub'.pc = "post" /\ Receiver' = r)
    BY DEF ReadyCountsQueue
  <2>1. CASE r = s
    <3>1. ctl'[s].active /\ sub'[s].pc = "idle"
      BY <2>1 DEF Alive, Thread
    <3>. QED BY <1>2, <1>8, <2>1, <3>1 DEF One
  <2>2. CASE r # s
    <3>1. ctl'[r] = ctl[r] /\ sub'[r] = sub[r] /\ QueueLen(r)' = QueueLen(r) /\ Alive(r)
      BY <2>2 DEF QueueLen, Alive
    <3>2. ctl[r].ready = QueueLen(r) + One(sub[r].pc = "consume")
                         - One(pub.pc = "post" /\ Receiver = r)
      BY <3>1 DEF IInv, ReadyCountsQueue
    <3>. QED BY <1>2, <3>1, <3>2 DEF One
  <2>. QED BY <2>1, <2>2
<1>11. Dropping'
  BY <1>2 DEF Dropping
<1>. QED BY <1>1, <1>4, <1>5, <1>6, <1>7, <1>9, <1>10, <1>11 DEF IInv

\* Attach: one joins.
LEMMA Attached == ASSUME IInv, NEW m \in Modes, Attach(m) PROVE IInv'
<1>1. /\ pub.pc = "idle" /\ UNCHANGED <<free, seq, cursor, pub>>
      /\ ctl \in [Subs -> Controls] /\ sub \in [Subs -> Threads]
      /\ members \in [Subs -> Subs \cup {None}] /\ got \in [Subs -> Nat]
      /\ joined \in [Subs -> Nat] /\ last \in [Subs -> Nat] /\ seq \in Nat
  BY DEF Attach, IInv, RingTypes, pool
<1>2. PICK s \in Subs :
          /\ ~ctl[s].active
          /\ ctl' = [ctl EXCEPT ![s] = Control(m)] /\ sub' = [sub EXCEPT ![s] = Thread]
          /\ members' = IF m = "BALANCE"
                        THEN [members EXCEPT ![Min({i \in Subs : members[i] = None})] = s]
                        ELSE members
          /\ got' = [got EXCEPT ![s] = 0] /\ joined' = [joined EXCEPT ![s] = seq]
          /\ last' = [last EXCEPT ![s] = seq]
  BY DEF Attach
<1>3. /\ ctl' \in [Subs -> Controls] /\ sub' \in [Subs -> Threads]
      /\ ctl'[s] = Control(m) /\ sub'[s] = Thread
      /\ \A r \in Subs : r # s => ctl'[r] = ctl[r] /\ sub'[r] = sub[r]
  BY <1>1, <1>2, ControlType, ThreadType
<1>4. /\ ctl'[s].active /\ ctl'[s].head = 0 /\ ctl'[s].tail = 0 /\ ctl'[s].ready = 0
      /\ ctl'[s].dropped = 0 /\ ctl'[s].mode = m
  BY <1>3 DEF Control
<1>5. /\ got' \in [Subs -> Nat] /\ joined' \in [Subs -> Nat] /\ last' \in [Subs -> Nat]
      /\ got'[s] = 0 /\ last'[s] = seq /\ joined'[s] = seq
      /\ \A r \in Subs : r # s => got'[r] = got[r] /\ joined'[r] = joined[r] /\ last'[r] = last[r]
  BY <1>1, <1>2
<1>6. /\ members' \in [Subs -> Subs \cup {None}]
      /\ \A i \in Subs : members'[i] = members[i] \/ (members'[i] = s /\ m = "BALANCE")
  <2>1. CASE m = "BALANCE"
    <3>1. PICK j : members' = [members EXCEPT ![j] = s]
      BY <1>2, <2>1
    <3>. QED BY <1>1, <2>1, <3>1
  <2>2. CASE m # "BALANCE"
    BY <1>1, <1>2, <2>2
  <2>. QED BY <2>1, <2>2
<1>7. \A i \in Subs : members[i] # s
  BY <1>1, <1>2, SharedAssumption DEF IInv, Members, Balanced
<1>8. free' \in Seq(FreeCells)
  BY <1>1 DEF IInv, RingTypes
<1>. QED BY <1>1, <1>3, <1>4, <1>5, <1>6, <1>7, <1>8, Rejoined, ZenonT(60)

\* Detach: one leaves.
LEMMA LeftOk == ASSUME IInv, NEW s \in Subs, Leave(s) PROVE IInv'
<1>1. /\ pub.pc = "idle" /\ ctl' = Reclaimed({s}) /\ free' = FreeAfter({s})
      /\ sub' = [sub EXCEPT ![s] = Left] /\ UNCHANGED <<seq, cursor, pub, got, joined, last>>
      /\ members' = [i \in Subs |-> IF members[i] \in {s} THEN None ELSE members[i]]
  BY DEF Leave, Reclaim, aux
<1>2. RingTypes
  BY DEF IInv
<1>3. /\ ctl' \in [Subs -> Controls] /\ ~ctl'[s].active
      /\ \A r \in Subs : r # s => ctl'[r] = ctl[r]
  BY <1>1, <1>2, ReclaimedFacts
<1>4. free' \in Seq(FreeCells)
  BY <1>1, <1>2, FreeAfterType DEF RingTypes
<1>5. sub' \in [Subs -> Threads] /\ sub'[s] = Left /\ \A r \in Subs : r # s => sub'[r] = sub[r]
  BY <1>1, <1>2, ThreadType DEF RingTypes
<1>6. /\ members' \in [Subs -> Subs \cup {None}]
      /\ \A i \in Subs : members'[i] # None => members'[i] = members[i] /\ members[i] # s
  BY <1>1, <1>2 DEF RingTypes
<1>7. got' \in [Subs -> Nat] /\ joined' \in [Subs -> Nat] /\ last' \in [Subs -> Nat]
  BY <1>1, <1>2 DEF RingTypes
<1>. QED BY <1>1, <1>3, <1>4, <1>5, <1>6, <1>7, Rejoined

\* Nobody has anything at first.
LEMMA InvInit == ASSUME Init PROVE IInv
<1>1. PICK e \in Envs :
         /\ ctl = [s \in Subs |-> IF e.modes[s] = None THEN Unused ELSE Control(e.modes[s])]
         /\ sub = [s \in Subs |-> IF e.modes[s] = None THEN Left ELSE Thread]
         /\ members = [i \in Subs |->
               LET rr == {s \in Subs : e.modes[s] = "BALANCE"}
                   at == {s \in rr : Cardinality({t \in rr : t < s}) = i - 1}
               IN  IF at = {} THEN None ELSE CHOOSE s \in at : TRUE]
  BY DEF Init
<1>2. e.modes \in [Subs -> Modes \cup {None}] /\ None \notin Subs /\ None \notin Modes
  BY SharedAssumption
<1>3. "FULL" \in Modes /\ "BALANCE" \in Modes
  BY DEF Modes
<1>4. Unused \in Controls
  <2>1. Control("FULL") \in Controls
    BY <1>3, ControlType
  <2>2. ASSUME NEW c \in Controls PROVE [c EXCEPT !.active = FALSE] \in Controls
    BY DEF Controls
  <2>. QED BY <2>1, <2>2 DEF Unused
<1>5. ctl \in [Subs -> Controls] /\ sub \in [Subs -> Threads]
  <2>1. ASSUME NEW s \in Subs PROVE ctl[s] \in Controls /\ sub[s] \in Threads
    BY <1>1, <1>2, <1>4, ControlType, ThreadType
  <2>. QED BY <1>1, <2>1
<1>6. ASSUME NEW i \in Subs
      PROVE  members[i] = None \/ (members[i] \in Subs /\ e.modes[members[i]] = "BALANCE")
  <2> DEFINE rr == {s \in Subs : e.modes[s] = "BALANCE"}
             at == {s \in rr : Cardinality({t \in rr : t < s}) = i - 1}
  <2>1. members[i] = IF at = {} THEN None ELSE CHOOSE s \in at : TRUE
    BY <1>1
  <2>2. at # {} => (CHOOSE s \in at : TRUE) \in at
    OBVIOUS
  <2>3. at \subseteq rr
    OBVIOUS
  <2> HIDE DEF at
  <2>. QED BY <2>1, <2>2, <2>3
<1>7. members \in [Subs -> Subs \cup {None}]
  BY <1>1, <1>6
<1>8. /\ free = [x \in Slots |-> Filled(x)] /\ seq = 0 /\ cursor = 0 /\ pub = Publisher
      /\ got = [s \in Subs |-> 0] /\ joined = got /\ last = got
  BY DEF Init, Filled
<1>9. RingTypes
  <2>1. free \in [1..NSlots -> FreeCells]
    BY <1>8 DEF Slots, Filled, FreeCells
  <2>2. NSlots \in Nat
    BY SharedAssumption
  <2>3. free \in Seq(FreeCells)
    BY <2>1, <2>2, SeqDef
  <2>4. pub \in Publishers
    BY <1>8 DEF Publisher, Publishers
  <2>. QED BY <1>5, <1>7, <1>8, <2>3, <2>4 DEF RingTypes
<1>10. /\ pub.pc = "idle" /\ pub.target = None
       /\ \A s \in Subs : sub[s] = (IF e.modes[s] = None THEN Left ELSE Thread)
       /\ \A s \in Subs : /\ ctl[s].active <=> e.modes[s] # None
                          /\ ctl[s].active => ctl[s] = Control(e.modes[s])
  BY <1>1, <1>8 DEF Publisher, Unused, Control
<1>11. Places
  BY <1>10 DEF Places, Left, Thread
<1>12. Members
  <2>1. ASSUME NEW i \in Subs, members[i] # None PROVE Balanced(members[i])
    <3>1. members[i] \in Subs /\ e.modes[members[i]] = "BALANCE" /\ "BALANCE" # None
      BY <1>2, <1>3, <1>6, <2>1
    <3>2. ctl[members[i]].active /\ ctl[members[i]] = Control("BALANCE")
      BY <1>10, <3>1
    <3>. QED BY <3>2, ControlFields DEF Balanced
  <2>. QED BY <1>10, <2>1 DEF Members
<1>13. RoomKept /\ PeekHolds
  BY <1>2, <1>10 DEF RoomKept, Looked, Pending, PeekHolds, Left, Thread
<1>14. ASSUME NEW s \in Subs, ctl[s].active
       PROVE  QueueLen(s) = 0 /\ ctl[s].ready = 0 /\ Dropped(s) = 0
  <2>1. ctl[s].head = 0 /\ ctl[s].tail = 0 /\ ctl[s].ready = 0 /\ ctl[s].dropped = 0
    BY <1>10, <1>14, ControlFields
  <2>2. 0 \in 0..(Cap - 1)
    BY SharedAssumption
  <2>3. Used(0, 0) = 0
    BY <2>2, RingFacts, ZenonT(60)
  <2>. QED BY <2>1, <2>3 DEF QueueLen, Used, Dropped
<1>15. \A s \in Broadcast : InRing(s)
  <2> TAKE s \in Broadcast
  <2>1. s \in Subs /\ QueueLen(s) = 0 /\ Dropped(s) = 0 /\ Coming(s) = 0
    BY <1>10, <1>14 DEF Broadcast, Pending, Coming, One
  <2>. QED BY <1>8, <2>1 DEF InRing
<1>16. ReadyCountsQueue
  BY <1>10, <1>14 DEF ReadyCountsQueue, Alive, Left, Thread, One
<1>17. Dropping
  BY <1>10 DEF Dropping
<1>. QED BY <1>9, <1>11, <1>12, <1>13, <1>15, <1>16, <1>17 DEF IInv

----------------------------------------------------------------------------
(* The actions.                                                               *)

\* The steps of a subscriber that leave its control block alone.
LEMMA ThreadSteps ==
    ASSUME IInv, NEW s \in Subs,
           Wait(s) \/ Timeout(s) \/ WaitReady(s) \/ Release(s) \/ ReleaseSlot(s) \/ Reserve(s)
             \/ Fill(s) \/ (Pop(s) /\ ~PopExpected(s))
    PROVE  IInv'
<1>1. /\ ctl \in [Subs -> Controls] /\ sub \in [Subs -> Threads] /\ sub[s] \in Threads
      /\ free \in Seq(FreeCells) /\ ctl[s].head \in 0..(Cap - 1)
      /\ ctl[s].ring[ctl[s].head] \in Cells
  <2>1. /\ ctl \in [Subs -> Controls] /\ sub \in [Subs -> Threads] /\ sub[s] \in Threads
        /\ free \in Seq(FreeCells)
    BY DEF IInv, RingTypes
  <2>2. ctl[s].head \in 0..(Cap - 1)
    BY <2>1, LenType
  <2>. QED BY <2>1, <2>2 DEF Controls
<1>2. Alive(s) /\ UNCHANGED <<seq, cursor, pub, members, got, joined, last, ctl>>
  BY DEF Wait, Timeout, WaitReady, Release, ReleaseSlot, Reserve, Fill, Pop, At, Look, balance, aux
<1>3. free' \in Seq(FreeCells)
  <2>1. CASE Reserve(s)
    <3>1. [slot |-> sub[s].gone, full |-> FALSE] \in FreeCells
      BY <1>1 DEF Threads, FreeCells
    <3>. QED BY <1>1, <2>1, <3>1, AppendProperties DEF Reserve
  <2>2. CASE Fill(s)
    <3>1. Filled(sub[s].gone) \in FreeCells
      BY <1>1 DEF Threads, FreeCells, Filled
    <3>2. /\ free' = [k \in DOMAIN free |-> IF free[k].slot = sub[s].gone THEN Filled(sub[s].gone)
                                           ELSE free[k]]
          /\ DOMAIN free = 1..Len(free) /\ Len(free) \in Nat
          /\ \A k \in 1..Len(free) : free[k] \in FreeCells
      BY <1>1, <2>2, LenProperties, ElementOfSeq DEF Fill
    <3>3. free' \in [1..Len(free) -> FreeCells]
      BY <3>1, <3>2
    <3>. QED BY <3>2, <3>3, SeqDef
  <2>3. CASE ~Reserve(s) /\ ~Fill(s)
    BY <1>1, <2>3 DEF Wait, Timeout, WaitReady, Release, ReleaseSlot, Pop, pool
  <2>. QED BY <2>1, <2>2, <2>3
<1>4. PICK t \in Threads :
         /\ sub' = [sub EXCEPT ![s] = t] /\ t.alive
         /\ t.pc = "cas" => /\ t.head = ctl[s].head /\ t.peek = ctl[s].ring[ctl[s].head]
                            /\ QueueLen(s) > 0
         /\ (t.pc = "consume") = (sub[s].pc = "consume")
  <2>1. CASE Look(s) /\ sub[s].pc # "consume"
    <3>1. QueueLen(s) \in Nat
      BY <1>1, LenType
    <3>2. CASE QueueLen(s) = 0
      <4> DEFINE u == [sub[s] EXCEPT !.pc = "wait"]
      <4>1. u \in Threads /\ sub' = [sub EXCEPT ![s] = u] /\ u.alive /\ u.pc = "wait"
        BY <1>1, <1>2, <2>1, <3>2 DEF Look, Goto, Threads, Alive
      <4> HIDE DEF u
      <4>. QED BY <2>1, <4>1
    <3>3. CASE QueueLen(s) # 0
      <4> DEFINE u == [sub[s] EXCEPT !.pc = "cas", !.head = ctl[s].head,
                                     !.peek = ctl[s].ring[ctl[s].head]]
      <4>1. u \in Threads
        BY <1>1 DEF Threads
      <4>2. /\ sub' = [sub EXCEPT ![s] = u] /\ u.alive /\ u.pc = "cas"
            /\ u.head = ctl[s].head /\ u.peek = ctl[s].ring[ctl[s].head]
        BY <1>1, <1>2, <2>1, <3>3 DEF Look, Threads, Alive
      <4>3. (u.pc = "consume") = (sub[s].pc = "consume") /\ QueueLen(s) > 0
        BY <2>1, <3>1, <3>3, <4>2
      <4> HIDE DEF u
      <4>. QED BY <4>1, <4>2, <4>3
    <3>. QED BY <3>2, <3>3
  <2>2. ASSUME NEW p \in {"asleep", "idle", "clear", "fill"}, Goto(s, p), sub[s].pc # "consume"
        PROVE  \E t \in Threads : /\ sub' = [sub EXCEPT ![s] = t] /\ t.alive /\ t.pc # "cas"
                                 /\ (t.pc = "consume") = (sub[s].pc = "consume")
    <3> DEFINE u == [sub[s] EXCEPT !.pc = p]
    <3>1. u \in Threads
      BY <1>1 DEF Threads
    <3>2. sub' = [sub EXCEPT ![s] = u] /\ u.alive /\ u.pc = p
      BY <1>1, <1>2, <2>2 DEF Goto, Threads, Alive
    <3> HIDE DEF u
    <3>. QED BY <2>2, <3>1, <3>2
  <2>3. CASE ReleaseSlot(s)
    <3>1. NoDesc \in Cells /\ sub[s].cur.slot \in Slots \cup {None} /\ sub[s].pc = "unref"
      BY <1>1, <2>3 DEF NoDesc, Cells, Threads, ReleaseSlot, At
    <3> DEFINE u(p, g) == [sub[s] EXCEPT !.cur = NoDesc, !.gone = g, !.pc = p]
    <3>2. ASSUME NEW p \in {"reserve", "idle", "hold"}, NEW g \in Slots \cup {None},
                 sub' = [sub EXCEPT ![s] = u(p, g)]
          PROVE  \E t \in Threads : /\ sub' = [sub EXCEPT ![s] = t] /\ t.alive /\ t.pc # "cas"
                                   /\ t.pc # "consume"
      <4>1. u(p, g) \in Threads
        BY <1>1, <3>1 DEF Threads
      <4>2. u(p, g).alive /\ u(p, g).pc = p
        BY <1>1, <1>2 DEF Threads, Alive
      <4> HIDE DEF u
      <4>. QED BY <3>2, <4>1, <4>2
    <3>3. sub' = [sub EXCEPT ![s] = u(IF LastRef(sub[s].cur.slot) THEN "reserve" ELSE Resume(s),
                                      IF LastRef(sub[s].cur.slot) THEN sub[s].cur.slot ELSE None)]
      BY <1>1, <2>3 DEF ReleaseSlot, Threads
    <3>4. Resume(s) \in {"reserve", "idle", "hold"}
      BY DEF Resume
    <3> HIDE DEF u
    <3>. QED BY <3>1, <3>2, <3>3, <3>4
  <2>4. CASE Fill(s)
    <3> DEFINE u == [sub[s] EXCEPT !.pc = Resume(s), !.gone = None]
    <3>1. Resume(s) \in {"idle", "hold"}
      BY DEF Resume
    <3>2. u \in Threads /\ u.pc = Resume(s)
      BY <1>1, <3>1 DEF Threads
    <3>3. sub' = [sub EXCEPT ![s] = u] /\ u.alive /\ sub[s].pc = "fill"
      BY <1>1, <1>2, <2>4 DEF Fill, At, Threads, Alive
    <3> HIDE DEF u
    <3>. QED BY <3>1, <3>2, <3>3
  <2>5. CASE Wait(s) \/ WaitReady(s) \/ Timeout(s) \/ Release(s) \/ Reserve(s)
    BY <2>1, <2>2, <2>5 DEF Wait, WaitReady, Timeout, Release, Reserve, At
  <2>6. CASE Pop(s) /\ ~PopExpected(s)
    BY <2>1, <2>6 DEF Pop, At
  <2>. QED BY <2>3, <2>4, <2>5, <2>6
<1>5. \A r \in Subs : SameRing(r)
  BY <1>2 DEF SameRing, Dropped
<1>. QED BY <1>1, <1>2, <1>3, <1>4, <1>5, ThreadMoves

\* The steps that change the slot it holds or its ready count, and its death.
LEMMA HeldSteps ==
    ASSUME IInv, NEW s \in Subs, ClearHeldSlot(s) \/ HoldSlot(s) \/ ConsumeReady(s) \/ Die(s)
    PROVE  IInv'
<1>1. /\ ctl \in [Subs -> Controls] /\ sub \in [Subs -> Threads] /\ sub[s] \in Threads
      /\ free \in Seq(FreeCells) /\ ctl[s].ready \in Int /\ NoDesc \in Cells
  <2>1. NoDesc \in Cells
    BY DEF NoDesc, Cells
  <2>. QED BY <2>1, LenType DEF IInv, RingTypes
<1>2. /\ Alive(s) /\ UNCHANGED <<free, seq, cursor, pub, members, got, joined, last>>
  BY DEF ClearHeldSlot, HoldSlot, ConsumeReady, Die, At, balance, aux, pool
<1>3. ASSUME NEW held \in Slots \cup {None}, NEW t \in Threads, sub' = [sub EXCEPT ![s] = t],
             t.alive, t.pc \in {"unref", "idle"}, sub[s].pc # "consume",
             ctl' = [ctl EXCEPT ![s].held = held]
      PROVE  IInv'
  <2>1. ctl' \in [Subs -> Controls]
    BY <1>1, <1>3, ZenonT(60) DEF Controls
  <2>2. \A r \in Subs : SameRing(r) /\ ctl'[r].ready = ctl[r].ready
    BY <1>1, <1>3 DEF Controls, SameRing, Dropped
  <2>. QED BY <1>1, <1>2, <1>3, <2>1, <2>2, ThreadMoves
<1>4. CASE ClearHeldSlot(s)
  <2> DEFINE t == [sub[s] EXCEPT !.pc = "unref"]
  <2>1. t \in Threads /\ t.alive /\ t.pc = "unref"
    BY <1>1, <1>2 DEF Threads, Alive
  <2>2. sub' = [sub EXCEPT ![s] = t] /\ sub[s].pc = "clear"
    BY <1>1, <1>4 DEF ClearHeldSlot, At, Goto
  <2>3. \E held \in Slots \cup {None} : ctl' = [ctl EXCEPT ![s].held = held]
    <3>1. ctl[s].held \in Slots \cup {None} /\ ctl = [ctl EXCEPT ![s].held = ctl[s].held]
      BY <1>1 DEF Controls
    <3>. QED BY <1>4, <3>1 DEF ClearHeldSlot
  <2> HIDE DEF t
  <2>. QED BY <1>3, <2>1, <2>2, <2>3
<1>5. CASE HoldSlot(s)
  <2> DEFINE t == [sub[s] EXCEPT !.pc = "idle", !.cur = sub[s].desc, !.desc = NoDesc]
  <2>1. t \in Threads /\ t.alive /\ t.pc = "idle"
    BY <1>1, <1>2 DEF Threads, Alive
  <2>2. sub' = [sub EXCEPT ![s] = t] /\ sub[s].pc = "hold"
    BY <1>1, <1>5 DEF HoldSlot, At
  <2>3. sub[s].desc.slot \in Slots \cup {None}
    BY <1>1 DEF Threads, Cells
  <2>4. ctl' = [ctl EXCEPT ![s].held = sub[s].desc.slot]
    BY <1>5 DEF HoldSlot
  <2> HIDE DEF t
  <2>. QED BY <1>3, <2>1, <2>2, <2>3, <2>4
<1>6. CASE ConsumeReady(s)
  <2> DEFINE p == IF sub[s].cur = NoDesc THEN "hold" ELSE "clear"
             t == [sub[s] EXCEPT !.pc = p]
  <2>1. t \in Threads /\ t.alive /\ t.pc \in {"hold", "clear"}
    BY <1>1, <1>2 DEF Threads, Alive
  <2>2. /\ sub' = [sub EXCEPT ![s] = t] /\ sub[s].pc = "consume"
        /\ ctl' = [ctl EXCEPT ![s].ready = @ - 1]
    BY <1>1, <1>6 DEF ConsumeReady, At, Goto
  <2> HIDE DEF t
  <2>3. ctl' \in [Subs -> Controls]
    <3>1. ctl[s].ready - 1 \in Int
      BY <1>1
    <3>. QED BY ZenonT(40), <1>1, <2>2, <3>1 DEF Controls
  <2>4. /\ \A r \in Subs : SameRing(r) /\ (r # s => ctl'[r].ready = ctl[r].ready)
        /\ ctl'[s].ready = ctl[s].ready - 1
    BY <1>1, <2>2 DEF Controls, SameRing, Dropped
  <2>5. ctl'[s].ready - One(t.pc = "consume") = ctl[s].ready - One(sub[s].pc = "consume")
    BY <1>1, <2>1, <2>2, <2>4 DEF One
  <2>. QED BY <1>1, <1>2, <2>1, <2>2, <2>3, <2>4, <2>5, ThreadMoves
<1>7. CASE Die(s)
  <2> DEFINE t == [Left EXCEPT !.alive = FALSE]
  <2>1. t \in Threads /\ ~t.alive /\ t.pc = "gone"
    <3>1. Left \in Threads /\ Left.pc = "gone"
      BY ThreadType DEF Left, Thread
    <3>. QED BY <3>1 DEF Threads
  <2>2. sub' = [sub EXCEPT ![s] = t] /\ ctl' = ctl
    BY <1>7 DEF Die
  <2> HIDE DEF t
  <2>3. \A r \in Subs : SameRing(r)
    BY <2>2 DEF SameRing, Dropped
  <2>. QED BY <1>1, <1>2, <2>1, <2>2, <2>3, ThreadMoves
<1>. QED BY <1>4, <1>5, <1>6, <1>7

\* The publisher moves on and nobody is reclaimed.
LEMMA Looks ==
    ASSUME IInv, pub.pc \notin {"push", "post"},
           pub' \in Publishers, pub'.pc \notin {"push", "post"},
           pub'.pc = "check" => pub'.i >= 1,
           pub'.pc = "drop" => pub'.i \in Broadcast' /\ ctl'[pub'.i].mode = "DROP_OLD",
           pub'.target # None =>
              pub'.pc = "stamp" /\ Balanced(pub'.target) /\ QueueHasSpace(pub'.target),
           \A s \in Broadcast :
              (pub'.pc \in {"check", "drop"} /\ s < pub'.i) \/ pub'.pc \in {"select", "stamp"} =>
                 QueueHasSpace(s),
           free' \in Seq(FreeCells), cursor' \in Nat,
           UNCHANGED <<ctl, members, seq, sub, got, joined, last>>
    PROVE  IInv'
<1>1. /\ ctl \in [Subs -> Controls] /\ members \in [Subs -> Subs \cup {None}]
      /\ \A s \in Subs : SameRing(s)
  BY DEF IInv, RingTypes, SameRing, Dropped
<1>2. {} \in SUBSET Subs /\ Broadcast \ {} = Broadcast /\ Subs \ {} = Subs
  OBVIOUS
<1>. QED BY <1>1, <1>2, PublisherLooks

\* The publisher moves on and the dead in D are reclaimed.
LEMMA LooksReclaiming ==
    ASSUME IInv, NEW D \in SUBSET Subs, \A s \in D : ~sub[s].alive,
           pub.pc \notin {"push", "post"},
           pub' \in Publishers, pub'.pc \notin {"push", "post"}, pub'.target = None,
           pub'.pc = "check" => pub'.i >= 1,
           pub'.pc = "drop" => pub'.i \in Broadcast' /\ ctl'[pub'.i].mode = "DROP_OLD",
           \A s \in Broadcast \ D :
              (pub'.pc \in {"check", "drop"} /\ s < pub'.i) \/ pub'.pc \in {"select", "stamp"} =>
                 QueueHasSpace(s),
           ctl' \in [Subs -> Controls], \A s \in D : ~ctl'[s].active,
           \A s \in Subs \ D : SameRing(s) /\ ctl'[s].ready = ctl[s].ready, Reclaim(D),
           free' \in Seq(FreeCells), cursor' \in Nat,
           UNCHANGED <<seq, sub, got, joined, last>>
    PROVE  IInv'
<1>1. members' = [i \in Subs |-> IF members[i] \in D THEN None ELSE members[i]]
  BY DEF Reclaim
<1>2. members \in [Subs -> Subs \cup {None}]
  BY DEF IInv, RingTypes
<1>3. /\ members' \in [Subs -> Subs \cup {None}]
      /\ \A i \in Subs : members'[i] # None => members'[i] = members[i] /\ members[i] \notin D
  BY <1>1, <1>2
<1>. QED BY <1>3, PublisherLooks

\* The same as ReclaimedFacts, of the step.
LEMMA ReclaimedRings ==
    ASSUME RingTypes, NEW D \in SUBSET Subs, ctl' = Reclaimed(D)
    PROVE  /\ ctl' \in [Subs -> Controls] /\ \A s \in D : ~ctl'[s].active
           /\ \A s \in Subs \ D : SameRing(s) /\ ctl'[s].ready = ctl[s].ready
BY ReclaimedFacts DEF SameRing, Dropped

\* The publisher's fields, and the publisher that is idle.
LEMMA PublisherFields ==
    ASSUME NEW p \in Publishers
    PROVE  /\ Publisher \in Publishers /\ Publisher.pc = "idle" /\ Publisher.target = None
           /\ p.i \in Nat /\ p.data \in Slots \cup {None} /\ p.count \in Nat /\ p.base \in Nat
           /\ p.target \in Subs \cup {None}
BY DEF Publisher, Publishers

\* A slot that is popped from the free queue.
LEMMA Emptied ==
    ASSUME NEW f \in Seq(FreeCells), CanPopFree(f)
    PROVE  Head(f).slot \in Slots \cup {None} /\ Tail(f) \in Seq(FreeCells)
BY ZenonT(40), HeadTailProperties DEF CanPopFree, FreeCells

\* The slot the publisher puts back.
LEMMA Refilled ==
    ASSUME NEW f \in Seq(FreeCells), pub \in Publishers
    PROVE  Append(f, Filled(pub.data)) \in Seq(FreeCells)
<1>1. Filled(pub.data) \in FreeCells
  BY PublisherFields DEF Filled, FreeCells
<1>. QED BY <1>1, AppendProperties

\* CreateData, with and without a look for the dead.
LEMMA Creates == ASSUME IInv, CreateData \/ CreateAgain PROVE IInv'
<1>1. /\ RingTypes /\ pub \in Publishers /\ free \in Seq(FreeCells) /\ cursor \in Nat
      /\ pub.pc \in {"idle", "scavenge"} /\ pub.target = None
      /\ UNCHANGED <<cursor, seq, sub, got, joined, last>>
  BY DEF IInv, RingTypes, Places, CreateData, CreateAgain, balance, aux
<1>2. ASSUME NEW x \in Slots \cup {None}, pub' = [Publisher EXCEPT !.pc = "created", !.data = x]
      PROVE  pub' \in Publishers /\ pub'.pc = "created" /\ pub'.target = None
  BY <1>2 DEF Publisher, Publishers
<1>3. CASE CreateData
  <2>1. UNCHANGED <<ctl, members>>
    BY <1>3 DEF CreateData, balance
  <2>2. CASE CanPopFree(free)
    <3>1. pub' = [Publisher EXCEPT !.pc = "created", !.data = Head(free).slot] /\ free' = Tail(free)
      BY <1>3, <2>2 DEF CreateData, Take
    <3>. QED BY <1>1, <1>2, <2>1, <2>2, <3>1, Emptied, Looks
  <2>3. CASE ~CanPopFree(free)
    <3>1. pub' = [pub EXCEPT !.pc = "scavenge"] /\ free' = free
      BY <1>3, <2>3 DEF CreateData
    <3>2. pub' \in Publishers /\ pub'.pc = "scavenge" /\ pub'.target = None
      BY <1>1, <3>1 DEF Publishers
    <3>. QED BY <1>1, <2>1, <3>1, <3>2, Looks
  <2>. QED BY <2>2, <2>3
<1>4. CASE CreateAgain
  <2>1. ctl' = Reclaimed(Dead) /\ Reclaim(Dead)
    BY <1>4 DEF CreateAgain
  <2>2. Dead \in SUBSET Subs /\ \A s \in Dead : ~sub[s].alive
    BY DEF Dead
  <2>3. /\ ctl' \in [Subs -> Controls] /\ \A s \in Dead : ~ctl'[s].active
        /\ \A s \in Subs \ Dead : SameRing(s) /\ ctl'[s].ready = ctl[s].ready
    BY <1>1, <2>1, <2>2, ReclaimedRings
  <2>4. FreeAfter(Dead) \in Seq(FreeCells)
    BY <1>1, FreeAfterType
  <2>5. CASE CanPopFree(FreeAfter(Dead))
    <3>1. /\ pub' = [Publisher EXCEPT !.pc = "created", !.data = Head(FreeAfter(Dead)).slot]
          /\ free' = Tail(FreeAfter(Dead))
      BY <1>4, <2>5 DEF CreateAgain, Take
    <3>. QED BY <1>1, <1>2, <2>1, <2>2, <2>3, <2>4, <2>5, <3>1, Emptied, LooksReclaiming
  <2>6. CASE ~CanPopFree(FreeAfter(Dead))
    <3>1. pub' = Publisher /\ free' = FreeAfter(Dead)
      BY <1>4, <2>6 DEF CreateAgain
    <3>. QED BY <1>1, <2>1, <2>2, <2>3, <2>4, <3>1, PublisherFields, LooksReclaiming
  <2>. QED BY <2>5, <2>6
<1>. QED BY <1>3, <1>4

\* The publisher drops its handle, or begins to publish.
LEMMA Begins == ASSUME IInv, Abandon \/ Publish PROVE IInv'
<1>1. /\ RingTypes /\ pub \in Publishers /\ free \in Seq(FreeCells) /\ cursor \in Nat
      /\ pub.pc = "created" /\ pub.target = None
      /\ UNCHANGED <<ctl, members, cursor, seq, sub, got, joined, last>>
  BY DEF IInv, RingTypes, Places, Abandon, Publish, balance, aux
<1>2. CASE Abandon
  <2>1. pub' = Publisher /\ free' = Append(free, Filled(pub.data))
    BY <1>2 DEF Abandon
  <2>. QED BY <1>1, <2>1, PublisherFields, Refilled, Looks
<1>3. CASE Publish
  <2>1. pub' = [pub EXCEPT !.pc = "check", !.i = 1] /\ free' = free
    BY <1>3 DEF Publish, pool
  <2>2. pub' \in Publishers /\ pub'.pc = "check" /\ pub'.i = 1 /\ pub'.target = None
    BY <1>1, <2>1 DEF Publishers
  <2>3. \A s \in Broadcast : ~(s < 1)
    BY DEF Broadcast, Subs
  <2>. QED BY <1>1, <2>1, <2>2, <2>3, Looks
<1>. QED BY <1>2, <1>3

\* The first pass: one that has no room and is not dead ends the publish.
LEMMA CheckOk == ASSUME IInv, Check PROVE IInv'
<1> DEFINE i == pub.i
<1>1. /\ RingTypes /\ pub \in Publishers /\ free \in Seq(FreeCells) /\ cursor \in Nat
      /\ ctl \in [Subs -> Controls]
      /\ pub.pc = "check" /\ pub.i \in Subs /\ pub.target = None
      /\ UNCHANGED <<cursor, seq, sub, got, joined, last>>
  <2>1. pub \in Publishers /\ pub.i \in Nat /\ pub.i >= 1 /\ pub.i <= N /\ N \in Nat
    BY SharedAssumption, PublisherFields DEF IInv, RingTypes, Places, Check
  <2>. QED BY SMTT(30), <2>1 DEF IInv, RingTypes, Places, Check, aux, Subs
<1>2. \A s \in Broadcast : s < i => QueueHasSpace(s)
  BY <1>1 DEF IInv, RoomKept, Looked, Broadcast
<1>3. \A s \in Broadcast : s < i + 1 => s < i \/ s = i
  BY <1>1 DEF Broadcast, Subs
<1>4. ASSUME NEW p, p \in {[pub EXCEPT !.pc = "check", !.i = @ + 1],
                          [pub EXCEPT !.pc = "check", !.i = @ + 1, !.count = @ + 1],
                          [pub EXCEPT !.i = @ + 1, !.balanced = TRUE]}
      PROVE  /\ p \in Publishers /\ p.pc = "check" /\ p.i = i + 1 /\ p.i >= 1
             /\ p.target = None
  <2>1. i + 1 \in Nat /\ i + 1 >= 1 /\ pub.count + 1 \in Nat
    BY <1>1, PublisherFields DEF Subs
  <2>2. PICK c \in Nat, b \in BOOLEAN :
           p = [pc |-> "check", i |-> i + 1, data |-> pub.data, count |-> c, balanced |-> b,
                base |-> pub.base, tries |-> pub.tries, target |-> pub.target]
    BY ZenonT(40), <1>1, <1>4, <2>1 DEF Publishers
  <2>. QED BY <1>1, <2>1, <2>2 DEF Publishers
<1>5. CASE /\ pub' \in {[pub EXCEPT !.pc = "check", !.i = @ + 1],
                       [pub EXCEPT !.pc = "check", !.i = @ + 1, !.count = @ + 1],
                       [pub EXCEPT !.i = @ + 1, !.balanced = TRUE]}
           /\ UNCHANGED <<free, ctl, members>> /\ (i \in Broadcast => QueueHasSpace(i))
  <2>1. /\ pub' \in Publishers /\ pub'.pc = "check" /\ pub'.i = i + 1 /\ pub'.i >= 1
        /\ pub'.target = None
    BY <1>4, <1>5
  <2>2. \A s \in Broadcast : s < i + 1 => QueueHasSpace(s)
    BY <1>2, <1>3, <1>5
  <2>. QED BY <1>1, <1>5, <2>1, <2>2, Looks
<1>6. CASE ctl[i].active /\ ctl[i].mode # "BALANCE" /\ ~QueueHasSpace(i)
  <2>1. Reclaim(Dead)
    BY <1>6 DEF Check
  <2>2. Dead \in SUBSET Subs /\ \A s \in Dead : ~sub[s].alive
    BY DEF Dead
  <2>3. Reclaimed(Dead) \in [Subs -> Controls]
    BY <1>1, <2>2, ReclaimedFacts
  <2>4. FreeAfter(Dead) \in Seq(FreeCells)
    BY <1>1, FreeAfterType
  <2>5. CASE i \in Dead
    <3>1. /\ pub' = [pub EXCEPT !.pc = "check", !.i = @ + 1] /\ free' = FreeAfter(Dead)
          /\ ctl' = Reclaimed(Dead)
      BY <1>6, <2>5 DEF Check, NextIndex
    <3>2. /\ pub' \in Publishers /\ pub'.pc = "check" /\ pub'.i = i + 1 /\ pub'.i >= 1
          /\ pub'.target = None
      BY <1>4, <3>1
    <3>3. \A s \in Broadcast \ Dead : s < i + 1 => QueueHasSpace(s)
      BY <1>2, <1>3, <2>5
    <3>4. /\ ctl' \in [Subs -> Controls] /\ \A s \in Dead : ~ctl'[s].active
          /\ \A s \in Subs \ Dead : SameRing(s) /\ ctl'[s].ready = ctl[s].ready
      BY <1>1, <2>2, <3>1, ReclaimedRings
    <3>. QED BY <1>1, <2>1, <2>2, <2>4, <3>1, <3>2, <3>3, <3>4, LooksReclaiming
  <2>6. CASE i \notin Dead /\ ctl[i].mode # "DROP_OLD"
    <3>1. /\ pub' = Publisher /\ free' = Append(FreeAfter(Dead), Filled(pub.data))
          /\ ctl' = [Reclaimed(Dead) EXCEPT ![i].dropped = @ + 1]
      BY <1>1, <1>6, <2>6 DEF Check, GiveUp
    <3>2. free' \in Seq(FreeCells)
      BY <1>1, <2>4, <3>1, Refilled
    <3>3. /\ \A s \in Dead : ~Reclaimed(Dead)[s].active
          /\ \A s \in Subs \ Dead : Reclaimed(Dead)[s] = ctl[s]
      BY <1>1, <2>2, ReclaimedFacts
    <3>4. ASSUME NEW R \in [Subs -> Controls], ctl' = [R EXCEPT ![i].dropped = @ + 1]
          PROVE  /\ ctl' \in [Subs -> Controls]
                 /\ \A s \in Subs : /\ ctl'[s].active = R[s].active /\ ctl'[s].mode = R[s].mode
                                    /\ ctl'[s].head = R[s].head /\ ctl'[s].tail = R[s].tail
                                    /\ ctl'[s].ring = R[s].ring /\ ctl'[s].ready = R[s].ready
      <4>1. R[i] \in Controls /\ R[i].dropped + 1 \in Nat
        BY <1>1, SMTT(40) DEF Controls
      <4>2. ctl'[i] = [R[i] EXCEPT !.dropped = @ + 1] /\ \A s \in Subs \ {i} : ctl'[s] = R[s]
        BY <1>1, <3>4
      <4>3. ASSUME NEW c \in Controls, NEW n \in Nat
            PROVE  /\ [c EXCEPT !.dropped = n] \in Controls
                   /\ [c EXCEPT !.dropped = n].active = c.active
                   /\ [c EXCEPT !.dropped = n].mode = c.mode
                   /\ [c EXCEPT !.dropped = n].head = c.head
                   /\ [c EXCEPT !.dropped = n].tail = c.tail
                   /\ [c EXCEPT !.dropped = n].ring = c.ring
                   /\ [c EXCEPT !.dropped = n].ready = c.ready
        BY DEF Controls
      <4>4. ctl'[i] \in Controls /\ DOMAIN ctl' = Subs /\ ctl' = [s \in Subs |-> ctl'[s]]
        BY <1>1, <3>4, <4>1, <4>2, <4>3
      <4>5. ctl' \in [Subs -> Controls]
        BY <4>2, <4>4
      <4>6. /\ ctl'[i].active = R[i].active /\ ctl'[i].mode = R[i].mode
            /\ ctl'[i].head = R[i].head /\ ctl'[i].tail = R[i].tail
            /\ ctl'[i].ring = R[i].ring /\ ctl'[i].ready = R[i].ready
        <5>1. PICK c \in Controls : c = R[i]
          BY <4>1
        <5>2. PICK n \in Nat : n = R[i].dropped + 1
          BY <4>1
        <5>3. ctl'[i] = [c EXCEPT !.dropped = n]
          BY <4>2, <5>1, <5>2
        <5>. QED BY <4>3, <5>1, <5>3
      <4>. QED BY <4>2, <4>5, <4>6
    <3>5. /\ ctl' \in [Subs -> Controls]
          /\ \A s \in Dead : ~ctl'[s].active
          /\ \A s \in Subs \ Dead : SameRing(s) /\ ctl'[s].ready = ctl[s].ready
      <4> DEFINE R == Reclaimed(Dead)
      <4>1. R \in [Subs -> Controls] /\ ctl' = [R EXCEPT ![i].dropped = @ + 1]
        BY <2>3, <3>1
      <4>2. \A s \in Dead : ~R[s].active /\ s \in Subs
        BY <2>2, <3>3
      <4>3. \A s \in Subs \ Dead : R[s] = ctl[s]
        BY <3>3
      <4> HIDE DEF R
      <4>4. /\ ctl' \in [Subs -> Controls]
            /\ \A s \in Subs : /\ ctl'[s].active = R[s].active /\ ctl'[s].mode = R[s].mode
                               /\ ctl'[s].head = R[s].head /\ ctl'[s].tail = R[s].tail
                               /\ ctl'[s].ring = R[s].ring /\ ctl'[s].ready = R[s].ready
        BY <3>4, <4>1
      <4>5. \A s \in Subs \ Dead : Dropped(s)' = Dropped(s)
        <5> TAKE s \in Subs \ Dead
        <5>1. CASE s = i
          <6>1. ctl'[s].mode = ctl[s].mode /\ ctl[s].mode # "DROP_OLD"
            BY <2>6, <4>3, <4>4, <5>1
          <6>. QED BY <6>1 DEF Dropped
        <5>2. CASE s # i
          <6>1. ctl'[s] = ctl[s]
            BY <4>1, <4>3, <5>2
          <6>. QED BY <6>1 DEF Dropped
        <5>. QED BY <5>1, <5>2
      <4>. QED BY <4>2, <4>3, <4>4, <4>5 DEF SameRing
    <3>. QED BY <1>1, <2>1, <2>2, <3>1, <3>2, <3>5, PublisherFields, LooksReclaiming
  <2>7. CASE i \notin Dead /\ ctl[i].mode = "DROP_OLD"
    <3>1. /\ pub' = [pub EXCEPT !.pc = "drop"] /\ free' = FreeAfter(Dead)
          /\ ctl' = Reclaimed(Dead)
      BY <1>6, <2>7 DEF Check
    <3>2. pub' \in Publishers /\ pub'.pc = "drop" /\ pub'.i = i /\ pub'.target = None
      BY <1>1, <3>1 DEF Publishers
    <3>3. /\ ctl' \in [Subs -> Controls] /\ \A s \in Dead : ~ctl'[s].active
          /\ \A s \in Subs \ Dead : SameRing(s) /\ ctl'[s].ready = ctl[s].ready
      BY <1>1, <2>2, <3>1, ReclaimedRings
    <3>4. i \in Broadcast' /\ ctl'[i].mode = "DROP_OLD"
      BY <1>1, <1>6, <2>7, <3>3 DEF SameRing, Broadcast
    <3>5. \A s \in Broadcast \ Dead : s < i => QueueHasSpace(s)
      BY <1>2
    <3>. QED BY <1>1, <2>1, <2>2, <2>4, <3>1, <3>2, <3>3, <3>4, <3>5, LooksReclaiming
  <2>. QED BY <2>5, <2>6, <2>7
<1>. QED BY <1>1, <1>5, <1>6 DEF Check, NextIndex, Count, pool, Broadcast

\* DropDescriptor: the oldest message of the ring goes, and there is room.
LEMMA Drops ==
    ASSUME IInv, DropOld, NEW i \in Subs, i = pub.i, QueueLen(i) # 0
    PROVE  IInv'
<1>1. /\ RingTypes /\ pub \in Publishers /\ free \in Seq(FreeCells) /\ ctl \in [Subs -> Controls]
      /\ pub.pc = "drop" /\ i \in Subs /\ i \in Nat /\ N \in Nat /\ pub.target = None
      /\ ctl[i].active /\ ctl[i].mode = "DROP_OLD"
      /\ UNCHANGED <<cursor, members, seq, sub, got, joined, last>>
  <2>1. pub.pc = "drop" /\ pub \in Publishers /\ i \in Nat
    <3>1. pub \in Publishers
      BY DEF IInv, RingTypes
    <3>. QED BY <3>1, PublisherFields DEF DropOld
  <2>2. i \in Subs /\ ctl[i].active /\ ctl[i].mode = "DROP_OLD"
    BY <2>1 DEF IInv, Dropping, Broadcast
  <2>. QED BY <2>1, <2>2, SharedAssumption DEF IInv, RingTypes, Places, DropOld, aux, balance
<1>2. /\ pub' = [pub EXCEPT !.pc = "check", !.i = @ + 1, !.count = @ + 1]
      /\ ctl' = [ctl EXCEPT ![i].head = (@ + 1) % Cap, ![i].ready = ctl[i].ready - 1,
                            ![i].dropped = @ + 1]
      /\ free' = IF refcount[ctl[i].ring[ctl[i].head].slot] = 1
                  THEN Append(free, Filled(ctl[i].ring[ctl[i].head].slot)) ELSE free
  BY DEF DropOld, Count, Consumed
<1>3. PICK h \in 0..(Cap - 1) : h = ctl[i].head
  BY <1>1, LenType
<1>4. PICK t \in 0..(Cap - 1) : t = ctl[i].tail
  BY <1>1, LenType
<1>5. QueueLen(i) = Used(h, t) /\ QueueLen(i) \in Nat
  BY <1>1, <1>3, <1>4, LenType
<1>6. /\ (Used(h, t) = 0 <=> h = t) /\ After(h) \in 0..(Cap - 1) /\ Cell(h, 1) = h
      /\ h # t => /\ Used(After(h), t) = Used(h, t) - 1
                  /\ After(t) # After(h)
                  /\ \A k \in 1..(Used(h, t) - 1) : Cell(After(h), k) = Cell(h, k + 1)
  BY PopFacts
<1>7. h # t
  BY <1>5, <1>6
<1>8. /\ ctl'[i].head = After(h) /\ ctl'[i].tail = t /\ ctl'[i].ring = ctl[i].ring
      /\ ctl'[i].active = ctl[i].active /\ ctl'[i].mode = ctl[i].mode
      /\ ctl'[i].ready = ctl[i].ready - 1 /\ ctl'[i].dropped = ctl[i].dropped + 1
      /\ \A r \in Subs : r # i => ctl'[r] = ctl[r]
  <2>1. PICK c \in Controls : c = ctl[i]
    BY <1>1
  <2>2. /\ ctl'[i] = [c EXCEPT !.head = After(h), !.ready = c.ready - 1, !.dropped = c.dropped + 1]
        /\ \A r \in Subs : r # i => ctl'[r] = ctl[r]
    BY <1>1, <1>2, <1>3, <2>1 DEF After
  <2>3. ASSUME NEW v, v = [c EXCEPT !.head = After(h), !.ready = c.ready - 1,
                                    !.dropped = c.dropped + 1]
        PROVE  /\ v.head = After(h) /\ v.tail = c.tail /\ v.ring = c.ring
               /\ v.active = c.active /\ v.mode = c.mode
               /\ v.ready = c.ready - 1 /\ v.dropped = c.dropped + 1
    BY ONLY <2>3, c \in Controls DEF Controls
  <2>. QED BY <1>4, <2>1, <2>2, <2>3
<1>9. ctl' \in [Subs -> Controls]
  <2>1. ctl'[i] = [ctl[i] EXCEPT !.head = After(h), !.ready = ctl[i].ready - 1,
                                 !.dropped = ctl[i].dropped + 1]
    BY <1>1, <1>2, <1>3 DEF After
  <2>2. ctl[i] \in Controls /\ ctl[i].ready - 1 \in Int /\ ctl[i].dropped + 1 \in Nat
    <3>1. ctl[i] \in Controls
      BY <1>1
    <3>. QED BY SMTT(30), <3>1 DEF Controls
  <2>3. ASSUME NEW c \in Controls, NEW n \in Nat, NEW r \in Int
        PROVE  [c EXCEPT !.head = After(h), !.ready = r, !.dropped = n] \in Controls
    BY <1>6 DEF Controls
  <2>4. ctl'[i] \in Controls
    <3>1. PICK c \in Controls : c = ctl[i]
      BY <2>2
    <3>2. PICK n \in Nat : n = ctl[i].dropped + 1
      BY <2>2
    <3>3. PICK r \in Int : r = ctl[i].ready - 1
      BY <2>2
    <3>4. ctl'[i] = [c EXCEPT !.head = After(h), !.ready = r, !.dropped = n]
      BY ONLY <2>1, <3>1, <3>2, <3>3
    <3>5. [c EXCEPT !.head = After(h), !.ready = r, !.dropped = n] \in Controls
      BY ONLY <2>3, c \in Controls, r \in Int, n \in Nat
    <3>. QED BY <3>4, <3>5
  <2>5. DOMAIN ctl' = Subs /\ ctl' = [r \in Subs |-> ctl'[r]]
    BY <1>1, <1>2
  <2>6. \A r \in Subs : ctl'[r] \in Controls
    BY <1>1, <1>8, <2>4
  <2>. QED BY <2>5, <2>6
<1>10. /\ pub' \in Publishers /\ pub'.pc = "check" /\ pub'.i = i + 1 /\ pub'.target = None
  <2>1. pub.count + 1 \in Nat /\ i + 1 \in Nat
    BY <1>1, PublisherFields
  <2>2. pub' = [pc |-> "check", i |-> i + 1, data |-> pub.data, count |-> pub.count + 1,
                balanced |-> pub.balanced, base |-> pub.base, tries |-> pub.tries,
                target |-> pub.target]
    BY <1>1, <1>2 DEF Publishers
  <2>. QED BY <1>1, <2>1, <2>2 DEF Publishers
<1>11. free' \in Seq(FreeCells)
  <2>1. ctl[i].ring[ctl[i].head] \in Cells
    <3>1. ctl[i].ring \in [0..(Cap - 1) -> Cells]
      BY <1>1 DEF Controls
    <3>. QED BY <1>3, <3>1
  <2>2. Filled(ctl[i].ring[ctl[i].head].slot) \in FreeCells
    BY <2>1 DEF Cells, FreeCells, Filled
  <2>. QED BY <1>1, <1>2, <2>2, AppendProperties
<1>12. RingTypes'
  BY <1>1, <1>9, <1>10, <1>11 DEF RingTypes
<1>13. Broadcast' = Broadcast /\ \A s : ~Pending(s) /\ ~Pending(s)'
  BY <1>1, <1>8, <1>10 DEF Broadcast, Pending
<1>14. Places' /\ Dropping'
  <2>1. \A r \in Subs : ctl'[r].active = ctl[r].active
    BY <1>8
  <2>. QED BY <1>1, <1>10, <2>1 DEF IInv, Places, Dropping
<1>15. Members'
  <2>1. \A r \in Subs : Balanced(r)' = Balanced(r)
    BY <1>8 DEF Balanced
  <2>. QED BY <1>1, <1>10, <2>1 DEF IInv, Members, RingTypes, Balanced
<1>16. RoomKept'
  <2> SUFFICES ASSUME NEW r \in Subs, Looked(r)' PROVE QueueHasSpace(r)'
    BY DEF RoomKept
  <2>1. r < i + 1 /\ r \in Broadcast
    BY <1>10, <1>13, SharedAssumption DEF Looked
  <2>2. CASE r = i
    <3>1. After(t) # After(h)
      BY <1>6, <1>7
    <3>. QED BY <1>8, <2>2, <3>1 DEF QueueHasSpace, After
  <2>3. CASE r # i
    <3>1. QueueHasSpace(r)
      BY <1>1, <2>1, <2>3 DEF IInv, RoomKept, Looked, Subs
    <3>. QED BY <1>8, <2>3, <3>1 DEF QueueHasSpace
  <2>. QED BY <2>2, <2>3
<1>17. PeekHolds'
  <2> SUFFICES ASSUME NEW r \in Subs, sub'[r].pc = "cas", ctl'[r].mode # "DROP_OLD"
               PROVE  /\ sub'[r].head = ctl'[r].head /\ sub'[r].peek = ctl'[r].ring[ctl'[r].head]
                      /\ QueueLen(r)' > 0
    BY DEF PeekHolds
  <2>1. r # i
    BY <1>1, <1>8
  <2>2. ctl'[r] = ctl[r] /\ sub'[r] = sub[r] /\ QueueLen(r)' = QueueLen(r)
    BY <1>1, <1>8, <2>1 DEF QueueLen
  <2>. QED BY <2>2 DEF IInv, PeekHolds
<1>18. QueueLen(i)' = QueueLen(i) - 1
  <2>1. QueueLen(i)' = Used(After(h), t)
    BY <1>8 DEF QueueLen, Used
  <2>. QED BY <1>5, <1>6, <1>7, <2>1
<1>19. \A r \in Broadcast' : InRing(r)'
  <2> SUFFICES ASSUME NEW r \in Broadcast PROVE InRing(r)'
    BY <1>13
  <2>1. /\ r \in Subs /\ InRing(r) /\ last[r] \in Nat /\ got[r] \in Nat /\ joined[r] \in Nat
        /\ seq \in Nat /\ Dropped(r) \in Nat /\ QueueLen(r) \in Nat
        /\ UNCHANGED <<seq, got, joined, last>>
    <3>1. r \in Subs /\ InRing(r)
      BY DEF IInv, Broadcast
    <3>. QED BY <1>1, <3>1, CountTypes
  <2>2. Coming(r) = 0 /\ Coming(r)' = 0
    BY <1>13 DEF Coming, One
  <2>3. CASE r = i
    <3>1. Dropped(i)' = Dropped(i) + 1
      BY <1>1, <1>8 DEF Dropped
    <3>2. /\ got[i] + QueueLen(i) + 0 + Dropped(i) = seq - joined[i]
          /\ last[i] + QueueLen(i) + 0 <= seq
      BY <2>1, <2>2, <2>3 DEF InRing
    <3>3. /\ got'[i] + QueueLen(i)' + Coming(i)' + Dropped(i)' = seq' - joined'[i]
          /\ last'[i] + QueueLen(i)' + Coming(i)' <= seq'
      BY <1>18, <2>1, <2>2, <2>3, <3>1, <3>2
    <3>4. ASSUME NEW k \in 1..QueueLen(i)'
          PROVE  Entry(i, k)' = seq' + k - QueueLen(i)' - Coming(i)'
      <4>1. k \in 1..(Used(h, t) - 1) /\ k + 1 \in 1..QueueLen(i) /\ k \in Nat
        BY <1>5, <1>18
      <4>2. Entry(i, k)' = ctl[i].ring[Cell(After(h), k)].seq
        BY <1>8 DEF Entry
      <4>3. Entry(i, k + 1) = ctl[i].ring[Cell(h, k + 1)].seq
        BY <1>3 DEF Entry
      <4>4. Entry(i, k + 1) = seq + (k + 1) - QueueLen(i) - 0
        BY <2>1, <2>2, <2>3, <4>1 DEF InRing
      <4>5. Cell(After(h), k) = Cell(h, k + 1)
        BY <1>6, <1>7, <4>1
      <4>6. Entry(i, k)' = seq + (k + 1) - QueueLen(i) - 0
        BY <4>2, <4>3, <4>4, <4>5
      <4>. QED BY <1>18, <2>1, <2>2, <2>3, <4>1, <4>6
    <3>. QED BY <2>3, <3>3, <3>4 DEF InRing
  <2>4. CASE r # i
    <3>1. QueueLen(r)' = QueueLen(r) /\ (\A k : Entry(r, k)' = Entry(r, k)) /\ Dropped(r)' = Dropped(r)
      BY <1>8, <2>1, <2>4 DEF QueueLen, Entry, Dropped
    <3>. QED BY <2>1, <2>2, <3>1 DEF InRing
  <2>. QED BY <2>3, <2>4
<1>20. ReadyCountsQueue'
  <2> SUFFICES ASSUME NEW r \in Subs, Alive(r)'
               PROVE  ctl'[r].ready = QueueLen(r)' + One(sub'[r].pc = "consume")
                                      - One(pub'.pc = "post" /\ Receiver' = r)
    BY DEF ReadyCountsQueue
  <2>1. Alive(r) /\ sub' = sub
    BY <1>1, <1>8 DEF Alive
  <2>2. ctl[r].ready = QueueLen(r) + One(sub[r].pc = "consume") - 0
    BY <1>1, <2>1 DEF IInv, ReadyCountsQueue, One
  <2>3. One(pub'.pc = "post" /\ Receiver' = r) = 0 /\ One(sub[r].pc = "consume") \in {0, 1}
    BY <1>10 DEF One
  <2>4. CASE r = i
    BY <1>5, <1>8, <1>18, <2>1, <2>2, <2>3, <2>4
  <2>5. CASE r # i
    <3>1. ctl'[r] = ctl[r] /\ QueueLen(r)' = QueueLen(r)
      BY <1>8, <2>5 DEF QueueLen
    <3>. QED BY <2>1, <2>2, <2>3, <3>1
  <2>. QED BY <2>4, <2>5
<1>. QED BY <1>12, <1>14, <1>15, <1>16, <1>17, <1>19, <1>20 DEF IInv

\* ... unless the subscriber has emptied its ring meanwhile.
LEMMA DropOldOk == ASSUME IInv, DropOld PROVE IInv'
<1>1. /\ RingTypes /\ pub \in Publishers /\ free \in Seq(FreeCells) /\ cursor \in Nat
      /\ ctl \in [Subs -> Controls]
      /\ pub.pc = "drop" /\ pub.i \in Subs /\ pub.target = None
      /\ UNCHANGED <<cursor, members, seq, sub, got, joined, last>>
  BY DEF IInv, RingTypes, Places, Dropping, Broadcast, DropOld, aux, balance
<1>2. CASE QueueLen(pub.i) # 0
  BY <1>1, <1>2, Drops
<1>3. CASE QueueLen(pub.i) = 0
  <2>1. pub' = [pub EXCEPT !.pc = "check", !.i = @ + 1, !.count = @ + 1] /\ UNCHANGED <<free, ctl>>
    BY <1>3 DEF DropOld, Count, pool
  <2>2. pub' \in Publishers /\ pub'.pc = "check" /\ pub'.i = pub.i + 1 /\ pub'.target = None
    <3>1. pub.count + 1 \in Nat /\ pub.i + 1 \in Nat
      BY <1>1, PublisherFields
    <3>2. pub' = [pc |-> "check", i |-> pub.i + 1, data |-> pub.data, count |-> pub.count + 1,
                  balanced |-> pub.balanced, base |-> pub.base, tries |-> pub.tries,
                  target |-> pub.target]
      BY <1>1, <2>1 DEF Publishers
    <3>. QED BY <1>1, <3>1, <3>2 DEF Publishers
  <2>3. pub.i \in Nat /\ pub'.i >= 1
    BY <1>1, <2>2, PublisherFields
  <2>4. QueueHasSpace(pub.i)
    <3>1. PICK h \in 0..(Cap - 1) : h = ctl[pub.i].head
      BY <1>1, LenType
    <3>2. PICK t \in 0..(Cap - 1) : t = ctl[pub.i].tail
      BY <1>1, LenType
    <3>3. Used(h, t) = 0
      BY <1>1, <1>3, <3>1, <3>2, LenType
    <3>4. h = t /\ Cap \in Nat /\ Cap > 1 /\ 1 \in 0..Cap
      BY <3>3, PopFacts, SharedAssumption
    <3>5. After(t) = Plus(t, 1)
      BY <3>4, WrapForms DEF After
    <3>6. After(t) # h
      BY <3>4, <3>5 DEF Plus
    <3>. QED BY <3>1, <3>2, <3>6 DEF QueueHasSpace, After
  <2>5. \A s \in Broadcast : s < pub'.i => QueueHasSpace(s)
    <3> SUFFICES ASSUME NEW s \in Broadcast, s < pub'.i PROVE QueueHasSpace(s)
      OBVIOUS
    <3>1. s < pub.i \/ s = pub.i
      BY <2>2, <2>3 DEF Broadcast, Subs
    <3>2. s < pub.i => QueueHasSpace(s)
      BY <1>1 DEF IInv, RoomKept, Looked, Broadcast
    <3>. QED BY <2>4, <3>1, <3>2
  <2>. QED BY <1>1, <2>1, <2>2, <2>3, <2>5, Looks
<1>. QED BY <1>2, <1>3

\* Every subscriber that is not balanced has been looked at.
LEMMA CheckedOk == ASSUME IInv, Checked PROVE IInv'
<1>1. /\ pub \in Publishers /\ free \in Seq(FreeCells) /\ cursor \in Nat
      /\ pub.pc = "check" /\ pub.i > N /\ pub.i \in Nat /\ N \in Nat /\ pub.target = None
      /\ UNCHANGED <<ctl, members, seq, sub, got, joined, last>>
  BY SharedAssumption, PublisherFields DEF IInv, RingTypes, Places, Checked, aux
<1>2. \A s \in Broadcast : QueueHasSpace(s)
  BY <1>1 DEF IInv, RoomKept, Looked, Broadcast, Subs
<1>3. CASE pub' = [pub EXCEPT !.pc = "select", !.i = 0, !.tries = 1, !.base = cursor]
           /\ cursor' = cursor + 1 /\ free' = free
  <2>1. cursor' \in Nat
    BY <1>1, <1>3
  <2>2. pub' = [pc |-> "select", i |-> 0, data |-> pub.data, count |-> pub.count,
                balanced |-> pub.balanced, base |-> cursor, tries |-> 1, target |-> pub.target]
    BY <1>1, <1>3 DEF Publishers
  <2>3. pub' \in Publishers /\ pub'.pc = "select" /\ pub'.target = None
    BY <1>1, <2>2 DEF Publishers
  <2>. QED BY <1>1, <1>2, <1>3, <2>1, <2>3, Looks
<1>4. CASE pub' = Publisher /\ free' = Append(FreeAfter({}), Filled(pub.data)) /\ cursor' = cursor
  <2>1. FreeAfter({}) \in Seq(FreeCells)
    BY <1>1, FreeAfterType
  <2>2. free' \in Seq(FreeCells)
    BY <1>1, <1>4, <2>1, Refilled
  <2>. QED BY <1>1, <1>4, <2>2, PublisherFields, Looks
<1>5. CASE pub' = [pub EXCEPT !.pc = "stamp"] /\ free' = free /\ cursor' = cursor
  <2>1. pub' \in Publishers /\ pub'.pc = "stamp" /\ pub'.target = None
    BY <1>1, <1>5 DEF Publishers
  <2>. QED BY <1>1, <1>2, <1>5, <2>1, Looks
<1>. QED BY <1>3, <1>4, <1>5 DEF Checked, GiveUp

\* A member that is chosen has room.
LEMMA SelectOk == ASSUME IInv, Select PROVE IInv'
<1>1. /\ RingTypes /\ pub \in Publishers /\ free \in Seq(FreeCells) /\ cursor \in Nat
      /\ pub.pc = "select" /\ pub.target = None /\ pub.i \in Nat /\ pub.base \in Nat
      /\ pub.count \in Nat /\ members \in [Subs -> Subs \cup {None}]
      /\ UNCHANGED <<cursor, seq, sub, got, joined, last>>
  BY PublisherFields DEF IInv, RingTypes, Places, Select, aux
<1>2. \A s \in Broadcast : QueueHasSpace(s)
  BY <1>1 DEF IInv, RoomKept, Looked, Broadcast
<1>3. ((pub.base + pub.i) % N) + 1 \in Subs
  <2>1. N \in Nat \ {0} /\ pub.base + pub.i \in Nat
    BY <1>1, SharedAssumption
  <2>2. (pub.base + pub.i) % N \in 0..(N - 1)
    BY <2>1
  <2>. QED BY <2>1, <2>2 DEF Subs
<1>4. PICK m \in Subs \cup {None} : m = members[((pub.base + pub.i) % N) + 1]
  BY <1>1, <1>3
<1>5. m # None => m \in Subs /\ Balanced(m)
  BY <1>3, <1>4 DEF IInv, Members
<1>6. [pub EXCEPT !.i = @ + 1] \in Publishers /\ [pub EXCEPT !.i = @ + 1].pc = "select"
      /\ [pub EXCEPT !.i = @ + 1].target = None
  BY <1>1 DEF Publishers
<1>7. CASE m \in Dead
  <2>1. /\ pub' = [pub EXCEPT !.i = @ + 1] /\ free' = FreeAfter({m})
        /\ ctl' = Reclaimed({m}) /\ Reclaim({m})
    BY <1>4, <1>7 DEF Select
  <2>2. {m} \in SUBSET Subs /\ \A s \in {m} : ~sub[s].alive
    BY <1>7 DEF Dead
  <2>3. free' \in Seq(FreeCells)
    BY <1>1, <2>1, FreeAfterType
  <2>4. /\ ctl' \in [Subs -> Controls] /\ \A s \in {m} : ~ctl'[s].active
        /\ \A s \in Subs \ {m} : SameRing(s) /\ ctl'[s].ready = ctl[s].ready
    BY <1>1, <2>1, <2>2, ReclaimedRings
  <2>. QED BY <1>1, <1>2, <1>6, <2>1, <2>2, <2>3, <2>4, LooksReclaiming
<1>8. CASE m \notin Dead /\ m # None /\ QueueHasSpace(m)
  <2>1. /\ pub' = [pub EXCEPT !.pc = "stamp", !.target = m, !.count = @ + 1]
        /\ UNCHANGED <<free, ctl, members>>
    BY <1>4, <1>8 DEF Select, pool
  <2>2. pub' = [pc |-> "stamp", i |-> pub.i, data |-> pub.data, count |-> pub.count + 1,
                balanced |-> pub.balanced, base |-> pub.base, tries |-> pub.tries, target |-> m]
    BY <1>1, <2>1 DEF Publishers
  <2>3. pub' \in Publishers /\ pub'.pc = "stamp" /\ pub'.target = m
    BY <1>1, <2>2 DEF Publishers
  <2>. QED BY <1>1, <1>2, <1>5, <1>8, <2>1, <2>3, Looks
<1>9. CASE m \notin Dead /\ ~(m # None /\ QueueHasSpace(m))
  <2>1. pub' = [pub EXCEPT !.i = @ + 1] /\ UNCHANGED <<free, ctl, members>>
    BY <1>4, <1>9 DEF Select, pool
  <2>. QED BY <1>1, <1>2, <1>6, <2>1, Looks
<1>. QED BY <1>7, <1>8, <1>9

\* The second try, and giving up.
LEMMA SelectAgainOk == ASSUME IInv, SelectAgain PROVE IInv'
<1>1. /\ RingTypes /\ pub \in Publishers /\ free \in Seq(FreeCells) /\ cursor \in Nat
      /\ pub.pc = "select" /\ pub.target = None
      /\ UNCHANGED <<seq, sub, got, joined, last>>
  BY PublisherFields DEF IInv, RingTypes, Places, SelectAgain, aux
<1>2. \A s \in Broadcast : QueueHasSpace(s)
  BY <1>1 DEF IInv, RoomKept, Looked, Broadcast
<1>3. CASE pub.tries = 1
  <2>1. /\ pub' = [pub EXCEPT !.i = 0, !.tries = 2, !.base = cursor] /\ cursor' = cursor + 1
        /\ free' = FreeAfter(Dead) /\ ctl' = Reclaimed(Dead) /\ Reclaim(Dead)
    BY <1>3 DEF SelectAgain
  <2>2. Dead \in SUBSET Subs /\ \A s \in Dead : ~sub[s].alive
    BY DEF Dead
  <2>3. free' \in Seq(FreeCells) /\ cursor' \in Nat
    BY <1>1, <2>1, FreeAfterType
  <2>4. /\ ctl' \in [Subs -> Controls] /\ \A s \in Dead : ~ctl'[s].active
        /\ \A s \in Subs \ Dead : SameRing(s) /\ ctl'[s].ready = ctl[s].ready
    BY <1>1, <2>1, <2>2, ReclaimedRings
  <2>5. pub' = [pc |-> "select", i |-> 0, data |-> pub.data, count |-> pub.count,
                balanced |-> pub.balanced, base |-> cursor, tries |-> 2, target |-> pub.target]
    BY <1>1, <2>1 DEF Publishers
  <2>6. pub' \in Publishers /\ pub'.pc = "select" /\ pub'.target = None
    BY <1>1, <2>5 DEF Publishers
  <2>. QED BY <1>1, <1>2, <2>1, <2>2, <2>3, <2>4, <2>6, LooksReclaiming
<1>4. CASE pub.tries # 1
  <2>1. /\ pub' = Publisher /\ free' = Append(FreeAfter({}), Filled(pub.data))
        /\ UNCHANGED <<ctl, members, cursor>>
    BY <1>4 DEF SelectAgain, GiveUp, balance
  <2>2. FreeAfter({}) \in Seq(FreeCells)
    BY <1>1, FreeAfterType
  <2>3. free' \in Seq(FreeCells)
    BY <1>1, <2>1, <2>2, Refilled
  <2>. QED BY <1>1, <2>1, <2>3, PublisherFields, Looks
<1>. QED BY <1>3, <1>4

\* The publisher passes over a subscriber, or has come to the end of the list.
LEMMA PassesOver ==
    ASSUME IInv, pub.pc = "push", pub' \in Publishers, pub'.pc \in {"push", "idle"},
           pub'.pc = "push" => pub'.i >= 1 /\ pub'.target = pub.target,
           pub'.pc = "idle" => pub'.target = None,
           \A s : Pending(s)' => Pending(s), \A s \in Broadcast : Pending(s) => Pending(s)',
           UNCHANGED <<free, seq, cursor, ctl, sub, members, got, joined, last>>
    PROVE  IInv'
<1>1. RingTypes'
  BY DEF IInv, RingTypes
<1>2. Broadcast' = Broadcast
  BY DEF Broadcast
<1>3. Places' /\ Members'
  BY DEF IInv, Places, Members, Balanced
<1>4. RoomKept'
  BY <1>2, SharedAssumption DEF IInv, RoomKept, Looked, QueueHasSpace, Pending
<1>5. PeekHolds'
  BY DEF IInv, PeekHolds, QueueLen
<1>6. \A s \in Broadcast' : InRing(s)'
  <2> SUFFICES ASSUME NEW s \in Broadcast PROVE InRing(s)'
    BY <1>2
  <2>1. InRing(s) /\ Coming(s)' = Coming(s) /\ QueueLen(s)' = QueueLen(s)
        /\ Dropped(s)' = Dropped(s) /\ \A k : Entry(s, k)' = Entry(s, k)
    <3>1. Pending(s)' <=> Pending(s)
      OBVIOUS
    <3>. QED BY <3>1 DEF IInv, QueueLen, Entry, Coming, One, Dropped
  <2>. QED BY <2>1 DEF InRing
<1>7. ReadyCountsQueue'
  BY DEF IInv, ReadyCountsQueue, QueueLen, Alive, Receiver, One
<1>8. Dropping'
  BY DEF Dropping
<1>. QED BY <1>1, <1>3, <1>4, <1>5, <1>6, <1>7, <1>8 DEF IInv

\* The second pass.
LEMMA PushOk == ASSUME IInv, Push PROVE IInv'
<1>1. /\ pub \in Publishers /\ pub.pc = "push" /\ pub.i \in Nat /\ pub.i >= 1 /\ N \in Nat
      /\ None \notin Subs /\ pub.target \in Subs \cup {None}
      /\ UNCHANGED <<free, seq, cursor, sub, members, got, joined, last>>
  BY SharedAssumption, PublisherFields DEF IInv, RingTypes, Places, Push, pool, balance, aux
<1>2. pub.target # None => pub.target \notin Broadcast
  BY DEF IInv, Members, Balanced, Broadcast
<1>3. CASE pub.i > N + 1 \/ (pub.i = N + 1 /\ pub.target = None)
  <2>1. pub' = Publisher /\ ctl' = ctl
    BY <1>1, <1>3 DEF Push
  <2>2. \A s : ~Pending(s)'
    BY <2>1 DEF Pending, Publisher
  <2>3. \A s \in Broadcast : ~Pending(s)
    BY <1>1, <1>2, <1>3 DEF Pending, Broadcast, Subs
  <2>. QED BY <1>1, <2>1, <2>2, <2>3, PublisherFields, PassesOver
<1>4. CASE pub.i <= N /\ pub.i \notin Broadcast
  <2>1. pub' = [pub EXCEPT !.i = @ + 1] /\ ctl' = ctl
    BY <1>1, <1>4 DEF Push
  <2>2. /\ pub' \in Publishers /\ pub'.pc = "push" /\ pub'.i = pub.i + 1
        /\ pub'.target = pub.target
    BY <1>1, <2>1 DEF Publishers
  <2>3. Broadcast' = Broadcast
    BY <2>1 DEF Broadcast
  <2>4. \A s : Pending(s)' => Pending(s)
    BY <1>1, <2>2, <2>3 DEF Pending, Broadcast, Subs
  <2>5. \A s \in Broadcast : Pending(s) => Pending(s)'
    BY <1>1, <1>4, <2>2, <2>3 DEF Pending, Broadcast, Subs
  <2>. QED BY <1>1, <2>1, <2>2, <2>4, <2>5, PassesOver
<1>5. CASE /\ ~(pub.i > N + 1 \/ (pub.i = N + 1 /\ pub.target = None))
           /\ ~(pub.i <= N /\ pub.i \notin Broadcast)
  <2>1. PICK r \in Subs : r = Receiver
    BY <1>1, <1>5 DEF Receiver, Subs
  <2>2. Pending(r) /\ (pub.i <= N => r \in Broadcast) /\ pub.i <= N + 1
    BY <1>1, <1>5, <2>1 DEF Receiver, Pending, Subs
  <2>3. /\ pub' = [pub EXCEPT !.pc = "post"]
        /\ ctl' = [ctl EXCEPT ![r].ring[ctl[r].tail] = [slot |-> pub.data, seq |-> seq],
                              ![r].tail = (@ + 1) % Cap]
    BY <1>1, <1>5, <2>1 DEF Push
  <2>. QED BY <1>1, <2>1, <2>2, <2>3, Pushed
<1>. QED BY <1>3, <1>4, <1>5

\* Every step.
LEMMA InvNext == ASSUME IInv, NoTurn, [Next]_vars PROVE IInv'
<1>1. CASE PublisherStep \/ CreateData \/ Publish \/ Abandon
  <2>. QED BY <1>1, Creates, Begins, CheckOk, DropOldOk, CheckedOk, SelectOk, SelectAgainOk, Stamped,
              PushOk, Posted DEF PublisherStep
<1>2. ASSUME NEW s \in Subs,
             SubscriberStep(s) \/ Wait(s) \/ Timeout(s) \/ Release(s) \/ Leave(s) \/ Die(s)
      PROVE  IInv'
  BY <1>2, Popped, ThreadSteps, HeldSteps, LeftOk DEF SubscriberStep
<1>3. ASSUME NEW m \in Modes, Attach(m) PROVE IInv'
  BY <1>3, Attached
<1>4. CASE UNCHANGED vars
  <2>1. UNCHANGED <<free, seq, cursor, ctl, sub, pub, members, got, joined, last>>
    BY <1>4 DEF vars, pool, balance, aux
  <2>2. /\ \A s : QueueLen(s)' = QueueLen(s) /\ \A k : Entry(s, k)' = Entry(s, k)
        /\ Broadcast' = Broadcast /\ \A s : Dropped(s)' = Dropped(s)
    BY <2>1 DEF QueueLen, Entry, Broadcast, Dropped
  <2>3. \A s : Pending(s)' = Pending(s) /\ QueueHasSpace(s)' = QueueHasSpace(s)
    BY <2>1, <2>2 DEF Pending, QueueHasSpace
  <2>4. RingTypes' /\ Places' /\ Members' /\ Dropping'
    BY <2>1, <2>2 DEF IInv, RingTypes, Places, Receiver, Members, Balanced, Dropping
  <2>5. RoomKept' /\ PeekHolds'
    BY <2>1, <2>2, <2>3 DEF IInv, RoomKept, Looked, PeekHolds
  <2>6. \A s \in Broadcast' : InRing(s)'
    <3>1. \A s : Coming(s)' = Coming(s)
      BY <2>3 DEF Coming, One
    <3>. QED BY <2>1, <2>2, <3>1 DEF IInv, InRing
  <2>7. ReadyCountsQueue'
    BY <2>1, <2>2 DEF IInv, ReadyCountsQueue, Alive, Receiver
  <2>. QED BY <2>4, <2>5, <2>6, <2>7 DEF IInv
<1>. QED BY <1>1, <1>2, <1>3, <1>4 DEF Next

\* A ring without a gap loses nothing, and is in order.
LEMMA InRingOrder ==
    ASSUME IInv
    PROVE  NothingLost
<1> SUFFICES ASSUME NEW s \in Broadcast
             PROVE  /\ got[s] + QueueLen(s) + Coming(s) + Dropped(s) = seq - joined[s]
                    /\ \A k \in 1..QueueLen(s) :
                          Queued(s)[k].seq > IF k = 1 THEN last[s] ELSE Queued(s)[k - 1].seq
  BY DEF NothingLost, Coming, Dropped
<1>1. /\ s \in Subs /\ InRing(s) /\ last[s] \in Nat /\ seq \in Nat
      /\ QueueLen(s) \in Nat /\ Coming(s) \in {0, 1}
  <2>1. s \in Subs /\ InRing(s) /\ RingTypes
    BY DEF IInv, Broadcast
  <2>. QED BY <2>1, CountTypes
<1>2. got[s] + QueueLen(s) + Coming(s) + Dropped(s) = seq - joined[s]
  BY <1>1 DEF InRing
<1>3. ASSUME NEW k \in 1..QueueLen(s)
      PROVE  Queued(s)[k].seq = seq + k - QueueLen(s) - Coming(s)
  BY <1>1 DEF InRing, Queued, Entry, Cell
<1>4. ASSUME NEW k \in 1..QueueLen(s)
      PROVE  Queued(s)[k].seq > IF k = 1 THEN last[s] ELSE Queued(s)[k - 1].seq
  <2>1. CASE k = 1
    <3>1. last[s] + QueueLen(s) + Coming(s) <= seq
      BY <1>1 DEF InRing
    <3>2. Queued(s)[k].seq = seq + 1 - QueueLen(s) - Coming(s)
      BY <1>3, <2>1
    <3>. QED BY <1>1, <2>1, <3>1, <3>2
  <2>2. CASE k # 1
    <3>1. k - 1 \in 1..QueueLen(s)
      BY <1>1, <2>2
    <3>2. /\ Queued(s)[k].seq = seq + k - QueueLen(s) - Coming(s)
          /\ Queued(s)[k - 1].seq = seq + (k - 1) - QueueLen(s) - Coming(s)
      BY <1>3, <3>1
    <3>. QED BY <1>1, <2>2, <3>2
  <2>. QED BY <2>1, <2>2
<1>. QED BY <1>2, <1>4

----------------------------------------------------------------------------
(* Where the slots are.                                                       *)

\* The cells of the free queue, no two of which have the same slot.
FreeSet(f) == {f[k] : k \in DOMAIN f}
Distinct(f) == \A j, k \in DOMAIN f : f[j].slot = f[k].slot => j = k
Has(f, x) == \E c \in FreeSet(f) : c.slot = x

\* A message, or nothing.
IsDesc(d) == d = NoDesc \/ d.slot \in Slots

SlotTypes ==
    /\ refcount \in [Slots -> Nat] /\ payload \in [Slots -> Nat] /\ orphans \in [Slots -> Nat]
    /\ lost \subseteq Slots /\ left \in [publishes : Nat, deaths : Nat, joins : Nat]
    /\ \A s \in Subs : /\ \A k \in 0..(Cap - 1) : IsDesc(ctl[s].ring[k])
                       /\ IsDesc(sub[s].peek) /\ IsDesc(sub[s].desc) /\ IsDesc(sub[s].cur)

\* How far the publisher is, and that it counts every subscriber it will push to once.
Before(i) == {s \in Broadcast : s < i}
PubAt ==
    /\ pub.data \in Slots <=> pub.pc \notin {"idle", "scavenge"}
    /\ pub.tries \in 0..2 /\ pub.i \in 0..(N + 2) /\ pub.count \in 0..N
    /\ pub.pc = "created" => pub.count = 0 /\ ~pub.balanced
    /\ pub.pc = "check" => pub.i \in 1..(N + 1)
    /\ pub.pc = "drop" => pub.i \in 1..N
    /\ pub.pc = "select" => pub.i \in 0..N
    /\ pub.pc \in {"check", "drop"} =>
          /\ Cardinality(Before(pub.i)) <= pub.count
          /\ pub.count + One(pub.balanced) <= pub.i - 1
    /\ pub.pc = "select" => Cardinality(Broadcast) <= pub.count /\ pub.count + 1 <= N
    /\ pub.pc = "stamp" =>
          Cardinality(Broadcast) + One(pub.target # None) <= pub.count /\ 1 <= pub.count
    /\ pub.pc = "push" => pub.i \in 1..(N + 2)

\* What a subscriber has in its hands at each place, and what its control block says.
Hands(s) ==
    IF Alive(s)
    THEN /\ sub[s].pc \in {"idle", "cas", "wait", "asleep"} => sub[s].desc = NoDesc
         /\ sub[s].pc \in {"consume", "hold"} => sub[s].desc # NoDesc
         /\ sub[s].pc \in {"reserve", "fill", "hold"} => sub[s].cur = NoDesc
         /\ sub[s].pc \in {"clear", "unref"} => sub[s].cur # NoDesc
         /\ ctl[s].held = IF sub[s].pc = "unref" THEN None ELSE sub[s].cur.slot
         /\ IF sub[s].pc \in {"reserve", "fill"} THEN sub[s].gone \in Slots
            ELSE sub[s].gone = None
         /\ sub[s].pc # "gone"
    ELSE /\ sub[s].desc = NoDesc /\ sub[s].cur = NoDesc /\ sub[s].gone = None
         /\ sub[s].pc = "gone"

\* The free queue has a slot once; a cell that is reserved is filled by one subscriber, if
\* it has not died.
Returning(s) == sub[s].pc \in {"reserve", "fill"}
FreeQueue ==
    /\ Distinct(free)
    /\ \A c \in FreeSet(free) :
          /\ c.slot \in Slots /\ (c.full => c.slot \notin lost)
          /\ ~c.full => c.slot \in lost \/ \E s \in Subs : At(s, "fill") /\ sub[s].gone = c.slot
    /\ \A s \in Subs :
          sub[s].pc = "fill" => [slot |-> sub[s].gone, full |-> FALSE] \in FreeSet(free)
    /\ \A s \in Subs : Returning(s) => sub[s].gone \notin lost
    /\ \A s, t \in Subs : Returning(s) /\ Returning(t) /\ sub[s].gone = sub[t].gone => s = t

\* A slot is in the free queue, with the publisher, in use, on its way back or lost.
Free(x) == Has(free, x)
Filling == pub.pc \in {"created", "check", "drop", "select", "stamp"}
WithPub(x) == pub.data = x /\ Filling
Busy(x) == refcount[x] > 0
Back(x) == \E s \in Subs : sub[s].pc = "reserve" /\ sub[s].gone = x
Perished(x) == x \in lost /\ ~Free(x)
OnePlace(x) ==
    /\ Free(x) \/ WithPub(x) \/ Busy(x) \/ Back(x) \/ Perished(x)
    /\ Free(x) => ~WithPub(x) /\ ~Busy(x) /\ ~Back(x)
    /\ WithPub(x) => ~Busy(x) /\ ~Back(x) /\ ~Perished(x)
    /\ Busy(x) => ~Back(x) /\ ~Perished(x)
    /\ Back(x) => ~Perished(x)

\* What is in a hand or in a ring is the message of that number.
IsMessage(d) == d.slot \in Slots /\ payload[d.slot] = d.seq
Payloads ==
    /\ \A s \in Subs : Alive(s) => /\ sub[s].cur # NoDesc => IsMessage(sub[s].cur)
                                   /\ sub[s].desc # NoDesc => IsMessage(sub[s].desc)
    /\ \A s \in Subs : ctl[s].active => \A k \in UsedCells(s) : IsMessage(ctl[s].ring[k])
    /\ Filling => payload[pub.data] = seq + 1
    /\ pub.pc \in {"push", "post"} => payload[pub.data] = seq

HInv ==
    /\ SlotTypes /\ PubAt /\ (\A s \in Subs : Hands(s)) /\ RefsAccounted /\ FreeQueue
    /\ (\A x \in Slots : OnePlace(x)) /\ Payloads

----------------------------------------------------------------------------
(* The cells of a ring.                                                       *)

CellsOf(h, t) == {Cell(h, k) : k \in 1..Used(h, t)}
Between(h, t, c) == IF h <= t THEN h <= c /\ c < t ELSE h <= c \/ c < t

\* The cells in use are those from the head to the tail.
LEMMA CellsBetween ==
    ASSUME NEW h \in 0..(Cap - 1), NEW t \in 0..(Cap - 1)
    PROVE  CellsOf(h, t) = {c \in 0..(Cap - 1) : Between(h, t, c)}
<1>1. /\ Cap \in Nat /\ Cap > 1 /\ Used(h, t) = Ahead(h, t)
      /\ \A k \in 0..Cap : (h + k) % Cap = Plus(h, k)
  BY WrapForms DEF Used
<1>2. \A k \in 1..Used(h, t) : Cell(h, k) = Plus(h, k - 1)
  <2> TAKE k \in 1..Used(h, t)
  <2>1. k - 1 \in 0..Cap /\ h + k - 1 = h + (k - 1)
    BY <1>1 DEF Ahead
  <2>. QED BY <1>1, <2>1 DEF Cell
<1>3. ASSUME NEW k \in 1..Used(h, t)
      PROVE  Plus(h, k - 1) \in 0..(Cap - 1) /\ Between(h, t, Plus(h, k - 1))
  BY <1>1 DEF Ahead, Plus, Between
<1>4. ASSUME NEW c \in 0..(Cap - 1), Between(h, t, c)
      PROVE  \E k \in 1..Used(h, t) : c = Plus(h, k - 1)
  <2> DEFINE k == IF h <= c THEN c - h + 1 ELSE c - h + Cap + 1
  <2>1. k \in 1..Used(h, t) /\ c = Plus(h, k - 1)
    BY <1>1, <1>4 DEF Ahead, Plus, Between
  <2>. QED BY <2>1
<1>. QED BY <1>2, <1>3, <1>4 DEF CellsOf

\* A push adds the cell at the tail, a pop takes away the one at the head.
LEMMA CellFacts ==
    ASSUME NEW h \in 0..(Cap - 1), NEW t \in 0..(Cap - 1)
    PROVE  /\ CellsOf(h, t) \subseteq 0..(Cap - 1) /\ CellsOf(h, h) = {}
           /\ t \notin CellsOf(h, t)
           /\ After(t) # h => CellsOf(h, After(t)) = CellsOf(h, t) \cup {t}
           /\ h # t => h \in CellsOf(h, t) /\ CellsOf(After(h), t) = CellsOf(h, t) \ {h}
<1>1. Cap \in Nat /\ Cap > 1 /\ 1 \in 0..Cap
  BY SharedAssumption
<1>2. /\ After(t) = Plus(t, 1) /\ After(h) = Plus(h, 1)
      /\ After(t) \in 0..(Cap - 1) /\ After(h) \in 0..(Cap - 1)
  <2>1. After(t) = Plus(t, 1) /\ After(h) = Plus(h, 1)
    BY <1>1, WrapForms DEF After
  <2>. QED BY <1>1, <2>1 DEF Plus
<1>3. /\ CellsOf(h, t) = {c \in 0..(Cap - 1) : Between(h, t, c)}
      /\ CellsOf(h, h) = {c \in 0..(Cap - 1) : Between(h, h, c)}
      /\ CellsOf(h, After(t)) = {c \in 0..(Cap - 1) : Between(h, After(t), c)}
      /\ CellsOf(After(h), t) = {c \in 0..(Cap - 1) : Between(After(h), t, c)}
  BY <1>2, CellsBetween
<1>4. ASSUME NEW c \in 0..(Cap - 1)
      PROVE  /\ ~Between(h, h, c) /\ ~Between(h, t, t)
             /\ After(t) # h => (Between(h, After(t), c) <=> Between(h, t, c) \/ c = t)
             /\ h # t => /\ Between(h, t, h)
                         /\ Between(After(h), t, c) <=> Between(h, t, c) /\ c # h
  BY <1>1, <1>2 DEF Between, Plus
<1>5. CellsOf(h, t) \subseteq 0..(Cap - 1) /\ CellsOf(h, h) = {} /\ t \notin CellsOf(h, t)
  BY <1>3, <1>4
<1>6. After(t) # h => CellsOf(h, After(t)) = CellsOf(h, t) \cup {t}
  BY <1>3, <1>4
<1>7. h # t => h \in CellsOf(h, t) /\ CellsOf(After(h), t) = CellsOf(h, t) \ {h}
  BY <1>3, <1>4
<1>. QED BY <1>5, <1>6, <1>7

\* Where the cells of a subscriber's ring are.
LEMMA UsedCellsOf ==
    ASSUME NEW s, ctl[s].head \in 0..(Cap - 1), ctl[s].tail \in 0..(Cap - 1)
    PROVE  /\ UsedCells(s) = CellsOf(ctl[s].head, ctl[s].tail)
           /\ UsedCells(s) \subseteq 0..(Cap - 1)
<1>1. UsedCells(s) = CellsOf(ctl[s].head, ctl[s].tail)
  BY DEF UsedCells, CellsOf, QueueLen, Cell, Used
<1>. QED BY <1>1, CellFacts

----------------------------------------------------------------------------
(* The free queue.                                                            *)

\* The cells of a queue as it grows and shrinks.
LEMMA AppendCell ==
    ASSUME NEW f \in Seq(FreeCells), NEW c \in FreeCells, Distinct(f), ~Has(f, c.slot)
    PROVE  Distinct(Append(f, c)) /\ FreeSet(Append(f, c)) = FreeSet(f) \cup {c}
<1>1. Len(f) \in Nat /\ DOMAIN f = 1..Len(f) /\ DOMAIN Append(f, c) = 1..(Len(f) + 1)
  OBVIOUS
<1>2. /\ \A k \in DOMAIN f : Append(f, c)[k] = f[k]
      /\ Append(f, c)[Len(f) + 1] = c
  BY <1>1
<1>3. \A k \in DOMAIN f : f[k].slot # c.slot
  BY DEF Has, FreeSet
<1>4. \A k \in DOMAIN Append(f, c) : k \in DOMAIN f \/ k = Len(f) + 1
  BY <1>1
<1>5. DOMAIN f \subseteq DOMAIN Append(f, c) /\ Len(f) + 1 \in DOMAIN Append(f, c)
  BY <1>1
<1> HIDE <1>1
<1>6. Distinct(Append(f, c))
  <2> SUFFICES ASSUME NEW j \in DOMAIN Append(f, c), NEW k \in DOMAIN Append(f, c),
                      Append(f, c)[j].slot = Append(f, c)[k].slot
               PROVE  j = k
    BY DEF Distinct
  <2>1. CASE j \in DOMAIN f /\ k \in DOMAIN f
    BY <1>2, <2>1 DEF Distinct
  <2>2. CASE j \in DOMAIN f /\ k = Len(f) + 1
    BY <1>2, <1>3, <2>2
  <2>3. CASE j = Len(f) + 1 /\ k \in DOMAIN f
    BY <1>2, <1>3, <2>3
  <2>. QED BY <1>4, <2>1, <2>2, <2>3
<1>7. FreeSet(Append(f, c)) = FreeSet(f) \cup {c}
  BY <1>2, <1>4, <1>5 DEF FreeSet
<1>. QED BY <1>6, <1>7

\* ... as its head is popped.
LEMMA TailCells ==
    ASSUME NEW f \in Seq(FreeCells), Distinct(f), f # <<>>
    PROVE  /\ Distinct(Tail(f)) /\ FreeSet(Tail(f)) = FreeSet(f) \ {Head(f)}
           /\ Head(f) \in FreeSet(f) /\ Tail(f) \in Seq(FreeCells)
<1>1. /\ Len(f) \in Nat /\ DOMAIN f = 1..Len(f) /\ Len(f) > 0 /\ Head(f) = f[1]
      /\ DOMAIN Tail(f) = 1..(Len(f) - 1) /\ Tail(f) \in Seq(FreeCells)
  OBVIOUS
<1>2. \A k \in 1..(Len(f) - 1) : Tail(f)[k] = f[k + 1]
  BY <1>1
<1>3. \A k \in DOMAIN Tail(f) : k + 1 \in DOMAIN f /\ k + 1 # 1 /\ k \in Nat
  BY <1>1
<1>4. \A k \in DOMAIN f : k = 1 \/ (k - 1 \in DOMAIN Tail(f) /\ (k - 1) + 1 = k)
  BY <1>1
<1>5. 1 \in DOMAIN f
  BY <1>1
<1>6. Distinct(Tail(f))
  <2> SUFFICES ASSUME NEW j \in DOMAIN Tail(f), NEW k \in DOMAIN Tail(f),
                      Tail(f)[j].slot = Tail(f)[k].slot
               PROVE  j = k
    BY DEF Distinct
  <2>1. j + 1 = k + 1
    BY <1>1, <1>2, <1>3 DEF Distinct
  <2>. QED BY <1>3, <2>1
<1>7. \A k \in DOMAIN f : k # 1 => f[k] # f[1]
  BY <1>5 DEF Distinct
<1>8. FreeSet(Tail(f)) \subseteq FreeSet(f) \ {Head(f)}
  BY <1>1, <1>2, <1>3, <1>7 DEF FreeSet
<1>9. FreeSet(f) \ {Head(f)} \subseteq FreeSet(Tail(f))
  <2> SUFFICES ASSUME NEW k \in DOMAIN f, f[k] # f[1] PROVE f[k] \in FreeSet(Tail(f))
    BY <1>1 DEF FreeSet
  <2>1. k - 1 \in DOMAIN Tail(f) /\ (k - 1) + 1 = k
    BY <1>4
  <2>2. Tail(f)[k - 1] = f[k]
    BY <1>1, <1>2, <2>1
  <2>. QED BY <2>1, <2>2 DEF FreeSet
<1>10. Head(f) \in FreeSet(f)
  BY <1>1, <1>5 DEF FreeSet
<1>. QED BY <1>1, <1>6, <1>8, <1>9, <1>10

\* What ReclaimSubscriber recycles: the slots that nobody refers to any more.
Unreferred(D) == {y \in Slots : Refs(D, y) > 0 /\ refcount[y] = Refs(D, y)}

\* ... and as ReclaimSubscriber recycles what nobody refers to.
LEMMA FreeAfterCells ==
    ASSUME free \in Seq(FreeCells), Distinct(free), NEW D,
           \A x \in Unreferred(D) : ~Has(free, x)
    PROVE  /\ FreeAfter(D) \in Seq(FreeCells) /\ Distinct(FreeAfter(D))
           /\ FreeSet(FreeAfter(D)) = FreeSet(free) \cup {Filled(x) : x \in Unreferred(D)}
<1> DEFINE F == {Filled(x) : x \in Unreferred(D)}
           g == SetToSeq(F)
           n == Cardinality(F)
           m == Len(free)
<1>1. IsFiniteSet(F)
  <2>1. IsFiniteSet(Slots)
    BY SharedAssumption, FS_Interval DEF Slots
  <2>2. IsFiniteSet(Unreferred(D))
    BY <2>1, FS_Subset DEF Unreferred
  <2>3. [x \in Unreferred(D) |-> Filled(x)] \in Surjection(Unreferred(D), F)
    BY DEF Surjection
  <2>. QED BY <2>2, <2>3, FS_Surjection
<1>2. n \in Nat /\ g \in [1..n -> F] /\ IsInjective(g)
  <2>1. n \in Nat /\ \E f : ExistsBijection(1..n, F)
    BY <1>1, FS_CardinalityType
  <2>2. PICK f \in Bijection(1..n, F) : TRUE
    BY <2>1 DEF ExistsBijection
  <2>3. f \in [1..n -> F] /\ IsInjective(f)
    BY <2>2 DEF Bijection, Injection, IsInjective
  <2>. QED BY <2>1, <2>3 DEF SetToSeq
<1>3. \A y \in F : \E k \in 1..n : g[k] = y
  <2>1. g \in Injection(1..n, F) /\ IsFiniteSet(1..n) /\ Cardinality(1..n) = n
    <3>1. IsFiniteSet(1..n) /\ Cardinality(1..n) = n
      BY <1>2, FS_Interval
    <3>. QED BY <1>2, <3>1 DEF Injection, IsInjective
  <2>2. g \in Surjection(1..n, F)
    BY <1>1, <2>1, FS_Injection
  <2>. QED BY <2>2 DEF Surjection
<1>4. F \subseteq FreeCells
  <2> SUFFICES ASSUME NEW x \in Unreferred(D) PROVE Filled(x) \in FreeCells
    OBVIOUS
  <2>. QED BY DEF Filled, FreeCells, Unreferred
<1>5. g \in Seq(FreeCells) /\ Len(g) = n /\ DOMAIN g = 1..n
  <2> HIDE DEF g, n, F
  <2>1. g \in Seq(F) /\ DOMAIN g = 1..n
    BY <1>2, SeqDef
  <2>2. DOMAIN g = 1..Len(g) /\ Len(g) \in Nat
    BY <2>1, LenProperties
  <2>3. Len(g) = n
    BY <1>2, <2>1, <2>2
  <2>4. g \in Seq(FreeCells)
    BY <1>4, <2>1
  <2>. QED BY <2>1, <2>3, <2>4
<1>6. /\ FreeAfter(D) = free \o g /\ m \in Nat /\ DOMAIN free = 1..m
      /\ FreeAfter(D) \in Seq(FreeCells) /\ DOMAIN FreeAfter(D) = 1..(m + n)
      /\ \A k \in 1..m : FreeAfter(D)[k] = free[k]
      /\ \A k \in (m + 1)..(m + n) : FreeAfter(D)[k] = g[k - m]
  <2>1. FreeAfter(D) = free \o g
    BY DEF FreeAfter, Unreferred
  <2> HIDE DEF g, n, F
  <2>2. m \in Nat /\ DOMAIN free = 1..m
    BY LenProperties
  <2> HIDE DEF m
  <2>3. free \o g \in Seq(FreeCells) /\ Len(free \o g) = m + n
    BY <1>5, ConcatProperties DEF m
  <2>4. DOMAIN (free \o g) = 1..(m + n)
    BY <2>3, LenProperties
  <2>5. \A k \in 1..(m + n) : (free \o g)[k] = IF k <= m THEN free[k] ELSE g[k - m]
    BY <1>5, ConcatProperties DEF m
  <2>6. \A k \in 1..m : k \in 1..(m + n) /\ k <= m
    BY <1>2, <2>2
  <2>7. \A k \in (m + 1)..(m + n) : k \in 1..(m + n) /\ ~(k <= m)
    BY <1>2, <2>2
  <2>. QED BY <2>1, <2>2, <2>3, <2>4, <2>5, <2>6, <2>7
<1> HIDE DEF n, m, g
<1>7. /\ \A k \in DOMAIN FreeAfter(D) : k \in 1..m \/ (k \in (m + 1)..(m + n) /\ k - m \in 1..n)
      /\ \A k \in 1..m : k \in DOMAIN FreeAfter(D)
      /\ \A k \in 1..n : m + k \in (m + 1)..(m + n) /\ m + k \in DOMAIN FreeAfter(D)
                         /\ (m + k) - m = k
  BY <1>2, <1>6
<1>8. \A k \in 1..n : g[k].slot \in Unreferred(D) /\ g[k] = Filled(g[k].slot)
  BY <1>2 DEF Filled
<1>9. \A j \in 1..m, k \in 1..n : free[j].slot # g[k].slot
  BY <1>6, <1>8 DEF Has, FreeSet
<1>10. Distinct(FreeAfter(D))
  <2> SUFFICES ASSUME NEW j \in DOMAIN FreeAfter(D), NEW k \in DOMAIN FreeAfter(D),
                      FreeAfter(D)[j].slot = FreeAfter(D)[k].slot
               PROVE  j = k
    BY DEF Distinct
  <2>1. CASE j \in 1..m /\ k \in 1..m
    BY <1>6, <2>1 DEF Distinct
  <2>2. CASE j \in 1..m /\ k \in (m + 1)..(m + n) /\ k - m \in 1..n
    BY <1>6, <1>9, <2>2
  <2>3. CASE k \in 1..m /\ j \in (m + 1)..(m + n) /\ j - m \in 1..n
    BY <1>6, <1>9, <2>3
  <2>4. CASE /\ j \in (m + 1)..(m + n) /\ j - m \in 1..n
             /\ k \in (m + 1)..(m + n) /\ k - m \in 1..n
    <3>1. g[j - m] = g[k - m]
      BY ZenonT(60), <1>6, <1>8, <2>4
    <3>2. j - m = k - m
      BY <1>2, <2>4, <3>1 DEF IsInjective
    <3>. QED BY <1>6, <2>4, <3>2
  <2>. QED BY <1>7, <2>1, <2>2, <2>3, <2>4
<1>11. FreeSet(FreeAfter(D)) \subseteq FreeSet(free) \cup F
  BY <1>2, <1>6, <1>7 DEF FreeSet
<1>12. FreeSet(free) \cup F \subseteq FreeSet(FreeAfter(D))
  <2>1. FreeSet(free) \subseteq FreeSet(FreeAfter(D))
    BY <1>6, <1>7 DEF FreeSet
  <2>2. ASSUME NEW y \in F PROVE y \in FreeSet(FreeAfter(D))
    <3>1. PICK k \in 1..n : g[k] = y
      BY <1>3
    <3>2. FreeAfter(D)[m + k] = y /\ m + k \in DOMAIN FreeAfter(D)
      BY <1>6, <1>7, <3>1
    <3>. QED BY <3>2 DEF FreeSet
  <2>. QED BY <2>1, <2>2
<1>. QED BY <1>6, <1>10, <1>11, <1>12

----------------------------------------------------------------------------
(* Counting.                                                                  *)

Pairs == Subs \X (0..(Cap - 1))

\* The sets that References counts are finite.
LEMMA SetsFinite ==
    /\ \A S \in SUBSET Subs : IsFiniteSet(S) /\ Cardinality(S) \in Nat
    /\ \A S \in SUBSET Pairs : IsFiniteSet(S) /\ Cardinality(S) \in Nat
<1>1. N \in Int /\ 0 \in Int /\ 1 \in Int /\ Cap - 1 \in Int
  BY SharedAssumption
<1>2. IsFiniteSet(Subs) /\ IsFiniteSet(0..(Cap - 1))
  BY <1>1, FS_Interval DEF Subs
<1>3. IsFiniteSet(Pairs)
  BY <1>2, FS_Product DEF Pairs
<1>. QED BY <1>2, <1>3, FS_Subset, FS_CardinalityType

\* One more and one less.
LEMMA OneMore ==
    ASSUME NEW U, U = Subs \/ U = Pairs, NEW S \in SUBSET U, NEW e
    PROVE  /\ Cardinality(S) \in Nat
           /\ e \notin S => Cardinality(S \cup {e}) = Cardinality(S) + 1
           /\ e \in S => Cardinality(S \ {e}) = Cardinality(S) - 1 /\ Cardinality(S) > 0
<1>1. IsFiniteSet(S) /\ Cardinality(S) \in Nat
  BY SetsFinite
<1>2. e \notin S => Cardinality(S \cup {e}) = Cardinality(S) + 1
  BY <1>1, FS_AddElement
<1>3. e \in S => Cardinality(S \ {e}) = Cardinality(S) - 1
  BY <1>1, FS_RemoveElement
<1>4. e \in S => Cardinality(S) # 0
  BY <1>1, FS_EmptySet
<1>. QED BY <1>1, <1>2, <1>3, <1>4

\* The places of all rings in use.
Active == {s \in Subs : ctl[s].active}
Rings(x) == InRings(Active, x)

\* Who has a slot, and where, is a subset of a finite set.
LEMMA RefsSubsets ==
    ASSUME NEW x
    PROVE  /\ Arriving(x) \in SUBSET Subs /\ Current(x) \in SUBSET Subs
           /\ Handed(x) \in SUBSET Subs /\ HeldByDead(x) \in SUBSET Subs
           /\ Rings(x) \in SUBSET Pairs
           /\ \A D \in SUBSET Subs : InRings(D, x) \in SUBSET Pairs /\ HeldBy(D, x) \in SUBSET Subs
BY DEF Arriving, Current, Handed, HeldByDead, Rings, InRings, Active, Pairs, HeldBy

\* What References adds up.
LEMMA RefsSum ==
    ASSUME NEW x \in Slots
    PROVE  /\ References(x) = orphans[x] + Cardinality(Arriving(x)) + Cardinality(Rings(x))
                   + Cardinality(Current(x)) + Cardinality(Handed(x)) + Cardinality(HeldByDead(x))
           /\ Cardinality(Arriving(x)) \in Nat /\ Cardinality(Rings(x)) \in Nat
           /\ Cardinality(Current(x)) \in Nat /\ Cardinality(Handed(x)) \in Nat
           /\ Cardinality(HeldByDead(x)) \in Nat
<1>1. References(x) = orphans[x] + Cardinality(Arriving(x)) + Cardinality(Rings(x))
                   + Cardinality(Current(x)) + Cardinality(Handed(x)) + Cardinality(HeldByDead(x))
  BY DEF References, Rings, Active
<1>. QED BY <1>1, RefsSubsets, SetsFinite

\* A sum is zero if all of its parts are.
LEMMA SumZero ==
    ASSUME NEW o \in Nat, NEW a \in Nat, NEW b \in Nat, NEW c \in Nat, NEW d \in Nat,
           NEW e \in Nat, o + a + b + c + d + e = 0
    PROVE  a = 0 /\ b = 0 /\ c = 0 /\ d = 0 /\ e = 0
<1>1. o + a + b + c + d = 0 /\ e = 0
  OBVIOUS
<1>2. o + a + b + c = 0 /\ d = 0
  BY <1>1
<1>3. o + a + b = 0 /\ c = 0
  BY <1>2
<1>. QED BY <1>1, <1>2, <1>3

\* Nobody has a slot whose count is zero.
LEMMA NobodyHas ==
    ASSUME RefsAccounted, orphans \in [Slots -> Nat], NEW x \in Slots, refcount[x] = 0
    PROVE  /\ Arriving(x) = {} /\ Rings(x) = {} /\ Current(x) = {} /\ Handed(x) = {}
           /\ HeldByDead(x) = {}
<1>1. References(x) = 0 /\ orphans[x] \in Nat
  BY DEF RefsAccounted
<1>2. /\ Cardinality(Arriving(x)) = 0 /\ Cardinality(Rings(x)) = 0
      /\ Cardinality(Current(x)) = 0 /\ Cardinality(Handed(x)) = 0
      /\ Cardinality(HeldByDead(x)) = 0
  <2> DEFINE a == Cardinality(Arriving(x))
             b == Cardinality(Rings(x))
             c == Cardinality(Current(x))
             d == Cardinality(Handed(x))
             e == Cardinality(HeldByDead(x))
  <2>1. /\ a \in Nat /\ b \in Nat /\ c \in Nat /\ d \in Nat /\ e \in Nat
        /\ orphans[x] + a + b + c + d + e = 0
    BY <1>1, RefsSum
  <2> HIDE DEF a, b, c, d, e
  <2>2. a = 0 /\ b = 0 /\ c = 0 /\ d = 0 /\ e = 0
    <3>1. PICK o \in Nat : o = orphans[x]
      BY <1>1
    <3>2. o \in Nat /\ o + a + b + c + d + e = 0
      BY <2>1, <3>1
    <3>. QED BY ONLY <2>1, <3>2, SumZero
  <2>. QED BY <2>2 DEF a, b, c, d, e
<1>3. /\ IsFiniteSet(Arriving(x)) /\ IsFiniteSet(Rings(x)) /\ IsFiniteSet(Current(x))
      /\ IsFiniteSet(Handed(x)) /\ IsFiniteSet(HeldByDead(x))
  BY RefsSubsets, SetsFinite
<1>. QED BY <1>2, <1>3, FS_EmptySet

\* Who is in these sets.
LEMMA InRingsMember ==
    ASSUME NEW D \in SUBSET Subs, NEW x, NEW s, NEW k,
           UsedCells(s) \subseteq 0..(Cap - 1)
    PROVE  <<s, k>> \in InRings(D, x) <=> s \in D /\ k \in UsedCells(s) /\ ctl[s].ring[k].slot = x
BY DEF InRings

----------------------------------------------------------------------------
(* What a step leaves alone.                                                  *)

SameCells(s) ==
    /\ ctl'[s].active = ctl[s].active /\ ctl'[s].head = ctl[s].head
    /\ ctl'[s].tail = ctl[s].tail /\ ctl'[s].ring = ctl[s].ring
SameHands(s) ==
    /\ ctl'[s].active = ctl[s].active /\ (sub'[s].alive <=> sub[s].alive)
    /\ sub'[s].cur = sub[s].cur /\ sub'[s].desc = sub[s].desc
    /\ ~sub[s].alive => ctl'[s].held = ctl[s].held
SameBack(s) ==
    /\ Returning(s)' <=> Returning(s)
    /\ Returning(s) => /\ sub'[s].pc = sub[s].pc /\ sub'[s].gone = sub[s].gone
                       /\ Alive(s)' <=> Alive(s)

\* Where the rings, the hands and the publisher stay what they are, so do the parts of HInv.
LEMMA UsedCellsFrame == ASSUME NEW s, SameCells(s) PROVE UsedCells(s)' = UsedCells(s)
BY DEF SameCells, UsedCells, QueueLen

LEMMA RingsFrame ==
    ASSUME \A s \in Subs : SameCells(s), NEW x
    PROVE  Rings(x)' = Rings(x)
<1>1. Active' = Active
  BY DEF Active, SameCells
<1>2. \A s \in Active : UsedCells(s)' = UsedCells(s) /\ ctl'[s].ring = ctl[s].ring
  BY UsedCellsFrame DEF Active, SameCells
<1>. QED BY <1>1, <1>2 DEF Rings, InRings

LEMMA HandsFrame ==
    ASSUME \A s \in Subs : SameHands(s), NEW x
    PROVE  Current(x)' = Current(x) /\ Handed(x)' = Handed(x) /\ HeldByDead(x)' = HeldByDead(x)
BY DEF SameHands, Current, Handed, HeldByDead, Alive

LEMMA RefsFrame ==
    ASSUME RefsAccounted, UNCHANGED <<refcount, orphans>>,
           \A x \in Slots : /\ Arriving(x)' = Arriving(x) /\ Rings(x)' = Rings(x)
                            /\ Current(x)' = Current(x) /\ Handed(x)' = Handed(x)
                            /\ HeldByDead(x)' = HeldByDead(x)
    PROVE  RefsAccounted'
BY DEF RefsAccounted, References, Rings, Active

LEMMA FreeQueueFrame ==
    ASSUME FreeQueue, UNCHANGED <<free, lost>>, \A s \in Subs : SameBack(s)
    PROVE  FreeQueue'
<1>1. \A s \in Subs : (At(s, "fill")' <=> At(s, "fill"))
                      /\ (At(s, "fill") => sub'[s].gone = sub[s].gone)
  BY DEF SameBack, At, Returning
<1>2. \A s \in Subs : sub'[s].pc = "fill" => sub[s].pc = "fill" /\ sub'[s].gone = sub[s].gone
  BY DEF SameBack, Returning
<1>3. \A s \in Subs : Returning(s)' => Returning(s) /\ sub'[s].gone = sub[s].gone
  BY DEF SameBack
<1>4. \A c \in FreeSet(free)' :
          /\ c.slot \in Slots /\ (c.full => c.slot \notin lost')
          /\ ~c.full => c.slot \in lost'
                        \/ \E s \in Subs : At(s, "fill")' /\ sub'[s].gone = c.slot
  BY <1>1 DEF FreeQueue
<1>5. \A s \in Subs :
          sub'[s].pc = "fill" => [slot |-> sub'[s].gone, full |-> FALSE] \in FreeSet(free)'
  BY <1>2 DEF FreeQueue
<1>6. \A s \in Subs : Returning(s)' => sub'[s].gone \notin lost'
  BY <1>3 DEF FreeQueue
<1>7. \A s, t \in Subs :
          Returning(s)' /\ Returning(t)' /\ sub'[s].gone = sub'[t].gone => s = t
  BY <1>3 DEF FreeQueue
<1>8. Distinct(free)'
  BY DEF FreeQueue, Distinct
<1>. QED BY <1>4, <1>5, <1>6, <1>7, <1>8 DEF FreeQueue

LEMMA BackFrame ==
    ASSUME \A s \in Subs : SameBack(s), NEW x
    PROVE  Back(x)' = Back(x)
BY DEF Back, SameBack, Returning

LEMMA PlacesFrame ==
    ASSUME \A x \in Slots : OnePlace(x), UNCHANGED <<free, lost, refcount>>,
           \A s \in Subs : SameBack(s), \A x \in Slots : WithPub(x)' = WithPub(x)
    PROVE  \A x \in Slots : OnePlace(x)'
<1> SUFFICES ASSUME NEW x \in Slots PROVE OnePlace(x)'
  OBVIOUS
<1>1. Back(x)' = Back(x) /\ Free(x)' = Free(x) /\ Busy(x)' = Busy(x) /\ Perished(x)' = Perished(x)
  BY BackFrame DEF Free, Has, FreeSet, Busy, Perished
<1>. QED BY <1>1 DEF OnePlace

\* The messages in hands and rings, when no payload changes that anybody has.
LEMMA PayloadsFrame ==
    ASSUME Payloads, \A s \in Subs : SameCells(s), \A s \in Subs : SameHands(s), payload' = payload
    PROVE  /\ \A s \in Subs : Alive(s)' =>
                  /\ sub'[s].cur # NoDesc => IsMessage(sub[s].cur)'
                  /\ sub'[s].desc # NoDesc => IsMessage(sub[s].desc)'
           /\ \A s \in Subs : ctl'[s].active =>
                  \A k \in UsedCells(s)' : IsMessage(ctl[s].ring[k])'
<1>1. \A s \in Subs : Alive(s)' = Alive(s)
  BY DEF SameHands, Alive
<1>3. \A s \in Subs : UsedCells(s)' = UsedCells(s)
  BY UsedCellsFrame
<1>4. ASSUME NEW s \in Subs, Alive(s)'
      PROVE  /\ sub'[s].cur # NoDesc => IsMessage(sub[s].cur)'
             /\ sub'[s].desc # NoDesc => IsMessage(sub[s].desc)'
  <2>1. Alive(s) /\ sub'[s].cur = sub[s].cur /\ sub'[s].desc = sub[s].desc
    BY <1>1, <1>4 DEF SameHands
  <2>2. /\ sub[s].cur # NoDesc => IsMessage(sub[s].cur)
        /\ sub[s].desc # NoDesc => IsMessage(sub[s].desc)
    BY <2>1 DEF Payloads
  <2>. QED BY <2>1, <2>2 DEF IsMessage
<1>5. ASSUME NEW s \in Subs, ctl'[s].active, NEW k \in UsedCells(s)'
      PROVE  IsMessage(ctl[s].ring[k])'
  <2>1. ctl[s].active /\ ctl'[s].ring = ctl[s].ring /\ k \in UsedCells(s)
    BY <1>3, <1>5 DEF SameCells
  <2>2. IsMessage(ctl[s].ring[k])
    BY <2>1 DEF Payloads
  <2>. QED BY <2>1, <2>2 DEF IsMessage
<1>. QED BY <1>4, <1>5

\* The second pass has the same subscribers, and the publisher is as far as it was.
LEMMA BroadcastFrame ==
    ASSUME \A s \in Subs : ctl'[s].active = ctl[s].active /\ ctl'[s].mode = ctl[s].mode
    PROVE  Broadcast' = Broadcast
BY DEF Broadcast

LEMMA PubFrame ==
    ASSUME PubAt, pub' = pub, Broadcast' = Broadcast
    PROVE  PubAt' /\ \A x \in Slots : Arriving(x)' = Arriving(x) /\ WithPub(x)' = WithPub(x)
<1>1. PubAt'
  BY DEF PubAt, Before
<1>2. \A s : Pending(s)' = Pending(s)
  BY DEF Pending
<1>. QED BY <1>1, <1>2 DEF Arriving, WithPub, Filling

\* A step that moves nobody's references.
LEMMA Quiet ==
    ASSUME HInv, UNCHANGED <<refcount, payload, free, seq, orphans, lost>>,
           left' \in [publishes : Nat, deaths : Nat, joins : Nat], PubAt',
           \A x \in Slots : Arriving(x)' = Arriving(x) /\ WithPub(x)' = WithPub(x),
           Filling' => Filling /\ pub'.data = pub.data,
           pub'.pc \in {"push", "post"} => pub.pc \in {"push", "post"} /\ pub'.data = pub.data,
           \A s \in Subs : SameCells(s) /\ SameHands(s) /\ SameBack(s) /\ Hands(s)',
           \A s \in Subs : IsDesc(sub'[s].peek)
    PROVE  HInv'
<1>1. SlotTypes'
  BY DEF HInv, SlotTypes, SameCells, SameHands, IsDesc
<1>2. RefsAccounted'
  BY RingsFrame, HandsFrame, RefsFrame DEF HInv
<1>3. FreeQueue'
  BY FreeQueueFrame DEF HInv
<1>4. \A x \in Slots : OnePlace(x)'
  BY PlacesFrame DEF HInv
<1>5. Payloads'
  <2>1. Filling' => payload'[pub'.data] = seq' + 1
    BY DEF HInv, Payloads
  <2>2. pub'.pc \in {"push", "post"} => payload'[pub'.data] = seq'
    BY DEF HInv, Payloads
  <2>3. /\ \A s \in Subs : Alive(s)' =>
               /\ sub'[s].cur # NoDesc => IsMessage(sub[s].cur)'
               /\ sub'[s].desc # NoDesc => IsMessage(sub[s].desc)'
        /\ \A s \in Subs : ctl'[s].active =>
               \A k \in UsedCells(s)' : IsMessage(ctl[s].ring[k])'
    BY PayloadsFrame DEF HInv
  <2>. QED BY <2>1, <2>2, <2>3 DEF Payloads
<1>. QED BY <1>1, <1>2, <1>3, <1>4, <1>5 DEF HInv

\* A subscriber that keeps what it has.
LEMMA ThreadQuiet ==
    ASSUME HInv, NEW s \in Subs, Alive(s), sub'[s].alive,
           \A r \in Subs : r # s => sub'[r] = sub[r] /\ ctl'[r].held = ctl[r].held,
           sub'[s].cur = sub[s].cur, sub'[s].desc = sub[s].desc, sub'[s].gone = sub[s].gone,
           ~Returning(s), ~Returning(s)', IsDesc(sub'[s].peek), Hands(s)',
           \A r \in Subs : SameRing(r),
           UNCHANGED <<refcount, payload, free, seq, orphans, lost, pub, left>>
    PROVE  HInv'
<1>1. \A r \in Subs : SameCells(r) /\ ctl'[r].mode = ctl[r].mode
  BY DEF SameRing, SameCells
<1>2. Broadcast' = Broadcast
  BY <1>1, BroadcastFrame DEF SameCells
<1>3. PubAt' /\ \A x \in Slots : Arriving(x)' = Arriving(x) /\ WithPub(x)' = WithPub(x)
  BY <1>2, PubFrame DEF HInv
<1>4. ASSUME NEW r \in Subs
      PROVE  SameHands(r) /\ SameBack(r) /\ Hands(r)' /\ IsDesc(sub'[r].peek)
  <2>1. ctl'[r].active = ctl[r].active
    BY <1>1 DEF SameCells
  <2>2. CASE r = s
    <3>1. SameHands(r) /\ SameBack(r)
      BY <2>1, <2>2 DEF SameHands, SameBack, Alive, Returning
    <3>2. Hands(r)'
      BY <2>2 DEF Hands
    <3>. QED BY <2>2, <3>1, <3>2
  <2>3. CASE r # s
    <3>1. sub'[r] = sub[r] /\ ctl'[r].held = ctl[r].held /\ Alive(r)' = Alive(r)
      BY <2>1, <2>3 DEF Alive
    <3>2. SameHands(r) /\ SameBack(r)
      BY <2>1, <3>1 DEF SameHands, SameBack, Returning
    <3>3. Hands(r) /\ IsDesc(sub[r].peek)
      BY DEF HInv, SlotTypes
    <3>. QED BY <3>1, <3>2, <3>3 DEF Hands
  <2>. QED BY <2>2, <2>3
<1>5. left' \in [publishes : Nat, deaths : Nat, joins : Nat]
  BY DEF HInv, SlotTypes
<1>. QED BY <1>1, <1>3, <1>4, <1>5, Quiet DEF Filling

----------------------------------------------------------------------------
(* The steps of a subscriber.                                                 *)

\* What a step of s can do to its thread and to its control block.
LEMMA ThreadFields ==
    ASSUME IInv, NEW s \in Subs
    PROVE  /\ sub[s] \in Threads /\ ctl[s] \in Controls
           /\ DOMAIN sub = Subs /\ DOMAIN ctl = Subs
           /\ ctl[s].head \in 0..(Cap - 1) /\ ctl[s].tail \in 0..(Cap - 1)
           /\ UsedCells(s) = CellsOf(ctl[s].head, ctl[s].tail)
           /\ UsedCells(s) \subseteq 0..(Cap - 1)
<1>1. sub[s] \in Threads /\ ctl[s] \in Controls /\ DOMAIN sub = Subs /\ DOMAIN ctl = Subs
  BY DEF IInv, RingTypes
<1>2. ctl[s].head \in 0..(Cap - 1) /\ ctl[s].tail \in 0..(Cap - 1)
  BY LenType DEF IInv, RingTypes
<1>. QED BY <1>1, <1>2, UsedCellsOf

\* Where it goes on after it has read the ring.
LEMMA LooksQuietly ==
    ASSUME IInv, HInv, NEW s \in Subs, Look(s)
    PROVE  /\ Alive(s) /\ \A r \in Subs : r # s => sub'[r] = sub[r]
           /\ sub'[s].alive /\ sub'[s].cur = sub[s].cur /\ sub'[s].desc = sub[s].desc
           /\ sub'[s].gone = sub[s].gone /\ sub'[s].pc \in {"wait", "cas"}
           /\ IsDesc(sub'[s].peek)
<1>1. sub[s] \in Threads /\ DOMAIN sub = Subs /\ ctl[s].head \in 0..(Cap - 1) /\ Alive(s)
  BY ThreadFields DEF Look
<1>2. IsDesc(sub[s].peek) /\ IsDesc(ctl[s].ring[ctl[s].head])
  BY <1>1 DEF HInv, SlotTypes
<1>3. \A r \in Subs : r # s => sub'[r] = sub[r]
  BY <1>1 DEF Look, Goto
<1>4. CASE QueueLen(s) = 0
  <2>1. sub'[s] = [sub[s] EXCEPT !.pc = "wait"]
    BY <1>1, <1>4 DEF Look, Goto
  <2>. QED BY <1>1, <1>2, <1>3, <2>1 DEF Threads, Alive
<1>5. CASE QueueLen(s) # 0
  <2>1. sub'[s] = [sub[s] EXCEPT !.pc = "cas", !.head = ctl[s].head,
                                 !.peek = ctl[s].ring[ctl[s].head]]
    BY <1>1, <1>5 DEF Look
  <2>. QED BY <1>1, <1>2, <1>3, <2>1 DEF Threads, Alive
<1>. QED BY <1>4, <1>5

\* Waiting, a CAS that fails, and the count that is consumed.
LEMMA WaitsQuietly ==
    ASSUME IInv, HInv, NEW s \in Subs,
           Wait(s) \/ Timeout(s) \/ WaitReady(s) \/ Release(s) \/ (Pop(s) /\ ~PopExpected(s))
    PROVE  HInv'
<1>1. /\ sub[s] \in Threads /\ DOMAIN sub = Subs /\ Alive(s) /\ Hands(s) /\ IsDesc(sub[s].peek)
      /\ sub[s].pc \in {"idle", "wait", "asleep", "cas"} /\ sub[s].desc = NoDesc
      /\ UNCHANGED <<refcount, payload, free, seq, orphans, lost, pub, left, ctl>>
  <2>1. /\ Alive(s) /\ sub[s].pc \in {"idle", "wait", "asleep", "cas"}
        /\ UNCHANGED <<refcount, payload, free, seq, orphans, lost, pub, left, ctl>>
    BY DEF Wait, Timeout, WaitReady, Release, Pop, At, pool, aux
  <2>. QED BY <2>1, ThreadFields DEF HInv, SlotTypes, Hands
<1>2. /\ \A r \in Subs : r # s => sub'[r] = sub[r]
      /\ sub'[s].alive /\ sub'[s].cur = sub[s].cur /\ sub'[s].desc = sub[s].desc
      /\ sub'[s].gone = sub[s].gone /\ IsDesc(sub'[s].peek)
      /\ \/ sub'[s].pc \in {"wait", "cas", "asleep", "idle"}
         \/ sub'[s].pc = "clear" /\ sub[s].cur # NoDesc
  <2>1. ASSUME NEW p, Goto(s, p)
        PROVE  /\ \A r \in Subs : r # s => sub'[r] = sub[r]
               /\ sub'[s].alive /\ sub'[s].cur = sub[s].cur /\ sub'[s].desc = sub[s].desc
               /\ sub'[s].gone = sub[s].gone /\ IsDesc(sub'[s].peek) /\ sub'[s].pc = p
    <3>1. sub'[s] = [sub[s] EXCEPT !.pc = p] /\ \A r \in Subs : r # s => sub'[r] = sub[r]
      BY <1>1, <2>1 DEF Goto
    <3>. QED BY <1>1, <3>1 DEF Threads, Alive
  <2>2. CASE Look(s)
    BY <2>2, LooksQuietly
  <2>3. CASE Release(s)
    BY <2>1, <2>3 DEF Release
  <2>4. CASE Timeout(s) \/ (WaitReady(s) /\ ~Look(s))
    BY <2>1, <2>4 DEF Timeout, WaitReady
  <2>. QED BY <2>2, <2>3, <2>4 DEF Wait, WaitReady, Pop
<1>3. \A r \in Subs : SameRing(r)
  BY <1>1 DEF SameRing, Dropped
<1>4. Alive(s)' /\ ~Returning(s) /\ ~Returning(s)'
  BY <1>1, <1>2 DEF Alive, Returning
<1>5. Hands(s)'
  BY <1>1, <1>2, <1>4 DEF Hands
<1>. QED BY <1>1, <1>2, <1>3, <1>4, <1>5, ThreadQuiet

\* ConsumeReady.
LEMMA ConsumesQuietly ==
    ASSUME IInv, HInv, NEW s \in Subs, ConsumeReady(s)
    PROVE  HInv'
<1>1. /\ sub[s] \in Threads /\ DOMAIN sub = Subs /\ Alive(s) /\ Hands(s) /\ IsDesc(sub[s].peek)
      /\ ctl[s] \in Controls /\ DOMAIN ctl = Subs
      /\ sub[s].pc = "consume" /\ sub[s].desc # NoDesc
      /\ UNCHANGED <<refcount, payload, free, seq, orphans, lost, pub, left>>
  <2>1. /\ Alive(s) /\ sub[s].pc = "consume"
        /\ UNCHANGED <<refcount, payload, free, seq, orphans, lost, pub, left>>
    BY DEF ConsumeReady, At, pool, aux
  <2>. QED BY <2>1, ThreadFields DEF HInv, SlotTypes, Hands
<1>2. /\ sub'[s] = [sub[s] EXCEPT !.pc = IF sub[s].cur = NoDesc THEN "hold" ELSE "clear"]
      /\ \A r \in Subs : r # s => sub'[r] = sub[r]
      /\ ctl'[s] = [ctl[s] EXCEPT !.ready = @ - 1]
      /\ \A r \in Subs : r # s => ctl'[r] = ctl[r]
  BY <1>1 DEF ConsumeReady, Goto
<1>3. /\ sub'[s].alive /\ sub'[s].cur = sub[s].cur /\ sub'[s].desc = sub[s].desc
      /\ sub'[s].gone = sub[s].gone /\ sub'[s].peek = sub[s].peek
      /\ sub'[s].pc = IF sub[s].cur = NoDesc THEN "hold" ELSE "clear"
  BY <1>1, <1>2 DEF Threads, Alive
<1>4. ctl'[s].held = ctl[s].held /\ ctl'[s].active = ctl[s].active /\ \A r \in Subs : SameRing(r)
  BY <1>1, <1>2 DEF Controls, SameRing, Dropped
<1>5. Alive(s)' /\ ~Returning(s) /\ ~Returning(s)'
  BY <1>1, <1>3, <1>4 DEF Alive, Returning
<1>6. Hands(s)'
  BY <1>1, <1>3, <1>4, <1>5 DEF Hands
<1>. QED BY <1>1, <1>2, <1>3, <1>4, <1>5, <1>6, ThreadQuiet

\* What it holds is noted no more.
LEMMA ClearsQuietly ==
    ASSUME IInv, HInv, NEW s \in Subs, ClearHeldSlot(s)
    PROVE  HInv'
<1>1. /\ sub[s] \in Threads /\ DOMAIN sub = Subs /\ Alive(s) /\ Hands(s) /\ IsDesc(sub[s].peek)
      /\ ctl[s] \in Controls /\ DOMAIN ctl = Subs
      /\ sub[s].pc = "clear" /\ sub[s].cur # NoDesc /\ ctl[s].held = sub[s].cur.slot
      /\ UNCHANGED <<refcount, payload, free, seq, orphans, lost, pub, left>>
  <2>1. /\ Alive(s) /\ sub[s].pc = "clear"
        /\ UNCHANGED <<refcount, payload, free, seq, orphans, lost, pub, left>>
    BY DEF ClearHeldSlot, At, pool, aux
  <2>. QED BY <2>1, ThreadFields DEF HInv, SlotTypes, Hands
<1>2. /\ sub'[s] = [sub[s] EXCEPT !.pc = "unref"]
      /\ \A r \in Subs : r # s => sub'[r] = sub[r]
      /\ ctl'[s] = [ctl[s] EXCEPT !.held = None]
      /\ \A r \in Subs : r # s => ctl'[r] = ctl[r]
  BY <1>1 DEF ClearHeldSlot, Goto
<1>3. /\ sub'[s].alive /\ sub'[s].cur = sub[s].cur /\ sub'[s].desc = sub[s].desc
      /\ sub'[s].gone = sub[s].gone /\ sub'[s].peek = sub[s].peek /\ sub'[s].pc = "unref"
  BY <1>1, <1>2 DEF Threads, Alive
<1>4. ctl'[s].held = None /\ ctl'[s].active = ctl[s].active /\ \A r \in Subs : SameRing(r)
  BY <1>1, <1>2 DEF Controls, SameRing, Dropped
<1>5. Alive(s)' /\ ~Returning(s) /\ ~Returning(s)'
  BY <1>1, <1>3, <1>4 DEF Alive, Returning
<1>6. Hands(s)'
  BY <1>1, <1>3, <1>4, <1>5 DEF Hands
<1>. QED BY <1>1, <1>2, <1>3, <1>4, <1>5, <1>6, ThreadQuiet

\* The sums after a step.
LEMMA RefsSumNext ==
    ASSUME NEW x \in Slots
    PROVE  /\ References(x)' = orphans'[x] + Cardinality(Arriving(x)') + Cardinality(Rings(x)')
                   + Cardinality(Current(x)') + Cardinality(Handed(x)')
                   + Cardinality(HeldByDead(x)')
           /\ Arriving(x)' \in SUBSET Subs /\ Rings(x)' \in SUBSET Pairs
           /\ Current(x)' \in SUBSET Subs /\ Handed(x)' \in SUBSET Subs
           /\ HeldByDead(x)' \in SUBSET Subs
<1>1. References(x)' = orphans'[x] + Cardinality(Arriving(x)') + Cardinality(Rings(x)')
                   + Cardinality(Current(x)') + Cardinality(Handed(x)')
                   + Cardinality(HeldByDead(x)')
  BY DEF References, Rings, Active
<1>2. /\ Arriving(x)' \in SUBSET Subs /\ Current(x)' \in SUBSET Subs
      /\ Handed(x)' \in SUBSET Subs /\ HeldByDead(x)' \in SUBSET Subs
  BY DEF Arriving, Current, Handed, HeldByDead
<1>3. Rings(x)' \in SUBSET Pairs
  BY DEF Rings, InRings, Active, Pairs
<1>. QED BY <1>1, <1>2, <1>3

\* The messages in hands and rings when no payload changes and nothing is pushed.
LEMMA PayloadsKept ==
    ASSUME Payloads, payload' = payload, seq' = seq, NEW s \in Subs,
           \A r \in Subs : r # s => sub'[r] = sub[r],
           \A r \in Subs : ctl'[r].active =>
              ctl[r].active /\ ctl'[r].ring = ctl[r].ring /\ UsedCells(r)' \subseteq UsedCells(r),
           Alive(s)' => /\ sub'[s].cur # NoDesc => IsMessage(sub'[s].cur)
                        /\ sub'[s].desc # NoDesc => IsMessage(sub'[s].desc),
           Filling' => Filling /\ pub'.data = pub.data,
           pub'.pc \in {"push", "post"} => pub.pc \in {"push", "post"} /\ pub'.data = pub.data
    PROVE  Payloads'
<1>1. ASSUME NEW r \in Subs, Alive(r)'
      PROVE  /\ sub'[r].cur # NoDesc => IsMessage(sub[r].cur)'
             /\ sub'[r].desc # NoDesc => IsMessage(sub[r].desc)'
  <2>1. CASE r = s
    BY <1>1, <2>1 DEF IsMessage, Alive
  <2>2. CASE r # s
    <3>1. Alive(r) /\ sub'[r] = sub[r]
      BY <1>1, <2>2 DEF Alive
    <3>. QED BY <3>1 DEF Payloads, IsMessage
  <2>. QED BY <2>1, <2>2
<1>2. ASSUME NEW r \in Subs, ctl'[r].active, NEW k \in UsedCells(r)'
      PROVE  IsMessage(ctl[r].ring[k])'
  <2>1. ctl[r].active /\ ctl'[r].ring = ctl[r].ring /\ k \in UsedCells(r)
    BY <1>2
  <2>2. IsMessage(ctl[r].ring[k])
    BY <2>1 DEF Payloads
  <2>. QED BY <2>1, <2>2 DEF IsMessage
<1>3. Filling' => payload'[pub'.data] = seq' + 1
  BY DEF Payloads
<1>4. pub'.pc \in {"push", "post"} => payload'[pub'.data] = seq'
  BY DEF Payloads
<1>. QED BY <1>1, <1>2, <1>3, <1>4 DEF Payloads

\* A step of a subscriber, but for where its slots are then.
LEMMA HandStep ==
    ASSUME HInv, NEW s \in Subs,
           \A r \in Subs : r # s => sub'[r] = sub[r] /\ ctl'[r].held = ctl[r].held,
           \A r \in Subs : /\ ctl'[r].active = ctl[r].active /\ ctl'[r].mode = ctl[r].mode
                           /\ ctl'[r].ring = ctl[r].ring /\ UsedCells(r)' \subseteq UsedCells(r),
           IsDesc(sub'[s].peek), IsDesc(sub'[s].desc), IsDesc(sub'[s].cur), Hands(s)',
           Alive(s)' => /\ sub'[s].cur # NoDesc => IsMessage(sub'[s].cur)
                        /\ sub'[s].desc # NoDesc => IsMessage(sub'[s].desc),
           UNCHANGED <<payload, seq, pub>>,
           refcount' \in [Slots -> Nat], orphans' \in [Slots -> Nat], lost' \subseteq Slots,
           left' \in [publishes : Nat, deaths : Nat, joins : Nat],
           RefsAccounted', FreeQueue', \A x \in Slots : OnePlace(x)'
    PROVE  HInv'
<1>1. SlotTypes'
  <2>1. ASSUME NEW r \in Subs
        PROVE  /\ \A k \in 0..(Cap - 1) : IsDesc(ctl'[r].ring[k])
               /\ IsDesc(sub'[r].peek) /\ IsDesc(sub'[r].desc) /\ IsDesc(sub'[r].cur)
    BY DEF HInv, SlotTypes
  <2>2. payload' \in [Slots -> Nat]
    BY DEF HInv, SlotTypes
  <2>. QED BY <2>1, <2>2 DEF SlotTypes, IsDesc
<1>2. PubAt'
  BY BroadcastFrame, PubFrame DEF HInv
<1>3. ASSUME NEW r \in Subs PROVE Hands(r)'
  <2>1. CASE r = s
    BY <2>1 DEF Hands
  <2>2. CASE r # s
    <3>1. Alive(r)' <=> Alive(r)
      BY <2>2 DEF Alive
    <3>2. Hands(r) /\ sub'[r] = sub[r] /\ ctl'[r].held = ctl[r].held
      BY <2>2 DEF HInv
    <3>. QED BY <3>1, <3>2 DEF Hands
  <2>. QED BY <2>1, <2>2
<1>4. Payloads'
  <2>1. /\ Filling' => Filling /\ pub'.data = pub.data
        /\ pub'.pc \in {"push", "post"} => pub.pc \in {"push", "post"} /\ pub'.data = pub.data
    BY DEF Filling
  <2>. QED BY <2>1, PayloadsKept DEF HInv
<1>. QED BY <1>1, <1>2, <1>3, <1>4 DEF HInv

\* A subscriber without a place on the way to the free queue.
LEMMA NoReturn ==
    ASSUME HInv, NEW s \in Subs, UNCHANGED <<free, lost, pub>>,
           \A r \in Subs : ctl'[r].active = ctl[r].active,
           \A r \in Subs : r # s => sub'[r] = sub[r],
           Alive(s), Alive(s)', ~Returning(s), ~Returning(s)'
    PROVE  /\ FreeQueue'
           /\ refcount' = refcount => \A x \in Slots : OnePlace(x)'
<1>1. ASSUME NEW r \in Subs PROVE SameBack(r)
  <2>1. CASE r = s
    BY <2>1 DEF SameBack, Alive, Returning
  <2>2. CASE r # s
    <3>1. (Alive(r)' <=> Alive(r)) /\ sub'[r] = sub[r]
      BY <2>2 DEF Alive
    <3>. QED BY <3>1 DEF SameBack, Returning
  <2>. QED BY <2>1, <2>2
<1>2. FreeQueue'
  BY <1>1, FreeQueueFrame DEF HInv
<1>3. \A x \in Slots : WithPub(x)' = WithPub(x)
  BY DEF WithPub, Filling
<1>4. refcount' = refcount => \A x \in Slots : OnePlace(x)'
  BY <1>1, <1>3, PlacesFrame DEF HInv
<1>. QED BY <1>2, <1>4

\* HoldSlot: the slot that is in hand becomes the current one.
LEMMA Holds ==
    ASSUME IInv, HInv, NEW s \in Subs, HoldSlot(s)
    PROVE  HInv'
<1>1. /\ sub[s] \in Threads /\ DOMAIN sub = Subs /\ Alive(s) /\ Hands(s) /\ IsDesc(sub[s].peek)
      /\ ctl[s] \in Controls /\ DOMAIN ctl = Subs /\ IsDesc(sub[s].desc)
      /\ sub[s].pc = "hold" /\ sub[s].desc # NoDesc /\ sub[s].cur = NoDesc
      /\ UNCHANGED <<refcount, payload, free, seq, orphans, lost, pub, left>>
  <2>1. /\ Alive(s) /\ sub[s].pc = "hold"
        /\ UNCHANGED <<refcount, payload, free, seq, orphans, lost, pub, left>>
    BY DEF HoldSlot, At, pool, aux
  <2>. QED BY <2>1, ThreadFields DEF HInv, SlotTypes, Hands
<1>2. /\ sub'[s] = [sub[s] EXCEPT !.pc = "idle", !.cur = sub[s].desc, !.desc = NoDesc]
      /\ \A r \in Subs : r # s => sub'[r] = sub[r]
      /\ ctl'[s] = [ctl[s] EXCEPT !.held = sub[s].desc.slot]
      /\ \A r \in Subs : r # s => ctl'[r] = ctl[r]
  BY <1>1 DEF HoldSlot
<1>3. /\ sub'[s].alive /\ sub'[s].cur = sub[s].desc /\ sub'[s].desc = NoDesc
      /\ sub'[s].gone = sub[s].gone /\ sub'[s].peek = sub[s].peek /\ sub'[s].pc = "idle"
  BY <1>1, <1>2 DEF Threads, Alive
<1>4. /\ ctl'[s].held = sub[s].desc.slot /\ ctl'[s].active = ctl[s].active
      /\ \A r \in Subs : SameCells(r) /\ ctl'[r].mode = ctl[r].mode
  BY <1>1, <1>2 DEF Controls, SameCells
<1>5. Alive(s)' /\ ~Returning(s) /\ ~Returning(s)'
  BY <1>1, <1>3, <1>4 DEF Alive, Returning
<1>6. Hands(s)'
  BY <1>1, <1>3, <1>4, <1>5 DEF Hands
<1>7. ASSUME NEW x \in Slots
      PROVE  /\ Arriving(x)' = Arriving(x) /\ Rings(x)' = Rings(x)
             /\ HeldByDead(x)' = HeldByDead(x)
             /\ IF sub[s].desc.slot = x
                THEN /\ Current(x)' = Current(x) \cup {s} /\ s \notin Current(x)
                     /\ Handed(x)' = Handed(x) \ {s} /\ s \in Handed(x)
                ELSE Current(x)' = Current(x) /\ Handed(x)' = Handed(x)
  <2>1. Broadcast' = Broadcast
    BY <1>4, BroadcastFrame DEF SameCells
  <2>2. Arriving(x)' = Arriving(x) /\ Rings(x)' = Rings(x)
    BY <1>1, <1>4, <2>1, PubFrame, RingsFrame DEF HInv
  <2>3. \A r \in Subs : r # s => (Alive(r)' <=> Alive(r)) /\ sub'[r] = sub[r] /\ ctl'[r] = ctl[r]
    BY <1>2 DEF Alive
  <2>4. NoDesc.slot # x
    BY SharedAssumption DEF NoDesc
  <2>5. HeldByDead(x)' = HeldByDead(x)
    BY <1>1, <1>3, <2>3 DEF HeldByDead, Alive
  <2>6. Current(x)' = {r \in Subs : (r # s /\ r \in Current(x)) \/ (r = s /\ sub[s].desc.slot = x)}
    BY <1>3, <1>5, <2>3 DEF Current
  <2>7. Handed(x)' = {r \in Subs : r # s /\ r \in Handed(x)}
    BY <1>3, <1>5, <2>3, <2>4 DEF Handed
  <2>8. s \notin Current(x)
    BY <1>1, <2>4 DEF Current
  <2>9. s \in Handed(x) <=> sub[s].desc.slot = x
    BY <1>1 DEF Handed
  <2>10. Current(x) \subseteq Subs /\ Handed(x) \subseteq Subs
    BY DEF Current, Handed
  <2>. QED BY <2>2, <2>5, <2>6, <2>7, <2>8, <2>9, <2>10
<1>8. RefsAccounted'
  <2> SUFFICES ASSUME NEW x \in Slots PROVE refcount'[x] = References(x)'
    BY DEF RefsAccounted
  <2>1. refcount[x] = References(x) /\ orphans[x] \in Nat
    BY DEF HInv, RefsAccounted, SlotTypes
  <2>2. CASE sub[s].desc.slot = x
    <3>1. /\ Cardinality(Current(x)') = Cardinality(Current(x)) + 1
          /\ Cardinality(Handed(x)') = Cardinality(Handed(x)) - 1
      BY <1>7, <2>2, RefsSubsets, OneMore
    <3>2. References(x)' = References(x)
      BY <1>1, <1>7, <2>1, <3>1, RefsSum, RefsSumNext
    <3>. QED BY <1>1, <2>1, <3>2
  <2>3. CASE sub[s].desc.slot # x
    BY <1>1, <1>7, <2>1, <2>3 DEF References, Rings, Active
  <2>. QED BY <2>2, <2>3
<1>9. FreeQueue' /\ \A x \in Slots : OnePlace(x)'
  BY <1>1, <1>2, <1>4, <1>5, NoReturn DEF SameCells
<1>10. IsMessage(sub[s].desc) /\ IsDesc(NoDesc)
  BY <1>1 DEF HInv, Payloads, IsDesc
<1>11. \A r \in Subs : UsedCells(r)' = UsedCells(r)
  BY <1>4, UsedCellsFrame
<1>12. /\ refcount' \in [Slots -> Nat] /\ orphans' \in [Slots -> Nat] /\ lost' \subseteq Slots
       /\ left' \in [publishes : Nat, deaths : Nat, joins : Nat]
  BY <1>1 DEF HInv, SlotTypes
<1>13. \A r \in Subs : /\ ctl'[r].active = ctl[r].active /\ ctl'[r].mode = ctl[r].mode
                      /\ ctl'[r].ring = ctl[r].ring /\ UsedCells(r)' \subseteq UsedCells(r)
  BY <1>4, <1>11 DEF SameCells
<1>. QED BY <1>1, <1>2, <1>3, <1>6, <1>8, <1>9, <1>10, <1>12, <1>13, HandStep

\* A ring whose head moves on loses the cell that was there.
LEMMA RingLoses ==
    ASSUME IInv, NEW s \in Subs, ctl[s].active, ctl'[s].active = ctl[s].active,
           ctl[s].head # ctl[s].tail, ctl'[s].head = After(ctl[s].head),
           ctl'[s].tail = ctl[s].tail, ctl'[s].ring = ctl[s].ring,
           \A r \in Subs : r # s => SameCells(r)
    PROVE  /\ \A r \in Subs : UsedCells(r)' \subseteq UsedCells(r)
           /\ ctl[s].head \in UsedCells(s)
           /\ \A x : IF ctl[s].ring[ctl[s].head].slot = x
                     THEN /\ <<s, ctl[s].head>> \in Rings(x)
                          /\ Rings(x)' = Rings(x) \ {<<s, ctl[s].head>>}
                     ELSE Rings(x)' = Rings(x)
<1>1. PICK h \in 0..(Cap - 1) : h = ctl[s].head
  BY ThreadFields
<1>2. PICK t \in 0..(Cap - 1) : t = ctl[s].tail
  BY ThreadFields
<1>3. h \in CellsOf(h, t) /\ CellsOf(After(h), t) = CellsOf(h, t) \ {h}
  BY <1>1, <1>2, CellFacts
<1>4. UsedCells(s) = CellsOf(h, t) /\ UsedCells(s) \subseteq 0..(Cap - 1)
  BY <1>1, <1>2, ThreadFields
<1>5. UsedCells(s)' = CellsOf(After(h), t)
  BY <1>1, <1>2 DEF UsedCells, CellsOf, QueueLen, Cell, Used
<1>6. \A r \in Subs : r # s => UsedCells(r)' = UsedCells(r)
  BY UsedCellsFrame
<1>7. \A r \in Subs : UsedCells(r)' \subseteq UsedCells(r)
  BY <1>3, <1>4, <1>5, <1>6
<1>8. Active' = Active /\ s \in Active
  BY DEF Active, SameCells
<1>9. ASSUME NEW x
      PROVE  IF ctl[s].ring[h].slot = x
             THEN <<s, h>> \in Rings(x) /\ Rings(x)' = Rings(x) \ {<<s, h>>}
             ELSE Rings(x)' = Rings(x)
  <2>1. /\ Rings(x) = {p \in Active \X (0..(Cap - 1)) :
                          p[2] \in UsedCells(p[1]) /\ ctl[p[1]].ring[p[2]].slot = x}
        /\ Rings(x)' = {p \in Active \X (0..(Cap - 1)) :
                          p[2] \in UsedCells(p[1])' /\ ctl'[p[1]].ring[p[2]].slot = x}
    BY <1>8 DEF Rings, InRings
  <2>2. \A r \in Active : ctl'[r].ring = ctl[r].ring
    BY DEF Active, SameCells
  <2>3. ASSUME NEW r \in Active, NEW k \in 0..(Cap - 1)
        PROVE  k \in UsedCells(r)' <=> k \in UsedCells(r) /\ ~(r = s /\ k = h)
    BY <1>3, <1>4, <1>5, <1>6 DEF Active
  <2>4. ASSUME NEW p \in Active \X (0..(Cap - 1))
        PROVE  p \in Rings(x)' <=> p \in Rings(x) /\ p # <<s, h>>
    <3>1. PICK r \in Active, k \in 0..(Cap - 1) : p = <<r, k>>
      OBVIOUS
    <3>2. p[1] = r /\ p[2] = k /\ (p = <<s, h>> <=> r = s /\ k = h)
      BY <3>1
    <3>. QED BY <2>1, <2>2, <2>3, <3>1, <3>2
  <2>5. <<s, h>> \in Rings(x) <=> ctl[s].ring[h].slot = x
    BY <1>3, <1>4, <1>8, <2>1
  <2>6. Rings(x)' = Rings(x) \ {<<s, h>>}
    BY <2>1, <2>4
  <2>. QED BY <2>5, <2>6
<1>. QED BY <1>1, <1>3, <1>4, <1>7, <1>9

\* The CAS of TryPopDescriptor: the descriptor goes from the ring into a hand.
LEMMA Takes ==
    ASSUME IInv, HInv, NoTurn, NEW s \in Subs, Pop(s), PopExpected(s)
    PROVE  HInv'
<1>1. /\ sub[s] \in Threads /\ DOMAIN sub = Subs /\ Alive(s) /\ Hands(s)
      /\ ctl[s] \in Controls /\ DOMAIN ctl = Subs
      /\ sub[s].pc = "cas" /\ sub[s].desc = NoDesc /\ sub[s].gone = None
      /\ IsDesc(sub[s].peek) /\ IsDesc(sub[s].cur) /\ ctl[s].held = sub[s].cur.slot
      /\ UNCHANGED <<refcount, payload, free, seq, orphans, lost, pub, left>>
  <2>1. /\ Alive(s) /\ sub[s].pc = "cas"
        /\ UNCHANGED <<refcount, payload, free, seq, orphans, lost, pub, left>>
    BY DEF Pop, At, pool
  <2>. QED BY <2>1, ThreadFields DEF HInv, SlotTypes, Hands
<1>2. /\ sub[s].peek = ctl[s].ring[ctl[s].head] /\ ctl[s].head # ctl[s].tail
  <2>1. sub[s].peek = ctl[s].ring[ctl[s].head] /\ QueueLen(s) > 0
    BY <1>1 DEF IInv, PeekHolds, NoTurn, PopExpected, At
  <2>2. PICK h \in 0..(Cap - 1) : h = ctl[s].head
    BY ThreadFields
  <2>3. PICK t \in 0..(Cap - 1) : t = ctl[s].tail
    BY ThreadFields
  <2>4. QueueLen(s) = Used(h, t)
    BY <2>2, <2>3 DEF QueueLen, Used
  <2>5. Used(h, t) = 0 <=> h = t
    BY ZenonT(60), RingFacts
  <2>. QED BY <2>1, <2>2, <2>3, <2>4, <2>5
<1>3. /\ sub'[s] = [sub[s] EXCEPT !.pc = "consume", !.desc = sub[s].peek, !.peek = NoDesc,
                                  !.head = 0]
      /\ \A r \in Subs : r # s => sub'[r] = sub[r]
      /\ ctl'[s] = [ctl[s] EXCEPT !.head = After(ctl[s].head)]
      /\ \A r \in Subs : r # s => ctl'[r] = ctl[r]
  BY <1>1 DEF Pop, After
<1>4. /\ sub'[s].alive /\ sub'[s].cur = sub[s].cur /\ sub'[s].desc = sub[s].peek
      /\ sub'[s].gone = None /\ sub'[s].peek = NoDesc /\ sub'[s].pc = "consume"
  BY <1>1, <1>3 DEF Threads, Alive
<1>5. /\ ctl'[s].held = ctl[s].held /\ ctl'[s].active = ctl[s].active
      /\ ctl'[s].mode = ctl[s].mode /\ ctl'[s].head = After(ctl[s].head)
      /\ ctl'[s].tail = ctl[s].tail /\ ctl'[s].ring = ctl[s].ring
  BY <1>1, <1>3 DEF Controls
<1>6. Alive(s)' /\ ~Returning(s) /\ ~Returning(s)' /\ ctl[s].active
  BY <1>1, <1>4, <1>5 DEF Alive, Returning
<1>7. /\ \A r \in Subs : UsedCells(r)' \subseteq UsedCells(r)
      /\ ctl[s].head \in UsedCells(s)
      /\ \A x : IF sub[s].peek.slot = x
                THEN /\ <<s, ctl[s].head>> \in Rings(x)
                     /\ Rings(x)' = Rings(x) \ {<<s, ctl[s].head>>}
                ELSE Rings(x)' = Rings(x)
  <2>1. \A r \in Subs : r # s => SameCells(r)
    BY <1>3 DEF SameCells
  <2>. QED BY <1>2, <1>5, <1>6, <2>1, RingLoses
<1>8. IsMessage(sub[s].peek)
  BY <1>2, <1>6, <1>7 DEF HInv, Payloads
<1>9. sub[s].peek # NoDesc
  BY <1>8, SharedAssumption DEF IsMessage, NoDesc
<1>10. Hands(s)'
  BY <1>1, <1>4, <1>5, <1>6, <1>9 DEF Hands
<1>11. \A r \in Subs : /\ ctl'[r].active = ctl[r].active /\ ctl'[r].mode = ctl[r].mode
                       /\ ctl'[r].ring = ctl[r].ring
  BY <1>3, <1>5
<1>12. ASSUME NEW x \in Slots
       PROVE  /\ Arriving(x)' = Arriving(x) /\ Current(x)' = Current(x)
              /\ HeldByDead(x)' = HeldByDead(x)
              /\ IF sub[s].peek.slot = x
                 THEN Handed(x)' = Handed(x) \cup {s} /\ s \notin Handed(x)
                 ELSE Handed(x)' = Handed(x)
  <2>1. Arriving(x)' = Arriving(x)
    BY <1>1, <1>11, BroadcastFrame, PubFrame DEF HInv
  <2>2. \A r \in Subs : r # s => (Alive(r)' <=> Alive(r)) /\ sub'[r] = sub[r] /\ ctl'[r] = ctl[r]
    BY <1>3 DEF Alive
  <2>3. NoDesc.slot # x
    BY SharedAssumption DEF NoDesc
  <2>4. HeldByDead(x)' = HeldByDead(x)
    BY <1>1, <1>4, <2>2 DEF HeldByDead, Alive
  <2>5. Current(x)' = Current(x)
    BY <1>1, <1>4, <1>6, <2>2 DEF Current
  <2>6. Handed(x)' = {r \in Subs : (r # s /\ r \in Handed(x)) \/ (r = s /\ sub[s].peek.slot = x)}
    BY <1>4, <1>6, <2>2 DEF Handed
  <2>7. s \notin Handed(x)
    BY <1>1, <2>3 DEF Handed
  <2>8. Handed(x) \subseteq Subs
    BY DEF Handed
  <2>. QED BY <2>1, <2>4, <2>5, <2>6, <2>7, <2>8
<1>13. RefsAccounted'
  <2> SUFFICES ASSUME NEW x \in Slots PROVE refcount'[x] = References(x)'
    BY DEF RefsAccounted
  <2>1. refcount[x] = References(x) /\ orphans[x] \in Nat
    BY DEF HInv, RefsAccounted, SlotTypes
  <2>2. CASE sub[s].peek.slot = x
    <3>1. Cardinality(Handed(x)') = Cardinality(Handed(x)) + 1
      BY <1>12, <2>2, RefsSubsets, OneMore
    <3>2. Cardinality(Rings(x)') = Cardinality(Rings(x)) - 1
      BY <1>7, <2>2, RefsSubsets, OneMore
    <3>3. References(x)' = References(x)
      BY <1>1, <1>12, <2>1, <3>1, <3>2, RefsSum, RefsSumNext
    <3>. QED BY <1>1, <2>1, <3>3
  <2>3. CASE sub[s].peek.slot # x
    <3>1. Rings(x)' = Rings(x)
      BY <1>7, <2>3
    <3>. QED BY <1>1, <1>12, <2>1, <2>3, <3>1 DEF References, Rings, Active
  <2>. QED BY <2>2, <2>3
<1>14. FreeQueue' /\ \A x \in Slots : OnePlace(x)'
  BY <1>1, <1>3, <1>6, <1>11, NoReturn
<1>15. /\ refcount' \in [Slots -> Nat] /\ orphans' \in [Slots -> Nat] /\ lost' \subseteq Slots
       /\ left' \in [publishes : Nat, deaths : Nat, joins : Nat]
  BY <1>1 DEF HInv, SlotTypes
<1>16. /\ IsDesc(NoDesc) /\ (sub[s].cur # NoDesc => IsMessage(sub[s].cur))
       /\ \A r \in Subs : r # s => ctl'[r].held = ctl[r].held
  BY <1>1, <1>3 DEF HInv, Payloads, IsDesc
<1>. QED BY <1>1, <1>3, <1>4, <1>7, <1>8, <1>10, <1>11, <1>13, <1>14, <1>15, <1>16, HandStep

\* A slot that is in use is neither in the free queue nor on its way there.
LEMMA BusyAlone ==
    ASSUME HInv, NEW x \in Slots, Busy(x)
    PROVE  /\ ~Free(x) /\ ~WithPub(x) /\ ~Back(x) /\ x \notin lost
           /\ \A r \in Subs : Returning(r) => sub[r].gone # x
<1>1. ~Free(x) /\ ~WithPub(x) /\ ~Back(x) /\ x \notin lost
  <2>1. OnePlace(x)
    BY DEF HInv
  <2>. QED BY <2>1 DEF OnePlace, Perished
<1>2. ASSUME NEW r \in Subs, Returning(r), sub[r].gone = x PROVE FALSE
  <2>1. CASE sub[r].pc = "reserve"
    BY <1>1, <1>2, <2>1 DEF Back
  <2>2. CASE sub[r].pc = "fill"
    <3>1. [slot |-> x, full |-> FALSE] \in FreeSet(free)
      BY <1>2, <2>2 DEF HInv, FreeQueue
    <3>. QED BY <1>1, <3>1 DEF Free, Has
  <2>. QED BY <1>2, <2>1, <2>2 DEF Returning
<1>. QED BY <1>1, <1>2

\* ReleaseSlot: the current slot has one reference less, and is recycled after the last one.
LEMMA Releases ==
    ASSUME IInv, HInv, NEW s \in Subs, ReleaseSlot(s)
    PROVE  HInv'
<1> DEFINE x == sub[s].cur.slot
<1>1. /\ sub[s] \in Threads /\ DOMAIN sub = Subs /\ Alive(s) /\ Hands(s)
      /\ sub[s].pc = "unref" /\ sub[s].cur # NoDesc /\ sub[s].gone = None /\ ctl[s].held = None
      /\ IsDesc(sub[s].peek) /\ IsDesc(sub[s].desc) /\ x \in Slots
      /\ refcount \in [Slots -> Nat] /\ orphans \in [Slots -> Nat]
      /\ UNCHANGED <<ctl, payload, free, seq, orphans, lost, pub, left>>
      /\ refcount' = [refcount EXCEPT ![x] = @ - 1]
  <2>1. /\ Alive(s) /\ sub[s].pc = "unref"
        /\ UNCHANGED <<ctl, payload, free, seq, orphans, lost, pub, left>>
        /\ refcount' = [refcount EXCEPT ![x] = @ - 1]
    BY DEF ReleaseSlot, At, aux
  <2>2. sub[s].cur # NoDesc /\ IsDesc(sub[s].cur)
    BY <2>1 DEF HInv, SlotTypes, Hands
  <2>3. x \in Slots
    BY <2>2 DEF IsDesc
  <2>. QED BY <2>1, <2>2, <2>3, ThreadFields DEF HInv, SlotTypes, Hands
<1>2. /\ sub'[s] = [sub[s] EXCEPT !.cur = NoDesc, !.gone = IF LastRef(x) THEN x ELSE None,
                                  !.pc = IF LastRef(x) THEN "reserve" ELSE Resume(s)]
      /\ \A r \in Subs : r # s => sub'[r] = sub[r]
  BY <1>1 DEF ReleaseSlot
<1>3. /\ sub'[s].alive /\ sub'[s].cur = NoDesc /\ sub'[s].desc = sub[s].desc
      /\ sub'[s].gone = (IF LastRef(x) THEN x ELSE None) /\ sub'[s].peek = sub[s].peek
      /\ sub'[s].pc = IF LastRef(x) THEN "reserve" ELSE Resume(s)
  BY <1>1, <1>2 DEF Threads, Alive
<1> HIDE DEF x
<1>4. Alive(s)' /\ ~Returning(s) /\ (Returning(s)' <=> LastRef(x))
  BY <1>1, <1>3 DEF Alive, Returning, Resume
<1>5. Hands(s)'
  <2>1. NoDesc.slot = None
    BY DEF NoDesc
  <2>. QED BY <1>1, <1>3, <1>4, <2>1 DEF Hands, Resume
<1>6. \A r \in Subs : r # s => (Alive(r)' <=> Alive(r)) /\ sub'[r] = sub[r] /\ ctl'[r] = ctl[r]
  BY <1>1, <1>2 DEF Alive
<1>7. ASSUME NEW y \in Slots
      PROVE  /\ Arriving(y)' = Arriving(y) /\ Rings(y)' = Rings(y) /\ Handed(y)' = Handed(y)
             /\ HeldByDead(y)' = HeldByDead(y)
             /\ IF y = x THEN Current(y)' = Current(y) \ {s} /\ s \in Current(y)
                ELSE Current(y)' = Current(y)
  <2>1. Arriving(y)' = Arriving(y)
    BY <1>1, BroadcastFrame, PubFrame DEF HInv
  <2>2. Rings(y)' = Rings(y)
    BY <1>1, RingsFrame DEF SameCells
  <2>3. Handed(y)' = Handed(y) /\ HeldByDead(y)' = HeldByDead(y)
    BY <1>1, <1>3, <1>4, <1>6 DEF Handed, HeldByDead, Alive
  <2>4. NoDesc.slot # y
    BY SharedAssumption DEF NoDesc
  <2>5. Current(y)' = {r \in Subs : r # s /\ r \in Current(y)}
    BY <1>3, <1>6, <2>4 DEF Current
  <2>6. s \in Current(y) <=> y = x
    BY <1>1 DEF Current, x
  <2>7. Current(y) \subseteq Subs
    BY DEF Current
  <2>. QED BY <2>1, <2>2, <2>3, <2>5, <2>6, <2>7
<1>8. refcount[x] > 0 /\ refcount[x] \in Nat
  <2>1. Cardinality(Current(x)) > 0
    BY <1>1, <1>7, RefsSubsets, OneMore
  <2>2. refcount[x] = References(x) /\ orphans[x] \in Nat /\ refcount[x] \in Nat
    BY <1>1 DEF HInv, RefsAccounted
  <2>. QED BY <1>1, <2>1, <2>2, RefsSum
<1>9. /\ refcount' \in [Slots -> Nat] /\ refcount'[x] = refcount[x] - 1
      /\ \A y \in Slots : y # x => refcount'[y] = refcount[y]
  BY <1>1, <1>8
<1>10. RefsAccounted'
  <2> SUFFICES ASSUME NEW y \in Slots PROVE refcount'[y] = References(y)'
    BY DEF RefsAccounted
  <2>1. refcount[y] = References(y) /\ orphans[y] \in Nat
    BY <1>1 DEF HInv, RefsAccounted
  <2>2. CASE y = x
    <3>1. Cardinality(Current(y)') = Cardinality(Current(y)) - 1
      BY <1>7, <2>2, RefsSubsets, OneMore
    <3>2. References(y)' = References(y) - 1
      BY <1>1, <1>7, <2>1, <3>1, RefsSum, RefsSumNext
    <3>. QED BY <1>9, <2>1, <2>2, <3>2
  <2>3. CASE y # x
    BY <1>1, <1>7, <1>9, <2>1, <2>3 DEF References, Rings, Active
  <2>. QED BY <2>2, <2>3
<1>11. /\ ~Free(x) /\ ~WithPub(x) /\ ~Back(x) /\ x \notin lost
       /\ \A r \in Subs : Returning(r) => sub[r].gone # x
  BY <1>1, <1>8, BusyAlone DEF Busy
<1>12. FreeQueue'
  <2>1. \A r \in Subs : At(r, "fill")' <=> At(r, "fill")
    BY <1>1, <1>3, <1>4, <1>6 DEF At, Resume
  <2>2. \A r \in Subs : At(r, "fill") => sub'[r].gone = sub[r].gone
    BY <1>1, <1>2 DEF At
  <2>3. \A c \in FreeSet(free)' :
           /\ c.slot \in Slots /\ (c.full => c.slot \notin lost')
           /\ ~c.full => c.slot \in lost'
                         \/ \E r \in Subs : At(r, "fill")' /\ sub'[r].gone = c.slot
    BY <1>1, <2>1, <2>2 DEF HInv, FreeQueue, FreeSet
  <2>4. \A r \in Subs : sub'[r].pc = "fill" => r # s
    BY <1>3 DEF Resume
  <2>5. \A r \in Subs :
           sub'[r].pc = "fill" => [slot |-> sub'[r].gone, full |-> FALSE] \in FreeSet(free)'
    BY <1>1, <1>2, <2>4 DEF HInv, FreeQueue, FreeSet
  <2>6. \A r \in Subs : Returning(r)' => IF r = s THEN sub'[r].gone = x
                                         ELSE Returning(r) /\ sub'[r].gone = sub[r].gone
    BY <1>2, <1>3, <1>4 DEF Returning
  <2>7. \A r \in Subs : Returning(r)' => sub'[r].gone \notin lost'
    BY <1>1, <1>11, <2>6 DEF HInv, FreeQueue
  <2>8. \A r, u \in Subs :
           Returning(r)' /\ Returning(u)' /\ sub'[r].gone = sub'[u].gone => r = u
    BY <1>11, <2>6 DEF HInv, FreeQueue
  <2>9. Distinct(free)'
    BY <1>1 DEF HInv, FreeQueue, Distinct
  <2>. QED BY <2>3, <2>5, <2>7, <2>8, <2>9 DEF FreeQueue
<1>13. ASSUME NEW y \in Slots PROVE OnePlace(y)'
  <2>1. /\ Free(y)' = Free(y) /\ WithPub(y)' = WithPub(y) /\ Perished(y)' = Perished(y)
    BY <1>1 DEF Free, Has, FreeSet, WithPub, Filling, Perished
  <2>2. CASE y # x
    <3>1. Busy(y)' = Busy(y)
      BY <1>9, <2>2 DEF Busy
    <3>2. Back(y)' <=> Back(y)
      <4>1. sub[s].pc # "reserve" /\ (sub'[s].pc = "reserve" => sub'[s].gone # y)
        BY <1>1, <1>3, <2>2 DEF Resume
      <4>. QED BY <1>2, <4>1 DEF Back
    <3>3. OnePlace(y)
      BY DEF HInv
    <3>. QED BY <2>1, <3>1, <3>2, <3>3 DEF OnePlace
  <2>3. CASE y = x /\ LastRef(x)
    <3>1. ~Busy(y)'
      BY <1>9, <2>3 DEF Busy, LastRef
    <3>2. Back(y)'
      BY <1>3, <2>3 DEF Back
    <3>. QED BY <1>11, <2>1, <2>3, <3>1, <3>2 DEF OnePlace, Perished
  <2>4. CASE y = x /\ ~LastRef(x)
    <3>1. Busy(y)'
      BY <1>8, <1>9, <2>4 DEF Busy, LastRef
    <3>2. ~Back(y)'
      BY <1>2, <1>3, <1>11, <2>4 DEF Back, Resume
    <3>. QED BY <1>11, <2>1, <2>4, <3>1, <3>2 DEF OnePlace, Perished
  <2>. QED BY <2>2, <2>3, <2>4
<1>14. /\ IsDesc(NoDesc) /\ (sub[s].desc # NoDesc => IsMessage(sub[s].desc))
       /\ \A r \in Subs : UsedCells(r)' = UsedCells(r)
  BY <1>1, UsedCellsFrame DEF HInv, Payloads, IsDesc, SameCells
<1>15. /\ orphans' \in [Slots -> Nat] /\ lost' \subseteq Slots
       /\ left' \in [publishes : Nat, deaths : Nat, joins : Nat]
  BY <1>1 DEF HInv, SlotTypes
<1>16. \A r \in Subs : /\ ctl'[r].active = ctl[r].active /\ ctl'[r].mode = ctl[r].mode
                       /\ ctl'[r].ring = ctl[r].ring /\ UsedCells(r)' \subseteq UsedCells(r)
                       /\ ctl'[r].held = ctl[r].held
  BY <1>1, <1>14
<1>. QED BY <1>1, <1>2, <1>3, <1>5, <1>9, <1>10, <1>12, <1>13, <1>14, <1>15, <1>16, HandStep

\* A subscriber that is on its way to the free queue keeps the messages it has.
LEMMA ReturnStep ==
    ASSUME HInv, NEW s \in Subs, Alive(s), Returning(s), UNCHANGED <<ctl, refcount, payload, seq>>,
           UNCHANGED <<orphans, lost, pub, left>>,
           \A r \in Subs : r # s => sub'[r] = sub[r],
           sub'[s].alive, sub'[s].cur = sub[s].cur, sub'[s].desc = sub[s].desc,
           sub'[s].peek = sub[s].peek, Hands(s)', FreeQueue', \A x \in Slots : OnePlace(x)'
    PROVE  HInv'
<1>1. \A r \in Subs : SameHands(r) /\ SameCells(r) /\ UsedCells(r)' = UsedCells(r)
  BY UsedCellsFrame DEF SameHands, SameCells, Alive
<1>2. RefsAccounted'
  <2>1. \A x \in Slots : Arriving(x)' = Arriving(x)
    BY BroadcastFrame, PubFrame DEF HInv
  <2>2. ASSUME NEW x \in Slots
        PROVE  /\ Rings(x)' = Rings(x) /\ Current(x)' = Current(x) /\ Handed(x)' = Handed(x)
               /\ HeldByDead(x)' = HeldByDead(x)
    BY <1>1, RingsFrame, HandsFrame
  <2>. QED BY <2>1, <2>2, RefsFrame DEF HInv
<1>3. /\ IsDesc(sub'[s].peek) /\ IsDesc(sub'[s].desc) /\ IsDesc(sub'[s].cur)
      /\ sub'[s].cur # NoDesc => IsMessage(sub'[s].cur)
      /\ sub'[s].desc # NoDesc => IsMessage(sub'[s].desc)
  BY DEF HInv, SlotTypes, Payloads
<1>4. /\ refcount' \in [Slots -> Nat] /\ orphans' \in [Slots -> Nat] /\ lost' \subseteq Slots
      /\ left' \in [publishes : Nat, deaths : Nat, joins : Nat]
  BY DEF HInv, SlotTypes
<1>5. \A r \in Subs : /\ ctl'[r].active = ctl[r].active /\ ctl'[r].mode = ctl[r].mode
                      /\ ctl'[r].ring = ctl[r].ring /\ UsedCells(r)' \subseteq UsedCells(r)
                      /\ ctl'[r].held = ctl[r].held
  BY <1>1
<1>. QED BY <1>2, <1>3, <1>4, <1>5, HandStep

\* RecycleSlot reserves a cell of the free queue.
LEMMA Reserves ==
    ASSUME IInv, HInv, NEW s \in Subs, Reserve(s)
    PROVE  HInv'
<1> DEFINE g == sub[s].gone
           c == [slot |-> g, full |-> FALSE]
<1>1. /\ sub[s] \in Threads /\ DOMAIN sub = Subs /\ Alive(s) /\ Hands(s)
      /\ sub[s].pc = "reserve" /\ sub[s].cur = NoDesc /\ g \in Slots
      /\ UNCHANGED <<ctl, refcount, payload, seq, orphans, lost, pub, left>>
      /\ free' = Append(free, c) /\ free \in Seq(FreeCells) /\ FreeQueue
  <2>1. /\ Alive(s) /\ sub[s].pc = "reserve"
        /\ UNCHANGED <<ctl, refcount, payload, seq, orphans, lost, pub, left>>
        /\ free' = Append(free, c)
    BY DEF Reserve, At, aux
  <2>. QED BY <2>1, ThreadFields DEF HInv, Hands, IInv, RingTypes
<1>2. /\ sub'[s] = [sub[s] EXCEPT !.pc = "fill"]
      /\ \A r \in Subs : r # s => sub'[r] = sub[r]
  BY <1>1 DEF Reserve, Goto
<1>3. /\ sub'[s].alive /\ sub'[s].cur = sub[s].cur /\ sub'[s].desc = sub[s].desc
      /\ sub'[s].gone = g /\ sub'[s].peek = sub[s].peek /\ sub'[s].pc = "fill"
  BY <1>1, <1>2 DEF Threads, Alive
<1> HIDE DEF g
<1>4. Alive(s)' /\ Returning(s) /\ Returning(s)' /\ At(s, "fill")'
  BY <1>1, <1>3 DEF Alive, Returning, At
<1>5. Hands(s)'
  BY <1>1, <1>3, <1>4 DEF Hands
<1>6. /\ ~Free(g) /\ ~WithPub(g) /\ ~Busy(g) /\ g \notin lost
      /\ \A r \in Subs : Returning(r) /\ sub[r].gone = g => r = s
  <2>1. Back(g)
    BY <1>1 DEF Back, g
  <2>2. OnePlace(g)
    BY <1>1 DEF HInv
  <2>3. g \notin lost /\ \A r \in Subs : Returning(r) /\ sub[r].gone = g => r = s
    BY <1>1, <1>4 DEF FreeQueue, g
  <2>. QED BY <2>1, <2>2, <2>3 DEF OnePlace
<1>7. c.slot = g /\ c.full = FALSE /\ c \in FreeCells
  BY <1>1 DEF FreeCells
<1> HIDE DEF c
<1>8. Distinct(free') /\ FreeSet(free') = FreeSet(free) \cup {c}
  BY <1>1, <1>6, <1>7, AppendCell DEF Free, FreeQueue
<1>9. \A r \in Subs : /\ Returning(r)' <=> Returning(r)
                      /\ sub'[r].gone = sub[r].gone
                      /\ At(r, "fill")' <=> (At(r, "fill") \/ r = s)
                      /\ sub'[r].pc = "fill" <=> (sub[r].pc = "fill" \/ r = s)
                      /\ sub'[r].pc = "reserve" <=> (sub[r].pc = "reserve" /\ r # s)
  BY <1>1, <1>2, <1>3, <1>4 DEF Returning, At, Alive, g
<1>10. FreeQueue'
  <2>1. ASSUME NEW d \in FreeSet(free')
        PROVE  /\ d.slot \in Slots /\ (d.full => d.slot \notin lost')
               /\ ~d.full => d.slot \in lost'
                             \/ \E r \in Subs : At(r, "fill")' /\ sub'[r].gone = d.slot
    <3>1. CASE d = c
      BY <1>1, <1>3, <1>4, <1>7, <3>1
    <3>2. CASE d \in FreeSet(free)
      BY <1>1, <1>9, <3>2 DEF FreeQueue
    <3>. QED BY <1>8, <3>1, <3>2
  <2>2. ASSUME NEW r \in Subs, sub'[r].pc = "fill"
        PROVE  [slot |-> sub'[r].gone, full |-> FALSE] \in FreeSet(free')
    <3>1. CASE r = s
      BY <1>3, <1>8, <3>1 DEF c
    <3>2. CASE r # s
      BY <1>1, <1>8, <1>9, <2>2, <3>2 DEF FreeQueue
    <3>. QED BY <3>1, <3>2
  <2>3. \A r \in Subs : Returning(r)' => sub'[r].gone \notin lost'
    BY <1>1, <1>9 DEF FreeQueue
  <2>4. \A r, u \in Subs :
           Returning(r)' /\ Returning(u)' /\ sub'[r].gone = sub'[u].gone => r = u
    BY <1>1, <1>9 DEF FreeQueue
  <2>. QED BY <1>8, <2>1, <2>2, <2>3, <2>4 DEF FreeQueue
<1>11. ASSUME NEW y \in Slots PROVE OnePlace(y)'
  <2>1. /\ WithPub(y)' = WithPub(y) /\ Busy(y)' = Busy(y) /\ lost' = lost
    BY <1>1 DEF WithPub, Filling, Busy
  <2>2. Free(y)' <=> Free(y) \/ y = g
    BY <1>7, <1>8 DEF Free, Has
  <2>3. Back(y)' <=> Back(y) /\ y # g
    BY <1>4, <1>6, <1>9 DEF Back, Returning, g
  <2>4. CASE y = g
    BY <1>6, <2>1, <2>2, <2>3, <2>4 DEF OnePlace, Perished
  <2>5. CASE y # g
    <3>1. OnePlace(y)
      BY DEF HInv
    <3>. QED BY <2>1, <2>2, <2>3, <2>5, <3>1 DEF OnePlace, Perished
  <2>. QED BY <2>4, <2>5
<1>. QED BY <1>1, <1>2, <1>3, <1>4, <1>5, <1>10, <1>11, ReturnStep

\* ... and fills it.
LEMMA Fills ==
    ASSUME IInv, HInv, NEW s \in Subs, Fill(s)
    PROVE  HInv'
<1> DEFINE g == sub[s].gone
<1>1. /\ sub[s] \in Threads /\ DOMAIN sub = Subs /\ Alive(s) /\ Hands(s)
      /\ sub[s].pc = "fill" /\ sub[s].cur = NoDesc /\ g \in Slots
      /\ UNCHANGED <<ctl, refcount, payload, seq, orphans, lost, pub, left>>
      /\ free' = [k \in DOMAIN free |-> IF free[k].slot = g THEN Filled(g) ELSE free[k]]
      /\ FreeQueue
  <2>1. /\ Alive(s) /\ sub[s].pc = "fill"
        /\ UNCHANGED <<ctl, refcount, payload, seq, orphans, lost, pub, left>>
        /\ free' = [k \in DOMAIN free |-> IF free[k].slot = g THEN Filled(g) ELSE free[k]]
    BY DEF Fill, At, aux
  <2>. QED BY <2>1, ThreadFields DEF HInv, Hands
<1>2. /\ sub'[s] = [sub[s] EXCEPT !.pc = Resume(s), !.gone = None]
      /\ \A r \in Subs : r # s => sub'[r] = sub[r]
  BY <1>1 DEF Fill
<1>3. /\ sub'[s].alive /\ sub'[s].cur = sub[s].cur /\ sub'[s].desc = sub[s].desc
      /\ sub'[s].gone = None /\ sub'[s].peek = sub[s].peek /\ sub'[s].pc = Resume(s)
  BY <1>1, <1>2 DEF Threads, Alive
<1> HIDE DEF g
<1>4. Alive(s)' /\ Returning(s) /\ ~Returning(s)' /\ ~At(s, "fill")'
  BY <1>1, <1>3 DEF Alive, Returning, At, Resume
<1>5. Hands(s)'
  <2>1. NoDesc.slot = None
    BY DEF NoDesc
  <2>. QED BY <1>1, <1>3, <1>4, <2>1 DEF Hands, Resume
<1>6. g \notin lost /\ \A r \in Subs : Returning(r) /\ sub[r].gone = g => r = s
  BY <1>1, <1>4 DEF FreeQueue, g
<1>7. /\ DOMAIN free' = DOMAIN free
      /\ \A k \in DOMAIN free : /\ free'[k].slot = free[k].slot
                                /\ free[k].slot = g => free'[k].full
                                /\ free[k].slot # g => free'[k] = free[k]
  BY <1>1 DEF Filled
<1>8. \A r \in Subs : /\ Returning(r)' <=> Returning(r) /\ r # s
                      /\ Returning(r)' => sub'[r].gone = sub[r].gone
                      /\ At(r, "fill")' <=> At(r, "fill") /\ r # s
                      /\ sub'[r].pc = "fill" => sub[r].pc = "fill" /\ r # s
                      /\ sub'[r].pc = "reserve" <=> (sub[r].pc = "reserve" /\ r # s)
                      /\ r # s => sub'[r].gone = sub[r].gone
  <2>1. s \in Subs /\ sub'[s].pc \notin {"fill", "reserve"}
    BY <1>3 DEF Resume
  <2>. QED BY <1>1, <1>2, <1>4, <2>1 DEF Returning, At, Alive
<1>9. FreeQueue'
  <2>1. ASSUME NEW k \in DOMAIN free
        PROVE  /\ free'[k].slot \in Slots /\ (free'[k].full => free'[k].slot \notin lost')
               /\ ~free'[k].full => free'[k].slot \in lost'
                                    \/ \E r \in Subs : At(r, "fill")' /\ sub'[r].gone = free'[k].slot
    <3>1. free[k] \in FreeSet(free)
      BY DEF FreeSet
    <3>2. CASE free[k].slot = g
      BY <1>1, <1>6, <1>7, <3>2
    <3>3. CASE free[k].slot # g
      <4>1. free'[k] = free[k]
        BY <1>7, <3>3
      <4>2. ASSUME NEW r \in Subs, At(r, "fill"), sub[r].gone = free[k].slot
            PROVE  At(r, "fill")' /\ sub'[r].gone = free[k].slot
        BY <1>8, <3>3, <4>2 DEF g
      <4>. QED BY <1>1, <3>1, <4>1, <4>2 DEF FreeQueue
    <3>. QED BY <3>2, <3>3
  <2>2. \A d \in FreeSet(free') :
           /\ d.slot \in Slots /\ (d.full => d.slot \notin lost')
           /\ ~d.full => d.slot \in lost'
                         \/ \E r \in Subs : At(r, "fill")' /\ sub'[r].gone = d.slot
    BY <1>7, <2>1 DEF FreeSet
  <2>3. ASSUME NEW r \in Subs, sub'[r].pc = "fill"
        PROVE  [slot |-> sub'[r].gone, full |-> FALSE] \in FreeSet(free')
    <3>1. sub[r].pc = "fill" /\ r # s /\ sub'[r].gone = sub[r].gone /\ sub[r].gone # g
      BY <1>6, <1>8, <2>3 DEF Returning
    <3>2. PICK k \in DOMAIN free : free[k] = [slot |-> sub[r].gone, full |-> FALSE]
      BY <1>1, <3>1 DEF FreeQueue, FreeSet
    <3>3. free'[k] = free[k] /\ k \in DOMAIN free'
      BY <1>7, <3>1, <3>2
    <3>. QED BY <3>1, <3>2, <3>3 DEF FreeSet
  <2>4. \A r \in Subs : Returning(r)' => sub'[r].gone \notin lost'
    BY <1>1, <1>8 DEF FreeQueue
  <2>5. \A r, u \in Subs :
           Returning(r)' /\ Returning(u)' /\ sub'[r].gone = sub'[u].gone => r = u
    BY <1>1, <1>8 DEF FreeQueue
  <2>6. Distinct(free')
    BY <1>1, <1>7 DEF FreeQueue, Distinct
  <2>. QED BY <2>2, <2>3, <2>4, <2>5, <2>6 DEF FreeQueue
<1>10. ASSUME NEW y \in Slots PROVE OnePlace(y)'
  <2>1. /\ WithPub(y)' = WithPub(y) /\ Busy(y)' = Busy(y) /\ lost' = lost
    BY <1>1 DEF WithPub, Filling, Busy
  <2>2. Free(y)' <=> Free(y)
    BY <1>7 DEF Free, Has, FreeSet
  <2>3. Back(y)' <=> Back(y)
    BY <1>1, <1>8 DEF Back
  <2>4. OnePlace(y)
    BY DEF HInv
  <2>. QED BY <2>1, <2>2, <2>3, <2>4 DEF OnePlace, Perished
<1>. QED BY <1>1, <1>2, <1>3, <1>4, <1>5, <1>9, <1>10, ReturnStep

\* A subscriber dies: what is in its hands is orphaned, what it holds its control block tells,
\* and the slot it was recycling is lost.
LEMMA Dies ==
    ASSUME IInv, HInv, NEW s \in Subs, Die(s)
    PROVE  HInv'
<1> DEFINE g == sub[s].gone
<1>1. /\ sub[s] \in Threads /\ DOMAIN sub = Subs /\ Alive(s) /\ Hands(s)
      /\ IsDesc(sub[s].desc) /\ IsDesc(sub[s].cur) /\ FreeQueue /\ lost \subseteq Slots
      /\ left \in [publishes : Nat, deaths : Nat, joins : Nat]
      /\ UNCHANGED <<ctl, refcount, payload, seq, pub, free>>
      /\ orphans \in [Slots -> Nat]
      /\ orphans' = [x \in Slots |-> orphans[x] + InHand(s, x)]
      /\ lost' = IF Returning(s) THEN lost \cup {g} ELSE lost
      /\ left.deaths > 0 /\ left' = [left EXCEPT !.deaths = @ - 1]
  <2>1. /\ Alive(s) /\ UNCHANGED <<ctl, refcount, payload, seq, pub, free>>
        /\ orphans' = [x \in Slots |-> orphans[x] + InHand(s, x)]
        /\ lost' = IF Returning(s) THEN lost \cup {g} ELSE lost
        /\ left.deaths > 0 /\ left' = [left EXCEPT !.deaths = @ - 1]
    BY DEF Die, Use, pool, Returning
  <2>. QED BY <2>1, ThreadFields DEF HInv, SlotTypes
<1>2. /\ sub'[s] = [Left EXCEPT !.alive = FALSE]
      /\ \A r \in Subs : r # s => sub'[r] = sub[r]
  BY <1>1 DEF Die
<1>3. /\ ~sub'[s].alive /\ sub'[s].cur = NoDesc /\ sub'[s].desc = NoDesc
      /\ sub'[s].gone = None /\ sub'[s].peek = NoDesc /\ sub'[s].pc = "gone"
  BY <1>2 DEF Left, Thread
<1>4. ~Alive(s)' /\ ~Returning(s)' /\ ~At(s, "fill")'
  BY <1>3 DEF Alive, Returning, At
<1>5. Hands(s)'
  BY <1>3, <1>4 DEF Hands
<1>6. \A r \in Subs : r # s => (Alive(r)' <=> Alive(r)) /\ sub'[r] = sub[r] /\ ctl'[r] = ctl[r]
  BY <1>1, <1>2 DEF Alive
<1>7. Returning(s) => g \in Slots /\ g \notin lost
  BY <1>1 DEF Hands, Returning, FreeQueue
<1> HIDE DEF g
<1>8. \A r \in Subs : /\ Returning(r)' <=> Returning(r) /\ r # s
                      /\ r # s => sub'[r].gone = sub[r].gone
                      /\ At(r, "fill")' <=> At(r, "fill") /\ r # s
                      /\ sub'[r].pc = "fill" => sub[r].pc = "fill" /\ r # s
                      /\ sub'[r].pc = "reserve" <=> (sub[r].pc = "reserve" /\ r # s)
  BY <1>2, <1>3, <1>4, <1>6 DEF Returning, At
<1>9. Returning(s) => \A r \in Subs : Returning(r) /\ sub[r].gone = g => r = s
  BY <1>1 DEF FreeQueue, g
<1>10. At(s, "fill") => [slot |-> g, full |-> FALSE] \in FreeSet(free)
  BY <1>1 DEF FreeQueue, At, g
<1>11. sub[s].pc = "reserve" => ~Free(g) /\ ~WithPub(g) /\ ~Busy(g)
  <2> SUFFICES ASSUME sub[s].pc = "reserve" PROVE ~Free(g) /\ ~WithPub(g) /\ ~Busy(g)
    OBVIOUS
  <2>1. Back(g) /\ g \in Slots
    BY <1>7 DEF Back, g, Returning
  <2>2. OnePlace(g)
    BY <2>1 DEF HInv
  <2>. QED BY <2>1, <2>2 DEF OnePlace
<1>12. FreeQueue'
  <2>1. ASSUME NEW c \in FreeSet(free)
        PROVE  /\ c.slot \in Slots /\ (c.full => c.slot \notin lost')
               /\ ~c.full => c.slot \in lost'
                             \/ \E r \in Subs : At(r, "fill")' /\ sub'[r].gone = c.slot
    <3>1. /\ c.slot \in Slots /\ (c.full => c.slot \notin lost)
          /\ ~c.full => c.slot \in lost \/ \E r \in Subs : At(r, "fill") /\ sub[r].gone = c.slot
      BY <1>1 DEF FreeQueue
    <3>2. ASSUME c.full, Returning(s) PROVE c.slot # g
      <4>1. CASE sub[s].pc = "reserve"
        BY <1>11, <4>1 DEF Free, Has
      <4>2. CASE sub[s].pc = "fill"
        <5>1. [slot |-> g, full |-> FALSE] \in FreeSet(free)
          BY <1>1, <1>10, <4>2 DEF At
        <5>2. ASSUME c.slot = g PROVE c = [slot |-> g, full |-> FALSE]
          BY <1>1, <5>1, <5>2 DEF FreeQueue, Distinct, FreeSet
        <5>. QED BY <3>2, <5>2
      <4>. QED BY <3>2, <4>1, <4>2 DEF Returning
    <3>3. ASSUME ~c.full, c.slot \notin lost'
          PROVE  \E r \in Subs : At(r, "fill")' /\ sub'[r].gone = c.slot
      <4>1. PICK r \in Subs : At(r, "fill") /\ sub[r].gone = c.slot
        BY <1>1, <3>1, <3>3
      <4>2. r # s
        BY <1>1, <3>3, <4>1 DEF At, Returning, g
      <4>. QED BY <1>8, <4>1, <4>2
    <3>. QED BY <1>1, <3>1, <3>2, <3>3
  <2>2. \A r \in Subs :
           sub'[r].pc = "fill" => [slot |-> sub'[r].gone, full |-> FALSE] \in FreeSet(free')
    BY <1>1, <1>8 DEF FreeQueue
  <2>3. \A r \in Subs : Returning(r)' => sub'[r].gone \notin lost'
    BY <1>1, <1>8, <1>9 DEF FreeQueue
  <2>4. \A r, u \in Subs :
           Returning(r)' /\ Returning(u)' /\ sub'[r].gone = sub'[u].gone => r = u
    BY <1>1, <1>8 DEF FreeQueue
  <2>5. Distinct(free')
    BY <1>1 DEF FreeQueue
  <2>6. \A c \in FreeSet(free') :
           /\ c.slot \in Slots /\ (c.full => c.slot \notin lost')
           /\ ~c.full => c.slot \in lost'
                         \/ \E r \in Subs : At(r, "fill")' /\ sub'[r].gone = c.slot
    BY <1>1, <2>1
  <2>. QED BY <2>2, <2>3, <2>4, <2>5, <2>6 DEF FreeQueue
<1>13. ASSUME NEW y \in Slots PROVE OnePlace(y)'
  <2>1. /\ WithPub(y)' = WithPub(y) /\ Busy(y)' = Busy(y) /\ Free(y)' = Free(y)
    BY <1>1 DEF WithPub, Filling, Busy, Free
  <2>2. OnePlace(y)
    BY DEF HInv
  <2>3. CASE ~Returning(s) \/ y # g
    <3>1. y \in lost' <=> y \in lost
      BY <1>1, <2>3
    <3>2. Back(y)' <=> Back(y)
      BY <1>8, <2>3 DEF Back, Returning, g
    <3>. QED BY <2>1, <2>2, <3>1, <3>2 DEF OnePlace, Perished
  <2>4. CASE Returning(s) /\ y = g
    <3>1. y \in lost' /\ ~Back(y)'
      BY <1>1, <1>8, <1>9, <2>4 DEF Back, Returning
    <3>2. CASE sub[s].pc = "reserve"
      BY <1>11, <2>1, <2>4, <3>1, <3>2 DEF OnePlace, Perished
    <3>3. CASE sub[s].pc = "fill"
      <4>1. Free(y)
        BY <1>1, <1>10, <2>4, <3>3 DEF At, Free, Has
      <4>. QED BY <2>1, <2>2, <3>1, <4>1 DEF OnePlace, Perished
    <3>. QED BY <2>4, <3>2, <3>3 DEF Returning
  <2>. QED BY <2>3, <2>4

<1>14. ASSUME NEW x \in Slots
       PROVE  /\ Arriving(x)' = Arriving(x) /\ Rings(x)' = Rings(x)
              /\ Handed(x)' = Handed(x) \ {s} /\ (s \in Handed(x) <=> sub[s].desc.slot = x)
              /\ Current(x)' = Current(x) \ {s} /\ (s \in Current(x) <=> sub[s].cur.slot = x)
              /\ s \notin HeldByDead(x)
              /\ HeldByDead(x)' = IF sub[s].cur.slot = x /\ sub[s].pc # "unref"
                                  THEN HeldByDead(x) \cup {s} ELSE HeldByDead(x)
  <2>1. Arriving(x)' = Arriving(x)
    BY <1>1, BroadcastFrame, PubFrame DEF HInv
  <2>2. Rings(x)' = Rings(x)
    BY <1>1, RingsFrame DEF SameCells
  <2>3. Handed(x)' = Handed(x) \ {s} /\ Current(x)' = Current(x) \ {s}
    BY <1>4, <1>6 DEF Handed, Current
  <2>4. (s \in Handed(x) <=> sub[s].desc.slot = x) /\ (s \in Current(x) <=> sub[s].cur.slot = x)
    BY <1>1 DEF Handed, Current
  <2>5. s \notin HeldByDead(x)
    BY <1>1 DEF HeldByDead, Alive
  <2>6. ctl[s].active /\ (ctl[s].held = x <=> sub[s].cur.slot = x /\ sub[s].pc # "unref")
    BY <1>1, SharedAssumption DEF Hands, Alive
  <2>7. HeldByDead(x)' = {r \in Subs : r \in HeldByDead(x) \/ (r = s /\ ctl[s].held = x)}
    BY <1>1, <1>3, <1>6, <2>5, <2>6 DEF HeldByDead, Alive
  <2>8. HeldByDead(x) \subseteq Subs
    BY DEF HeldByDead
  <2>. QED BY <2>1, <2>2, <2>3, <2>4, <2>5, <2>6, <2>7, <2>8
<1>15. \A x \in Slots : InHand(s, x) \in Nat
  BY DEF InHand, One
<1>16. RefsAccounted'
  <2> SUFFICES ASSUME NEW x \in Slots PROVE refcount'[x] = References(x)'
    BY DEF RefsAccounted
  <2> DEFINE c == One(sub[s].cur.slot = x)
             d == One(sub[s].desc.slot = x)
             u == One(sub[s].pc = "unref" /\ sub[s].cur.slot = x)
             h == One(sub[s].cur.slot = x /\ sub[s].pc # "unref")
  <2>1. /\ refcount[x] = References(x) /\ orphans[x] \in Nat
        /\ orphans'[x] = orphans[x] + (d + u)
    BY <1>1 DEF HInv, RefsAccounted, InHand
  <2>2. c \in Nat /\ d \in Nat /\ u \in Nat /\ h \in Nat /\ c = u + h
    BY DEF One
  <2>3. Cardinality(Handed(x)') = Cardinality(Handed(x)) - d
    <3>1. CASE s \in Handed(x)
      BY <1>14, <3>1, RefsSubsets, OneMore DEF One
    <3>2. CASE s \notin Handed(x)
      <4>1. Handed(x)' = Handed(x) /\ d = 0
        BY <1>14, <3>2 DEF One
      <4>. QED BY <4>1, RefsSum
    <3>. QED BY <3>1, <3>2
  <2>4. Cardinality(Current(x)') = Cardinality(Current(x)) - c
    <3>1. CASE s \in Current(x)
      BY <1>14, <3>1, RefsSubsets, OneMore DEF One
    <3>2. CASE s \notin Current(x)
      <4>1. Current(x)' = Current(x) /\ c = 0
        BY <1>14, <3>2 DEF One
      <4>. QED BY <4>1, RefsSum
    <3>. QED BY <3>1, <3>2
  <2>5. Cardinality(HeldByDead(x)') = Cardinality(HeldByDead(x)) + h
    <3>1. CASE sub[s].cur.slot = x /\ sub[s].pc # "unref"
      BY <1>14, <3>1, RefsSubsets, OneMore DEF One
    <3>2. CASE ~(sub[s].cur.slot = x /\ sub[s].pc # "unref")
      <4>1. HeldByDead(x)' = HeldByDead(x) /\ h = 0
        BY <1>14, <3>2 DEF One
      <4>. QED BY <4>1, RefsSum
    <3>. QED BY <3>1, <3>2
  <2> HIDE DEF c, d, u, h
  <2>6. /\ Cardinality(Arriving(x)') = Cardinality(Arriving(x))
        /\ Cardinality(Rings(x)') = Cardinality(Rings(x))
    BY <1>14
  <2>7. References(x)' = References(x)
    BY <2>1, <2>2, <2>3, <2>4, <2>5, <2>6, RefsSum, RefsSumNext
  <2>. QED BY <1>1, <2>1, <2>7
<1>17. orphans' \in [Slots -> Nat] /\ lost' \subseteq Slots
  <2>1. \A x \in Slots : orphans[x] + InHand(s, x) \in Nat
    BY <1>1, <1>15
  <2>. QED BY <1>1, <1>7, <2>1
<1>18. left' \in [publishes : Nat, deaths : Nat, joins : Nat] /\ refcount' \in [Slots -> Nat]
  BY <1>1 DEF HInv, SlotTypes
<1>19. \A r \in Subs : /\ ctl'[r].active = ctl[r].active /\ ctl'[r].mode = ctl[r].mode
                       /\ ctl'[r].ring = ctl[r].ring /\ UsedCells(r)' \subseteq UsedCells(r)
                       /\ ctl'[r].held = ctl[r].held
  BY <1>1, UsedCellsFrame DEF SameCells
<1>20. IsDesc(NoDesc)
  BY DEF IsDesc
<1>. QED BY <1>1, <1>2, <1>3, <1>4, <1>5, <1>12, <1>13, <1>16, <1>17, <1>18, <1>19, <1>20,
            HandStep

----------------------------------------------------------------------------
(* Slots that change places.                                                  *)

\* The slots of U are recycled, those of T taken by the publisher, those of G given back by it,
\* and those of B published.
Moved(U, T, G, B) ==
    /\ \A x \in U : Busy(x)
    /\ \A x \in G \cup B : WithPub(x)
    /\ G \cap B = {}
    /\ \A x \in T : Filled(x) \in FreeSet(free) \/ x \in U
    /\ \A x \in T : \A y \in Slots : ~WithPub(y)
    /\ Distinct(free')
    /\ FreeSet(free') = (FreeSet(free) \cup {Filled(x) : x \in U \cup G})
                        \ {Filled(x) : x \in T}
    /\ \A x \in Slots : Busy(x)' <=> (Busy(x) /\ x \notin U) \/ x \in B
    /\ \A x \in Slots : WithPub(x)' <=> (WithPub(x) /\ x \notin G \cup B) \/ x \in T

\* ... which keeps each slot in one place.
LEMMA SlotsMove ==
    ASSUME HInv, \A s \in Subs : SameBack(s), lost' = lost,
           NEW U \in SUBSET Slots, NEW T \in SUBSET Slots, NEW G \in SUBSET Slots,
           NEW B \in SUBSET Slots, Moved(U, T, G, B)
    PROVE  FreeQueue' /\ \A x \in Slots : OnePlace(x)'
<1>0. /\ \A x \in U : Busy(x)
      /\ \A x \in G \cup B : WithPub(x)
      /\ G \cap B = {}
      /\ \A x \in T : Filled(x) \in FreeSet(free) \/ x \in U
      /\ \A x \in T : \A y \in Slots : ~WithPub(y)
      /\ Distinct(free')
      /\ FreeSet(free') = (FreeSet(free) \cup {Filled(x) : x \in U \cup G})
                          \ {Filled(x) : x \in T}
      /\ \A x \in Slots : Busy(x)' <=> (Busy(x) /\ x \notin U) \/ x \in B
      /\ \A x \in Slots : WithPub(x)' <=> (WithPub(x) /\ x \notin G \cup B) \/ x \in T
  BY DEF Moved
<1>1. \A x \in U : ~Free(x) /\ ~WithPub(x) /\ ~Back(x) /\ x \notin lost
  BY <1>0, BusyAlone
<1>2. \A x \in G \cup B : ~Free(x) /\ ~Busy(x) /\ ~Back(x) /\ x \notin lost
  <2> SUFFICES ASSUME NEW x \in G \cup B
               PROVE  ~Free(x) /\ ~Busy(x) /\ ~Back(x) /\ x \notin lost
    OBVIOUS
  <2>1. OnePlace(x)
    BY DEF HInv
  <2>. QED BY <1>0, <2>1 DEF OnePlace, Perished
<1>3. \A x : Filled(x).slot = x /\ Filled(x).full = TRUE
  BY DEF Filled
<1>4. \A x \in T : x \notin lost
  BY <1>0, <1>1, <1>3 DEF HInv, FreeQueue
<1>5. \A s \in Subs : /\ Returning(s)' <=> Returning(s)
                      /\ Returning(s) => sub'[s].gone = sub[s].gone
                      /\ At(s, "fill") => At(s, "fill")' /\ sub'[s].gone = sub[s].gone
                      /\ sub'[s].pc = "fill" => sub[s].pc = "fill"
                      /\ sub'[s].pc = "reserve" <=> sub[s].pc = "reserve"
  BY DEF SameBack, Returning, At
<1>6. FreeQueue'
  <2>1. ASSUME NEW c \in FreeSet(free')
        PROVE  /\ c.slot \in Slots /\ (c.full => c.slot \notin lost')
               /\ ~c.full => c.slot \in lost'
                             \/ \E s \in Subs : At(s, "fill")' /\ sub'[s].gone = c.slot
    <3>1. CASE c \in FreeSet(free)
      BY <1>5, <3>1 DEF HInv, FreeQueue
    <3>2. CASE c \in {Filled(x) : x \in U \cup G}
      BY <1>1, <1>2, <1>3, <3>2
    <3>. QED BY <1>0, <3>1, <3>2
  <2>2. ASSUME NEW s \in Subs, sub'[s].pc = "fill"
        PROVE  [slot |-> sub'[s].gone, full |-> FALSE] \in FreeSet(free')
    <3> DEFINE c == [slot |-> sub[s].gone, full |-> FALSE]
    <3>1. Returning(s) /\ sub[s].pc = "fill" /\ sub'[s].gone = sub[s].gone
      BY <1>5, <2>2 DEF Returning
    <3>2. c \in FreeSet(free) /\ c.full = FALSE
      BY <3>1 DEF HInv, FreeQueue
    <3> HIDE DEF c
    <3>3. c \in FreeSet(free')
      BY <1>0, <1>3, <3>2
    <3>. QED BY <3>1, <3>3 DEF c
  <2>3. \A s \in Subs : Returning(s)' => sub'[s].gone \notin lost'
    BY <1>5 DEF HInv, FreeQueue
  <2>4. \A r, s \in Subs :
           Returning(r)' /\ Returning(s)' /\ sub'[r].gone = sub'[s].gone => r = s
    BY <1>5 DEF HInv, FreeQueue
  <2>. QED BY <1>0, <2>1, <2>2, <2>3, <2>4 DEF FreeQueue
<1>7. ASSUME NEW y \in Slots
      PROVE  Free(y)' <=> (Free(y) \/ y \in U \cup G) /\ y \notin T
  <2>1. ASSUME NEW c \in FreeSet(free), c.slot = y, y \in T PROVE c = Filled(y)
    <3>1. Free(y)
      BY <2>1 DEF Free, Has
    <3>2. Filled(y) \in FreeSet(free)
      BY <1>0, <1>1, <2>1, <3>1
    <3>. QED BY <1>3, <2>1, <3>2 DEF HInv, FreeQueue, Distinct, FreeSet
  <2>2. ASSUME NEW c \in FreeSet(free'), c.slot = y
        PROVE  (Free(y) \/ y \in U \cup G) /\ y \notin T
    <3>1. CASE c \in FreeSet(free)
      BY <1>0, <2>1, <2>2, <3>1 DEF Free, Has
    <3>2. CASE c \in {Filled(x) : x \in U \cup G}
      BY <1>0, <1>3, <2>2, <3>2
    <3>. QED BY <1>0, <2>2, <3>1, <3>2
  <2>3. ASSUME NEW c \in FreeSet(free), c.slot = y, y \notin T PROVE Has(free', y)
    BY <1>0, <1>3, <2>3 DEF Has
  <2>4. ASSUME y \in U \cup G, y \notin T PROVE Has(free', y)
    BY <1>0, <1>3, <2>4 DEF Has
  <2>5. Free(y)' <=> Has(free', y)
    BY DEF Free, Has, FreeSet
  <2>. QED BY <2>2, <2>3, <2>4, <2>5 DEF Free, Has
<1>8. ASSUME NEW y \in Slots PROVE OnePlace(y)'
  <2>1. /\ Busy(y)' <=> (Busy(y) /\ y \notin U) \/ y \in B
        /\ WithPub(y)' <=> (WithPub(y) /\ y \notin G \cup B) \/ y \in T
    BY <1>0
  <2>2. Back(y)' <=> Back(y)
    BY BackFrame
  <2>3. Perished(y)' <=> y \in lost /\ ~Free(y)'
    BY DEF Perished
  <2>4. OnePlace(y)
    BY DEF HInv
  <2>5. /\ y \in U => Busy(y) /\ y \notin lost /\ ~Free(y) /\ ~WithPub(y) /\ ~Back(y)
        /\ y \in G \cup B => WithPub(y) /\ y \notin lost /\ ~Free(y) /\ ~Busy(y) /\ ~Back(y)
        /\ y \in T => y \notin lost /\ (Free(y) \/ y \in U) /\ ~WithPub(y)
        /\ ~(y \in G /\ y \in B)
    BY <1>0, <1>1, <1>2, <1>3, <1>4 DEF Free, Has
  <2>. QED BY <1>7, <2>1, <2>2, <2>3, <2>4, <2>5 DEF OnePlace, Perished
<1>. QED BY <1>6, <1>8

\* Nobody has a slot whose count is zero then.
LEMMA NobodyHasNext ==
    ASSUME RefsAccounted', NEW x \in Slots, orphans'[x] \in Nat, refcount'[x] = 0
    PROVE  Rings(x)' = {} /\ Current(x)' = {} /\ Handed(x)' = {}
<1> DEFINE a == Cardinality(Arriving(x)')
           b == Cardinality(Rings(x)')
           c == Cardinality(Current(x)')
           d == Cardinality(Handed(x)')
           e == Cardinality(HeldByDead(x)')
<1>1. /\ a \in Nat /\ b \in Nat /\ c \in Nat /\ d \in Nat /\ e \in Nat
      /\ IsFiniteSet(Rings(x)') /\ IsFiniteSet(Current(x)') /\ IsFiniteSet(Handed(x)')
  BY RefsSumNext, SetsFinite
<1>2. orphans'[x] + a + b + c + d + e = 0
  <2>1. References(x)' = 0
    BY DEF RefsAccounted
  <2>. QED BY <2>1, RefsSumNext
<1> HIDE DEF a, b, c, d, e
<1>3. b = 0 /\ c = 0 /\ d = 0
  <2>1. PICK o \in Nat : o = orphans'[x]
    OBVIOUS
  <2>2. o \in Nat /\ o + a + b + c + d + e = 0
    BY <1>2, <2>1
  <2>. QED BY ONLY <1>1, <2>2, SumZero
<1>. QED BY <1>1, <1>3, FS_EmptySet DEF b, c, d

\* Reclaiming nobody changes nothing.
LEMMA ReclaimNobody ==
    ASSUME IInv, HInv
    PROVE  /\ \A x : Refs({}, x) = 0
           /\ FreeAfter({}) = free
           /\ [x \in Slots |-> refcount[x] - Refs({}, x)] = refcount
<1>1. \A x : Refs({}, x) = 0
  <2>1. \A x : HeldBy({}, x) = {} /\ InRings({}, x) = {}
    BY DEF HeldBy, InRings
  <2>2. Cardinality({}) = 0
    BY FS_EmptySet
  <2>. QED BY <2>1, <2>2 DEF Refs
<1>2. FreeAfter({}) = free
  <2> DEFINE F == {Filled(x) : x \in {y \in Slots : Refs({}, y) > 0 /\ refcount[y] = Refs({}, y)}}
  <2>1. F = {}
    BY <1>1
  <2>2. SetToSeq({}) = <<>>
    <3>1. SetToSeq({}) \in Seq({})
      BY FS_EmptySet, SetToSeqType
    <3>2. DOMAIN SetToSeq({}) = 1..Len(SetToSeq({})) /\ Len(SetToSeq({})) \in Nat
      BY <3>1, LenProperties
    <3>3. Len(SetToSeq({})) = 0
      <4>1. \A k \in 1..Len(SetToSeq({})) : SetToSeq({})[k] \in {}
        BY <3>1, <3>2
      <4>. QED BY <3>2, <4>1
    <3>. QED BY <3>1, <3>3, EmptySeq
  <2>3. FreeAfter({}) = free \o SetToSeq(F)
    BY DEF FreeAfter
  <2>4. free \o <<>> = free
    BY DEF IInv, RingTypes
  <2>. QED BY <2>1, <2>2, <2>3, <2>4
<1>3. [x \in Slots |-> refcount[x] - Refs({}, x)] = refcount
  BY <1>1 DEF HInv, SlotTypes
<1>. QED BY <1>1, <1>2, <1>3

\* The references of the subscribers in D are dropped.
LEMMA ReclaimRefs ==
    ASSUME IInv, HInv, NEW D \in SUBSET Active,
           \A s \in D : ~sub[s].alive \/ sub[s].pc = "idle",
           \A s \in Subs \ D : SameCells(s) /\ SameHands(s), \A s \in D : ~ctl'[s].active,
           \A x \in Slots : Arriving(x)' = Arriving(x), orphans' = orphans,
           refcount' = [x \in Slots |-> refcount[x] - Refs(D, x)]
    PROVE  /\ RefsAccounted' /\ refcount' \in [Slots -> Nat]
           /\ \A x \in Slots : Refs(D, x) \in Nat
<1>1. D \in SUBSET Subs /\ \A s \in D : ctl[s].active /\ Hands(s)
  BY DEF Active, HInv
<1>2. ASSUME NEW x \in Slots
      PROVE  /\ Refs(D, x) \in Nat
             /\ References(x)' = References(x) - Refs(D, x) /\ References(x)' \in Nat
  <2>1. Rings(x)' = Rings(x) \ InRings(D, x) /\ InRings(D, x) \subseteq Rings(x)
    <3>1. Active' = Active \ D
      BY <1>1 DEF Active, SameCells
    <3>2. \A s \in Active \ D : UsedCells(s)' = UsedCells(s) /\ ctl'[s].ring = ctl[s].ring
      BY UsedCellsFrame DEF Active, SameCells
    <3>3. Rings(x)' = {p \in (Active \ D) \X (0..(Cap - 1)) :
                          p[2] \in UsedCells(p[1]) /\ ctl[p[1]].ring[p[2]].slot = x}
      BY <3>1, <3>2 DEF Rings, InRings
    <3>. QED BY <3>3 DEF Rings, InRings
  <2>2. /\ Current(x)' = Current(x) \ D /\ Handed(x)' = Handed(x)
        /\ HeldByDead(x)' = HeldByDead(x) \ D
    <3>1. \A s \in D : ~Alive(s)' /\ s \notin Handed(x)
      <4> TAKE s \in D
      <4>1. Hands(s) /\ (sub[s].alive => sub[s].pc = "idle")
        BY <1>1
      <4>2. sub[s].desc = NoDesc
        BY <4>1 DEF Hands, Alive
      <4>3. NoDesc.slot # x
        BY SharedAssumption DEF NoDesc
      <4>. QED BY <4>2, <4>3 DEF Alive, Handed
    <3>2. \A s \in Subs \ D :
             /\ (Alive(s)' <=> Alive(s)) /\ sub'[s].cur = sub[s].cur /\ sub'[s].desc = sub[s].desc
             /\ (ctl'[s].active <=> ctl[s].active) /\ (sub'[s].alive <=> sub[s].alive)
             /\ ~sub[s].alive => ctl'[s].held = ctl[s].held
      BY DEF SameHands, Alive
    <3>3. Current(x)' = Current(x) \ D
      BY <3>1, <3>2 DEF Current
    <3>4. Handed(x)' = Handed(x)
      <4>1. Handed(x)' = Handed(x) \ D
        BY <3>1, <3>2 DEF Handed
      <4>. QED BY <3>1, <4>1
    <3>5. HeldByDead(x)' = HeldByDead(x) \ D
      BY <3>2 DEF HeldByDead
    <3>. QED BY <3>3, <3>4, <3>5
  <2>3. /\ HeldBy(D, x) = (HeldByDead(x) \cap D) \cup (Current(x) \cap D)
        /\ (HeldByDead(x) \cap D) \cap (Current(x) \cap D) = {}
    <3>1. ASSUME NEW s \in D
          PROVE  /\ ctl[s].held = x <=> s \in HeldByDead(x) \/ s \in Current(x)
                 /\ ~(s \in HeldByDead(x) /\ s \in Current(x))
      <4>1. s \in Subs /\ ctl[s].active /\ Hands(s) /\ (sub[s].alive => sub[s].pc = "idle")
        BY <1>1
      <4>2. CASE sub[s].alive
        <5>1. ctl[s].held = sub[s].cur.slot
          BY <4>1, <4>2 DEF Hands, Alive
        <5>. QED BY <4>1, <4>2, <5>1 DEF HeldByDead, Current, Alive
      <4>3. CASE ~sub[s].alive
        BY <4>1, <4>3 DEF HeldByDead, Current, Alive
      <4>. QED BY <4>2, <4>3
    <3>. QED BY <3>1 DEF HeldBy
  <2> DEFINE a == Cardinality(Arriving(x))
             r == Cardinality(Rings(x))
             c == Cardinality(Current(x))
             h == Cardinality(Handed(x))
             e == Cardinality(HeldByDead(x))
             rd == Cardinality(InRings(D, x))
             cd == Cardinality(Current(x) \cap D)
             ed == Cardinality(HeldByDead(x) \cap D)
  <2>3a. /\ IsFiniteSet(Rings(x)) /\ IsFiniteSet(Current(x)) /\ IsFiniteSet(HeldByDead(x))
         /\ IsFiniteSet(InRings(D, x)) /\ IsFiniteSet(Current(x) \cap D)
         /\ IsFiniteSet(HeldByDead(x) \cap D)
         /\ rd \in Nat /\ cd \in Nat /\ ed \in Nat
    <3>1. /\ Current(x) \cap D \in SUBSET Subs /\ HeldByDead(x) \cap D \in SUBSET Subs
          /\ Rings(x) \in SUBSET Pairs /\ Current(x) \in SUBSET Subs
          /\ HeldByDead(x) \in SUBSET Subs /\ InRings(D, x) \in SUBSET Pairs
      BY <1>1, RefsSubsets
    <3>. QED BY <3>1, SetsFinite
  <2>4. Cardinality(Rings(x)') = r - rd
    <3>1. Cardinality(Rings(x) \ InRings(D, x)) = r - Cardinality(Rings(x) \cap InRings(D, x))
      BY <2>3a, FS_Difference
    <3>2. Rings(x) \cap InRings(D, x) = InRings(D, x)
      BY <2>1
    <3>. QED BY <2>1, <3>1, <3>2
  <2>5. Cardinality(Current(x)') = c - cd /\ Cardinality(HeldByDead(x)') = e - ed
    BY <2>2, <2>3a, FS_Difference
  <2>6. Refs(D, x) = (ed + cd) + rd
    <3>1. Cardinality(HeldBy(D, x)) = ed + cd - Cardinality({})
      BY <2>3, <2>3a, FS_Union
    <3>2. Cardinality({}) = 0
      BY FS_EmptySet
    <3>. QED BY <2>3a, <3>1, <3>2 DEF Refs
  <2>7. /\ Cardinality(Arriving(x)') = a /\ Cardinality(Handed(x)') = h
        /\ orphans'[x] = orphans[x] /\ orphans[x] \in Nat
    BY <2>2 DEF HInv, SlotTypes
  <2>8. /\ References(x) = orphans[x] + a + r + c + h + e
        /\ a \in Nat /\ r \in Nat /\ c \in Nat /\ h \in Nat /\ e \in Nat
    BY RefsSum
  <2>9. /\ References(x)' = orphans[x] + a + (r - rd) + (c - cd) + h + (e - ed)
        /\ r - rd \in Nat /\ c - cd \in Nat /\ e - ed \in Nat
    <3>1. /\ Cardinality(Rings(x)') \in Nat /\ Cardinality(Current(x)') \in Nat
          /\ Cardinality(HeldByDead(x)') \in Nat
      BY RefsSumNext, SetsFinite
    <3>2. References(x)' = orphans'[x] + Cardinality(Arriving(x)') + Cardinality(Rings(x)')
                   + Cardinality(Current(x)') + Cardinality(Handed(x)')
                   + Cardinality(HeldByDead(x)')
      BY RefsSumNext
    <3>. QED BY <2>4, <2>5, <2>7, <3>1, <3>2
  <2> HIDE DEF a, r, c, h, e, rd, cd, ed
  <2>10. PICK o \in Nat : o = orphans[x]
    BY <2>7
  <2>11. Refs(D, x) \in Nat
    BY <2>3a, <2>6
  <2>12. References(x)' \in Nat
    <3>1. /\ o \in Nat /\ a \in Nat /\ h \in Nat
          /\ References(x)' = o + a + (r - rd) + (c - cd) + h + (e - ed)
          /\ r - rd \in Nat /\ c - cd \in Nat /\ e - ed \in Nat
      BY <2>8, <2>9, <2>10
    <3>. QED BY ONLY <3>1
  <2>13. References(x)' = References(x) - Refs(D, x)
    <3>1. /\ o \in Nat /\ a \in Nat /\ r \in Nat /\ c \in Nat /\ h \in Nat /\ e \in Nat
          /\ rd \in Nat /\ cd \in Nat /\ ed \in Nat
          /\ References(x)' = o + a + (r - rd) + (c - cd) + h + (e - ed)
          /\ References(x) = o + a + r + c + h + e /\ Refs(D, x) = (ed + cd) + rd
      BY <2>3a, <2>6, <2>8, <2>9, <2>10
    <3>. QED BY ONLY <3>1
  <2>. QED BY <2>11, <2>12, <2>13
<1>3. refcount \in [Slots -> Nat] /\ \A x \in Slots : refcount[x] = References(x)
  BY DEF HInv, SlotTypes, RefsAccounted
<1>4. \A x \in Slots : refcount'[x] = References(x)'
  BY <1>2, <1>3
<1>5. refcount' \in [Slots -> Nat]
  <2>1. \A x \in Slots : refcount[x] - Refs(D, x) \in Nat
    BY <1>2, <1>3
  <2>. QED BY <2>1
<1>. QED BY <1>2, <1>4, <1>5 DEF RefsAccounted

\* A step that reclaims the subscribers in D, while the publisher has nobody to push to.  One of
\* them may be alive: it leaves.
PubStep(D) ==
    /\ refcount' = [x \in Slots |-> refcount[x] - Refs(D, x)]
    /\ \A s \in D : /\ ~ctl'[s].active /\ ctl'[s].ring = ctl[s].ring
                    /\ \/ ~sub[s].alive /\ sub'[s] = sub[s]
                       \/ sub[s].alive /\ sub[s].pc = "idle" /\ sub'[s] = Left
    /\ \A s \in Subs \ D : SameCells(s) /\ ctl'[s].held = ctl[s].held /\ sub'[s] = sub[s]
    /\ pub.pc \notin {"push", "post"} /\ pub'.pc \notin {"push", "post"}
    /\ UNCHANGED <<seq, orphans, lost>> /\ PubAt'
    /\ left' \in [publishes : Nat, deaths : Nat, joins : Nat]

\* ... keeps the counts, the hands and the rings, and a slot that nobody refers to is free.
LEMMA PubStepFacts ==
    ASSUME IInv, HInv, NEW D \in SUBSET Active, PubStep(D)
    PROVE  /\ RefsAccounted' /\ refcount' \in [Slots -> Nat]
           /\ \A s \in Subs : SameBack(s) /\ Hands(s)' /\ ctl'[s].ring = ctl[s].ring
                              /\ (sub'[s] = sub[s] \/ sub'[s] = Left)
           /\ \A s \in Subs : Alive(s)' => Alive(s) /\ sub'[s] = sub[s]
           /\ \A s \in Subs : ctl'[s].active => ctl[s].active /\ UsedCells(s)' = UsedCells(s)
           /\ Unreferred(D) \in SUBSET Slots
           /\ \A x \in Unreferred(D) : Busy(x)
           /\ \A x \in Slots : Busy(x)' <=> Busy(x) /\ x \notin Unreferred(D)
           /\ FreeAfter(D) \in Seq(FreeCells) /\ Distinct(FreeAfter(D))
           /\ FreeSet(FreeAfter(D)) = FreeSet(free) \cup {Filled(x) : x \in Unreferred(D)}
<1>1. D \in SUBSET Subs /\ \A s \in D : ctl[s].active /\ Hands(s)
  BY DEF Active, HInv
<1>2. ASSUME NEW s \in D
      PROVE  /\ SameBack(s) /\ Hands(s)' /\ ~Alive(s)' /\ ctl'[s].ring = ctl[s].ring
             /\ (sub'[s] = sub[s] \/ sub'[s] = Left)
             /\ (~sub[s].alive \/ sub[s].pc = "idle")
  <2>1. /\ ~ctl'[s].active /\ ctl'[s].ring = ctl[s].ring
        /\ \/ ~sub[s].alive /\ sub'[s] = sub[s]
           \/ sub[s].alive /\ sub[s].pc = "idle" /\ sub'[s] = Left
    BY DEF PubStep
  <2>2. ~Alive(s)' /\ Hands(s)
    BY <1>1, <2>1 DEF Alive
  <2>3. CASE ~sub[s].alive /\ sub'[s] = sub[s]
    <3>1. ~Alive(s)
      BY <2>3 DEF Alive
    <3>2. /\ sub'[s].desc = NoDesc /\ sub'[s].cur = NoDesc /\ sub'[s].gone = None
          /\ sub'[s].pc = "gone" /\ sub[s].pc = "gone"
      BY <2>2, <2>3, <3>1 DEF Hands
    <3>. QED BY <2>1, <2>2, <2>3, <3>2 DEF Hands, SameBack, Returning
  <2>4. CASE sub[s].alive /\ sub[s].pc = "idle" /\ sub'[s] = Left
    <3>1. /\ sub'[s].desc = NoDesc /\ sub'[s].cur = NoDesc /\ sub'[s].gone = None
          /\ sub'[s].pc = "gone"
      BY <2>4 DEF Left, Thread
    <3>. QED BY <2>1, <2>2, <2>4, <3>1 DEF Hands, SameBack, Returning
  <2>. QED BY <2>1, <2>3, <2>4
<1>3. ASSUME NEW s \in Subs \ D
      PROVE  /\ SameBack(s) /\ Hands(s)' /\ SameHands(s) /\ SameCells(s) /\ sub'[s] = sub[s]
             /\ (Alive(s)' <=> Alive(s)) /\ UsedCells(s)' = UsedCells(s)
             /\ ctl'[s].ring = ctl[s].ring /\ ctl'[s].active = ctl[s].active
  <2>1. /\ SameCells(s) /\ ctl'[s].held = ctl[s].held /\ sub'[s] = sub[s]
    BY DEF PubStep
  <2>2. (Alive(s)' <=> Alive(s)) /\ UsedCells(s)' = UsedCells(s)
        /\ ctl'[s].ring = ctl[s].ring /\ ctl'[s].active = ctl[s].active
    BY <2>1, UsedCellsFrame DEF Alive, SameCells
  <2>3. Hands(s)
    BY DEF HInv
  <2>. QED BY <2>1, <2>2, <2>3 DEF SameBack, SameHands, Returning, Hands
<1>4. /\ RefsAccounted' /\ refcount' \in [Slots -> Nat] /\ \A x \in Slots : Refs(D, x) \in Nat
      /\ refcount' = [x \in Slots |-> refcount[x] - Refs(D, x)]
  <2>1. \A x \in Slots : Arriving(x)' = Arriving(x)
    BY DEF PubStep, Arriving, Pending
  <2>2. /\ \A s \in D : ~sub[s].alive \/ sub[s].pc = "idle"
        /\ \A s \in Subs \ D : SameCells(s) /\ SameHands(s)
        /\ \A s \in D : ~ctl'[s].active
        /\ orphans' = orphans
        /\ refcount' = [x \in Slots |-> refcount[x] - Refs(D, x)]
    BY <1>2, <1>3 DEF PubStep
  <2>. QED BY <2>1, <2>2, ReclaimRefs
<1>5. \A s \in Subs : Alive(s)' => Alive(s) /\ sub'[s] = sub[s]
  BY <1>2, <1>3
<1>6. \A s \in Subs : ctl'[s].active => ctl[s].active /\ UsedCells(s)' = UsedCells(s)
  <2>1. \A s \in D : ~ctl'[s].active
    BY DEF PubStep
  <2>. QED BY <1>3, <2>1
<1>7. refcount \in [Slots -> Nat]
  BY DEF HInv, SlotTypes
<1>8. /\ Unreferred(D) \in SUBSET Slots
      /\ \A x \in Unreferred(D) : Busy(x)
  BY <1>4, <1>7 DEF Unreferred, Busy
<1>9. \A x \in Slots : Busy(x)' <=> Busy(x) /\ x \notin Unreferred(D)
  <2> TAKE x \in Slots
  <2>1. /\ refcount'[x] = refcount[x] - Refs(D, x) /\ refcount[x] \in Nat /\ Refs(D, x) \in Nat
        /\ refcount'[x] \in Nat
    BY <1>4, <1>7
  <2>. QED BY <2>1 DEF Busy, Unreferred
<1>10. /\ FreeAfter(D) \in Seq(FreeCells) /\ Distinct(FreeAfter(D))
       /\ FreeSet(FreeAfter(D)) = FreeSet(free) \cup {Filled(x) : x \in Unreferred(D)}
  <2>1. \A x \in Unreferred(D) : ~Has(free, x)
    BY <1>8, BusyAlone DEF Free
  <2>2. free \in Seq(FreeCells) /\ Distinct(free)
    BY DEF IInv, RingTypes, HInv, FreeQueue
  <2>. QED BY <2>1, <2>2, FreeAfterCells
<1>. QED BY <1>2, <1>3, <1>4, <1>5, <1>6, <1>8, <1>9, <1>10

\* ... and the types.
LEMMA PubStepTypes ==
    ASSUME IInv, HInv, NEW D \in SUBSET Active, PubStep(D), payload' \in [Slots -> Nat]
    PROVE  SlotTypes'
<1>1. ASSUME NEW s \in Subs
      PROVE  /\ \A k \in 0..(Cap - 1) : IsDesc(ctl'[s].ring[k])
             /\ IsDesc(sub'[s].peek) /\ IsDesc(sub'[s].desc) /\ IsDesc(sub'[s].cur)
  <2>1. ctl'[s].ring = ctl[s].ring /\ (sub'[s] = sub[s] \/ sub'[s] = Left)
    BY PubStepFacts
  <2>2. Left.peek = NoDesc /\ Left.desc = NoDesc /\ Left.cur = NoDesc
    BY DEF Left, Thread
  <2>. QED BY <2>1, <2>2 DEF HInv, SlotTypes, IsDesc
<1>2. /\ refcount' \in [Slots -> Nat] /\ orphans' \in [Slots -> Nat] /\ lost' \subseteq Slots
      /\ left' \in [publishes : Nat, deaths : Nat, joins : Nat]
  BY PubStepFacts DEF PubStep, HInv, SlotTypes
<1>. QED BY <1>1, <1>2 DEF SlotTypes, IsDesc

\* The messages that somebody has, when the payload of the others changes at most.
LEMMA PubStepPayloads ==
    ASSUME IInv, HInv, NEW D \in SUBSET Active, PubStep(D),
           \A x \in Slots : payload'[x] = payload[x] \/ refcount'[x] = 0,
           Filling' => payload'[pub'.data] = seq' + 1
    PROVE  Payloads'
<1>0. /\ \A s \in Subs : Alive(s)' => Alive(s) /\ sub'[s] = sub[s]
      /\ \A s \in Subs : ctl'[s].active => ctl[s].active /\ UsedCells(s)' = UsedCells(s)
      /\ \A s \in Subs : ctl'[s].ring = ctl[s].ring
      /\ RefsAccounted' /\ orphans' \in [Slots -> Nat]
  BY PubStepFacts DEF HInv, SlotTypes, PubStep
<1>1. ASSUME NEW x \in Slots, refcount'[x] = 0
      PROVE  Rings(x)' = {} /\ Current(x)' = {} /\ Handed(x)' = {}
  BY <1>0, <1>1, NobodyHasNext
<1>2. ASSUME NEW s \in Subs, Alive(s)', NEW d \in {sub'[s].cur, sub'[s].desc}, d # NoDesc
      PROVE  d.slot \in Slots /\ payload'[d.slot] = d.seq
  <2>1. Alive(s) /\ sub'[s] = sub[s]
    BY <1>0, <1>2
  <2>2. IsMessage(d)
    BY <1>2, <2>1 DEF HInv, Payloads
  <2>3. s \in Current(d.slot)' \/ s \in Handed(d.slot)'
    BY <1>2 DEF Current, Handed
  <2>4. payload'[d.slot] = payload[d.slot]
    BY <1>1, <2>2, <2>3 DEF IsMessage
  <2>. QED BY <2>2, <2>4 DEF IsMessage
<1>3. ASSUME NEW s \in Subs, ctl'[s].active, NEW k \in UsedCells(s)'
      PROVE  IsMessage(ctl[s].ring[k])'
  <2>1. ctl[s].active /\ k \in UsedCells(s) /\ k \in 0..(Cap - 1) /\ ctl'[s].ring = ctl[s].ring
    BY <1>0, <1>3, ThreadFields
  <2>2. PICK d : d = ctl[s].ring[k] /\ IsMessage(d)
    BY <2>1 DEF HInv, Payloads
  <2>3. <<s, k>> \in Rings(d.slot)'
    BY <1>3, <2>1, <2>2 DEF Rings, InRings, Active
  <2>4. payload'[d.slot] = payload[d.slot]
    BY <1>1, <2>2, <2>3 DEF IsMessage
  <2>. QED BY <2>1, <2>2, <2>4 DEF IsMessage
<1>4. \A s \in Subs : Alive(s)' => /\ sub'[s].cur # NoDesc => IsMessage(sub[s].cur)'
                                   /\ sub'[s].desc # NoDesc => IsMessage(sub[s].desc)'
  BY <1>2 DEF IsMessage
<1>5. pub'.pc \notin {"push", "post"}
  BY DEF PubStep
<1>. QED BY <1>3, <1>4, <1>5 DEF Payloads

\* The publisher has the slot that it had.
LEMMA PubKeeps ==
    ASSUME IInv, HInv, NEW D \in SUBSET Active, PubStep(D), free' = FreeAfter(D),
           payload' = payload, Filling' <=> Filling, Filling' => pub'.data = pub.data
    PROVE  HInv'
<1>1. payload' \in [Slots -> Nat] /\ seq' = seq /\ lost' = lost
  BY DEF HInv, SlotTypes, PubStep
<1>2. Payloads'
  BY <1>1, PubStepPayloads DEF HInv, Payloads
<1>3. FreeQueue' /\ \A x \in Slots : OnePlace(x)'
  <2>1. Moved(Unreferred(D), {}, {}, {})
    BY PubStepFacts DEF Moved, WithPub
  <2>. QED BY <1>1, <2>1, PubStepFacts, SlotsMove
<1>4. SlotTypes' /\ PubAt' /\ (\A s \in Subs : Hands(s)') /\ RefsAccounted'
  BY <1>1, PubStepTypes, PubStepFacts DEF PubStep
<1>. QED BY <1>2, <1>3, <1>4 DEF HInv

\* It takes the first one of the free queue, and fills it.
LEMMA PubTakes ==
    ASSUME IInv, HInv, NEW D \in SUBSET Active, PubStep(D), CanPopFree(FreeAfter(D)),
           free' = Tail(FreeAfter(D)), ~Filling, pub'.data = Head(FreeAfter(D)).slot,
           payload' = [payload EXCEPT ![pub'.data] = seq + 1], Filling'
    PROVE  HInv'
<1> DEFINE F == FreeAfter(D)
           U == Unreferred(D)
<1>0. /\ F \in Seq(FreeCells) /\ Distinct(F) /\ F # <<>> /\ Head(F).full
      /\ FreeSet(F) = FreeSet(free) \cup {Filled(y) : y \in U} /\ U \in SUBSET Slots
  BY PubStepFacts DEF CanPopFree
<1>1. /\ Distinct(Tail(F)) /\ FreeSet(Tail(F)) = FreeSet(F) \ {Head(F)}
      /\ Head(F) \in FreeSet(F)
  BY <1>0, TailCells
<1>2. PICK x : x = Head(F).slot /\ pub'.data = x /\ Head(F) = Filled(x)
  <2>1. Head(F) \in FreeCells
    BY <1>0
  <2>. QED BY <1>0, <2>1 DEF FreeCells, Filled
<1>3. x \in Slots /\ (Filled(x) \in FreeSet(free) \/ x \in U)
  <2>1. CASE Head(F) \in FreeSet(free)
    BY <1>2, <2>1 DEF HInv, FreeQueue
  <2>2. CASE Head(F) \in {Filled(y) : y \in U}
    <3>1. PICK y \in U : Head(F) = Filled(y)
      BY <2>2
    <3>. QED BY <1>0, <1>2, <3>1 DEF Filled
  <2>. QED BY <1>0, <1>1, <2>1, <2>2
<1>4. pub'.data = x
  BY <1>2
<1>5. \A y \in Slots : ~WithPub(y)
  BY DEF WithPub
<1>6. FreeQueue' /\ \A y \in Slots : OnePlace(y)'
  <2>1. /\ FreeSet(free') = (FreeSet(free) \cup {Filled(y) : y \in U}) \ {Filled(x)}
        /\ Distinct(free')
    BY <1>0, <1>1, <1>2
  <2>2. \A y \in Slots : WithPub(y)' <=> y = x
    BY <1>4 DEF WithPub
  <2>3. /\ \A y \in U : Busy(y)
        /\ \A y \in Slots : Busy(y)' <=> Busy(y) /\ y \notin U
        /\ (\A s \in Subs : SameBack(s)) /\ lost' = lost
    BY PubStepFacts DEF PubStep
  <2>4. Moved(U, {x}, {}, {})
    BY <1>3, <1>5, <2>1, <2>2, <2>3 DEF Moved
  <2>. QED BY <1>0, <1>3, <2>3, <2>4, SlotsMove
<1>7. refcount'[x] = 0
  <2>1. WithPub(x)' /\ OnePlace(x)' /\ refcount'[x] \in Nat
    BY <1>3, <1>4, <1>6, PubStepFacts DEF WithPub
  <2>. QED BY <2>1 DEF OnePlace, Busy
<1>8. /\ payload' \in [Slots -> Nat] /\ payload'[x] = seq + 1
      /\ \A y \in Slots : y # x => payload'[y] = payload[y]
  BY <1>3, <1>4 DEF HInv, SlotTypes, IInv, RingTypes
<1>9. Payloads'
  BY ZenonT(60), <1>4, <1>7, <1>8, PubStepPayloads DEF PubStep
<1>10. SlotTypes' /\ PubAt' /\ (\A s \in Subs : Hands(s)') /\ RefsAccounted'
  BY <1>8, PubStepTypes, PubStepFacts DEF PubStep
<1>. QED BY <1>6, <1>9, <1>10 DEF HInv

\* It gives the slot back.
LEMMA PubGives ==
    ASSUME IInv, HInv, NEW D \in SUBSET Active, PubStep(D), Filling, ~Filling',
           free' = Append(FreeAfter(D), Filled(pub.data)), payload' = payload
    PROVE  HInv'
<1> DEFINE F == FreeAfter(D)
           U == Unreferred(D)
<1>0. /\ F \in Seq(FreeCells) /\ Distinct(F)
      /\ FreeSet(F) = FreeSet(free) \cup {Filled(y) : y \in U} /\ U \in SUBSET Slots
      /\ \A y \in U : Busy(y)
  BY PubStepFacts
<1>1. PICK x \in Slots : x = pub.data /\ WithPub(x)
  BY DEF HInv, PubAt, WithPub, Filling
<1>2. ~Free(x) /\ ~Busy(x)
  <2>1. OnePlace(x)
    BY <1>1 DEF HInv
  <2>. QED BY <1>1, <2>1 DEF OnePlace
<1>3. ~Has(F, Filled(x).slot) /\ Filled(x) \in FreeCells
  BY <1>0, <1>1, <1>2 DEF Has, Free, Filled, FreeCells
<1>4. Distinct(Append(F, Filled(x))) /\ FreeSet(Append(F, Filled(x))) = FreeSet(F) \cup {Filled(x)}
  BY <1>0, <1>3, AppendCell
<1>5. FreeQueue' /\ \A y \in Slots : OnePlace(y)'
  <2>1. /\ FreeSet(free') = FreeSet(free) \cup {Filled(y) : y \in U \cup {x}}
        /\ Distinct(free')
    BY <1>0, <1>1, <1>4
  <2>2. \A y \in Slots : ~WithPub(y)' /\ (WithPub(y) => y = x)
    BY <1>1 DEF WithPub
  <2>3. /\ \A y \in Slots : Busy(y)' <=> Busy(y) /\ y \notin U
        /\ (\A s \in Subs : SameBack(s)) /\ lost' = lost
    BY PubStepFacts DEF PubStep
  <2>4. Moved(U, {}, {x}, {})
    BY <1>0, <1>1, <2>1, <2>2, <2>3 DEF Moved
  <2>. QED BY <1>0, <1>1, <2>3, <2>4, SlotsMove
<1>6. payload' \in [Slots -> Nat]
  BY DEF HInv, SlotTypes
<1>7. Payloads'
  BY PubStepPayloads
<1>8. SlotTypes' /\ PubAt' /\ (\A s \in Subs : Hands(s)') /\ RefsAccounted'
  BY <1>6, PubStepTypes, PubStepFacts DEF PubStep
<1>. QED BY <1>5, <1>7, <1>8 DEF HInv

----------------------------------------------------------------------------
(* The publisher looks for room.                                              *)

\* How many subscribers are before i in the list.
LEMMA BeforeFacts ==
    /\ \A i : Cardinality(Before(i)) \in Nat
    /\ Cardinality(Broadcast) \in Nat /\ Cardinality(Before(1)) = 0 /\ Before(N + 1) = Broadcast
    /\ \A i \in 1..N : /\ Cardinality(Before(i + 1)) <= Cardinality(Before(i)) + 1
                       /\ i \notin Broadcast => Before(i + 1) = Before(i)
<1>1. N \in Nat /\ Broadcast \in SUBSET Subs /\ \A s \in Broadcast : s \in 1..N
  BY SharedAssumption DEF Broadcast, Subs
<1>2. \A i : Before(i) \in SUBSET Subs
  BY <1>1 DEF Before
<1>3. \A i : Cardinality(Before(i)) \in Nat
  BY <1>2, SetsFinite
<1>4. Before(1) = {} /\ Before(N + 1) = Broadcast
  BY <1>1 DEF Before
<1>5. ASSUME NEW i \in 1..N
      PROVE  /\ Cardinality(Before(i + 1)) <= Cardinality(Before(i)) + 1
             /\ i \notin Broadcast => Before(i + 1) = Before(i)
  <2>1. Before(i + 1) = IF i \in Broadcast THEN Before(i) \cup {i} ELSE Before(i)
    BY <1>1 DEF Before
  <2>2. i \notin Before(i)
    BY DEF Before
  <2>3. Cardinality(Before(i) \cup {i}) = Cardinality(Before(i)) + 1
    BY <1>2, <2>2, OneMore
  <2>. QED BY <1>3, <2>1, <2>3
<1>. QED BY <1>1, <1>3, <1>4, <1>5, SetsFinite, FS_EmptySet

\* Fewer, if some of them are reclaimed.
LEMMA FewerBefore ==
    ASSUME Broadcast' \subseteq Broadcast
    PROVE  /\ Cardinality(Broadcast') <= Cardinality(Broadcast) /\ Cardinality(Broadcast') \in Nat
           /\ Cardinality(Before(pub.i)') \in Nat
           /\ \A i : (\A s \in Broadcast' : s < pub'.i => s < i) =>
                        Cardinality(Before(pub.i)') <= Cardinality(Before(i))
<1>1. Broadcast \in SUBSET Subs
  BY DEF Broadcast
<1>2. Cardinality(Broadcast') <= Cardinality(Broadcast) /\ Cardinality(Broadcast') \in Nat
  <2>1. IsFiniteSet(Broadcast)
    BY <1>1, SetsFinite
  <2>2. Cardinality(Broadcast') <= Cardinality(Broadcast)
    BY <2>1, FS_Subset
  <2>. QED BY <1>1, <2>2, SetsFinite
<1>3. Before(pub.i)' = {s \in Broadcast' : s < pub'.i}
  BY DEF Before
<1>4. Cardinality(Before(pub.i)') \in Nat
  <2>1. {s \in Broadcast' : s < pub'.i} \in SUBSET Subs
    BY <1>1
  <2>. QED BY <1>3, <2>1, SetsFinite
<1>5. ASSUME NEW i, \A s \in Broadcast' : s < pub'.i => s < i
      PROVE  Cardinality(Before(pub.i)') <= Cardinality(Before(i))
  <2>1. {s \in Broadcast' : s < pub'.i} \subseteq Before(i)
    BY <1>5 DEF Before
  <2>2. IsFiniteSet(Before(i))
    <3>1. Before(i) \in SUBSET Subs
      BY <1>1 DEF Before
    <3>. QED BY <3>1, SetsFinite
  <2>. QED BY <1>3, <2>1, <2>2, FS_Subset
<1>. QED BY <1>2, <1>4, <1>5

\* A step that reclaims dead subscribers, and may count one that is passed over.
Scavenges(D) ==
    /\ \A s \in D : ~sub[s].alive
    /\ \/ ctl' = Reclaimed(D)
       \/ \E r \in Subs : r \notin D /\ ctl' = [Reclaimed(D) EXCEPT ![r].dropped = @ + 1]
    /\ Reclaim(D) /\ UNCHANGED <<seq, sub, aux>>
    /\ pub.pc \notin {"push", "post"}

\* A reclaimed ring is out of use, and the other ones stay as they are.
LEMMA ScavengesCells ==
    ASSUME IInv, HInv, NEW D \in SUBSET Active, Scavenges(D)
    PROVE  /\ \A s \in D : ~ctl'[s].active /\ ctl'[s].ring = ctl[s].ring
           /\ \A s \in Subs \ D : SameCells(s) /\ ctl'[s].held = ctl[s].held
                                  /\ ctl'[s].mode = ctl[s].mode
           /\ Broadcast' \subseteq Broadcast /\ D \cap Broadcast' = {}
<1>1. D \in SUBSET Subs
  BY DEF Active
<1>2. ASSUME NEW s \in Subs
      PROVE  Reclaimed(D)[s] = IF s \in D
                THEN [ctl[s] EXCEPT !.active = FALSE, !.mode = "FULL", !.held = None,
                                    !.head = ctl[s].tail, !.ready = @ - QueueLen(s)]
                ELSE ctl[s]
  BY DEF Reclaimed
<1>3. \A s \in Subs : ctl[s] \in Controls
  BY DEF IInv, RingTypes
<1>4. ASSUME NEW s \in D
      PROVE  ~Reclaimed(D)[s].active /\ Reclaimed(D)[s].ring = ctl[s].ring
  <2>1. s \in Subs
    BY <1>1
  <2>2. PICK c \in Controls : c = ctl[s]
    BY <1>3, <2>1
  <2>3. PICK q : q = QueueLen(s)
    OBVIOUS
  <2>4. Reclaimed(D)[s] = [c EXCEPT !.active = FALSE, !.mode = "FULL", !.held = None,
                                    !.head = c.tail, !.ready = c.ready - q]
    BY <1>2, <2>1, <2>2, <2>3
  <2>5. ~Reclaimed(D)[s].active /\ Reclaimed(D)[s].ring = c.ring
    BY ONLY <2>4, c \in Controls DEF Controls
  <2>. QED BY <2>2, <2>5
<1>5. ASSUME NEW s \in Subs
      PROVE  /\ s \in D => ~ctl'[s].active /\ ctl'[s].ring = ctl[s].ring
             /\ s \notin D => /\ SameCells(s) /\ ctl'[s].held = ctl[s].held
                              /\ ctl'[s].mode = ctl[s].mode
  <2>1. CASE ctl' = Reclaimed(D)
    BY <1>2, <1>4, <2>1 DEF SameCells
  <2>2. CASE \E r \in Subs : r \notin D /\ ctl' = [Reclaimed(D) EXCEPT ![r].dropped = @ + 1]
    <3>1. PICK r \in Subs : r \notin D /\ ctl' = [Reclaimed(D) EXCEPT ![r].dropped = @ + 1]
      BY <2>2
    <3>2. DOMAIN Reclaimed(D) = Subs
      BY DEF Reclaimed
    <3>3. CASE s = r
      <4>1. Reclaimed(D)[s] = ctl[s] /\ s \notin D
        BY <1>2, <3>1, <3>3
      <4>2. ctl'[s] = [ctl[s] EXCEPT !.dropped = @ + 1]
        BY <3>1, <3>2, <3>3, <4>1
      <4>. QED BY <1>3, <4>1, <4>2 DEF Controls, SameCells
    <3>4. CASE s # r
      <4>1. ctl'[s] = Reclaimed(D)[s]
        BY <3>1, <3>2, <3>4
      <4>. QED BY <1>2, <1>4, <4>1 DEF SameCells
    <3>. QED BY <3>3, <3>4
  <2>. QED BY <2>1, <2>2 DEF Scavenges
<1>6. Broadcast' \subseteq Broadcast /\ D \cap Broadcast' = {}
  BY <1>1, <1>5 DEF Broadcast, SameCells
<1>. QED BY <1>1, <1>5, <1>6

LEMMA ScavengesStep ==
    ASSUME IInv, HInv, NEW D \in SUBSET Active, Scavenges(D), PubAt',
           pub'.pc \notin {"push", "post"},
           left' \in [publishes : Nat, deaths : Nat, joins : Nat]
    PROVE  PubStep(D)
BY ScavengesCells DEF PubStep, Scavenges, Reclaim, aux

\* A step that reclaims nobody.
LEMMA QuietStep ==
    ASSUME IInv, HInv, PubAt', UNCHANGED <<refcount, ctl, sub, seq, aux>>,
           pub.pc \notin {"push", "post"}, pub'.pc \notin {"push", "post"},
           left' \in [publishes : Nat, deaths : Nat, joins : Nat]
    PROVE  PubStep({}) /\ {} \in SUBSET Active
<1>1. refcount' = [x \in Slots |-> refcount[x] - Refs({}, x)]
  BY ReclaimNobody
<1>. QED BY <1>1 DEF PubStep, SameCells, aux

\* Facts about the publisher that its steps need.
LEMMA PubFacts ==
    ASSUME IInv, HInv
    PROVE  /\ pub \in Publishers /\ PubAt /\ N \in Nat /\ N > 0 /\ None \notin Slots
           /\ Dead \in SUBSET Active /\ (\A s \in Dead : ~sub[s].alive)
           /\ left \in [publishes : Nat, deaths : Nat, joins : Nat]
<1>1. Dead \in SUBSET Active /\ \A s \in Dead : ~sub[s].alive
  BY DEF Dead, Active
<1>. QED BY <1>1, SharedAssumption DEF IInv, RingTypes, HInv, SlotTypes

\* The publisher is idle, or has taken a slot.
LEMMA PubStarts ==
    ASSUME IInv, HInv,
           \/ pub' = Publisher
           \/ \E x \in Slots : pub' = [Publisher EXCEPT !.pc = "created", !.data = x]
    PROVE  PubAt' /\ pub'.pc \notin {"push", "post"} /\ (Filling' <=> pub' # Publisher)
<1>1. 0 \in 0..2 /\ 0 \in 0..(N + 2) /\ 0 \in 0..N /\ None \notin Slots
  <2>1. N \in Nat /\ None \notin Slots
    BY SharedAssumption
  <2>2. 0 \in 0..2 /\ 0 \in 0..(N + 2) /\ 0 \in 0..N
    BY ONLY <2>1
  <2>. QED BY <2>1, <2>2
<1>2. CASE pub' = Publisher
  BY <1>1, <1>2 DEF PubAt, Publisher, Filling
<1>3. CASE \E x \in Slots : pub' = [Publisher EXCEPT !.pc = "created", !.data = x]
  <2>1. PICK x \in Slots : pub' = [Publisher EXCEPT !.pc = "created", !.data = x]
    BY <1>3
  <2>2. /\ pub'.pc = "created" /\ pub'.i = 0 /\ pub'.data = x /\ pub'.count = 0
        /\ pub'.balanced = FALSE /\ pub'.tries = 0 /\ Publisher.pc = "idle"
    BY <2>1 DEF Publisher
  <2>3. pub' # Publisher
    BY <2>2
  <2>. QED BY <1>1, <2>2, <2>3 DEF PubAt, Filling
<1>. QED BY <1>2, <1>3

\* What is at the head of the free queue is a slot.
LEMMA HeadIsSlot ==
    ASSUME IInv, HInv, NEW D \in SUBSET Subs, FreeSet(FreeAfter(D)) =
              FreeSet(free) \cup {Filled(x) : x \in Unreferred(D)},
           FreeAfter(D) \in Seq(FreeCells), Distinct(FreeAfter(D)), CanPopFree(FreeAfter(D))
    PROVE  Head(FreeAfter(D)).slot \in Slots
<1>1. Head(FreeAfter(D)) \in FreeSet(FreeAfter(D))
  BY TailCells DEF CanPopFree
<1>2. CASE Head(FreeAfter(D)) \in FreeSet(free)
  BY <1>2 DEF HInv, FreeQueue
<1>3. CASE Head(FreeAfter(D)) \in {Filled(x) : x \in Unreferred(D)}
  <2>1. PICK x \in Unreferred(D) : Head(FreeAfter(D)) = Filled(x)
    BY <1>3
  <2>2. Head(FreeAfter(D)).slot = x
    BY <2>1 DEF Filled
  <2>. QED BY <2>2 DEF Unreferred
<1>. QED BY <1>1, <1>2, <1>3

\* CreateData.
LEMMA CreatesSlot == ASSUME IInv, HInv, CreateData PROVE HInv'
<1>1. /\ pub.pc = "idle" /\ UNCHANGED <<refcount, ctl, sub, seq, aux>>
      /\ left' = [left EXCEPT !.publishes = @ - 1] /\ left.publishes > 0
  BY DEF CreateData, Use, balance
<1>2. left' \in [publishes : Nat, deaths : Nat, joins : Nat]
  BY <1>1, PubFacts
<1>3. FreeAfter({}) = free /\ ~Filling
  BY <1>1, ReclaimNobody DEF Filling
<1>4. CASE CanPopFree(free)
  <2>1. /\ pub' = [Publisher EXCEPT !.pc = "created", !.data = Head(free).slot]
        /\ payload' = [payload EXCEPT ![Head(free).slot] = seq + 1] /\ free' = Tail(free)
    BY <1>4 DEF CreateData, Take
  <2>2. Head(free).slot \in Slots
    <3>1. free \in Seq(FreeCells) /\ Distinct(free) /\ free # <<>>
      BY <1>4 DEF IInv, RingTypes, HInv, FreeQueue, CanPopFree
    <3>2. Head(free) \in FreeSet(free)
      BY <3>1, TailCells
    <3>. QED BY <3>2 DEF HInv, FreeQueue
  <2>3. pub'.data = Head(free).slot /\ pub' # Publisher
    BY <2>1 DEF Publisher
  <2>4. PubAt' /\ pub'.pc \notin {"push", "post"} /\ Filling'
    BY <2>1, <2>2, <2>3, PubStarts
  <2>5. PubStep({}) /\ {} \in SUBSET Active
    BY <1>1, <1>2, <2>4, QuietStep
  <2>. QED BY <1>3, <1>4, <2>1, <2>3, <2>4, <2>5, PubTakes
<1>5. CASE ~CanPopFree(free)
  <2>1. pub' = [pub EXCEPT !.pc = "scavenge"] /\ UNCHANGED <<payload, free>>
    BY <1>5 DEF CreateData
  <2>2. /\ pub'.pc = "scavenge" /\ pub'.i = pub.i /\ pub'.data = pub.data
        /\ pub'.count = pub.count /\ pub'.tries = pub.tries
    BY <2>1, PubFacts DEF Publishers
  <2>3. PubAt' /\ ~Filling'
    BY <1>1, <2>2, PubFacts DEF PubAt, Filling
  <2>4. PubStep({}) /\ {} \in SUBSET Active
    BY <1>1, <1>2, <2>2, <2>3, QuietStep
  <2>. QED BY <1>3, <2>1, <2>3, <2>4, PubKeeps
<1>. QED BY <1>4, <1>5

\* What CreateData recycles when it looks for the dead.
LEMMA ScavengedCells ==
    ASSUME IInv, HInv
    PROVE  /\ FreeAfter(Dead) \in Seq(FreeCells) /\ Distinct(FreeAfter(Dead))
           /\ FreeSet(FreeAfter(Dead)) = FreeSet(free) \cup {Filled(x) : x \in Unreferred(Dead)}
<1>1. ASSUME NEW x \in Slots PROVE Refs(Dead, x) \in Nat
  <2>1. InRings(Dead, x) \in SUBSET Pairs /\ HeldBy(Dead, x) \in SUBSET Subs
    BY RefsSubsets DEF Dead
  <2>. QED BY <2>1, SetsFinite DEF Refs
<1>2. \A x \in Unreferred(Dead) : x \in Slots /\ Busy(x)
  BY <1>1 DEF Unreferred, Busy
<1>3. \A x \in Unreferred(Dead) : ~Has(free, x)
  <2>1. \A x \in Slots : OnePlace(x)
    BY DEF HInv
  <2>. QED BY <1>2, <2>1 DEF OnePlace, Free
<1>4. free \in Seq(FreeCells) /\ Distinct(free)
  BY DEF IInv, RingTypes, HInv, FreeQueue
<1>. QED BY <1>3, <1>4, FreeAfterCells

\* ... and once more, after it has looked for the dead.
LEMMA CreatesAgain == ASSUME IInv, HInv, CreateAgain PROVE HInv'
<1>1. /\ pub.pc = "scavenge" /\ UNCHANGED <<sub, seq, aux, left>>
      /\ ctl' = Reclaimed(Dead) /\ Reclaim(Dead)
  BY DEF CreateAgain
<1>2. left' \in [publishes : Nat, deaths : Nat, joins : Nat] /\ Scavenges(Dead) /\ ~Filling
  BY <1>1, PubFacts DEF Scavenges, Filling
<1>3. CASE CanPopFree(FreeAfter(Dead))
  <2> DEFINE F == FreeAfter(Dead)
  <2>1. /\ pub' = [Publisher EXCEPT !.pc = "created", !.data = Head(F).slot]
        /\ payload' = [payload EXCEPT ![Head(F).slot] = seq + 1] /\ free' = Tail(F)
    BY <1>3 DEF CreateAgain, Take
  <2>2. Head(F).slot \in Slots
    <3>1. Dead \in SUBSET Subs
      BY DEF Dead
    <3>. QED BY <1>3, <3>1, ScavengedCells, HeadIsSlot
  <2>3. pub'.data = Head(F).slot /\ pub' # Publisher
    BY <2>1 DEF Publisher
  <2>4. PubAt' /\ pub'.pc \notin {"push", "post"} /\ Filling'
    BY <2>1, <2>2, <2>3, PubStarts
  <2>5. PubStep(Dead)
    BY <1>2, <2>4, PubFacts, ScavengesStep
  <2>. QED BY <1>2, <1>3, <2>1, <2>3, <2>4, <2>5, PubFacts, PubTakes
<1>4. CASE ~CanPopFree(FreeAfter(Dead))
  <2>1. pub' = Publisher /\ free' = FreeAfter(Dead) /\ payload' = payload
    BY <1>4 DEF CreateAgain
  <2>2. PubAt' /\ pub'.pc \notin {"push", "post"} /\ ~Filling'
    BY <2>1, PubStarts
  <2>3. PubStep(Dead)
    BY <1>2, <2>2, PubFacts, ScavengesStep
  <2>. QED BY <1>2, <2>1, <2>2, <2>3, PubFacts, PubKeeps
<1>. QED BY <1>3, <1>4

\* The handle is dropped, or the publish begins.
LEMMA BeginsSlot == ASSUME IInv, HInv, Abandon \/ Publish PROVE HInv'
<1>1. /\ pub.pc = "created" /\ UNCHANGED <<refcount, ctl, sub, seq, aux, left, payload>>
      /\ FreeAfter({}) = free /\ Filling
  BY ReclaimNobody DEF Abandon, Publish, pool, Filling
<1>2. left' \in [publishes : Nat, deaths : Nat, joins : Nat]
  BY <1>1, PubFacts
<1>3. CASE Abandon
  <2>1. pub' = Publisher /\ free' = Append(free, Filled(pub.data))
    BY <1>3 DEF Abandon
  <2>2. PubAt' /\ pub'.pc \notin {"push", "post"} /\ ~Filling'
    BY <2>1, PubStarts
  <2>3. PubStep({}) /\ {} \in SUBSET Active
    BY <1>1, <1>2, <2>2, QuietStep
  <2>. QED BY <1>1, <2>1, <2>2, <2>3, PubGives
<1>4. CASE Publish
  <2>1. pub' = [pub EXCEPT !.pc = "check", !.i = 1] /\ free' = free
    BY <1>4 DEF Publish, pool
  <2>2. /\ pub'.pc = "check" /\ pub'.i = 1 /\ pub'.data = pub.data
        /\ pub'.count = pub.count /\ pub'.tries = pub.tries /\ pub'.balanced = pub.balanced
    BY <2>1, PubFacts DEF Publishers
  <2>3. PubAt' /\ Filling'
    <3>1. Cardinality(Before(pub.i)') = 0
      <4>1. Broadcast' = Broadcast
        BY <1>1 DEF Broadcast
      <4>2. Before(pub.i)' = Before(1)
        BY <2>2, <4>1 DEF Before
      <4>. QED BY <4>2, BeforeFacts
    <3>2. pub.count = 0 /\ ~pub.balanced /\ pub.data \in Slots /\ pub.tries \in 0..2
      BY <1>1, PubFacts DEF PubAt
    <3>3. N \in Nat /\ N > 0
      BY PubFacts
    <3>. QED BY <2>2, <3>1, <3>2, <3>3 DEF PubAt, Filling, One
  <2>4. PubStep({}) /\ {} \in SUBSET Active
    BY <1>1, <1>2, <2>2, <2>3, QuietStep
  <2>. QED BY <1>1, <2>1, <2>2, <2>3, <2>4, PubKeeps
<1>. QED BY <1>3, <1>4

\* The publisher in its first pass: what it has counted is at least as many subscribers as it
\* has found.
LEMMA PubCounts ==
    ASSUME IInv, HInv, pub.pc \in {"check", "drop"}, pub.i <= N, Broadcast' \subseteq Broadcast,
           pub'.pc = "check", pub'.i = pub.i + 1, pub'.data = pub.data, pub'.tries = pub.tries,
           \/ pub'.count = pub.count /\ pub.i \notin Broadcast'
              /\ (pub'.balanced = pub.balanced \/ pub'.balanced = TRUE)
           \/ pub'.count = pub.count + 1 /\ pub'.balanced = pub.balanced
    PROVE  PubAt' /\ Filling /\ Filling'
<1>1. /\ N \in Nat /\ pub.i \in 1..N /\ pub.count \in 0..N /\ pub.data \in Slots
      /\ pub.tries \in 0..2 /\ pub.balanced \in BOOLEAN
      /\ Cardinality(Before(pub.i)) <= pub.count
      /\ pub.count + One(pub.balanced) <= pub.i - 1
  <2>1. pub \in Publishers /\ PubAt /\ N \in Nat
    BY PubFacts
  <2>2. pub.balanced \in BOOLEAN
    BY <2>1 DEF Publishers
  <2>. QED BY <2>1, <2>2 DEF PubAt
<1>2. /\ Cardinality(Before(pub.i)) \in Nat /\ Cardinality(Before(pub.i + 1)) \in Nat
      /\ Cardinality(Before(pub.i + 1)) <= Cardinality(Before(pub.i)) + 1
      /\ Cardinality(Before(pub.i)') \in Nat
  BY <1>1, BeforeFacts, FewerBefore
<1>3. Cardinality(Before(pub.i)') <= Cardinality(Before(pub.i + 1))
  BY FewerBefore
<1>4. pub.i \notin Broadcast' => Cardinality(Before(pub.i)') <= Cardinality(Before(pub.i))
  <2> HAVE pub.i \notin Broadcast'
  <2>1. \A s \in Broadcast' : s < pub.i + 1 => s < pub.i
    <3>1. \A s \in Broadcast' : s \in Int
      BY DEF Broadcast, Subs
    <3>. QED BY <1>1, <3>1
  <2>. QED BY <2>1, FewerBefore
<1>5. Cardinality(Before(pub.i)') <= pub'.count
  BY <1>1, <1>2, <1>3, <1>4
<1>6. pub'.count + One(pub'.balanced) <= pub'.i - 1 /\ pub'.count \in 0..N
  BY <1>1 DEF One
<1>7. pub'.i \in 1..(N + 1) /\ pub'.i \in 0..(N + 2)
  BY <1>1
<1>. QED BY <1>1, <1>5, <1>6, <1>7 DEF PubAt, Filling

\* The first pass, one subscriber a step.
LEMMA ChecksSlot == ASSUME IInv, HInv, Check PROVE HInv'
<1>1. /\ pub.pc = "check" /\ pub.i <= N /\ UNCHANGED <<payload, seq, cursor, sub, aux, left>>
      /\ Filling /\ pub.pc \notin {"push", "post"}
  BY DEF Check, Filling
<1>2. /\ left' \in [publishes : Nat, deaths : Nat, joins : Nat] /\ pub \in Publishers
      /\ N \in Nat /\ pub.i \in 1..N /\ pub.i \in Subs /\ Dead \in SUBSET Active
      /\ \A s \in Dead : ~sub[s].alive
  BY <1>1, PubFacts DEF PubAt, Subs
<1> DEFINE c == ctl[pub.i]
<1>3. CASE ~c.active \/ c.mode = "BALANCE" \/ QueueHasSpace(pub.i)
  <2>1. Broadcast' = Broadcast /\ refcount' = refcount /\ free' = free /\ ctl' = ctl
    BY <1>3 DEF Check, Broadcast, pool
  <2>2. CASE ~c.active /\ NextIndex
    <3>1. /\ pub'.pc = "check" /\ pub'.i = pub.i + 1 /\ pub'.data = pub.data
          /\ pub'.tries = pub.tries /\ pub'.count = pub.count /\ pub'.balanced = pub.balanced
      BY <1>2, <2>2 DEF NextIndex, Publishers
    <3>2. pub.i \notin Broadcast'
      BY <2>1, <2>2 DEF Broadcast
    <3>3. PubAt' /\ Filling'
      BY <1>1, <2>1, <3>1, <3>2, PubCounts
    <3>4. PubStep({}) /\ {} \in SUBSET Active
      BY <1>1, <1>2, <2>1, <3>1, <3>3, QuietStep
    <3>. QED BY <1>1, <2>1, <3>1, <3>3, <3>4, ReclaimNobody, PubKeeps
  <2>3. CASE c.mode = "BALANCE" /\ pub' = [pub EXCEPT !.i = @ + 1, !.balanced = TRUE]
    <3>1. /\ pub'.pc = "check" /\ pub'.i = pub.i + 1 /\ pub'.data = pub.data
          /\ pub'.tries = pub.tries /\ pub'.count = pub.count /\ pub'.balanced = TRUE
      BY <1>1, <1>2, <2>3 DEF Publishers
    <3>2. pub.i \notin Broadcast'
      BY <2>1, <2>3 DEF Broadcast
    <3>3. PubAt' /\ Filling'
      BY <1>1, <2>1, <3>1, <3>2, PubCounts
    <3>4. PubStep({}) /\ {} \in SUBSET Active
      BY <1>1, <1>2, <2>1, <3>1, <3>3, QuietStep
    <3>. QED BY <1>1, <2>1, <3>1, <3>3, <3>4, ReclaimNobody, PubKeeps
  <2>4. CASE Count
    <3>1. /\ pub'.pc = "check" /\ pub'.i = pub.i + 1 /\ pub'.data = pub.data
          /\ pub'.tries = pub.tries /\ pub'.count = pub.count + 1
          /\ pub'.balanced = pub.balanced
      BY <1>2, <2>4 DEF Count, Publishers
    <3>3. PubAt' /\ Filling'
      BY <1>1, <2>1, <3>1, PubCounts
    <3>4. PubStep({}) /\ {} \in SUBSET Active
      BY <1>1, <1>2, <2>1, <3>1, <3>3, QuietStep
    <3>. QED BY <1>1, <2>1, <3>1, <3>3, <3>4, ReclaimNobody, PubKeeps
  <2>. QED BY <1>3, <2>2, <2>3, <2>4 DEF Check
<1>4. CASE ~(~c.active \/ c.mode = "BALANCE" \/ QueueHasSpace(pub.i))
  <2>0. /\ Reclaim(Dead)
        /\ IF pub.i \in Dead
           THEN NextIndex /\ free' = FreeAfter(Dead) /\ ctl' = Reclaimed(Dead)
           ELSE IF c.mode = "DROP_OLD"
           THEN /\ pub' = [pub EXCEPT !.pc = "drop"]
                /\ free' = FreeAfter(Dead) /\ ctl' = Reclaimed(Dead)
           ELSE /\ GiveUp(Dead)
                /\ ctl' = [Reclaimed(Dead) EXCEPT ![pub.i].dropped = @ + 1]
    BY <1>4 DEF Check
  <2>1. Scavenges(Dead)
    BY <1>1, <1>2, <2>0 DEF Scavenges
  <2>2. Broadcast' \subseteq Broadcast /\ Dead \cap Broadcast' = {}
    BY <1>2, <2>1, ScavengesCells
  <2>3. CASE pub.i \in Dead
    <3>1. free' = FreeAfter(Dead) /\ NextIndex
      BY <2>0, <2>3
    <3>2. /\ pub'.pc = "check" /\ pub'.i = pub.i + 1 /\ pub'.data = pub.data
          /\ pub'.tries = pub.tries /\ pub'.count = pub.count /\ pub'.balanced = pub.balanced
      BY <1>2, <3>1 DEF NextIndex, Publishers
    <3>3. pub.i \notin Broadcast'
      BY <2>2, <2>3
    <3>4. PubAt' /\ Filling'
      BY <1>1, <2>2, <3>2, <3>3, PubCounts
    <3>5. PubStep(Dead)
      BY <1>2, <2>1, <3>2, <3>4, ScavengesStep
    <3>. QED BY <1>1, <1>2, <3>1, <3>2, <3>4, <3>5, PubKeeps
  <2>4. CASE pub.i \notin Dead /\ c.mode = "DROP_OLD"
    <3>1. free' = FreeAfter(Dead) /\ pub' = [pub EXCEPT !.pc = "drop"]
      BY <2>0, <2>4
    <3>2. /\ pub'.pc = "drop" /\ pub'.i = pub.i /\ pub'.data = pub.data
          /\ pub'.tries = pub.tries /\ pub'.count = pub.count /\ pub'.balanced = pub.balanced
      BY <1>2, <3>1 DEF Publishers
    <3>3. PubAt' /\ Filling'
      <4>1. /\ Cardinality(Before(pub.i)') <= Cardinality(Before(pub.i))
            /\ Cardinality(Before(pub.i)') \in Nat /\ Cardinality(Before(pub.i)) \in Nat
        BY <2>2, <3>2, FewerBefore, BeforeFacts
      <4>2. PubAt
        BY PubFacts
      <4>3. Cardinality(Before(pub.i)') <= pub'.count
        BY <1>1, <3>2, <4>1, <4>2 DEF PubAt
      <4>. QED BY <1>1, <1>2, <3>2, <4>2, <4>3 DEF PubAt, Filling
    <3>4. PubStep(Dead)
      BY <1>2, <2>1, <3>2, <3>3, ScavengesStep
    <3>. QED BY <1>1, <1>2, <3>1, <3>2, <3>3, <3>4, PubKeeps
  <2>5. CASE pub.i \notin Dead /\ c.mode # "DROP_OLD"
    <3>1. pub' = Publisher /\ free' = Append(FreeAfter(Dead), Filled(pub.data))
      BY <2>0, <2>5 DEF GiveUp
    <3>2. PubAt' /\ pub'.pc \notin {"push", "post"} /\ ~Filling'
      BY <3>1, PubStarts
    <3>3. PubStep(Dead)
      BY <1>2, <2>1, <3>2, ScavengesStep
    <3>. QED BY <1>1, <1>2, <3>1, <3>2, <3>3, PubGives
  <2>. QED BY <2>3, <2>4, <2>5
<1>. QED BY <1>3, <1>4

\* The first pass is over.
LEMMA ChecksAll == ASSUME IInv, HInv, Checked PROVE HInv'
<1>1. /\ pub.pc = "check" /\ pub.i > N
      /\ UNCHANGED <<refcount, payload, seq, ctl, members, sub, aux, left>>
      /\ Filling /\ pub.pc \notin {"push", "post"} /\ FreeAfter({}) = free
  BY ReclaimNobody DEF Checked, Filling
<1>2. /\ left' \in [publishes : Nat, deaths : Nat, joins : Nat] /\ pub \in Publishers
      /\ N \in Nat /\ N > 0 /\ PubAt /\ pub.data \in Slots
  BY <1>1, PubFacts DEF PubAt
<1>3. /\ Cardinality(Broadcast) <= pub.count /\ pub.count + One(pub.balanced) <= N
      /\ Cardinality(Broadcast) \in Nat /\ pub.count \in 0..N /\ pub.balanced \in BOOLEAN
      /\ pub.tries \in 0..2
  <2>1. pub.i = N + 1
    BY <1>1, <1>2 DEF PubAt
  <2>2. Cardinality(Before(pub.i)) <= pub.count /\ pub.count + One(pub.balanced) <= pub.i - 1
    BY <1>1, <1>2 DEF PubAt
  <2>3. Before(pub.i) = Broadcast /\ Cardinality(Broadcast) \in Nat
    BY <2>1, BeforeFacts
  <2>4. pub.count \in 0..N /\ pub.balanced \in BOOLEAN /\ pub.tries \in 0..2
    BY <1>2 DEF PubAt, Publishers
  <2>. QED BY <1>2, <2>1, <2>2, <2>3, <2>4
<1>4. Broadcast' = Broadcast
  BY <1>1 DEF Broadcast
<1>5. CASE pub.balanced
  <2>1. /\ pub' = [pub EXCEPT !.pc = "select", !.i = 0, !.tries = 1, !.base = cursor]
        /\ free' = free
    BY <1>5 DEF Checked
  <2>2. /\ pub'.pc = "select" /\ pub'.i = 0 /\ pub'.data = pub.data
        /\ pub'.tries = 1 /\ pub'.count = pub.count
    BY <1>2, <2>1 DEF Publishers
  <2>3. PubAt' /\ Filling'
    BY <1>2, <1>3, <1>4, <1>5, <2>2 DEF PubAt, Filling, One
  <2>4. PubStep({}) /\ {} \in SUBSET Active
    BY <1>1, <1>2, <2>2, <2>3, QuietStep
  <2>. QED BY <1>1, <2>1, <2>2, <2>3, <2>4, PubKeeps
<1>6. CASE ~pub.balanced /\ pub.count = 0
  <2>1. pub' = Publisher /\ free' = Append(FreeAfter({}), Filled(pub.data))
    BY <1>6 DEF Checked, GiveUp
  <2>2. PubAt' /\ pub'.pc \notin {"push", "post"} /\ ~Filling'
    BY <2>1, PubStarts
  <2>3. PubStep({}) /\ {} \in SUBSET Active
    BY <1>1, <1>2, <2>2, QuietStep
  <2>. QED BY <1>1, <2>1, <2>2, <2>3, PubGives
<1>7. CASE ~pub.balanced /\ pub.count # 0
  <2>1. pub' = [pub EXCEPT !.pc = "stamp"] /\ free' = free
    BY <1>7 DEF Checked
  <2>2. /\ pub'.pc = "stamp" /\ pub'.i = pub.i /\ pub'.data = pub.data
        /\ pub'.tries = pub.tries /\ pub'.count = pub.count /\ pub'.target = pub.target
    BY <1>2, <2>1 DEF Publishers
  <2>3. pub.target = None
    BY <1>1 DEF IInv, Places
  <2>4. PubAt' /\ Filling'
    <3>1. /\ Cardinality(Broadcast') + One(pub'.target # None) <= pub'.count
          /\ 1 <= pub'.count
      BY <1>3, <1>4, <1>7, <2>2, <2>3 DEF One
    <3>. QED BY <1>2, <1>3, <2>2, <3>1 DEF PubAt, Filling
  <2>5. PubStep({}) /\ {} \in SUBSET Active
    BY <1>1, <1>2, <2>2, <2>4, QuietStep
  <2>. QED BY <1>1, <2>1, <2>2, <2>4, <2>5, PubKeeps
<1>. QED BY <1>5, <1>6, <1>7

\* SelectBalancedSubscriber: what has been counted stays at least what there is.
LEMMA SelectCounts ==
    ASSUME IInv, HInv, pub.pc = "select", Broadcast' \subseteq Broadcast, pub'.data = pub.data,
           pub'.tries \in 0..2,
           \/ pub'.pc = "select" /\ pub'.i \in 0..N /\ pub'.count = pub.count
           \/ pub'.pc = "stamp" /\ pub'.i = pub.i /\ pub'.count = pub.count + 1
    PROVE  PubAt' /\ Filling /\ Filling'
<1>1. /\ PubAt /\ N \in Nat /\ pub.data \in Slots /\ pub.count \in 0..N /\ pub.count + 1 <= N
      /\ Cardinality(Broadcast) <= pub.count /\ pub.i \in 0..N
  BY PubFacts DEF PubAt
<1>2. /\ Cardinality(Broadcast') <= Cardinality(Broadcast) /\ Cardinality(Broadcast') \in Nat
      /\ Cardinality(Broadcast) \in Nat
  BY FewerBefore, BeforeFacts
<1>3. CASE pub'.pc = "select" /\ pub'.i \in 0..N /\ pub'.count = pub.count
  BY <1>1, <1>2, <1>3 DEF PubAt, Filling
<1>4. CASE pub'.pc = "stamp" /\ pub'.i = pub.i /\ pub'.count = pub.count + 1
  <2>1. Cardinality(Broadcast') + One(pub'.target # None) <= pub'.count /\ 1 <= pub'.count
    BY <1>1, <1>2, <1>4 DEF One
  <2>. QED BY <1>1, <1>4, <2>1 DEF PubAt, Filling
<1>. QED BY <1>3, <1>4

\* SelectBalancedSubscriber.
LEMMA SelectsSlot == ASSUME IInv, HInv, Select PROVE HInv'
<1> DEFINE m == members[((pub.base + pub.i) % N) + 1]
<1>1. /\ pub.pc = "select" /\ pub.i < N /\ UNCHANGED <<payload, seq, cursor, sub, aux, left>>
      /\ Filling /\ pub.pc \notin {"push", "post"} /\ FreeAfter({}) = free
      /\ IF m \in Dead
         THEN /\ pub' = [pub EXCEPT !.i = @ + 1] /\ free' = FreeAfter({m})
              /\ ctl' = Reclaimed({m}) /\ Reclaim({m})
         ELSE /\ UNCHANGED <<pool, ctl, members>>
              /\ pub' = IF m # None /\ QueueHasSpace(m)
                        THEN [pub EXCEPT !.pc = "stamp", !.target = m, !.count = @ + 1]
                        ELSE [pub EXCEPT !.i = @ + 1]
  BY ReclaimNobody DEF Select, Filling
<1> HIDE DEF m
<1>2. /\ left' \in [publishes : Nat, deaths : Nat, joins : Nat] /\ pub \in Publishers
      /\ N \in Nat /\ N > 0 /\ PubAt /\ pub.tries \in 0..2 /\ pub.i \in 0..N
      /\ Dead \in SUBSET Active /\ \A s \in Dead : ~sub[s].alive
  BY <1>1, PubFacts DEF PubAt
<1>3. ASSUME pub' = [pub EXCEPT !.i = @ + 1]
      PROVE  /\ pub'.pc = "select" /\ pub'.i \in 0..N /\ pub'.count = pub.count
             /\ pub'.data = pub.data /\ pub'.tries \in 0..2
  BY <1>1, <1>2, <1>3 DEF Publishers
<1>4. CASE m \in Dead
  <2>1. /\ pub'.pc = "select" /\ pub'.i \in 0..N /\ pub'.count = pub.count
        /\ pub'.data = pub.data /\ pub'.tries \in 0..2
        /\ free' = FreeAfter({m}) /\ ctl' = Reclaimed({m}) /\ Reclaim({m})
    BY <1>1, <1>3, <1>4
  <2>2. PICK D \in SUBSET Active : D = {m} /\ \A s \in D : ~sub[s].alive
    BY <1>2, <1>4
  <2>3. Scavenges(D)
    BY <1>1, <2>1, <2>2 DEF Scavenges
  <2>4. Broadcast' \subseteq Broadcast
    BY <2>3, ScavengesCells
  <2>5. PubAt' /\ Filling'
    BY <1>1, <2>1, <2>4, SelectCounts
  <2>6. PubStep(D)
    BY <1>2, <2>1, <2>3, <2>5, ScavengesStep
  <2>. QED BY <1>1, <2>1, <2>2, <2>5, <2>6, PubKeeps
<1>5. CASE m \notin Dead
  <2>1. Broadcast' = Broadcast /\ refcount' = refcount /\ free' = free /\ ctl' = ctl
    BY <1>1, <1>5 DEF Broadcast, pool
  <2>2. /\ \/ pub'.pc = "select" /\ pub'.i \in 0..N /\ pub'.count = pub.count
           \/ pub'.pc = "stamp" /\ pub'.i = pub.i /\ pub'.count = pub.count + 1
        /\ pub'.data = pub.data /\ pub'.tries \in 0..2
    <3>1. CASE m # None /\ QueueHasSpace(m)
      <4>1. pub' = [pub EXCEPT !.pc = "stamp", !.target = m, !.count = @ + 1]
        BY <1>1, <1>5, <3>1
      <4>. QED BY <1>2, <4>1 DEF Publishers
    <3>2. CASE ~(m # None /\ QueueHasSpace(m))
      <4>1. pub' = [pub EXCEPT !.i = @ + 1]
        BY <1>1, <1>5, <3>2
      <4>. QED BY <1>3, <4>1
    <3>. QED BY <3>1, <3>2
  <2>3. PubAt' /\ Filling'
    BY <1>1, <2>1, <2>2, SelectCounts
  <2>4. PubStep({}) /\ {} \in SUBSET Active
    BY <1>1, <1>2, <2>1, <2>2, <2>3, QuietStep
  <2>. QED BY <1>1, <2>1, <2>2, <2>3, <2>4, PubKeeps
<1>. QED BY <1>4, <1>5

\* ... and once more, or the publish fails.
LEMMA SelectsAgain == ASSUME IInv, HInv, SelectAgain PROVE HInv'
<1>1. /\ pub.pc = "select" /\ pub.i = N /\ UNCHANGED <<payload, seq, sub, aux, left>>
      /\ Filling /\ pub.pc \notin {"push", "post"} /\ FreeAfter({}) = free
  BY ReclaimNobody DEF SelectAgain, Filling
<1>2. /\ left' \in [publishes : Nat, deaths : Nat, joins : Nat] /\ pub \in Publishers
      /\ N \in Nat /\ Dead \in SUBSET Active /\ \A s \in Dead : ~sub[s].alive
  BY <1>1, PubFacts
<1>3. CASE pub.tries = 1
  <2>1. /\ pub' = [pub EXCEPT !.i = 0, !.tries = 2, !.base = cursor]
        /\ free' = FreeAfter(Dead) /\ ctl' = Reclaimed(Dead) /\ Reclaim(Dead)
    BY <1>3 DEF SelectAgain
  <2>2. /\ pub'.pc = "select" /\ pub'.i \in 0..N /\ pub'.count = pub.count
        /\ pub'.data = pub.data /\ pub'.tries \in 0..2
    BY <1>1, <1>2, <2>1 DEF Publishers
  <2>3. Scavenges(Dead)
    BY <1>1, <1>2, <2>1 DEF Scavenges
  <2>4. Broadcast' \subseteq Broadcast
    BY <1>2, <2>3, ScavengesCells
  <2>5. PubAt' /\ Filling'
    BY <1>1, <2>2, <2>4, SelectCounts
  <2>6. PubStep(Dead)
    BY <1>2, <2>2, <2>3, <2>5, ScavengesStep
  <2>. QED BY <1>1, <1>2, <2>1, <2>2, <2>5, <2>6, PubKeeps
<1>4. CASE pub.tries # 1
  <2>1. /\ pub' = Publisher /\ free' = Append(FreeAfter({}), Filled(pub.data))
        /\ UNCHANGED <<refcount, ctl>>
    BY <1>4 DEF SelectAgain, GiveUp
  <2>2. PubAt' /\ pub'.pc \notin {"push", "post"} /\ ~Filling'
    BY <2>1, PubStarts
  <2>3. PubStep({}) /\ {} \in SUBSET Active
    BY <1>1, <1>2, <2>1, <2>2, QuietStep
  <2>. QED BY <1>1, <2>1, <2>2, <2>3, PubGives
<1>. QED BY <1>3, <1>4

----------------------------------------------------------------------------
(* Joining and leaving.                                                       *)

\* A subscriber leaves: it is reclaimed as the dead are.
LEMMA LeavesSlot == ASSUME IInv, HInv, NEW s \in Subs, Leave(s) PROVE HInv'
<1>1. /\ Alive(s) /\ sub[s].pc = "idle" /\ pub.pc = "idle" /\ pub' = pub
      /\ ctl' = Reclaimed({s}) /\ Reclaim({s}) /\ free' = FreeAfter({s})
      /\ sub' = [sub EXCEPT ![s] = Left] /\ UNCHANGED <<payload, seq, aux>>
      /\ left.joins > 0 /\ left' = [left EXCEPT !.joins = @ - 1]
  BY DEF Leave, At, Use
<1>2. left' \in [publishes : Nat, deaths : Nat, joins : Nat]
  BY <1>1, PubFacts
<1>3. /\ DOMAIN sub = Subs /\ {s} \in SUBSET Active /\ s \in Active
      /\ ctl[s].active /\ sub[s].alive /\ ctl[s] \in Controls
  BY <1>1, ThreadFields DEF Active, Alive
<1>4. \A r \in Subs : IF r = s THEN sub'[r] = Left ELSE sub'[r] = sub[r]
  BY <1>1, <1>3
<1>5. /\ ctl'[s] = [ctl[s] EXCEPT !.active = FALSE, !.mode = "FULL", !.held = None,
                                  !.head = ctl[s].tail, !.ready = @ - QueueLen(s)]
      /\ \A r \in Subs : r # s => ctl'[r] = ctl[r]
  BY <1>1 DEF Reclaimed
<1>6. ~ctl'[s].active /\ ctl'[s].ring = ctl[s].ring
  BY <1>3, <1>5 DEF Controls
<1>7. PubAt'
  BY <1>1, PubFacts DEF PubAt
<1>8. PubStep({s})
  <2>1. refcount' = [x \in Slots |-> refcount[x] - Refs({s}, x)]
    BY <1>1 DEF Reclaim
  <2>2. \A r \in {s} : /\ ~ctl'[r].active /\ ctl'[r].ring = ctl[r].ring
                       /\ sub[r].alive /\ sub[r].pc = "idle" /\ sub'[r] = Left
    BY <1>1, <1>3, <1>4, <1>6
  <2>3. \A r \in Subs \ {s} : /\ SameCells(r) /\ ctl'[r].held = ctl[r].held
                              /\ sub'[r] = sub[r]
    BY <1>4, <1>5 DEF SameCells
  <2>. QED BY <1>1, <1>2, <1>7, <2>1, <2>2, <2>3 DEF PubStep, aux
<1>. QED BY <1>1, <1>3, <1>8, PubKeeps DEF Filling

----------------------------------------------------------------------------
(* The publisher pushes.                                                      *)

\* PostReady: the count goes up, and a subscriber that sleeps is woken.
LEMMA PostsQuietly == ASSUME IInv, HInv, PostReady PROVE HInv'
<1>1. /\ pub.pc = "post" /\ pub' = [pub EXCEPT !.pc = "push", !.i = @ + 1]
      /\ ctl' = [ctl EXCEPT ![Receiver].ready = @ + 1] /\ sub' = Woken
      /\ UNCHANGED <<refcount, payload, free, seq, orphans, lost, left>>
  BY DEF PostReady, pool, aux
<1>2. /\ pub \in Publishers /\ PubAt /\ pub.i \in 1..(N + 1) /\ N \in Nat
      /\ left \in [publishes : Nat, deaths : Nat, joins : Nat]
  BY <1>1, PubFacts DEF IInv, Places
<1>3. PICK r \in Subs : r = Receiver
  BY <1>1 DEF IInv, Places
<1>4. /\ pub'.pc = "push" /\ pub'.i = pub.i + 1 /\ pub'.target = pub.target
      /\ pub'.data = pub.data /\ pub'.tries = pub.tries /\ pub'.count = pub.count
  BY <1>1, <1>2 DEF Publishers
<1>5. ASSUME NEW s \in Subs
      PROVE  SameCells(s) /\ ctl'[s].held = ctl[s].held /\ ctl'[s].mode = ctl[s].mode
  <2>1. ctl[s] \in Controls /\ DOMAIN ctl = Subs
    BY ThreadFields
  <2>2. ctl'[s] = IF s = r THEN [ctl[s] EXCEPT !.ready = @ + 1] ELSE ctl[s]
    BY <1>1, <1>3, <2>1
  <2>. QED BY <2>1, <2>2 DEF Controls, SameCells
<1>6. ASSUME NEW s \in Subs
      PROVE  /\ sub'[s].alive = sub[s].alive /\ sub'[s].cur = sub[s].cur
             /\ sub'[s].desc = sub[s].desc /\ sub'[s].gone = sub[s].gone
             /\ sub'[s].peek = sub[s].peek
             /\ sub'[s].pc = sub[s].pc \/ (sub[s].pc = "asleep" /\ sub'[s].pc = "wait")
  <2>1. sub[s] \in Threads /\ DOMAIN sub = Subs
    BY ThreadFields
  <2>2. CASE s = r /\ sub[r].pc = "asleep"
    <3>1. sub'[s] = [sub[s] EXCEPT !.pc = "wait"]
      BY <1>1, <1>3, <2>1, <2>2 DEF Woken
    <3>. QED BY <2>1, <2>2, <3>1 DEF Threads
  <2>3. CASE ~(s = r /\ sub[r].pc = "asleep")
    <3>1. sub'[s] = sub[s]
      BY <1>1, <1>3, <2>1, <2>3 DEF Woken
    <3>. QED BY <3>1
  <2>. QED BY <2>2, <2>3
<1>7. Broadcast' = Broadcast
  BY <1>5, BroadcastFrame DEF SameCells
<1>8. \A s : Pending(s)' <=> Pending(s)
  BY <1>1, <1>2, <1>4, <1>7 DEF Pending
<1>9. \A x \in Slots : Arriving(x)' = Arriving(x) /\ WithPub(x)' = WithPub(x)
  BY <1>1, <1>4, <1>8 DEF Arriving, WithPub, Filling
<1>10. PubAt'
  BY <1>1, <1>2, <1>4 DEF PubAt
<1>11. ASSUME NEW s \in Subs
       PROVE  SameHands(s) /\ SameBack(s) /\ Hands(s)' /\ IsDesc(sub'[s].peek)
  <2>1. (Alive(s)' <=> Alive(s)) /\ ctl'[s].active = ctl[s].active
    BY <1>5, <1>6 DEF Alive, SameCells
  <2>2. Hands(s) /\ IsDesc(sub[s].peek)
    BY DEF HInv, SlotTypes
  <2>3. SameHands(s) /\ SameBack(s)
    BY <1>5, <1>6, <2>1 DEF SameHands, SameBack, Returning
  <2>4. Hands(s)'
    BY <1>5, <1>6, <2>1, <2>2 DEF Hands
  <2>. QED BY <1>6, <2>2, <2>3, <2>4
<1>12. ~Filling'
  BY <1>4 DEF Filling
<1>. QED BY <1>1, <1>2, <1>4, <1>5, <1>9, <1>10, <1>11, <1>12, Quiet

\* The second pass passes over a subscriber, or has come to the end of the list.
LEMMA PassesQuietly ==
    ASSUME IInv, HInv, pub.pc = "push",
           \/ pub' = Publisher
           \/ pub' = [pub EXCEPT !.i = @ + 1] /\ pub.i \in 1..(N + 1),
           \A s \in Subs : Pending(s)' <=> Pending(s),
           pub' = Publisher => \A s \in Subs : ~Pending(s),
           UNCHANGED <<refcount, payload, free, seq, ctl, sub, orphans, lost, left>>
    PROVE  HInv'
<1>1. /\ pub \in Publishers /\ PubAt /\ N \in Nat /\ pub.data \in Slots
      /\ left \in [publishes : Nat, deaths : Nat, joins : Nat]
  BY PubFacts DEF PubAt
<1>2. ASSUME pub' = [pub EXCEPT !.i = @ + 1]
      PROVE  /\ pub'.pc = "push" /\ pub'.i = pub.i + 1 /\ pub'.data = pub.data
             /\ pub'.tries = pub.tries /\ pub'.count = pub.count
  BY <1>1, <1>2 DEF Publishers
<1>3. PubAt'
  <2>1. CASE pub' = Publisher
    BY <2>1, PubStarts
  <2>2. CASE pub' = [pub EXCEPT !.i = @ + 1] /\ pub.i \in 1..(N + 1)
    BY <1>1, <1>2, <2>2 DEF PubAt
  <2>. QED BY <2>1, <2>2
<1>4. \A x \in Slots : Arriving(x)' = Arriving(x)
  <2>1. CASE pub' = Publisher
    BY <2>1 DEF Arriving
  <2>2. CASE pub' = [pub EXCEPT !.i = @ + 1]
    BY <1>2, <2>2 DEF Arriving
  <2>. QED BY <2>1, <2>2
<1>5. ~Filling /\ ~Filling' /\ (pub'.pc \in {"push", "post"} => pub'.data = pub.data)
  BY <1>2 DEF Filling, Publisher
<1>6. ASSUME NEW s \in Subs
      PROVE  /\ SameCells(s) /\ SameHands(s) /\ SameBack(s) /\ Hands(s)' /\ IsDesc(sub'[s].peek)
  <2>1. Hands(s) /\ IsDesc(sub[s].peek) /\ (Alive(s)' <=> Alive(s))
    BY DEF HInv, SlotTypes, Alive
  <2>. QED BY <2>1 DEF SameCells, SameHands, SameBack, Hands, Returning
<1>. QED BY <1>1, <1>3, <1>4, <1>5, <1>6, Quiet DEF WithPub

\* Entry e is written at the tail of a ring that has room, and the tail moves on.
PushedTo(s, e) ==
    /\ ctl[s].active /\ ctl'[s].active = ctl[s].active
    /\ After(ctl[s].tail) # ctl[s].head /\ ctl'[s].head = ctl[s].head
    /\ ctl'[s].tail = After(ctl[s].tail)
    /\ ctl'[s].ring = [ctl[s].ring EXCEPT ![ctl[s].tail] = e]
    /\ \A r \in Subs : r # s => SameCells(r)

\* ... so that the ring gains that cell.
LEMMA RingGains ==
    ASSUME IInv, NEW s \in Subs, NEW e, PushedTo(s, e)
    PROVE  /\ UsedCells(s)' = UsedCells(s) \cup {ctl[s].tail} /\ ctl[s].tail \notin UsedCells(s)
           /\ \A r \in Subs : r # s => UsedCells(r)' = UsedCells(r)
           /\ ctl'[s].ring[ctl[s].tail] = e
           /\ \A k \in 0..(Cap - 1) : k # ctl[s].tail => ctl'[s].ring[k] = ctl[s].ring[k]
           /\ \A x : IF e.slot = x
                     THEN /\ <<s, ctl[s].tail>> \notin Rings(x)
                          /\ Rings(x)' = Rings(x) \cup {<<s, ctl[s].tail>>}
                     ELSE Rings(x)' = Rings(x)
<1> USE DEF PushedTo
<1>1. PICK h \in 0..(Cap - 1) : h = ctl[s].head
  BY ThreadFields
<1>2. PICK t \in 0..(Cap - 1) : t = ctl[s].tail
  BY ThreadFields
<1>3. t \notin CellsOf(h, t) /\ CellsOf(h, After(t)) = CellsOf(h, t) \cup {t}
  BY <1>1, <1>2, CellFacts
<1>4. UsedCells(s) = CellsOf(h, t) /\ UsedCells(s) \subseteq 0..(Cap - 1)
  BY <1>1, <1>2, ThreadFields
<1>5. UsedCells(s)' = CellsOf(h, After(t))
  BY <1>1, <1>2 DEF UsedCells, CellsOf, QueueLen, Cell, Used
<1>6. \A r \in Subs : r # s => UsedCells(r)' = UsedCells(r)
  BY UsedCellsFrame
<1>7. Active' = Active /\ s \in Active
  BY DEF Active, SameCells
<1>8. /\ ctl'[s].ring[t] = e
      /\ \A k \in 0..(Cap - 1) : k # t => ctl'[s].ring[k] = ctl[s].ring[k]
  <2>1. ctl[s] \in Controls
    BY ThreadFields
  <2>2. ctl[s].ring \in [0..(Cap - 1) -> Cells]
    BY <2>1 DEF Controls
  <2>. QED BY <1>2, <2>2
<1>9. ASSUME NEW x
      PROVE  IF e.slot = x
             THEN <<s, t>> \notin Rings(x) /\ Rings(x)' = Rings(x) \cup {<<s, t>>}
             ELSE Rings(x)' = Rings(x)
  <2>1. /\ Rings(x) = {p \in Active \X (0..(Cap - 1)) :
                          p[2] \in UsedCells(p[1]) /\ ctl[p[1]].ring[p[2]].slot = x}
        /\ Rings(x)' = {p \in Active \X (0..(Cap - 1)) :
                          p[2] \in UsedCells(p[1])' /\ ctl'[p[1]].ring[p[2]].slot = x}
    BY <1>7 DEF Rings, InRings
  <2>2. \A r \in Active : r # s => ctl'[r].ring = ctl[r].ring
    BY DEF Active, SameCells
  <2>3. ASSUME NEW r \in Active, NEW k \in 0..(Cap - 1)
        PROVE  /\ k \in UsedCells(r)' <=> k \in UsedCells(r) \/ (r = s /\ k = t)
               /\ ~(r = s /\ k = t) => ctl'[r].ring[k] = ctl[r].ring[k]
    <3>1. CASE r = s
      BY ZenonT(60), <1>3, <1>4, <1>5, <1>8, <3>1
    <3>2. CASE r # s
      BY <1>6, <2>2, <3>2 DEF Active
    <3>. QED BY <3>1, <3>2
  <2>4. <<s, t>> \in Active \X (0..(Cap - 1)) /\ <<s, t>> \notin Rings(x)
        /\ (<<s, t>> \in Rings(x)' <=> e.slot = x)
    BY <1>3, <1>4, <1>5, <1>7, <1>8, <2>1
  <2>5. ASSUME NEW p \in Active \X (0..(Cap - 1)), p # <<s, t>>
        PROVE  p \in Rings(x)' <=> p \in Rings(x)
    <3>1. PICK r \in Active, k \in 0..(Cap - 1) : p = <<r, k>>
      OBVIOUS
    <3>2. p[1] = r /\ p[2] = k /\ ~(r = s /\ k = t)
      BY <2>5, <3>1
    <3>. QED BY <2>1, <2>3, <3>1, <3>2
  <2>6. Rings(x) \subseteq Active \X (0..(Cap - 1)) /\ Rings(x)' \subseteq Active \X (0..(Cap - 1))
    BY <2>1
  <2> HIDE <2>1
  <2>. QED BY <2>4, <2>5, <2>6
<1>. QED BY <1>2, <1>3, <1>4, <1>5, <1>6, <1>8, <1>9

\* PushDescriptor: a push to come becomes an entry of a ring.
LEMMA PushesSlot ==
    ASSUME IInv, HInv, pub.pc = "push", NEW r \in Subs, r = Receiver, Pending(r),
           pub.i <= N => r \in Broadcast, pub.i <= N + 1,
           pub' = [pub EXCEPT !.pc = "post"],
           ctl' = [ctl EXCEPT ![r].ring[ctl[r].tail] = [slot |-> pub.data, seq |-> seq],
                              ![r].tail = (@ + 1) % Cap],
           UNCHANGED <<refcount, payload, free, seq, sub, orphans, lost, left>>
    PROVE  HInv'
<1> DEFINE e == [slot |-> pub.data, seq |-> seq]
<1>1. /\ pub \in Publishers /\ PubAt /\ N \in Nat /\ pub.data \in Slots /\ None \notin Subs
      /\ left \in [publishes : Nat, deaths : Nat, joins : Nat] /\ pub.i \in Nat
      /\ payload[pub.data] = seq /\ pub.i \in 1..(N + 1)
  <2>1. PubAt /\ pub \in Publishers /\ N \in Nat /\ None \notin Subs
        /\ left \in [publishes : Nat, deaths : Nat, joins : Nat]
    BY PubFacts, SharedAssumption
  <2>2. pub.data \in Slots /\ pub.i \in 1..(N + 2) /\ payload[pub.data] = seq
    BY <2>1 DEF PubAt, HInv, Payloads
  <2>. QED BY <2>1, <2>2
<1>2. /\ pub'.pc = "post" /\ pub'.i = pub.i /\ pub'.target = pub.target
      /\ pub'.data = pub.data /\ pub'.tries = pub.tries /\ pub'.count = pub.count
  BY <1>1 DEF Publishers
<1>3. /\ ctl[r] \in Controls /\ DOMAIN ctl = Subs /\ ctl[r].active
      /\ ctl[r].tail \in 0..(Cap - 1)
  <2>1. ctl[r].active
    <3>1. r \in Broadcast \/ r = pub.target
      BY DEF Pending
    <3>. QED BY <1>1, <3>1 DEF IInv, Members, Balanced, Broadcast
  <2>. QED BY <2>1, ThreadFields
<1>4. /\ ctl'[r].head = ctl[r].head /\ ctl'[r].tail = After(ctl[r].tail)
      /\ ctl'[r].active = ctl[r].active /\ ctl'[r].mode = ctl[r].mode
      /\ ctl'[r].held = ctl[r].held
      /\ ctl'[r].ring = [ctl[r].ring EXCEPT ![ctl[r].tail] = e]
      /\ \A s \in Subs : s # r => ctl'[s] = ctl[s]
  BY <1>3 DEF Controls, After
<1>5. After(ctl[r].tail) # ctl[r].head
  <2>1. QueueHasSpace(r)
    BY DEF IInv, RoomKept, Looked, Pending, Broadcast
  <2>. QED BY <2>1 DEF QueueHasSpace, After
<1>6. \A s \in Subs : s # r => SameCells(s)
  BY <1>4 DEF SameCells
<1>7. /\ UsedCells(r)' = UsedCells(r) \cup {ctl[r].tail} /\ ctl[r].tail \notin UsedCells(r)
      /\ \A s \in Subs : s # r => UsedCells(s)' = UsedCells(s)
      /\ ctl'[r].ring[ctl[r].tail] = e
      /\ \A k \in 0..(Cap - 1) : k # ctl[r].tail => ctl'[r].ring[k] = ctl[r].ring[k]
      /\ \A x : IF e.slot = x
                THEN /\ <<r, ctl[r].tail>> \notin Rings(x)
                     /\ Rings(x)' = Rings(x) \cup {<<r, ctl[r].tail>>}
                ELSE Rings(x)' = Rings(x)
  <2> HIDE DEF e
  <2>1. PushedTo(r, e)
    BY <1>3, <1>4, <1>5, <1>6 DEF PushedTo
  <2>. QED BY ONLY IInv, r \in Subs, <2>1, RingGains
<1>8. IsDesc(e) /\ e.slot = pub.data /\ e.seq = seq
  BY <1>1 DEF IsDesc
<1> HIDE DEF e
<1>9. Broadcast' = Broadcast
  BY <1>4 DEF Broadcast
<1>10. ~Pending(r)' /\ \A s \in Subs : s # r => (Pending(s)' <=> Pending(s))
  <2>1. pub.target # None => pub.target \notin Broadcast
    BY DEF IInv, Members, Balanced, Broadcast
  <2>. QED BY <1>1, <1>2, <1>9, <2>1 DEF Pending, Receiver, Subs
<1>11. \A s \in Subs : /\ SameHands(s) /\ SameBack(s) /\ (Alive(s)' <=> Alive(s))
                       /\ ctl'[s].held = ctl[s].held
  BY <1>4 DEF SameHands, SameBack, Alive, Returning
<1>12. ASSUME NEW x \in Slots
       PROVE  /\ Current(x)' = Current(x) /\ Handed(x)' = Handed(x)
              /\ HeldByDead(x)' = HeldByDead(x) /\ WithPub(x)' = WithPub(x)
              /\ IF pub.data = x
                 THEN r \in Arriving(x) /\ Arriving(x)' = Arriving(x) \ {r}
                 ELSE Arriving(x)' = Arriving(x)
  <2>1. /\ Current(x)' = Current(x) /\ Handed(x)' = Handed(x)
        /\ HeldByDead(x)' = HeldByDead(x)
    BY <1>11, HandsFrame
  <2>2. WithPub(x)' = WithPub(x)
    BY <1>2 DEF WithPub, Filling
  <2>3. Arriving(x)' = {s \in Subs : pub.data = x /\ s # r /\ Pending(s)}
    BY <1>2, <1>10 DEF Arriving
  <2>. QED BY <2>1, <2>2, <2>3 DEF Arriving
<1>13. RefsAccounted'
  <2> SUFFICES ASSUME NEW x \in Slots PROVE refcount'[x] = References(x)'
    BY DEF RefsAccounted
  <2>1. refcount[x] = References(x) /\ orphans[x] \in Nat
    BY DEF HInv, RefsAccounted, SlotTypes
  <2>2. CASE pub.data = x
    <3>1. Cardinality(Arriving(x)') = Cardinality(Arriving(x)) - 1
      BY <1>12, <2>2, RefsSubsets, OneMore
    <3>2. Cardinality(Rings(x)') = Cardinality(Rings(x)) + 1
      BY <1>7, <1>8, <2>2, RefsSubsets, OneMore
    <3>3. References(x)' = References(x)
      BY <1>12, <2>1, <3>1, <3>2, RefsSum, RefsSumNext
    <3>. QED BY <2>1, <3>3
  <2>3. CASE pub.data # x
    <3>1. Rings(x)' = Rings(x)
      BY <1>7, <1>8, <2>3
    <3>. QED BY <1>12, <2>1, <2>3, <3>1 DEF References, Rings, Active
  <2>. QED BY <2>2, <2>3
<1>14. FreeQueue' /\ \A x \in Slots : OnePlace(x)'
  BY <1>11, <1>12, FreeQueueFrame, PlacesFrame DEF HInv
<1>15. SlotTypes'
  <2>1. ASSUME NEW s \in Subs
        PROVE  /\ \A k \in 0..(Cap - 1) : IsDesc(ctl'[s].ring[k])
               /\ IsDesc(sub'[s].peek) /\ IsDesc(sub'[s].desc) /\ IsDesc(sub'[s].cur)
    <3>1. /\ \A k \in 0..(Cap - 1) : IsDesc(ctl[s].ring[k])
          /\ IsDesc(sub[s].peek) /\ IsDesc(sub[s].desc) /\ IsDesc(sub[s].cur)
      BY DEF HInv, SlotTypes
    <3>2. CASE s = r
      BY <1>7, <1>8, <3>1, <3>2
    <3>3. CASE s # r
      BY <1>4, <3>1, <3>3
    <3>. QED BY <3>2, <3>3
  <2>2. /\ refcount' \in [Slots -> Nat] /\ payload' \in [Slots -> Nat]
        /\ orphans' \in [Slots -> Nat] /\ lost' \subseteq Slots
        /\ left' \in [publishes : Nat, deaths : Nat, joins : Nat]
    BY <1>1 DEF HInv, SlotTypes
  <2>. QED BY <2>1, <2>2 DEF SlotTypes, IsDesc
<1>16. PubAt'
  BY <1>1, <1>2 DEF PubAt
<1>17. \A s \in Subs : Hands(s)'
  <2> SUFFICES ASSUME NEW s \in Subs PROVE Hands(s)'
    OBVIOUS
  <2>1. Hands(s)
    BY DEF HInv
  <2>. QED BY <1>11, <2>1 DEF Hands
<1>18. Payloads'
  <2>1. ASSUME NEW s \in Subs, Alive(s)'
        PROVE  /\ sub'[s].cur # NoDesc => IsMessage(sub[s].cur)'
               /\ sub'[s].desc # NoDesc => IsMessage(sub[s].desc)'
    <3>1. Alive(s)
      BY <1>11, <2>1
    <3>. QED BY <3>1 DEF HInv, Payloads, IsMessage
  <2>2. ASSUME NEW s \in Subs, ctl'[s].active, NEW k \in UsedCells(s)'
        PROVE  IsMessage(ctl[s].ring[k])'
    <3>1. CASE s = r /\ k = ctl[r].tail
      BY <1>1, <1>7, <1>8, <3>1 DEF IsMessage
    <3>2. CASE ~(s = r /\ k = ctl[r].tail)
      <4>1. k \in UsedCells(s) /\ k \in 0..(Cap - 1) /\ ctl[s].active
        BY <1>4, <1>7, <2>2, <3>2, ThreadFields
      <4>2. ctl'[s].ring[k] = ctl[s].ring[k]
        BY ZenonT(60), <1>4, <1>7, <3>2, <4>1
      <4>3. IsMessage(ctl[s].ring[k])
        BY <4>1 DEF HInv, Payloads
      <4>. QED BY <4>2, <4>3 DEF IsMessage
    <3>. QED BY <3>1, <3>2
  <2>3. ~Filling' /\ payload'[pub'.data] = seq'
    BY <1>1, <1>2 DEF Filling
  <2>. QED BY <2>1, <2>2, <2>3 DEF Payloads
<1>. QED BY <1>13, <1>14, <1>15, <1>16, <1>17, <1>18 DEF HInv

\* The second pass.
LEMMA PushHolds == ASSUME IInv, HInv, Push PROVE HInv'
<1>1. /\ pub \in Publishers /\ pub.pc = "push" /\ pub.i \in Nat /\ pub.i >= 1 /\ N \in Nat
      /\ None \notin Subs /\ pub.target \in Subs \cup {None}
      /\ UNCHANGED <<refcount, payload, free, seq, sub, orphans, lost, left>>
  BY SharedAssumption, PublisherFields DEF IInv, RingTypes, Places, Push, pool, balance, aux
<1>2. pub.target # None => pub.target \notin Broadcast
  BY DEF IInv, Members, Balanced, Broadcast
<1>3. CASE pub.i > N + 1 \/ (pub.i = N + 1 /\ pub.target = None)
  <2>1. pub' = Publisher /\ ctl' = ctl
    BY <1>1, <1>3 DEF Push
  <2>2. \A s : ~Pending(s)'
    BY <2>1 DEF Pending, Publisher
  <2>3. \A s \in Subs : ~Pending(s)
    BY <1>1, <1>2, <1>3 DEF Pending, Broadcast, Subs
  <2>. QED BY <1>1, <2>1, <2>2, <2>3, PassesQuietly
<1>4. CASE pub.i <= N /\ pub.i \notin Broadcast
  <2>1. pub' = [pub EXCEPT !.i = @ + 1] /\ ctl' = ctl
    BY <1>1, <1>4 DEF Push
  <2>2. /\ pub'.pc = "push" /\ pub'.i = pub.i + 1 /\ pub'.target = pub.target
        /\ pub' # Publisher
    BY <1>1, <2>1 DEF Publishers, Publisher
  <2>3. Broadcast' = Broadcast
    BY <2>1 DEF Broadcast
  <2>4. \A s \in Subs : Pending(s)' <=> Pending(s)
    BY <1>1, <1>4, <2>2, <2>3 DEF Pending, Subs
  <2>5. pub.i \in 1..(N + 1)
    BY <1>1, <1>4
  <2>. QED BY <1>1, <2>1, <2>2, <2>4, <2>5, PassesQuietly
<1>5. CASE /\ ~(pub.i > N + 1 \/ (pub.i = N + 1 /\ pub.target = None))
           /\ ~(pub.i <= N /\ pub.i \notin Broadcast)
  <2>1. PICK r \in Subs : r = Receiver
    BY <1>1, <1>5 DEF Receiver, Subs
  <2>2. Pending(r) /\ (pub.i <= N => r \in Broadcast) /\ pub.i <= N + 1
    BY <1>1, <1>5, <2>1 DEF Receiver, Pending, Subs
  <2>3. /\ pub' = [pub EXCEPT !.pc = "post"]
        /\ ctl' = [ctl EXCEPT ![r].ring[ctl[r].tail] = [slot |-> pub.data, seq |-> seq],
                              ![r].tail = (@ + 1) % Cap]
    BY <1>1, <1>5, <2>1 DEF Push
  <2>. QED BY <1>1, <2>1, <2>2, <2>3, PushesSlot
<1>. QED BY <1>3, <1>4, <1>5

\* The slot is stamped: its count is that of the pushes to come, and of the subscribers that
\* have been counted and reclaimed since.
LEMMA StampsSlot == ASSUME IInv, HInv, Stamp PROVE HInv'
<1>1. /\ pub.pc = "stamp" /\ pub' = [pub EXCEPT !.pc = "push", !.i = 1] /\ seq' = seq + 1
      /\ refcount' = [refcount EXCEPT ![pub.data] = pub.count]
      /\ orphans' = [orphans EXCEPT ![pub.data] =
                        @ + pub.count - Cardinality(Broadcast) - One(pub.target # None)]
      /\ UNCHANGED <<free, payload, ctl, sub, lost, left>>
  BY DEF Stamp
<1>2. /\ pub \in Publishers /\ PubAt /\ N \in Nat /\ None \notin Subs /\ None \notin Slots
      /\ left \in [publishes : Nat, deaths : Nat, joins : Nat]
  BY PubFacts, SharedAssumption
<1>3. PICK x \in Slots : x = pub.data /\ WithPub(x)
  BY <1>1, <1>2 DEF PubAt, WithPub, Filling
<1>4. PICK n \in Nat : n = pub.count /\ n \in 0..N /\ 1 <= n
  BY <1>1, <1>2 DEF PubAt
<1>5. PICK b \in Nat : b = Cardinality(Broadcast)
  BY BeforeFacts
<1>6. PICK u \in {0, 1} : u = One(pub.target # None) /\ b + u <= n
  BY <1>1, <1>2, <1>4, <1>5 DEF PubAt, One
<1>7. /\ pub'.pc = "push" /\ pub'.i = 1 /\ pub'.target = pub.target
      /\ pub'.data = pub.data /\ pub'.tries = pub.tries /\ pub'.count = pub.count
  BY <1>1, <1>2 DEF Publishers
<1>8. refcount \in [Slots -> Nat] /\ orphans \in [Slots -> Nat] /\ payload[x] = seq + 1
  BY <1>3 DEF HInv, SlotTypes, Payloads, WithPub
<1>9. refcount[x] = 0 /\ ~Busy(x)
  <2>1. OnePlace(x)
    BY DEF HInv
  <2>. QED BY <1>3, <1>8, <2>1 DEF OnePlace, Busy
<1>10. /\ Arriving(x) = {} /\ Rings(x) = {} /\ Current(x) = {} /\ Handed(x) = {}
       /\ HeldByDead(x) = {}
  BY <1>8, <1>9, NobodyHas DEF HInv
<1>11. orphans[x] = 0
  <2>1. References(x) = 0
    BY <1>9 DEF HInv, RefsAccounted
  <2>2. /\ Cardinality(Arriving(x)) = 0 /\ Cardinality(Rings(x)) = 0
        /\ Cardinality(Current(x)) = 0 /\ Cardinality(Handed(x)) = 0
        /\ Cardinality(HeldByDead(x)) = 0
    BY <1>10, FS_EmptySet
  <2>. QED BY <1>8, <2>1, <2>2, RefsSum
<1>12. /\ refcount' \in [Slots -> Nat] /\ orphans' \in [Slots -> Nat]
       /\ refcount'[x] = n /\ orphans'[x] = n - b - u
       /\ \A y \in Slots : y # x => refcount'[y] = refcount[y] /\ orphans'[y] = orphans[y]
  <2>1. /\ refcount' = [refcount EXCEPT ![x] = n]
        /\ orphans' = [orphans EXCEPT ![x] = orphans[x] + n - b - u]
    BY <1>1, <1>3, <1>4, <1>5, <1>6
  <2>2. orphans[x] + n - b - u = n - b - u /\ n - b - u \in Nat
    BY <1>4, <1>5, <1>6, <1>11
  <2>. QED BY <1>8, <2>1, <2>2
<1>13. Broadcast' = Broadcast
  BY <1>1 DEF Broadcast
<1>14. \A s \in Subs : Pending(s)' <=> s \in Broadcast \/ s = pub.target
  <2>1. \A s \in Subs : s >= 1
    BY DEF Subs
  <2>. QED BY <1>2, <1>7, <1>13, <2>1 DEF Pending
<1>15. Cardinality(Arriving(x)') = b + u
  <2>1. Arriving(x)' = {s \in Subs : s \in Broadcast \/ s = pub.target}
    BY <1>3, <1>7, <1>14 DEF Arriving
  <2>2. CASE pub.target = None
    <3>1. Arriving(x)' = Broadcast
      BY <1>2, <2>1, <2>2 DEF Broadcast
    <3>. QED BY <1>5, <1>6, <2>2, <3>1 DEF One
  <2>3. CASE pub.target # None
    <3>1. pub.target \in Subs /\ pub.target \notin Broadcast
      BY <1>2, <2>3 DEF IInv, Members, Balanced, Broadcast, Publishers
    <3>2. Arriving(x)' = Broadcast \cup {pub.target} /\ Broadcast \in SUBSET Subs
      BY <2>1, <3>1 DEF Broadcast
    <3>3. Cardinality(Broadcast \cup {pub.target}) = Cardinality(Broadcast) + 1
      BY <3>1, <3>2, OneMore
    <3>. QED BY <1>5, <1>6, <2>3, <3>2, <3>3 DEF One
  <2>. QED BY <2>2, <2>3
<1>16. ASSUME NEW s \in Subs
       PROVE  /\ SameCells(s) /\ SameHands(s) /\ SameBack(s) /\ (Alive(s)' <=> Alive(s))
              /\ Hands(s)' /\ UsedCells(s)' = UsedCells(s)
  <2>1. Hands(s) /\ (Alive(s)' <=> Alive(s))
    BY <1>1 DEF HInv, Alive
  <2>2. SameCells(s) /\ SameHands(s) /\ SameBack(s)
    BY <1>1, <2>1 DEF SameCells, SameHands, SameBack, Returning
  <2>. QED BY <1>1, <2>1, <2>2, UsedCellsFrame DEF Hands
<1>17. ASSUME NEW y \in Slots
       PROVE  /\ Rings(y)' = Rings(y) /\ Current(y)' = Current(y) /\ Handed(y)' = Handed(y)
              /\ HeldByDead(y)' = HeldByDead(y)
  BY <1>16, RingsFrame, HandsFrame
<1>18. RefsAccounted'
  <2> SUFFICES ASSUME NEW y \in Slots PROVE refcount'[y] = References(y)'
    BY DEF RefsAccounted
  <2>1. CASE y = x
    <3>1. Cardinality({}) = 0
      BY FS_EmptySet
    <3>2. /\ Cardinality(Rings(x)') = 0 /\ Cardinality(Current(x)') = 0
          /\ Cardinality(Handed(x)') = 0 /\ Cardinality(HeldByDead(x)') = 0
      BY <1>10, <1>17, <3>1
    <3>3. References(x)' = n
      BY <1>12, <1>15, <3>2, RefsSumNext
    <3>. QED BY <1>12, <2>1, <3>3
  <2>2. CASE y # x
    <3>1. Arriving(y)' = {} /\ Arriving(y) = {}
      BY <1>3, <1>7, <2>2 DEF Arriving
    <3>2. refcount[y] = References(y)
      BY DEF HInv, RefsAccounted
    <3>. QED BY <1>12, <1>17, <2>2, <3>1, <3>2 DEF References, Rings, Active
  <2>. QED BY <2>1, <2>2
<1>19. FreeQueue' /\ \A y \in Slots : OnePlace(y)'
  <2>1. \A y \in Slots : Busy(y)' <=> Busy(y) \/ y = x
    BY <1>4, <1>12 DEF Busy
  <2>2. \A y \in Slots : ~WithPub(y)' /\ (WithPub(y) => y = x)
    BY <1>3, <1>7 DEF WithPub, Filling
  <2>3. Distinct(free') /\ free' = free
    BY <1>1 DEF HInv, FreeQueue
  <2>4. Moved({}, {}, {}, {x})
    BY <1>3, <2>1, <2>2, <2>3 DEF Moved
  <2>. QED BY <1>1, <1>16, <2>4, SlotsMove
<1>20. SlotTypes'
  BY <1>1, <1>2, <1>12 DEF HInv, SlotTypes, IsDesc
<1>21. PubAt'
  BY <1>1, <1>2, <1>7 DEF PubAt
<1>22. Payloads'
  <2>1. ASSUME NEW s \in Subs, Alive(s)'
        PROVE  /\ sub'[s].cur # NoDesc => IsMessage(sub[s].cur)'
               /\ sub'[s].desc # NoDesc => IsMessage(sub[s].desc)'
    <3>1. Alive(s)
      BY <1>16, <2>1
    <3>. QED BY <1>1, <3>1 DEF HInv, Payloads, IsMessage
  <2>2. ASSUME NEW s \in Subs, ctl'[s].active, NEW k \in UsedCells(s)'
        PROVE  IsMessage(ctl[s].ring[k])'
    BY <1>1, <1>16, <2>2 DEF HInv, Payloads, IsMessage
  <2>3. ~Filling' /\ payload'[pub'.data] = seq'
    BY <1>1, <1>3, <1>7, <1>8 DEF Filling
  <2>. QED BY <2>1, <2>2, <2>3 DEF Payloads
<1>. QED BY <1>16, <1>18, <1>19, <1>20, <1>21, <1>22 DEF HInv

\* DropDescriptor: the oldest descriptor of the ring goes, and its slot with the last one.
LEMMA DropsSlot == ASSUME IInv, HInv, DropOld PROVE HInv'
<1>1. /\ pub.pc = "drop" /\ Count /\ UNCHANGED <<payload, seq, sub, orphans, lost, left>>
      /\ pub \in Publishers /\ N \in Nat /\ pub.i \in 1..N
      /\ left \in [publishes : Nat, deaths : Nat, joins : Nat]
  <2>1. pub.pc = "drop" /\ Count /\ UNCHANGED <<payload, seq, sub, orphans, lost, left>>
    BY DEF DropOld, aux
  <2>. QED BY <2>1, PubFacts DEF PubAt
<1>2. /\ pub'.pc = "check" /\ pub'.i = pub.i + 1 /\ pub'.data = pub.data
      /\ pub'.tries = pub.tries /\ pub'.count = pub.count + 1
      /\ pub'.balanced = pub.balanced
  BY <1>1 DEF Count, Publishers
<1>3. PICK i \in Subs : i = pub.i /\ ctl[i].active
  BY <1>1 DEF IInv, Dropping, Broadcast
<1>4. CASE QueueLen(i) = 0
  <2>1. UNCHANGED <<refcount, free, ctl>>
    BY <1>3, <1>4 DEF DropOld, pool
  <2>2. Broadcast' = Broadcast /\ UNCHANGED aux
    BY <2>1 DEF Broadcast, DropOld
  <2>3. PubAt' /\ Filling /\ Filling'
    BY <1>1, <1>2, <2>2, PubCounts
  <2>4. PubStep({}) /\ {} \in SUBSET Active
    BY <1>1, <1>2, <2>1, <2>2, <2>3, QuietStep
  <2>. QED BY <1>1, <1>2, <2>1, <2>3, <2>4, ReclaimNobody, PubKeeps
<1>5. CASE QueueLen(i) # 0
  <2>1. PICK h \in 0..(Cap - 1) : h = ctl[i].head
    BY ThreadFields
  <2>2. PICK t \in 0..(Cap - 1) : t = ctl[i].tail
    BY ThreadFields
  <2>3. h # t
    <3>1. QueueLen(i) = Used(h, t)
      BY <2>1, <2>2 DEF QueueLen, Used
    <3>2. Used(h, t) = 0 <=> h = t
      BY ZenonT(60), RingFacts
    <3>. QED BY <1>5, <3>1, <3>2
  <2>4. PICK x : x = ctl[i].ring[h].slot
    OBVIOUS
  <2>5. /\ ctl' = [ctl EXCEPT ![i].head = (@ + 1) % Cap, ![i].ready = Consumed(ctl[i]),
                              ![i].dropped = @ + 1]
        /\ refcount' = [refcount EXCEPT ![x] = @ - 1]
        /\ free' = IF refcount[x] = 1 THEN Append(free, Filled(x)) ELSE free
    BY <1>3, <1>5, <2>1, <2>4 DEF DropOld
  <2>6. /\ ctl'[i].head = After(h) /\ ctl'[i].tail = t /\ ctl'[i].ring = ctl[i].ring
        /\ ctl'[i].active = ctl[i].active /\ ctl'[i].mode = ctl[i].mode
        /\ ctl'[i].held = ctl[i].held
        /\ \A s \in Subs : s # i => ctl'[s] = ctl[s]
    <3>1. ctl[i] \in Controls /\ DOMAIN ctl = Subs
      BY ThreadFields
    <3>. QED BY <2>1, <2>2, <2>5, <3>1 DEF Controls, After
  <2>7. /\ \A r \in Subs : UsedCells(r)' \subseteq UsedCells(r)
        /\ h \in UsedCells(i)
        /\ \A y : IF x = y
                  THEN <<i, h>> \in Rings(y) /\ Rings(y)' = Rings(y) \ {<<i, h>>}
                  ELSE Rings(y)' = Rings(y)
    <3>1. \A s \in Subs : s # i => SameCells(s)
      BY <2>6 DEF SameCells
    <3>. QED BY ZenonT(60), <1>3, <2>1, <2>2, <2>3, <2>4, <2>6, <3>1, RingLoses
  <2>8. x \in Slots
    <3>1. IsMessage(ctl[i].ring[h])
      BY <1>3, <2>7 DEF HInv, Payloads
    <3>. QED BY <2>4, <3>1 DEF IsMessage
  <2>9. /\ refcount \in [Slots -> Nat] /\ orphans \in [Slots -> Nat]
        /\ refcount[x] = References(x) /\ refcount[x] > 0
    <3>1. Cardinality(Rings(x)) > 0
      BY <2>7, RefsSubsets, OneMore
    <3>2. /\ refcount[x] = References(x) /\ orphans[x] \in Nat
          /\ refcount \in [Slots -> Nat] /\ orphans \in [Slots -> Nat]
      BY <2>8 DEF HInv, RefsAccounted, SlotTypes
    <3>. QED BY <2>8, <3>1, <3>2, RefsSum
  <2>10. /\ refcount' \in [Slots -> Nat] /\ refcount'[x] = refcount[x] - 1
         /\ \A y \in Slots : y # x => refcount'[y] = refcount[y]
    BY <2>5, <2>8, <2>9
  <2>11. ASSUME NEW s \in Subs
         PROVE  SameHands(s) /\ SameBack(s) /\ Hands(s)'
    <3>1. Hands(s) /\ (Alive(s)' <=> Alive(s)) /\ ctl'[s].held = ctl[s].held
      BY <1>1, <2>6 DEF HInv, Alive
    <3>. QED BY <1>1, <2>6, <3>1 DEF SameHands, SameBack, Returning, Hands
  <2>12. Broadcast' = Broadcast
    BY <2>6 DEF Broadcast
  <2>13. PubAt' /\ Filling /\ Filling'
    BY <1>1, <1>2, <2>12, PubCounts
  <2>14. RefsAccounted'
    <3> SUFFICES ASSUME NEW y \in Slots PROVE refcount'[y] = References(y)'
      BY DEF RefsAccounted
    <3>1. refcount[y] = References(y) /\ orphans[y] \in Nat
      BY <2>9 DEF HInv, RefsAccounted
    <3>2. Arriving(y)' = Arriving(y)
      BY <1>1, <1>2 DEF Arriving, Pending
    <3>3. /\ Current(y)' = Current(y) /\ Handed(y)' = Handed(y)
          /\ HeldByDead(y)' = HeldByDead(y)
      BY <2>11, HandsFrame
    <3>4. CASE y = x
      <4>1. Cardinality(Rings(y)') = Cardinality(Rings(y)) - 1
        BY <2>7, <3>4, RefsSubsets, OneMore
      <4>2. References(y)' = References(y) - 1
        BY <1>1, <3>1, <3>2, <3>3, <4>1, RefsSum, RefsSumNext
      <4>. QED BY <2>10, <3>1, <3>4, <4>2
    <3>5. CASE y # x
      <4>1. Rings(y)' = Rings(y)
        BY <2>7, <3>5
      <4>. QED BY <1>1, <2>10, <3>1, <3>2, <3>3, <3>5, <4>1 DEF References, Rings, Active
    <3>. QED BY <3>4, <3>5
  <2>15. FreeQueue' /\ \A y \in Slots : OnePlace(y)'
    <3>1. PICK U \in SUBSET Slots : U = IF refcount[x] = 1 THEN {x} ELSE {}
      BY <2>8
    <3>2. Distinct(free') /\ FreeSet(free') = FreeSet(free) \cup {Filled(y) : y \in U}
      <4>1. free \in Seq(FreeCells) /\ Distinct(free)
        BY DEF IInv, RingTypes, HInv, FreeQueue
      <4>2. CASE refcount[x] = 1
        <5>1. ~Has(free, Filled(x).slot) /\ Filled(x) \in FreeCells
          BY <2>8, <2>9, BusyAlone DEF Busy, Free, Filled, FreeCells
        <5>2. /\ Distinct(Append(free, Filled(x)))
              /\ FreeSet(Append(free, Filled(x))) = FreeSet(free) \cup {Filled(x)}
          BY <4>1, <5>1, AppendCell
        <5>. QED BY <2>5, <3>1, <4>2, <5>2
      <4>3. CASE refcount[x] # 1
        BY <2>5, <3>1, <4>1, <4>3
      <4>. QED BY <4>2, <4>3
    <3>3. \A y \in Slots : Busy(y)' <=> Busy(y) /\ y \notin U
      <4> TAKE y \in Slots
      <4>1. refcount[x] \in Nat /\ refcount'[x] \in Nat
        BY <2>8, <2>9, <2>10
      <4>. QED BY <2>9, <2>10, <3>1, <4>1 DEF Busy
    <3>4. \A y \in Slots : WithPub(y)' <=> WithPub(y)
      BY <1>2, <2>13 DEF WithPub
    <3>5. \A y \in U : Busy(y)
      BY <2>9, <3>1 DEF Busy
    <3>6. Moved(U, {}, {}, {})
      BY <3>2, <3>3, <3>4, <3>5 DEF Moved
    <3>. QED BY <1>1, <2>11, <3>6, SlotsMove
  <2>16. SlotTypes'
    <3>1. ASSUME NEW s \in Subs
          PROVE  /\ \A k \in 0..(Cap - 1) : IsDesc(ctl'[s].ring[k])
                 /\ IsDesc(sub'[s].peek) /\ IsDesc(sub'[s].desc) /\ IsDesc(sub'[s].cur)
      <4>1. ctl'[s].ring = ctl[s].ring
        BY <2>6
      <4>. QED BY <1>1, <4>1 DEF HInv, SlotTypes
    <3>2. /\ refcount' \in [Slots -> Nat] /\ payload' \in [Slots -> Nat]
          /\ orphans' \in [Slots -> Nat] /\ lost' \subseteq Slots
          /\ left' \in [publishes : Nat, deaths : Nat, joins : Nat]
      BY <1>1, <2>10 DEF HInv, SlotTypes
    <3>. QED BY <3>1, <3>2 DEF SlotTypes, IsDesc
  <2>17. Payloads'
    <3>1. Alive(i)' => /\ sub'[i].cur # NoDesc => IsMessage(sub'[i].cur)
                       /\ sub'[i].desc # NoDesc => IsMessage(sub'[i].desc)
      BY <1>1, <2>6 DEF HInv, Payloads, Alive
    <3>2. \A r \in Subs : ctl'[r].active =>
             ctl[r].active /\ ctl'[r].ring = ctl[r].ring /\ UsedCells(r)' \subseteq UsedCells(r)
      BY <2>6, <2>7
    <3>. QED BY <1>1, <1>2, <2>13, <3>1, <3>2, PayloadsKept DEF HInv
  <2>. QED BY <2>11, <2>13, <2>14, <2>15, <2>16, <2>17 DEF HInv
<1>. QED BY <1>4, <1>5

\* A subscriber joins, with nothing in its hands and an empty ring.
LEMMA AttachesSlot == ASSUME IInv, HInv, NEW m \in Modes, Attach(m) PROVE HInv'
<1>1. /\ pub.pc = "idle" /\ pub' = pub /\ UNCHANGED <<refcount, free, payload, seq, orphans, lost>>
      /\ left.joins > 0 /\ left' = [left EXCEPT !.joins = @ - 1]
  BY DEF Attach, Use, pool
<1>2. left' \in [publishes : Nat, deaths : Nat, joins : Nat] /\ PubAt
  BY <1>1, PubFacts
<1>3. PICK s \in Subs : /\ ~ctl[s].active
                        /\ ctl' = [ctl EXCEPT ![s] = Control(m)]
                        /\ sub' = [sub EXCEPT ![s] = Thread]
  BY DEF Attach
<1>4. /\ ctl'[s] = Control(m) /\ sub'[s] = Thread
      /\ \A r \in Subs : r # s => ctl'[r] = ctl[r] /\ sub'[r] = sub[r]
  BY <1>3, ThreadFields
<1>5. /\ ctl'[s].active /\ ctl'[s].head = 0 /\ ctl'[s].tail = 0 /\ ctl'[s].held = None
      /\ \A k \in 0..(Cap - 1) : ctl'[s].ring[k] = NoDesc
  BY <1>4 DEF Control
<1>6. /\ sub'[s].alive /\ sub'[s].pc = "idle" /\ sub'[s].peek = NoDesc
      /\ sub'[s].desc = NoDesc /\ sub'[s].cur = NoDesc /\ sub'[s].gone = None
  BY <1>4 DEF Thread
<1>7. ~Alive(s) /\ Alive(s)' /\ ~Returning(s) /\ ~Returning(s)'
  <2>1. ~Alive(s) /\ Alive(s)'
    BY <1>3, <1>5, <1>6 DEF Alive
  <2>2. Hands(s)
    BY DEF HInv
  <2>3. sub[s].pc = "gone"
    BY <2>1, <2>2 DEF Hands
  <2>. QED BY <1>6, <2>1, <2>3 DEF Returning
<1>8. UsedCells(s)' = {}
  <2>1. 0 \in 0..(Cap - 1)
    BY SharedAssumption
  <2>2. UsedCells(s)' = CellsOf(0, 0)
    BY <1>5 DEF UsedCells, CellsOf, QueueLen, Cell, Used
  <2>. QED BY <2>1, <2>2, CellFacts
<1>9. ASSUME NEW r \in Subs, r # s
      PROVE  /\ SameCells(r) /\ SameHands(r) /\ SameBack(r) /\ (Alive(r)' <=> Alive(r))
             /\ Hands(r)' /\ UsedCells(r)' = UsedCells(r)
  <2>1. Hands(r) /\ (Alive(r)' <=> Alive(r)) /\ ctl'[r] = ctl[r] /\ sub'[r] = sub[r]
    BY <1>4, <1>9 DEF HInv, Alive
  <2>2. SameCells(r) /\ SameHands(r) /\ SameBack(r)
    BY <2>1 DEF SameCells, SameHands, SameBack, Returning
  <2>. QED BY <2>1, <2>2, UsedCellsFrame DEF Hands
<1>10. Hands(s)'
  BY <1>5, <1>6, <1>7 DEF Hands, NoDesc
<1>11. \A r \in Subs : SameBack(r)
  BY <1>7, <1>9 DEF SameBack
<1>12. ASSUME NEW x \in Slots
       PROVE  /\ Arriving(x)' = Arriving(x) /\ Rings(x)' = Rings(x) /\ Current(x)' = Current(x)
              /\ Handed(x)' = Handed(x) /\ HeldByDead(x)' = HeldByDead(x)
              /\ WithPub(x)' = WithPub(x)
  <2>1. Arriving(x)' = Arriving(x) /\ WithPub(x)' = WithPub(x)
    BY <1>1 DEF Arriving, Pending, WithPub, Filling
  <2>2. NoDesc.slot # x
    BY SharedAssumption DEF NoDesc
  <2>3. Current(x)' = Current(x) /\ Handed(x)' = Handed(x)
    BY <1>4, <1>6, <1>7, <1>9, <2>2 DEF Current, Handed
  <2>4. HeldByDead(x)' = HeldByDead(x)
    BY <1>3, <1>4, <1>6, <1>9 DEF HeldByDead
  <2>5. Rings(x)' = Rings(x)
    <3>1. \A r \in Subs : r # s => (r \in Active' <=> r \in Active) /\ ctl'[r] = ctl[r]
      BY <1>4 DEF Active
    <3>2. s \notin Active /\ Active \subseteq Subs /\ Active' \subseteq Subs
      BY <1>3 DEF Active
    <3>3. ASSUME NEW p \in Subs \X (0..(Cap - 1))
          PROVE  p \in Rings(x)' <=> p \in Rings(x)
      <4>1. CASE p[1] = s
        BY <1>8, <3>2, <4>1 DEF Rings, InRings
      <4>2. CASE p[1] # s
        <5>1. p[1] \in Subs
          OBVIOUS
        <5>. QED BY <1>9, <3>1, <4>2, <5>1 DEF Rings, InRings
      <4>. QED BY <4>1, <4>2
    <3>4. Rings(x) \subseteq Subs \X (0..(Cap - 1)) /\ Rings(x)' \subseteq Subs \X (0..(Cap - 1))
      BY <3>2 DEF Rings, InRings
    <3>. QED BY <3>3, <3>4
  <2>. QED BY <2>1, <2>3, <2>4, <2>5
<1>13. RefsAccounted'
  BY <1>1, <1>12, RefsFrame DEF HInv
<1>14. FreeQueue' /\ \A x \in Slots : OnePlace(x)'
  BY <1>1, <1>11, <1>12, FreeQueueFrame, PlacesFrame DEF HInv
<1>15. SlotTypes'
  <2>1. ASSUME NEW r \in Subs
        PROVE  /\ \A k \in 0..(Cap - 1) : IsDesc(ctl'[r].ring[k])
               /\ IsDesc(sub'[r].peek) /\ IsDesc(sub'[r].desc) /\ IsDesc(sub'[r].cur)
    <3>1. CASE r = s
      BY <1>5, <1>6, <3>1 DEF IsDesc
    <3>2. CASE r # s
      BY <1>4, <3>2 DEF HInv, SlotTypes
    <3>. QED BY <3>1, <3>2
  <2>2. /\ refcount' \in [Slots -> Nat] /\ payload' \in [Slots -> Nat]
        /\ orphans' \in [Slots -> Nat] /\ lost' \subseteq Slots
    BY <1>1 DEF HInv, SlotTypes
  <2>. QED BY <1>2, <2>1, <2>2 DEF SlotTypes, IsDesc
<1>16. PubAt'
  BY <1>1, <1>2 DEF PubAt
<1>17. Payloads'
  <2>1. ASSUME NEW r \in Subs, Alive(r)'
        PROVE  /\ sub'[r].cur # NoDesc => IsMessage(sub[r].cur)'
               /\ sub'[r].desc # NoDesc => IsMessage(sub[r].desc)'
    <3>1. CASE r = s
      BY <1>6, <3>1
    <3>2. CASE r # s
      <4>1. Alive(r) /\ sub'[r] = sub[r]
        BY <1>4, <1>9, <2>1, <3>2
      <4>. QED BY <1>1, <4>1 DEF HInv, Payloads, IsMessage
    <3>. QED BY <3>1, <3>2
  <2>2. ASSUME NEW r \in Subs, ctl'[r].active, NEW k \in UsedCells(r)'
        PROVE  IsMessage(ctl[r].ring[k])'
    <3>1. r # s
      BY <1>8, <2>2
    <3>2. ctl'[r] = ctl[r] /\ ctl[r].active /\ k \in UsedCells(r)
      BY <1>4, <1>9, <2>2, <3>1
    <3>. QED BY <1>1, <3>2 DEF HInv, Payloads, IsMessage
  <2>3. ~Filling' /\ pub'.pc \notin {"push", "post"}
    BY <1>1 DEF Filling
  <2>. QED BY <2>1, <2>2, <2>3 DEF Payloads
<1>. QED BY <1>9, <1>10, <1>13, <1>14, <1>15, <1>16, <1>17 DEF HInv

----------------------------------------------------------------------------
(* Every state.                                                               *)

\* At first every slot is in the free queue.
LEMMA SlotsInit == ASSUME Init PROVE HInv
<1>1. PICK e \in Envs :
         /\ ctl = [s \in Subs |-> IF e.modes[s] = None THEN Unused ELSE Control(e.modes[s])]
         /\ sub = [s \in Subs |-> IF e.modes[s] = None THEN Left ELSE Thread]
         /\ left = [publishes |-> e.publishes, deaths |-> e.deaths, joins |-> e.joins]
  BY DEF Init
<1>2. /\ refcount = [x \in Slots |-> 0] /\ payload = [x \in Slots |-> 0]
      /\ free = [x \in Slots |-> Filled(x)] /\ seq = 0 /\ pub = Publisher
      /\ orphans = [x \in Slots |-> 0] /\ lost = {}
  BY DEF Init, Filled
<1>3. /\ N \in Nat /\ Cap \in Nat /\ None \notin Slots /\ NoDesc.slot = None
      /\ left \in [publishes : Nat, deaths : Nat, joins : Nat]
  BY <1>1, SharedAssumption DEF NoDesc
<1>4. ASSUME NEW s \in Subs
      PROVE  /\ sub[s].peek = NoDesc /\ sub[s].desc = NoDesc /\ sub[s].cur = NoDesc
             /\ sub[s].gone = None /\ sub[s].alive /\ sub[s].pc \in {"idle", "gone"}
             /\ ctl[s].held = None /\ ctl[s].head = 0 /\ ctl[s].tail = 0
             /\ \A k \in 0..(Cap - 1) : ctl[s].ring[k] = NoDesc
             /\ ctl[s].active <=> sub[s].pc = "idle"
  <2>1. CASE e.modes[s] = None
    <3>1. ctl[s] = Unused /\ sub[s] = Left
      BY <1>1, <2>1
    <3>. QED BY <3>1 DEF Unused, Control, Left, Thread
  <2>2. CASE e.modes[s] # None
    <3>1. ctl[s] = Control(e.modes[s]) /\ sub[s] = Thread
      BY <1>1, <2>2
    <3>. QED BY <3>1 DEF Control, Thread
  <2>. QED BY <2>1, <2>2
<1>5. /\ pub.pc = "idle" /\ pub.data = None /\ pub.tries = 0 /\ pub.i = 0 /\ pub.count = 0
  BY <1>2 DEF Publisher
<1>6. SlotTypes
  BY <1>2, <1>3, <1>4 DEF SlotTypes, IsDesc
<1>7. PubAt
  <2>1. 0 \in 0..2 /\ 0 \in 0..(N + 2) /\ 0 \in 0..N
    BY ONLY <1>3
  <2>. QED BY <1>3, <1>5, <2>1 DEF PubAt
<1>8. \A s \in Subs : Hands(s)
  BY <1>3, <1>4 DEF Hands, Alive
<1>9. \A s \in Subs : UsedCells(s) = {}
  <2>1. 0 \in 0..(Cap - 1)
    BY SharedAssumption
  <2>2. \A s \in Subs : UsedCells(s) = CellsOf(0, 0)
    BY <1>4, <2>1, UsedCellsOf
  <2>. QED BY <2>1, <2>2, CellFacts
<1>10. RefsAccounted
  <2> SUFFICES ASSUME NEW x \in Slots PROVE References(x) = 0
    BY <1>2 DEF RefsAccounted
  <2>1. /\ Arriving(x) = {} /\ Rings(x) = {} /\ Current(x) = {} /\ Handed(x) = {}
        /\ HeldByDead(x) = {}
    BY <1>3, <1>4, <1>5, <1>9
       DEF Arriving, Pending, Rings, InRings, Active, Current, Handed, HeldByDead
  <2>2. /\ Cardinality(Arriving(x)) = 0 /\ Cardinality(Rings(x)) = 0
        /\ Cardinality(Current(x)) = 0 /\ Cardinality(Handed(x)) = 0
        /\ Cardinality(HeldByDead(x)) = 0
    BY <2>1, FS_EmptySet
  <2>. QED BY <1>2, <2>2, RefsSum
<1>11. /\ DOMAIN free = Slots /\ \A x \in Slots : free[x] = Filled(x)
       /\ \A x : Filled(x).slot = x /\ Filled(x).full = TRUE
  BY <1>2 DEF Filled
<1>12. FreeQueue
  <2>1. Distinct(free)
    BY <1>11 DEF Distinct
  <2>2. \A c \in FreeSet(free) : c.slot \in Slots /\ c.full
    BY <1>11 DEF FreeSet
  <2>3. \A s \in Subs : ~Returning(s) /\ sub[s].pc # "fill"
    BY <1>4 DEF Returning
  <2>. QED BY <1>2, <2>1, <2>2, <2>3 DEF FreeQueue
<1>13. \A x \in Slots : OnePlace(x)
  <2> SUFFICES ASSUME NEW x \in Slots PROVE OnePlace(x)
    OBVIOUS
  <2>1. Free(x) /\ ~WithPub(x) /\ ~Busy(x) /\ ~Back(x) /\ ~Perished(x)
    BY <1>2, <1>4, <1>5, <1>11 DEF Free, Has, FreeSet, WithPub, Filling, Busy, Back, Perished
  <2>. QED BY <2>1 DEF OnePlace
<1>14. Payloads
  BY <1>4, <1>5, <1>9 DEF Payloads, Filling
<1>. QED BY <1>6, <1>7, <1>8, <1>10, <1>12, <1>13, <1>14 DEF HInv

\* Every step.
LEMMA SlotsNext == ASSUME IInv, HInv, NoTurn, [Next]_vars PROVE HInv'
<1>1. CASE PublisherStep \/ CreateData \/ Publish \/ Abandon
  BY <1>1, CreatesSlot, CreatesAgain, BeginsSlot, ChecksSlot, DropsSlot, ChecksAll, SelectsSlot,
     SelectsAgain, StampsSlot, PushHolds, PostsQuietly DEF PublisherStep
<1>2. ASSUME NEW s \in Subs,
             SubscriberStep(s) \/ Wait(s) \/ Timeout(s) \/ Release(s) \/ Leave(s) \/ Die(s)
      PROVE  HInv'
  BY <1>2, WaitsQuietly, Takes, ConsumesQuietly, ClearsQuietly, Releases, Reserves, Fills, Holds,
     Dies, LeavesSlot DEF SubscriberStep
<1>3. ASSUME NEW m \in Modes, Attach(m) PROVE HInv'
  BY <1>3, AttachesSlot
<1>4. CASE UNCHANGED vars
  <2>1. UNCHANGED <<refcount, payload, free, seq, ctl, sub, pub, orphans, lost, left>>
    BY <1>4 DEF vars, pool, aux
  <2>2. Broadcast' = Broadcast
    BY <2>1 DEF Broadcast
  <2>3. PubAt' /\ \A x \in Slots : Arriving(x)' = Arriving(x) /\ WithPub(x)' = WithPub(x)
    BY <2>1, <2>2, PubFrame DEF HInv
  <2>4. ASSUME NEW s \in Subs
        PROVE  SameCells(s) /\ SameHands(s) /\ SameBack(s) /\ Hands(s)' /\ IsDesc(sub'[s].peek)
    <3>1. Hands(s) /\ IsDesc(sub[s].peek) /\ (Alive(s)' <=> Alive(s))
      BY <2>1 DEF HInv, SlotTypes, Alive
    <3>. QED BY <2>1, <3>1 DEF SameCells, SameHands, SameBack, Hands, Returning
  <2>5. left' \in [publishes : Nat, deaths : Nat, joins : Nat]
    BY <2>1 DEF HInv, SlotTypes
  <2>. QED BY <2>1, <2>3, <2>4, <2>5, Quiet DEF Filling
<1>. QED BY <1>1, <1>2, <1>3, <1>4 DEF Next

\* The types, the counts too: the free queue has a slot once, so it is never longer than the pool.
LEMMA SlotsTyped == ASSUME IInv, HInv PROVE TypeOK
<1>1. RingTypes /\ SlotTypes /\ PubAt /\ FreeQueue
  BY DEF IInv, HInv
<1>2. free \in Seq([slot : Slots, full : BOOLEAN])
  <2>1. free \in Seq(FreeCells) /\ \A k \in DOMAIN free : free[k].slot \in Slots
    BY <1>1 DEF RingTypes, FreeQueue, FreeSet
  <2>2. \A k \in 1..Len(free) : free[k] \in [slot : Slots, full : BOOLEAN]
    <3>1. \A k \in 1..Len(free) : free[k] \in FreeCells /\ k \in DOMAIN free
      BY <2>1
    <3>. QED BY <2>1, <3>1 DEF FreeCells
  <2>3. Len(free) \in Nat /\ free \in [1..Len(free) -> [slot : Slots, full : BOOLEAN]]
    BY <2>1, <2>2
  <2>. QED BY <2>3, SeqDef
<1>3. Len(free) <= NSlots
  <2> DEFINE g == [k \in DOMAIN free |-> free[k].slot]
  <2>1. DOMAIN free = 1..Len(free) /\ Len(free) \in Nat /\ NSlots \in Nat
    BY <1>2, SharedAssumption
  <2>2. g \in Injection(DOMAIN free, Slots)
    BY <1>1 DEF FreeQueue, FreeSet, Distinct, Injection, IsInjective
  <2>3. Cardinality(Slots) = NSlots /\ IsFiniteSet(Slots)
    <3>1. 1 \in Int /\ NSlots \in Int /\ NSlots > 0
      BY SharedAssumption
    <3>. QED BY <3>1, FS_Interval DEF Slots
  <2>4. Cardinality(DOMAIN free) <= NSlots
    BY <2>2, <2>3, FS_Injection
  <2>5. Cardinality(1..Len(free)) = Len(free)
    <3>1. 1 \in Int /\ Len(free) \in Int
      BY <2>1
    <3>2. Cardinality(1..Len(free)) = IF 1 > Len(free) THEN 0 ELSE Len(free) - 1 + 1
      BY <3>1, FS_Interval
    <3>. QED BY <2>1, <3>2
  <2>. QED BY <2>1, <2>4, <2>5
<1>4. \A d \in Cells : IsDesc(d) => d \in Descriptors \cup {NoDesc}
  BY DEF Cells, IsDesc, Descriptors
<1>5. ASSUME NEW s \in Subs
      PROVE  /\ ctl[s] \in [active : BOOLEAN, mode : Modes, head : 0..(Cap - 1),
                            tail : 0..(Cap - 1), ring : [0..(Cap - 1) -> Descriptors \cup {NoDesc}],
                            ready : Int, held : Slots \cup {None}, dropped : Nat]
             /\ sub[s] \in [pc : {"idle", "cas", "consume", "wait", "asleep", "clear", "unref",
                                  "reserve", "fill", "hold", "gone"},
                            alive : BOOLEAN, head : 0..(Cap - 1),
                            peek : Descriptors \cup {NoDesc}, desc : Descriptors \cup {NoDesc},
                            cur : Descriptors \cup {NoDesc}, gone : Slots \cup {None}]
  <2>1. ctl[s] \in Controls /\ sub[s] \in Threads
    BY <1>1 DEF RingTypes
  <2>2. ctl[s].ring \in [0..(Cap - 1) -> Cells]
    BY <2>1 DEF Controls
  <2>3. \A k \in 0..(Cap - 1) : ctl[s].ring[k] \in Descriptors \cup {NoDesc}
    BY <1>1, <1>4, <2>2 DEF SlotTypes
  <2>4. ctl[s].ring \in [0..(Cap - 1) -> Descriptors \cup {NoDesc}]
    BY <2>2, <2>3
  <2>5. /\ sub[s].peek \in Descriptors \cup {NoDesc} /\ sub[s].desc \in Descriptors \cup {NoDesc}
        /\ sub[s].cur \in Descriptors \cup {NoDesc}
    <3>1. sub[s].peek \in Cells /\ sub[s].desc \in Cells /\ sub[s].cur \in Cells
      BY <2>1 DEF Threads
    <3>. QED BY <1>1, <1>4, <3>1 DEF SlotTypes
  <2>6. ASSUME NEW c \in Controls, NEW R, R = [0..(Cap - 1) -> Descriptors \cup {NoDesc}],
               c.ring \in R
        PROVE  c \in [active : BOOLEAN, mode : Modes, head : 0..(Cap - 1), tail : 0..(Cap - 1),
                      ring : R, ready : Int, held : Slots \cup {None}, dropped : Nat]
    BY <2>6 DEF Controls
  <2>7. ASSUME NEW v \in Threads, NEW M, v.peek \in M, v.desc \in M, v.cur \in M
        PROVE  v \in [pc : {"idle", "cas", "consume", "wait", "asleep", "clear", "unref",
                            "reserve", "fill", "hold", "gone"},
                      alive : BOOLEAN, head : 0..(Cap - 1), peek : M, desc : M, cur : M,
                      gone : Slots \cup {None}]
    BY <2>7 DEF Threads
  <2>8. ctl[s] \in [active : BOOLEAN, mode : Modes, head : 0..(Cap - 1),
                    tail : 0..(Cap - 1), ring : [0..(Cap - 1) -> Descriptors \cup {NoDesc}],
                    ready : Int, held : Slots \cup {None}, dropped : Nat]
    BY <2>1, <2>4, <2>6
  <2>9. sub[s] \in [pc : {"idle", "cas", "consume", "wait", "asleep", "clear", "unref",
                          "reserve", "fill", "hold", "gone"},
                    alive : BOOLEAN, head : 0..(Cap - 1),
                    peek : Descriptors \cup {NoDesc}, desc : Descriptors \cup {NoDesc},
                    cur : Descriptors \cup {NoDesc}, gone : Slots \cup {None}]
    BY <2>1, <2>5, <2>7
  <2>. QED BY <2>8, <2>9
<1>6. DOMAIN ctl = Subs /\ ctl \in [Subs -> Controls] /\ sub \in [Subs -> Threads]
  BY <1>1 DEF RingTypes
<1>7. pub \in [pc : {"idle", "scavenge", "created", "check", "drop", "select", "stamp",
                     "push", "post"},
               i : 0..(N + 2), data : Slots \cup {None}, count : 0..N, balanced : BOOLEAN,
               base : Nat, tries : 0..2, target : Subs \cup {None}]
  <2>1. pub \in Publishers /\ pub.i \in 0..(N + 2) /\ pub.count \in 0..N /\ pub.tries \in 0..2
    BY <1>1 DEF RingTypes, PubAt
  <2>. QED BY <2>1 DEF Publishers
<1>8. /\ refcount \in [Slots -> Nat] /\ payload \in [Slots -> Nat] /\ seq \in Nat
      /\ members \in [Subs -> Subs \cup {None}] /\ cursor \in Nat
      /\ got \in [Subs -> Nat] /\ joined \in [Subs -> Nat] /\ last \in [Subs -> Nat]
      /\ orphans \in [Slots -> Nat] /\ lost \subseteq Slots
      /\ left \in [publishes : Nat, deaths : Nat, joins : Nat]
  BY <1>1 DEF RingTypes, SlotTypes
<1>9. /\ ctl \in [Subs -> [active : BOOLEAN, mode : Modes, head : 0..(Cap - 1), tail : 0..(Cap - 1),
                           ring : [0..(Cap - 1) -> Descriptors \cup {NoDesc}], ready : Int,
                           held : Slots \cup {None}, dropped : Nat]]
      /\ sub \in [Subs -> [pc : {"idle", "cas", "consume", "wait", "asleep", "clear", "unref",
                                 "reserve", "fill", "hold", "gone"},
                           alive : BOOLEAN, head : 0..(Cap - 1),
                           peek : Descriptors \cup {NoDesc}, desc : Descriptors \cup {NoDesc},
                           cur : Descriptors \cup {NoDesc}, gone : Slots \cup {None}]]
  BY ONLY <1>5, <1>6
<1>. QED BY <1>2, <1>3, <1>7, <1>8, <1>9 DEF TypeOK

\* A set in which any two are the same.
LEMMA AtMostOne ==
    ASSUME NEW S, \A a, b \in S : a = b
    PROVE  Cardinality(S) = One(S # {})
<1>1. CASE S = {}
  BY <1>1, FS_EmptySet DEF One
<1>2. CASE S # {}
  <2>1. PICK a : a \in S
    BY <1>2
  <2>2. S = {a}
    BY <2>1
  <2>. QED BY <1>2, <2>2, FS_Singleton DEF One
<1>. QED BY <1>1, <1>2

\* A slot is in one of five places, which are counted as sets of at most one element.
LEMMA SlotsPlaced == ASSUME HInv PROVE SlotInOnePlace
<1> SUFFICES ASSUME NEW x \in Slots
    PROVE Cardinality({k \in DOMAIN free : free[k].slot = x})
          + One(pub.data = x /\ pub.pc \in {"created", "check", "drop", "select", "stamp"})
          + One(refcount[x] > 0)
          + Cardinality({s \in Subs : sub[s].pc = "reserve" /\ sub[s].gone = x})
          + One(x \in lost /\ \A k \in DOMAIN free : free[k].slot # x) = 1
  BY DEF SlotInOnePlace
<1>1. Cardinality({k \in DOMAIN free : free[k].slot = x}) = One(Free(x))
  <2> DEFINE K == {k \in DOMAIN free : free[k].slot = x}
  <2>1. \A j, k \in K : j = k
    BY DEF HInv, FreeQueue, Distinct
  <2>2. K # {} <=> Free(x)
    BY DEF Free, Has, FreeSet
  <2> HIDE DEF K
  <2>3. Cardinality(K) = One(K # {})
    BY <2>1, AtMostOne
  <2>4. Cardinality(K) = One(Free(x))
    BY <2>2, <2>3 DEF One
  <2>. QED BY <2>4 DEF K
<1>2. Cardinality({s \in Subs : sub[s].pc = "reserve" /\ sub[s].gone = x}) = One(Back(x))
  <2> DEFINE B == {s \in Subs : sub[s].pc = "reserve" /\ sub[s].gone = x}
  <2>1. \A r, s \in B : r = s
    BY DEF HInv, FreeQueue, Returning
  <2>2. B # {} <=> Back(x)
    BY DEF Back
  <2> HIDE DEF B
  <2>3. Cardinality(B) = One(B # {})
    BY <2>1, AtMostOne
  <2>4. Cardinality(B) = One(Back(x))
    BY <2>2, <2>3 DEF One
  <2>. QED BY <2>4 DEF B
<1>3. /\ pub.data = x /\ pub.pc \in {"created", "check", "drop", "select", "stamp"} <=> WithPub(x)
      /\ refcount[x] > 0 <=> Busy(x)
      /\ (x \in lost /\ \A k \in DOMAIN free : free[k].slot # x) <=> Perished(x)
  BY DEF WithPub, Filling, Busy, Perished, Free, Has, FreeSet
<1>4. OnePlace(x)
  BY DEF HInv
<1>5. One(Free(x)) + One(WithPub(x)) + One(Busy(x)) + One(Back(x)) + One(Perished(x)) = 1
  <2>1. /\ One(Free(x)) = (IF Free(x) THEN 1 ELSE 0)
        /\ One(WithPub(x)) = (IF WithPub(x) THEN 1 ELSE 0)
        /\ One(Busy(x)) = (IF Busy(x) THEN 1 ELSE 0)
        /\ One(Back(x)) = (IF Back(x) THEN 1 ELSE 0)
        /\ One(Perished(x)) = (IF Perished(x) THEN 1 ELSE 0)
    BY DEF One
  <2>2. PICK a \in BOOLEAN, b \in BOOLEAN, c \in BOOLEAN, d \in BOOLEAN, e \in BOOLEAN :
           /\ a <=> Free(x)
           /\ b <=> WithPub(x)
           /\ c <=> Busy(x)
           /\ d <=> Back(x)
           /\ e <=> Perished(x)
    <3>1. \E a, b, c, d, e \in BOOLEAN : /\ a <=> Free(x)
                                         /\ b <=> WithPub(x)
                                         /\ c <=> Busy(x)
                                         /\ d <=> Back(x)
                                         /\ e <=> Perished(x)
      <4>1. \A P : \E a \in BOOLEAN : a <=> P
        OBVIOUS
      <4>. QED BY <4>1
    <3>. QED BY <3>1
  <2>3. /\ One(Free(x)) = (IF a THEN 1 ELSE 0) /\ One(WithPub(x)) = (IF b THEN 1 ELSE 0)
        /\ One(Busy(x)) = (IF c THEN 1 ELSE 0) /\ One(Back(x)) = (IF d THEN 1 ELSE 0)
        /\ One(Perished(x)) = (IF e THEN 1 ELSE 0)
    BY <2>1, <2>2
  <2>4. /\ a \/ b \/ c \/ d \/ e
        /\ a => ~b /\ ~c /\ ~d
        /\ b => ~c /\ ~d /\ ~e
        /\ c => ~d /\ ~e
        /\ d => ~e
        /\ a => ~e
    BY <1>4, <2>2 DEF OnePlace, Perished
  <2>5. (IF a THEN 1 ELSE 0) + (IF b THEN 1 ELSE 0) + (IF c THEN 1 ELSE 0)
        + (IF d THEN 1 ELSE 0) + (IF e THEN 1 ELSE 0) = 1
    BY ONLY <2>4
  <2>. QED BY <2>3, <2>5
<1>6. /\ One(pub.data = x /\ pub.pc \in {"created", "check", "drop", "select", "stamp"})
            = One(WithPub(x))
      /\ One(refcount[x] > 0) = One(Busy(x))
      /\ One(x \in lost /\ \A k \in DOMAIN free : free[k].slot # x) = One(Perished(x))
  BY <1>3 DEF One
<1>. QED BY <1>1, <1>2, <1>5, <1>6

\* What is read is in the slot, and what is let go is counted.
LEMMA SlotsHeld == ASSUME HInv PROVE HeldDataStable /\ ReleaseExpected
<1>1. HeldDataStable
  BY DEF HInv, Payloads, IsMessage, HeldDataStable
<1>2. ASSUME NEW s \in Subs, At(s, "unref")
      PROVE  refcount[sub[s].cur.slot] > 0
  <2>1. PICK x \in Slots : x = sub[s].cur.slot
    BY <1>2 DEF HInv, Hands, At, SlotTypes, IsDesc
  <2>2. s \in Current(x)
    BY <1>2, <2>1 DEF Current, At
  <2>3. Cardinality(Current(x)) > 0
    BY <2>2, RefsSubsets, OneMore
  <2>4. refcount[x] = References(x) /\ orphans[x] \in Nat
    BY DEF HInv, RefsAccounted, SlotTypes
  <2>. QED BY <2>1, <2>3, <2>4, RefsSum
<1>. QED BY <1>1, <1>2 DEF ReleaseExpected

\* While a thread is alive, and only then, it is on its way somewhere.
LEMMA ReturnsAlive == ASSUME HInv, NEW s \in Subs, Returning(s) PROVE Alive(s)
BY DEF HInv, Hands, Returning

\* A slot that only the dead have is one that the publisher has recycled.
LEMMA OnlyDead ==
    ASSUME IInv, HInv, NEW x \in Slots, Busy(x), orphans[x] = 0, pub.pc = "scavenge",
           \A s \in Subs : Alive(s) => /\ x \notin {sub[s].cur.slot, sub[s].desc.slot}
                                       /\ InRings({s}, x) = {}
    PROVE  x \in Unreferred(Dead)
<1>1. Arriving(x) = {} /\ Current(x) = {} /\ Handed(x) = {}
  BY DEF Arriving, Pending, Current, Handed
<1>2. Rings(x) = InRings(Dead, x)
  <2>1. Dead \subseteq Active
    BY DEF Dead, Active
  <2>2. ASSUME NEW s \in Active, NEW k \in 0..(Cap - 1), <<s, k>> \in Rings(x)
        PROVE  s \in Dead
    <3>1. k \in UsedCells(s) /\ ctl[s].ring[k].slot = x /\ s \in Subs /\ ctl[s].active
      BY <2>2 DEF Rings, InRings, Active
    <3>2. <<s, k>> \in InRings({s}, x)
      BY <3>1 DEF InRings
    <3>. QED BY <3>1, <3>2 DEF Dead, Alive
  <2>. QED BY <2>1, <2>2 DEF Rings, InRings
<1>3. HeldByDead(x) = HeldBy(Dead, x)
  BY DEF HeldByDead, HeldBy, Dead
<1>4. PICK r \in Nat, h \in Nat : /\ r = Cardinality(Rings(x)) /\ h = Cardinality(HeldByDead(x))
                                  /\ References(x) = 0 + 0 + r + 0 + 0 + h
  <2>1. Cardinality({}) = 0
    BY FS_EmptySet
  <2>. QED BY <1>1, <2>1, RefsSum
<1>5. Refs(Dead, x) = h + r
  BY <1>2, <1>3, <1>4 DEF Refs
<1>6. refcount[x] = References(x) /\ refcount[x] > 0
  BY DEF HInv, RefsAccounted, Busy
<1>7. refcount[x] = Refs(Dead, x) /\ Refs(Dead, x) > 0
  <2>1. 0 + 0 + r + 0 + 0 + h = h + r
    BY ONLY <1>4
  <2>. QED BY <1>4, <1>5, <1>6, <2>1
<1>. QED BY <1>7 DEF Unreferred

\* CreateData fails only where somebody alive has what it looks for.
LEMMA FullIsTold ==
    ASSUME IInv, HInv, [Next]_vars, pub.pc = "scavenge", pub'.pc = "idle"
    PROVE  \A x \in Slots :
             \/ orphans[x] > 0 \/ lost # {}
             \/ \E s \in Subs : /\ Alive(s)
                                /\ \/ x \in {sub[s].cur.slot, sub[s].desc.slot, sub[s].gone}
                                   \/ InRings({s}, x) # {} \/ sub[s].pc = "fill"
<1>1. CreateAgain
  <2>1. \A s \in Subs : /\ SubscriberStep(s) \/ Wait(s) \/ Timeout(s) \/ Release(s) \/ Die(s)
                             => pub' = pub
                        /\ ~Leave(s)
    BY DEF SubscriberStep, Pop, ConsumeReady, WaitReady, ClearHeldSlot, ReleaseSlot, Reserve,
           Fill, HoldSlot, Wait, Timeout, Release, Die, Leave
  <2>2. ~CreateData /\ ~Publish /\ ~Abandon /\ \A m \in Modes : ~Attach(m)
    BY DEF CreateData, Publish, Abandon, Attach
  <2>3. PublisherStep => CreateAgain
    BY DEF PublisherStep, Check, DropOld, Checked, Select, SelectAgain, Stamp, Push, PostReady
  <2>. QED BY <2>1, <2>2, <2>3 DEF Next, vars
<1> DEFINE F == FreeAfter(Dead)
<1>2. ~CanPopFree(F)
  <2>1. CanPopFree(F) => \E y : pub' = [Publisher EXCEPT !.pc = "created", !.data = y]
    BY <1>1 DEF CreateAgain, Take
  <2>. QED BY <2>1 DEF Publisher
<1>3. /\ F \in Seq(FreeCells) /\ Distinct(F)
      /\ FreeSet(F) = FreeSet(free) \cup {Filled(x) : x \in Unreferred(Dead)}
  BY ScavengedCells
<1> HIDE DEF F
<1> SUFFICES ASSUME NEW x \in Slots, orphans[x] = 0, lost = {}
             PROVE  \E s \in Subs :
                       /\ Alive(s)
                       /\ \/ x \in {sub[s].cur.slot, sub[s].desc.slot, sub[s].gone}
                          \/ InRings({s}, x) # {} \/ sub[s].pc = "fill"
  <2>1. \A x \in Slots : orphans[x] > 0 \/ orphans[x] = 0
    BY DEF HInv, SlotTypes
  <2>. QED BY <2>1
<1>4. CASE F # <<>>
  <2>1. Head(F) \in FreeSet(F) /\ ~Head(F).full
    BY <1>2, <1>3, <1>4, TailCells DEF CanPopFree
  <2>2. Head(F) \in FreeSet(free)
    <3>1. \A y : Filled(y).full
      BY DEF Filled
    <3>. QED BY <1>3, <2>1, <3>1
  <2>3. \E s \in Subs : At(s, "fill") /\ sub[s].gone = Head(F).slot
    BY <2>1, <2>2 DEF HInv, FreeQueue
  <2>. QED BY <2>3 DEF At
<1>5. CASE F = <<>>
  <2>1. FreeSet(F) = {}
    BY <1>5 DEF FreeSet
  <2>2. FreeSet(free) = {} /\ Unreferred(Dead) = {}
    BY <1>3, <2>1
  <2>3. Busy(x) \/ Back(x)
    <3>1. ~Free(x) /\ ~WithPub(x) /\ ~Perished(x)
      BY <2>2 DEF Free, Has, WithPub, Filling, Perished
    <3>. QED BY <3>1 DEF HInv, OnePlace
  <2>4. CASE Back(x)
    BY <2>4, ReturnsAlive DEF Back, Returning
  <2>5. CASE Busy(x)
    BY <2>2, <2>5, OnlyDead
  <2>. QED BY <2>3, <2>4, <2>5
<1>. QED BY <1>4, <1>5

----------------------------------------------------------------------------
(* The theorems.                                                             *)

\* Where nobody has asked for DROP_OLD there is no turn.
LEMMA NoDropNoTurn == NoDropOld => NoTurn
BY DEF NoDropOld, NoTurn, At, Alive

\* While no CAS falls for a turn of its ring, the room the first pass has found is there in
\* the second, and a ring has the newest messages, without a gap.
THEOREM Invariant == Spec /\ []NoTurn => []IInv
BY InvInit, InvNext, PTL DEF Spec

\* While no CAS falls for a turn of its ring, the ready count of a subscriber is the number
\* of descriptors in its ring, but for a push not posted yet and a pop not consumed,
\* whatever dies in between and whatever the publisher drops.
THEOREM ReadyCountsRing == Spec /\ []NoTurn => []ReadyCountsQueue
<1>1. IInv => ReadyCountsQueue
  BY DEF IInv
<1>. QED BY <1>1, Invariant, PTL

\* While no CAS falls for a turn of its ring, every subscriber that is not balanced gets
\* every message published since it joined, once and in order, but for those that its
\* dropped count tells of.
THEOREM MessagesAllArrive == Spec /\ []NoTurn => []NothingLost
BY InRingOrder, Invariant, PTL

\* While no CAS falls for a turn of its ring, a reference count is the number of those who
\* have the slot, and a slot is in one place.
THEOREM SlotInvariant == Spec /\ []NoTurn => []HInv
<1>1. Init => HInv
  BY SlotsInit
<1>2. IInv /\ HInv /\ NoTurn /\ [Next]_vars => HInv'
  BY SlotsNext
<1>. QED BY <1>1, <1>2, Invariant, PTL DEF Spec

\* While no CAS falls for a turn of its ring, the reference count of a slot is the number of
\* rings, hands and pushes to come that have it, and a slot is in one place: whatever dies,
\* joins, leaves and is dropped, none is recycled early and none is in the free queue twice.
THEOREM SlotsAreAccounted == Spec /\ []NoTurn => []SlotsAccounted
<1>1. IInv /\ HInv => SlotsAccounted
  BY SlotsTyped, SlotsPlaced DEF HInv, SlotsAccounted
<1>. QED BY <1>1, Invariant, SlotInvariant, PTL

\* While no CAS falls for a turn of its ring, what a live subscriber holds, or is about to,
\* is the message it was handed.
THEOREM HeldDataIsStable == Spec /\ []NoTurn => []HeldDataStable
<1>1. HInv => HeldDataStable
  BY SlotsHeld
<1>. QED BY <1>1, SlotInvariant, PTL

\* While no CAS falls for a turn of its ring, the ASSERT of ReleaseSlot holds: a slot that is
\* let go has a reference to drop.
THEOREM ReleasesAreExpected == Spec /\ []NoTurn => []ReleaseExpected
<1>1. HInv => ReleaseExpected
  BY SlotsHeld
<1>. QED BY <1>1, SlotInvariant, PTL

\* While no CAS falls for a turn of its ring, CreateData, which looks for the dead before it
\* gives up, gives up only if every slot is with somebody alive, or lost.
THEOREM FullIsReal == Spec /\ []NoTurn => FullIsTrue
<1>1. /\ IInv /\ HInv /\ [Next]_vars
      => [pub.pc = "scavenge" /\ pub'.pc = "idle" =>
          \A x \in Slots :
             \/ orphans[x] > 0 \/ lost # {}
             \/ \E s \in Subs : /\ Alive(s)
                                /\ \/ x \in {sub[s].cur.slot, sub[s].desc.slot, sub[s].gone}
                                   \/ InRings({s}, x) # {} \/ sub[s].pc = "fill"]_vars
  BY FullIsTold
<1>. QED BY <1>1, Invariant, SlotInvariant, PTL DEF Spec, FullIsTrue

\* Without DROP_OLD, only a subscriber moves its head, and all of it holds.
THEOREM WithoutDropOld ==
    Spec /\ []NoDropOld => [](ReadyCountsQueue /\ NothingLost /\ SlotsAccounted /\ HeldDataStable)
BY NoDropNoTurn, ReadyCountsRing, MessagesAllArrive, SlotsAreAccounted, HeldDataIsStable, PTL
=============================================================================
