------------------------ MODULE LockFreeQueueProofs ------------------------
(***************************************************************************)
(* Proofs about LockFreeQueue: for every ring size and every batch size,   *)
(* the ring with one consumer is the bounded FIFO queue of Fifo.           *)
(***************************************************************************)
EXTENDS LockFreeQueue, SequenceTheorems, TLAPS

\* The use the ports make of their queues; with two consumers TLC refutes the
\* refinement.
SingleConsumer == \A c, d \in Consumers : c = d

----------------------------------------------------------------------------
(* The arithmetic of the ring.                                                *)

LEMMA RingSize == N \in Nat /\ N > 0
BY QueueAssumption

LEMMA BatchSize == \A n \in Batches \cup {0} : n \in Nat
BY QueueAssumption

\* An index is reduced into the ring, and by at most one turn of it.
LEMMA WrapType ==
    ASSUME NEW i \in Nat
    PROVE  Wrap(i) \in Indexes
BY RingSize DEF Wrap, Indexes

LEMMA WrapOnce ==
    \A i \in Nat :
        /\ i < N => Wrap(i) = i
        /\ (i >= N /\ i < N + N) => Wrap(i) = i - N
<1> SUFFICES ASSUME NEW i \in Nat
             PROVE  /\ i < N => Wrap(i) = i
                    /\ (i >= N /\ i < N + N) => Wrap(i) = i - N
  OBVIOUS
<1>1. i < N => Wrap(i) = i
  BY RingSize DEF Wrap
<1>2. (i >= N /\ i < N + N) => Wrap(i) = i - N
  BY RingSize DEF Wrap
<1>. QED BY <1>1, <1>2

LEMMA UsedBound ==
    ASSUME NEW h \in Indexes, NEW t \in Indexes
    PROVE  /\ Used(h, t) \in 0..(N - 1)
           /\ Free(h, t) = N - 1 - Used(h, t)
           /\ Free(h, t) \in 0..(N - 1)
BY RingSize DEF Used, Free, Indexes

\* The slots of a ring that lie less than a turn apart are different.
LEMMA Distinct ==
    ASSUME NEW h \in Indexes, NEW i \in 0..(N - 1), NEW j \in 0..(N - 1), i # j
    PROVE  Wrap(h + i) # Wrap(h + j)
<1>1. /\ h + i \in Nat /\ h + i < N + N
      /\ h + j \in Nat /\ h + j < N + N
  BY RingSize DEF Indexes
<1>2. /\ Wrap(h + i) = IF h + i < N THEN h + i ELSE h + i - N
      /\ Wrap(h + j) = IF h + j < N THEN h + j ELSE h + j - N
  BY <1>1, WrapOnce, RingSize DEF Indexes
<1>. QED BY <1>2, RingSize DEF Indexes

\* The slot i places after the tail is Used + i places after the head.
LEMMA AfterTail ==
    ASSUME NEW h \in Indexes, NEW t \in Indexes, NEW i \in Nat, Used(h, t) + i < N
    PROVE  Wrap(t + i) = Wrap(h + (Used(h, t) + i))
<1> DEFINE u == Used(h, t)
<1>0. u \in 0..(N - 1)
  BY UsedBound
<1>1. /\ t + i \in Nat /\ t + i < N + N
      /\ h + (u + i) \in Nat /\ h + (u + i) < N + N
  BY <1>0, RingSize DEF Indexes
<1>2. /\ Wrap(t + i) = IF t + i < N THEN t + i ELSE t + i - N
      /\ Wrap(h + (u + i)) = IF h + (u + i) < N THEN h + (u + i) ELSE h + (u + i) - N
  BY <1>0, <1>1, WrapOnce, RingSize DEF Indexes
<1>. QED BY <1>2, RingSize DEF Used, Indexes

\* Committing n items at the tail, and taking n at the head.
LEMMA AdvanceTail ==
    ASSUME NEW h \in Indexes, NEW t \in Indexes, NEW n \in Nat, n <= Free(h, t)
    PROVE  Used(h, Wrap(t + n)) = Used(h, t) + n
<1>1. t + n \in Nat /\ t + n < N + N
  BY UsedBound, RingSize DEF Indexes
<1>2. Wrap(t + n) = IF t + n < N THEN t + n ELSE t + n - N
  BY <1>1, WrapOnce, RingSize DEF Indexes
<1>. QED BY <1>2, RingSize DEF Used, Free, Indexes

LEMMA AdvanceHead ==
    ASSUME NEW h \in Indexes, NEW t \in Indexes, NEW n \in Nat, n <= Used(h, t)
    PROVE  Used(Wrap(h + n), t) = Used(h, t) - n
<1>1. h + n \in Nat /\ h + n < N + N
  BY UsedBound, RingSize DEF Indexes
<1>2. Wrap(h + n) = IF h + n < N THEN h + n ELSE h + n - N
  BY <1>1, WrapOnce, RingSize DEF Indexes
<1>. QED BY <1>2, RingSize DEF Used, Indexes

\* Two advances of less than a turn together are one.
LEMMA AdvanceTwice ==
    ASSUME NEW h \in Indexes, NEW n \in Nat, NEW k \in Nat, n + k < N
    PROVE  Wrap(Wrap(h + n) + k) = Wrap(h + (n + k))
<1>1. /\ h + n \in Nat /\ h + n < N + N
      /\ h + (n + k) \in Nat /\ h + (n + k) < N + N
  BY RingSize DEF Indexes
<1>2. /\ Wrap(h + n) = IF h + n < N THEN h + n ELSE h + n - N
      /\ Wrap(h + (n + k)) = IF h + (n + k) < N THEN h + (n + k) ELSE h + (n + k) - N
  BY <1>1, WrapOnce, RingSize DEF Indexes
<1>3. Wrap(h + n) + k \in Nat /\ Wrap(h + n) + k < N + N
  BY <1>2, RingSize DEF Indexes
<1>4. Wrap(Wrap(h + n) + k) =
        IF Wrap(h + n) + k < N THEN Wrap(h + n) + k ELSE Wrap(h + n) + k - N
  BY <1>2, <1>3, WrapOnce, RingSize DEF Indexes
<1>. QED BY <1>2, <1>4, RingSize DEF Indexes

----------------------------------------------------------------------------
(* Type correctness, for any number of consumers.                             *)

\* The types of the producer's, and then of consumer c's, step.
LEMMA ProducerType == TypeOK /\ Producer => TypeOK'
<1> SUFFICES ASSUME TypeOK, Producer PROVE TypeOK'
  OBVIOUS
<1> USE DEF TypeOK, cvars, pvars
<1>1. ASSUME NEW n \in Batches, PushBegin(n) PROVE TypeOK'
  BY <1>1, QueueAssumption DEF PushBegin
<1>2. CASE PushCheck
  BY <1>2 DEF PushCheck
<1>3. CASE PushWrite
  <2>1. pi + 1 \in 0..pn
    BY <1>3, QueueAssumption DEF PushWrite
  <2>2. pn \in Nat
    BY QueueAssumption
  <2>3. pi \in Nat /\ made + pi + 1 \in Nat
    BY <2>2
  <2>4. slots' \in [Indexes -> Nat]
    BY <1>3, <2>3 DEF PushWrite
  <2>. QED BY <1>3, <2>1, <2>4 DEF PushWrite
<1>4. CASE PushCommit
  <2>1. tail + pn \in Nat /\ made + pn \in Nat
    BY QueueAssumption DEF Indexes
  <2>. QED BY <1>4, <2>1, WrapType DEF PushCommit
<1>5. CASE WriterFails
  BY <1>5 DEF WriterFails
<1>. QED BY <1>1, <1>2, <1>3, <1>4, <1>5 DEF Producer

LEMMA ConsumerType ==
    ASSUME NEW c \in Consumers, TypeOK, Consumer(c)
    PROVE  TypeOK'
<1> USE DEF TypeOK, pvars, Goto, Answer, Return
<1>1. ASSUME NEW op \in Calls, NEW n \in Batches, PopBegin(c, op, n) PROVE TypeOK'
  BY <1>1, QueueAssumption DEF PopBegin
<1>2. CASE LoadHead(c)
  BY <1>2 DEF LoadHead
<1>3. CASE LoadTail(c)
  BY <1>3 DEF LoadTail
<1>4. CASE Copy(c)
  <2>0. chead[c] \in 0..(N - 1) /\ Len(buf[c]) \in Nat
    BY DEF Indexes
  <2>1. Wrap(chead[c] + Copied(c)) \in Indexes
    BY <2>0, WrapType, RingSize DEF Copied
  <2>2. Append(buf[c], slots[Wrap(chead[c] + Copied(c))]) \in Seq(Nat)
    BY <2>1
  <2>. QED BY <1>4, <2>2 DEF Copy
<1>5. CASE PopCommit(c)
  <2>0. chead[c] \in 0..(N - 1) /\ cn[c] \in Nat
    BY BatchSize DEF Indexes
  <2>1. chead[c] + cn[c] \in Nat
    BY <2>0, RingSize
  <2>. QED BY <1>5, <2>1, WrapType DEF PopCommit
<1>6. CASE CasFails(c)
  BY <1>6 DEF CasFails
<1>7. CASE PeekCheck(c)
  BY <1>7 DEF PeekCheck
<1>8. CASE ReaderFails(c)
  BY <1>8 DEF ReaderFails
<1>. QED BY <1>1, <1>2, <1>3, <1>4, <1>5, <1>6, <1>7, <1>8 DEF Consumer

LEMMA TypeInit == Init => TypeOK
BY RingSize DEF Init, TypeOK, Indexes, AllCalls

LEMMA TypeStep == TypeOK /\ [Next]_vars => TypeOK'
<1>1. ASSUME TypeOK, UNCHANGED vars PROVE TypeOK'
  BY <1>1 DEF TypeOK, vars, pvars, cvars
<1>2. ASSUME TypeOK, Reset PROVE TypeOK'
  BY <1>2, RingSize DEF TypeOK, Reset, pvars, cvars, Indexes
<1>. QED BY <1>1, <1>2, ProducerType, ConsumerType DEF Next

\* Every index stays in the ring and every batch in its bounds, for all ring
\* sizes, batch sizes and numbers of consumers.
THEOREM TypeCorrect == Spec => []TypeOK
BY TypeInit, TypeStep, PTL DEF Spec

----------------------------------------------------------------------------
(* The inductive invariant: what each side knows of the ring between its      *)
(* check of the other side's index and its commit.                            *)

\* The room the producer saw is still there: only it moves tail_, and head_
\* only moves away.
RoomKept == ppc = "write" => pn <= Free(head, tail)

BatchWritten ==
    /\ ppc # "idle" => pn \in Batches
    /\ ppc = "check" => pi = 0
    /\ ppc = "write" => \A i \in 0..(pi - 1) : slots[Wrap(tail + i)] = made + i + 1

\* current_head is head_ while the consumer uses it.
HeadKnown ==
    \A c \in Consumers :
        /\ cpc[c] # "idle" => cn[c] \in Batches
        /\ cpc[c] \in {"tail", "copy"} => chead[c] = head
        /\ cpc[c] = "tail" => buf[c] = <<>>

\* The batch is still in the ring, and what is copied of it is its front.
FrontCopied ==
    \A c \in Consumers : cpc[c] = "copy" =>
        /\ cn[c] <= Used(head, tail)
        /\ Copied(c) <= cn[c]
        /\ \A j \in 0..(Copied(c) - 1) : buf[c][j + 1] = slots[Wrap(head + j)]

IInv == TypeOK /\ RoomKept /\ BatchWritten /\ HeadKnown /\ FrontCopied

LEMMA InvInit == Init => IInv
BY TypeInit DEF Init, IInv, RoomKept, BatchWritten, HeadKnown, FrontCopied

\* The slot that is written is not one of those in use.
LEMMA WriteElsewhere ==
    ASSUME IInv, PushWrite, NEW j \in 0..(Used(head, tail) - 1)
    PROVE  slots'[Wrap(head + j)] = slots[Wrap(head + j)]
<1> DEFINE u == Used(head, tail)
<1>1. head \in Indexes /\ tail \in Indexes /\ slots \in [Indexes -> Nat]
  BY DEF IInv, TypeOK
<1>2. u \in 0..(N - 1) /\ Free(head, tail) = N - 1 - u
  BY <1>1, UsedBound
<1>3. pn \in Nat /\ pi \in Nat /\ pi < pn /\ pn <= N - 1 - u
  <2>1. pn \in Nat /\ pi \in 0..pn
    BY BatchSize DEF IInv, TypeOK
  <2>. QED BY <2>1, <1>2 DEF IInv, RoomKept, PushWrite
<1>4. u + pi \in 0..(N - 1) /\ j \in 0..(N - 1) /\ j # u + pi /\ u + pi < N
  BY <1>2, <1>3, RingSize
<1>5. Wrap(tail + pi) = Wrap(head + (u + pi))
  BY <1>1, <1>3, <1>4, AfterTail
<1>6. Wrap(head + j) # Wrap(tail + pi)
  BY <1>1, <1>4, <1>5, Distinct
<1>7. Wrap(head + j) \in Indexes
  <2>1. head + j \in Nat
    BY <1>1, <1>4, RingSize DEF Indexes
  <2>. QED BY <2>1, WrapType
<1>. QED BY <1>1, <1>6, <1>7 DEF PushWrite

LEMMA ProducerStep ==
    ASSUME IInv, Producer
    PROVE  IInv'
<1> USE DEF pvars, cvars, Copied
<1>1. TypeOK'
  BY ProducerType DEF IInv
<1>2. ASSUME NEW n \in Batches, PushBegin(n) PROVE IInv'
  BY <1>1, <1>2 DEF IInv, RoomKept, BatchWritten, HeadKnown, FrontCopied, PushBegin
<1>3. CASE PushCheck
  <2>1. ppc' = "write" => pn <= Free(head, tail)
    <3>1. pn \in Nat /\ Free(head, tail) \in Nat
      BY BatchSize, UsedBound DEF IInv, TypeOK
    <3>. QED BY <1>3, <3>1 DEF PushCheck
  <2>2. pi = 0
    BY <1>3 DEF PushCheck, IInv, BatchWritten
  <2>. QED BY <1>1, <1>3, <2>1, <2>2
         DEF IInv, RoomKept, BatchWritten, HeadKnown, FrontCopied, PushCheck
<1>4. CASE PushWrite
  <2>1. RoomKept' /\ HeadKnown'
    BY <1>4 DEF IInv, RoomKept, HeadKnown, PushWrite
  <2>2. BatchWritten'
    <3>1. head \in Indexes /\ tail \in Indexes /\ slots \in [Indexes -> Nat]
      BY DEF IInv, TypeOK
    <3>2. pn \in Nat /\ pi \in Nat /\ pi < pn
      BY <1>4, BatchSize DEF IInv, TypeOK, PushWrite
    <3>3. pn < N
      <4>1. Free(head, tail) \in 0..(N - 1) /\ pn <= Free(head, tail)
        BY <1>4, <3>1, UsedBound DEF IInv, RoomKept, PushWrite
      <4>. QED BY <3>2, <4>1, RingSize
    <3>4. ASSUME NEW i \in 0..(pi' - 1) PROVE slots'[Wrap(tail + i)] = made + i + 1
      <4>1. i \in 0..pi /\ i \in 0..(N - 1) /\ pi \in 0..(N - 1)
        BY <1>4, <3>2, <3>3, RingSize DEF PushWrite
      <4>2. Wrap(tail + i) \in Indexes
        <5>1. tail + i \in Nat
          BY <3>1, <4>1, RingSize DEF Indexes
        <5>. QED BY <5>1, WrapType
      <4>3. CASE i = pi
        BY <1>4, <3>1, <4>2, <4>3 DEF PushWrite
      <4>4. CASE i # pi
        <5>1. Wrap(tail + i) # Wrap(tail + pi)
          BY <3>1, <4>1, <4>4, Distinct
        <5>2. slots[Wrap(tail + i)] = made + i + 1
          BY <1>4, <3>2, <4>1, <4>4 DEF IInv, BatchWritten, PushWrite
        <5>. QED BY <1>4, <3>1, <4>2, <5>1, <5>2 DEF PushWrite
      <4>. QED BY <4>3, <4>4
    <3>. QED BY <1>4, <3>4 DEF IInv, BatchWritten, PushWrite
  <2>3. FrontCopied'
    <3>1. ASSUME NEW c \in Consumers, cpc[c] = "copy", NEW j \in 0..(Copied(c) - 1)
          PROVE  buf[c][j + 1] = slots'[Wrap(head + j)]
      <4>1. buf[c] \in Seq(Nat) /\ cn[c] \in Batches \cup {0}
        BY DEF IInv, TypeOK
      <4>2. Copied(c) \in Nat /\ cn[c] \in Nat /\ Used(head, tail) \in Nat
        <5>1. Len(buf[c]) \in Nat
          BY <4>1
        <5>2. Used(head, tail) \in Nat
          BY UsedBound DEF IInv, TypeOK
        <5>. QED BY <4>1, <5>1, <5>2, BatchSize
      <4>3. j \in 0..(Used(head, tail) - 1)
        BY <3>1, <4>2 DEF IInv, FrontCopied
      <4>. QED BY <1>4, <3>1, <4>3, WriteElsewhere DEF IInv, FrontCopied
    <3>. QED BY <1>4, <3>1 DEF IInv, FrontCopied, PushWrite
  <2>. QED BY <1>1, <2>1, <2>2, <2>3 DEF IInv
<1>5. CASE PushCommit
  <2>1. Used(head, tail') = Used(head, tail) + pn /\ pn \in Nat /\ Used(head, tail) \in Nat
    BY <1>5, BatchSize, UsedBound, AdvanceTail DEF IInv, TypeOK, RoomKept, PushCommit
  <2>2. FrontCopied'
    <3>1. ASSUME NEW c \in Consumers, cpc[c] = "copy" PROVE cn[c] <= Used(head, tail')
      <4>1. cn[c] \in Nat /\ cn[c] <= Used(head, tail)
        BY <3>1, BatchSize DEF IInv, TypeOK, FrontCopied
      <4>. QED BY <2>1, <4>1
    <3>. QED BY <1>5, <3>1 DEF IInv, FrontCopied, PushCommit
  <2>. QED BY <1>1, <1>5, <2>2 DEF IInv, RoomKept, BatchWritten, HeadKnown, PushCommit
<1>6. CASE WriterFails
  BY <1>1, <1>6 DEF IInv, RoomKept, BatchWritten, HeadKnown, FrontCopied, WriterFails
<1>. QED BY <1>2, <1>3, <1>4, <1>5, <1>6 DEF Producer

LEMMA ConsumerStep ==
    ASSUME SingleConsumer, IInv, NEW c \in Consumers, Consumer(c)
    PROVE  IInv'
<1> USE DEF pvars, Goto, Answer, Return
<1>1. TypeOK'
  BY ConsumerType DEF IInv
<1>2. \A d \in Consumers : d = c
  BY DEF SingleConsumer
<1>3. /\ head \in Indexes /\ tail \in Indexes /\ pn \in Nat
      /\ cpc \in [Consumers -> {"idle", "head", "tail", "copy"}]
      /\ chead \in [Consumers -> Indexes] /\ popped \in [Consumers -> {"none", "OK", "EMPTY", "FAILED"}]
      /\ buf \in [Consumers -> Seq(Nat)] /\ cn \in [Consumers -> Batches \cup {0}]
      /\ cn[c] \in Nat
  BY BatchSize DEF IInv, TypeOK
<1>4. ASSUME NEW op \in Calls, NEW n \in Batches, PopBegin(c, op, n) PROVE IInv'
  <2>1. RoomKept' /\ BatchWritten'
    BY <1>4 DEF IInv, RoomKept, BatchWritten, PopBegin
  <2>2. HeadKnown' /\ FrontCopied'
    BY <1>2, <1>3, <1>4 DEF HeadKnown, FrontCopied, PopBegin
  <2>. QED BY <1>1, <2>1, <2>2 DEF IInv
<1>5. CASE LoadHead(c)
  <2>1. RoomKept' /\ BatchWritten'
    BY <1>5 DEF IInv, RoomKept, BatchWritten, LoadHead
  <2>2. HeadKnown' /\ FrontCopied'
    BY <1>2, <1>3, <1>5 DEF IInv, HeadKnown, FrontCopied, LoadHead
  <2>. QED BY <1>1, <2>1, <2>2 DEF IInv
<1>6. CASE LoadTail(c)
  <2>1. RoomKept' /\ BatchWritten'
    BY <1>6 DEF IInv, RoomKept, BatchWritten, LoadTail
  <2>2. HeadKnown'
    BY <1>2, <1>3, <1>6 DEF IInv, HeadKnown, LoadTail
  <2>3. FrontCopied'
    <3>1. chead[c] = head /\ buf[c] = <<>>
      BY <1>6 DEF IInv, HeadKnown, LoadTail
    <3>2. Used(head, tail) \in Nat
      BY <1>3, UsedBound
    <3>3. Copied(c) = 0
      BY <3>1 DEF Copied
    <3>4. cpc'[c] = "copy" => cn[c] <= Used(head, tail)
      BY <1>3, <1>6, <3>1, <3>2 DEF LoadTail
    <3>. QED BY <1>2, <1>3, <1>6, <3>3, <3>4 DEF FrontCopied, LoadTail, Copied
  <2>. QED BY <1>1, <2>1, <2>2, <2>3 DEF IInv
<1>7. CASE Copy(c)
  <2>1. RoomKept' /\ BatchWritten'
    BY <1>7 DEF IInv, RoomKept, BatchWritten, Copy
  <2>2. HeadKnown'
    BY <1>2, <1>3, <1>7 DEF IInv, HeadKnown, Copy
  <2>3. FrontCopied'
    <3> DEFINE new == slots[Wrap(head + Copied(c))]
    <3>1. /\ chead[c] = head /\ cn[c] <= Used(head, tail) /\ Copied(c) < cn[c]
          /\ \A j \in 0..(Copied(c) - 1) : buf[c][j + 1] = slots[Wrap(head + j)]
      BY <1>7 DEF IInv, HeadKnown, FrontCopied, Copy
    <3>2. buf'[c] = Append(buf[c], new) /\ buf[c] \in Seq(Nat)
      BY <1>3, <1>7, <3>1 DEF Copy
    <3>3. Copied(c)' = Copied(c) + 1 /\ Copied(c) \in Nat
      BY <3>2 DEF Copied
    <3>4. \A j \in 0..(Copied(c) - 1) : buf'[c][j + 1] = buf[c][j + 1]
      BY <3>2, <3>3 DEF Copied
    <3>5. buf'[c][Copied(c) + 1] = new
      BY <3>2 DEF Copied
    <3>6. \A j \in 0..(Copied(c)' - 1) : buf'[c][j + 1] = slots[Wrap(head + j)]
      BY <3>1, <3>3, <3>4, <3>5
    <3>7. Copied(c)' <= cn[c]
      BY <1>3, <3>1, <3>3
    <3>. QED BY <1>2, <1>7, <3>1, <3>6, <3>7 DEF FrontCopied, Copy
  <2>. QED BY <1>1, <2>1, <2>2, <2>3 DEF IInv
<1>8. CASE PopCommit(c)
  <2>1. chead[c] = head /\ cn[c] <= Used(head, tail)
    BY <1>8 DEF IInv, HeadKnown, FrontCopied, PopCommit
  <2>2. head' \in Indexes /\ Used(head', tail) = Used(head, tail) - cn[c]
    BY <1>1, <1>3, <1>8, <2>1, AdvanceHead DEF PopCommit, TypeOK
  <2>3. RoomKept'
    <3>1. /\ Used(head, tail) \in Nat /\ Free(head, tail) = N - 1 - Used(head, tail)
          /\ Free(head', tail) = N - 1 - Used(head', tail)
          /\ Free(head, tail) \in Nat /\ Free(head', tail) \in Nat
      BY <1>3, <2>2, UsedBound
    <3>2. Free(head, tail) <= Free(head', tail)
      BY <1>3, <2>2, <3>1, RingSize
    <3>3. ppc = "write" => pn <= Free(head', tail)
      BY <1>3, <3>1, <3>2 DEF IInv, RoomKept
    <3>. QED BY <1>8, <3>3 DEF RoomKept, PopCommit
  <2>4. BatchWritten'
    BY <1>8 DEF IInv, BatchWritten, PopCommit
  <2>5. HeadKnown' /\ FrontCopied'
    BY <1>2, <1>3, <1>8 DEF HeadKnown, FrontCopied, PopCommit
  <2>. QED BY <1>1, <2>3, <2>4, <2>5 DEF IInv
<1>9. CASE CasFails(c)
  BY <1>1, <1>2, <1>3, <1>9
     DEF IInv, RoomKept, BatchWritten, HeadKnown, FrontCopied, CasFails
<1>10. CASE PeekCheck(c)
  BY <1>1, <1>2, <1>3, <1>10
     DEF IInv, RoomKept, BatchWritten, HeadKnown, FrontCopied, PeekCheck
<1>11. CASE ReaderFails(c)
  BY <1>1, <1>2, <1>3, <1>11
     DEF IInv, RoomKept, BatchWritten, HeadKnown, FrontCopied, ReaderFails
<1>. QED BY <1>4, <1>5, <1>6, <1>7, <1>8, <1>9, <1>10, <1>11 DEF Consumer

LEMMA InvStep == SingleConsumer /\ IInv /\ [Next]_vars => IInv'
<1> SUFFICES ASSUME SingleConsumer, IInv, [Next]_vars PROVE IInv'
  OBVIOUS
<1>1. CASE UNCHANGED vars
  <2>1. TypeOK'
    BY TypeStep DEF IInv
  <2>. QED BY <1>1, <2>1 DEF IInv, RoomKept, BatchWritten, HeadKnown, FrontCopied, Copied,
                             vars, pvars, cvars
<1>2. CASE Reset
  <2>1. TypeOK'
    BY TypeStep DEF IInv
  <2>. QED BY <1>2, <2>1 DEF IInv, RoomKept, BatchWritten, HeadKnown, FrontCopied, Reset,
                             pvars, cvars
<1>. QED BY <1>1, <1>2, ProducerStep, ConsumerStep DEF Next

----------------------------------------------------------------------------
(* The theorems about a ring with one consumer.                               *)

THEOREM InvariantHolds == ASSUME SingleConsumer PROVE Spec => []IInv
<1>1. IInv /\ [Next]_vars => IInv'
  BY InvStep
<1>. QED BY <1>1, InvInit, PTL DEF Spec

\* The batch being written lies beyond the items in use, the batch being copied
\* among them.
LEMMA OwnershipFromInv == IInv => SlotOwnership
<1> SUFFICES ASSUME IInv, NEW c \in Consumers, ppc = "write", cpc[c] = "copy",
                    NEW i \in 0..(pn - 1), NEW j \in 0..(cn[c] - 1)
             PROVE  Wrap(tail + i) # Wrap(chead[c] + j)
  BY DEF SlotOwnership, Open, Copying
<1> DEFINE u == Used(head, tail)
<1>1. /\ head \in Indexes /\ tail \in Indexes /\ pn \in Nat /\ cn[c] \in Nat
      /\ chead[c] = head /\ cn[c] <= u /\ pn <= Free(head, tail)
  BY BatchSize DEF IInv, TypeOK, RoomKept, BatchWritten, HeadKnown, FrontCopied
<1>2. u \in 0..(N - 1) /\ Free(head, tail) = N - 1 - u
  BY <1>1, UsedBound
<1>3. /\ i \in Nat /\ u + i < N /\ u + i \in 0..(N - 1)
      /\ j \in 0..(N - 1) /\ j # u + i
  BY <1>1, <1>2, RingSize
<1>4. Wrap(tail + i) = Wrap(head + (u + i))
  BY <1>1, <1>3, AfterTail
<1>. QED BY <1>1, <1>3, <1>4, Distinct

\* The plain accesses to the slots never race, whatever the sizes of the ring
\* and of the batches.
THEOREM SlotsOwned == ASSUME SingleConsumer PROVE Spec => []SlotOwnership
BY InvariantHolds, OwnershipFromInv, PTL

----------------------------------------------------------------------------
(* The refinement: what each step does to the content of the ring.            *)

LEMMA ContentSeq ==
    ASSUME NEW h \in Indexes, NEW t \in Indexes, NEW s \in [Indexes -> Nat]
    PROVE  /\ Content(h, t, s) \in Seq(Nat)
           /\ Len(Content(h, t, s)) = Used(h, t)
           /\ \A k \in 1..Used(h, t) : Content(h, t, s)[k] = s[Wrap(h + (k - 1))]
<1>1. Used(h, t) \in Nat
  BY UsedBound
<1>2. ASSUME NEW k \in 1..Used(h, t) PROVE s[Wrap(h + (k - 1))] \in Nat
  <2>1. h + (k - 1) \in Nat
    BY <1>1 DEF Indexes
  <2>. QED BY <2>1, WrapType
<1>. QED BY <1>1, <1>2 DEF Content

\* Two contents are equal if they have the same length and items.
LEMMA SameContent ==
    ASSUME NEW h \in Indexes, NEW t \in Indexes, NEW s \in [Indexes -> Nat],
           NEW r \in [Indexes -> Nat],
           \A k \in 0..(Used(h, t) - 1) : s[Wrap(h + k)] = r[Wrap(h + k)]
    PROVE  Content(h, t, s) = Content(h, t, r)
<1>1. Used(h, t) \in Nat
  BY UsedBound
<1>2. \A k \in 1..Used(h, t) : s[Wrap(h + (k - 1))] = r[Wrap(h + (k - 1))]
  BY <1>1
<1>. QED BY <1>2 DEF Content

\* A commit of the producer appends the batch it has written.
LEMMA CommitIsPut ==
    ASSUME IInv, PushCommit
    PROVE  F!Put(pn)
<1> DEFINE u   == Used(head, tail)
           old == Content(head, tail, slots)
           new == Content(head, tail', slots)
           add == [i \in 1..pn |-> made + i]
<1>1. /\ head \in Indexes /\ tail \in Indexes /\ slots \in [Indexes -> Nat]
      /\ made \in Nat /\ pn \in Nat /\ pn <= Free(head, tail) /\ tail' = Wrap(tail + pn)
      /\ \A i \in 0..(pn - 1) : slots[Wrap(tail + i)] = made + i + 1
  BY BatchSize DEF IInv, TypeOK, RoomKept, BatchWritten, PushCommit
<1>2. tail' \in Indexes
  BY ProducerType DEF IInv, Producer, TypeOK
<1>3. u \in 0..(N - 1) /\ Free(head, tail) = N - 1 - u /\ Used(head, tail') = u + pn
  BY <1>1, UsedBound, AdvanceTail
<1>4. /\ old \in Seq(Nat) /\ Len(old) = u
      /\ \A k \in 1..u : old[k] = slots[Wrap(head + (k - 1))]
  BY <1>1, ContentSeq
<1>5. /\ new \in Seq(Nat) /\ Len(new) = Used(head, tail')
      /\ \A k \in 1..Used(head, tail') : new[k] = slots[Wrap(head + (k - 1))]
  BY <1>1, <1>2, ContentSeq
<1>6. /\ add \in Seq(Nat) /\ Len(add) = pn /\ \A i \in 1..pn : add[i] = made + i
  BY <1>1
<1>7. Content(head, tail, slots)' = new
  BY DEF PushCommit, Content, Used, Wrap
<1> HIDE DEF u, old, new, add
<1>8. /\ old \o add \in Seq(Nat) /\ Len(old \o add) = Len(old) + Len(add)
      /\ \A k \in 1..(Len(old) + Len(add)) :
            (old \o add)[k] = IF k <= Len(old) THEN old[k] ELSE add[k - Len(old)]
  BY <1>4, <1>6, ConcatProperties
<1>9. ASSUME NEW k \in 1..(u + pn) PROVE new[k] = (old \o add)[k]
  <2>1. CASE k <= u
    <3>1. k \in 1..u /\ k \in 1..Used(head, tail') /\ k \in 1..(Len(old) + Len(add))
      BY <1>1, <1>3, <1>4, <1>6, <2>1
    <3>2. new[k] = slots[Wrap(head + (k - 1))] /\ old[k] = slots[Wrap(head + (k - 1))]
      BY <1>4, <1>5, <3>1
    <3>. QED BY <1>4, <1>8, <2>1, <3>1, <3>2
  <2>2. CASE ~(k <= u)
    <3>1. k - u \in 1..pn /\ k - u - 1 \in 0..(pn - 1) /\ k - 1 = u + (k - u - 1)
          /\ u + (k - u - 1) < N
      BY <1>1, <1>3, <2>2, RingSize
    <3>2. Wrap(tail + (k - u - 1)) = Wrap(head + (k - 1))
      BY <1>1, <3>1, AfterTail DEF u
    <3>3. slots[Wrap(tail + (k - u - 1))] = made + (k - u - 1) + 1
      BY <1>1, <3>1
    <3>4. made + (k - u - 1) + 1 = made + (k - u)
      BY <1>1, <1>3
    <3>5. new[k] = slots[Wrap(head + (k - 1))]
      BY <1>3, <1>5
    <3>6. (old \o add)[k] = add[k - u]
      BY <1>3, <1>4, <1>6, <1>8, <2>2
    <3>. QED BY <1>6, <3>1, <3>2, <3>3, <3>4, <3>5, <3>6
  <2>. QED BY <2>1, <2>2
<1>10. new = old \o add
  <2>1. Len(new) = u + pn /\ Len(old \o add) = u + pn
    BY <1>3, <1>4, <1>5, <1>6, <1>8
  <2>. QED BY <1>5, <1>8, <1>9, <2>1, SeqEqual
<1>11. Len(old) + pn <= N - 1
  BY <1>1, <1>3, <1>4, RingSize
<1>. QED BY <1>10, <1>7, <1>11 DEF F!Put, PushCommit, cvars, old, add

\* A consumer's buffer, when it is full, is the front of the queue.
LEMMA BufferIsFront ==
    ASSUME IInv, NEW c \in Consumers, cpc[c] = "copy", Copied(c) = cn[c]
    PROVE  /\ cn[c] \in Nat /\ cn[c] <= Used(head, tail)
           /\ buf[c] = SubSeq(Content(head, tail, slots), 1, cn[c])
<1> DEFINE u == Used(head, tail)
           q == Content(head, tail, slots)
<1>1. /\ head \in Indexes /\ tail \in Indexes /\ slots \in [Indexes -> Nat]
      /\ cn[c] \in Nat /\ buf[c] \in Seq(Nat) /\ Len(buf[c]) = cn[c] /\ cn[c] <= u
      /\ \A j \in 0..(cn[c] - 1) : buf[c][j + 1] = slots[Wrap(head + j)]
  BY BatchSize DEF IInv, TypeOK, FrontCopied, Copied
<1>2. u \in Nat
  BY <1>1, UsedBound
<1>3. /\ q \in Seq(Nat) /\ Len(q) = u
      /\ \A k \in 1..u : q[k] = slots[Wrap(head + (k - 1))]
  BY <1>1, ContentSeq
<1>4. \A i \in 1..cn[c] : q[i] \in Nat
  BY <1>1, <1>2, <1>3, ElementOfSeq
<1>5. /\ SubSeq(q, 1, cn[c]) \in Seq(Nat) /\ Len(SubSeq(q, 1, cn[c])) = cn[c]
      /\ \A i \in 1..cn[c] : SubSeq(q, 1, cn[c])[i] = q[i]
  BY <1>1, <1>4, SubSeqProperties
<1>6. ASSUME NEW i \in 1..cn[c] PROVE buf[c][i] = SubSeq(q, 1, cn[c])[i]
  <2>1. i - 1 \in 0..(cn[c] - 1) /\ i \in 1..u /\ i = (i - 1) + 1
    BY <1>1, <1>2
  <2>2. buf[c][i] = slots[Wrap(head + (i - 1))]
    BY <1>1, <2>1
  <2>. QED BY <1>3, <1>5, <2>1, <2>2
<1>7. buf[c] = SubSeq(q, 1, cn[c])
  BY <1>1, <1>5, <1>6, SeqEqual
<1>. QED BY <1>1, <1>7

\* Taking n items at the head leaves the rest of the queue.
LEMMA AdvancedContent ==
    ASSUME NEW h \in Indexes, NEW t \in Indexes, NEW s \in [Indexes -> Nat],
           NEW n \in Nat, n <= Used(h, t)
    PROVE  Content(Wrap(h + n), t, s)
             = SubSeq(Content(h, t, s), n + 1, Len(Content(h, t, s)))
<1> DEFINE u   == Used(h, t)
           q   == Content(h, t, s)
           new == Content(Wrap(h + n), t, s)
<1>1. u \in 0..(N - 1)
  BY UsedBound
<1>2. h + n \in Nat /\ Wrap(h + n) \in Indexes
  <2>1. h + n \in Nat
    BY DEF Indexes
  <2>. QED BY <2>1, WrapType
<1>3. Used(Wrap(h + n), t) = u - n
  BY AdvanceHead
<1>4. /\ q \in Seq(Nat) /\ Len(q) = u
      /\ \A k \in 1..u : q[k] = s[Wrap(h + (k - 1))]
  BY ContentSeq
<1>5. /\ new \in Seq(Nat) /\ Len(new) = Used(Wrap(h + n), t)
      /\ \A k \in 1..Used(Wrap(h + n), t) : new[k] = s[Wrap(Wrap(h + n) + (k - 1))]
  BY <1>2, ContentSeq
<1> HIDE DEF u, q, new
<1>6. \A i \in (n + 1)..u : q[i] \in Nat
  <2>1. \A i \in (n + 1)..u : i \in 1..Len(q)
    BY <1>1, <1>4
  <2>. QED BY <1>4, <2>1, ElementOfSeq
<1>7. n + 1 \in Int /\ u \in Int /\ u - (n + 1) + 1 = u - n
  BY <1>1
<1>8. /\ SubSeq(q, n + 1, u) \in Seq(Nat)
      /\ Len(SubSeq(q, n + 1, u)) = IF n + 1 <= u THEN u - (n + 1) + 1 ELSE 0
      /\ \A i \in 1..(u - (n + 1) + 1) : SubSeq(q, n + 1, u)[i] = q[(n + 1) + i - 1]
  BY <1>6, <1>7, SubSeqProperties
<1>9. Len(SubSeq(q, n + 1, u)) = u - n /\ Len(new) = u - n
  BY <1>1, <1>3, <1>5, <1>7, <1>8 DEF u
<1>10. ASSUME NEW i \in 1..(u - n) PROVE new[i] = SubSeq(q, n + 1, u)[i]
  <2>1. /\ i \in Nat /\ n + i \in 1..u /\ (n + 1) + i - 1 = n + i
        /\ n + (i - 1) = n + i - 1 /\ i - 1 \in Nat /\ n + (i - 1) < N
    BY <1>1, RingSize
  <2>2. SubSeq(q, n + 1, u)[i] = q[n + i]
    BY <1>7, <1>8, <2>1
  <2>3. q[n + i] = s[Wrap(h + (n + (i - 1)))]
    BY <1>4, <2>1
  <2>4. new[i] = s[Wrap(Wrap(h + n) + (i - 1))]
    BY <1>3, <1>5
  <2>5. Wrap(Wrap(h + n) + (i - 1)) = Wrap(h + (n + (i - 1)))
    BY <2>1, AdvanceTwice
  <2>. QED BY <2>2, <2>3, <2>4, <2>5
<1>11. new = SubSeq(q, n + 1, u)
  BY <1>5, <1>8, <1>9, <1>10, SeqEqual
<1>. QED BY <1>4, <1>11 DEF q, new

LEMMA PopIsTake ==
    ASSUME IInv, NEW c \in Consumers, PopCommit(c)
    PROVE  F!Take(c, cn[c])
<1> DEFINE q == Content(head, tail, slots)
<1>1. /\ head \in Indexes /\ tail \in Indexes /\ slots \in [Indexes -> Nat]
      /\ chead[c] = head
  BY DEF IInv, TypeOK, HeadKnown, PopCommit
<1>2. cn[c] \in Nat /\ cn[c] <= Used(head, tail) /\ buf[c] = SubSeq(q, 1, cn[c])
  BY BufferIsFront DEF PopCommit
<1>3. Len(q) = Used(head, tail)
  BY <1>1, ContentSeq
<1>4. Content(head, tail, slots)' = Content(Wrap(head + cn[c]), tail, slots)
  BY <1>1 DEF PopCommit, Content, Used, Wrap
<1>5. Content(Wrap(head + cn[c]), tail, slots) = SubSeq(q, cn[c] + 1, Len(q))
  BY <1>1, <1>2, AdvancedContent
<1>. QED BY <1>2, <1>3, <1>4, <1>5
       DEF F!Take, F!Front, F!Rest, PopCommit, Return, Answer, pvars

LEMMA PeekIsLook ==
    ASSUME IInv, NEW c \in Consumers, PeekCheck(c)
    PROVE  F!Look(c, cn[c])
<1> DEFINE q == Content(head, tail, slots)
<1>1. /\ head \in Indexes /\ tail \in Indexes /\ slots \in [Indexes -> Nat]
      /\ chead[c] = head
  BY DEF IInv, TypeOK, HeadKnown, PeekCheck
<1>2. cn[c] \in Nat /\ cn[c] <= Used(head, tail) /\ buf[c] = SubSeq(q, 1, cn[c])
  BY BufferIsFront DEF PeekCheck
<1>3. Len(q) = Used(head, tail)
  BY <1>1, ContentSeq
<1>4. Content(head, tail, slots)' = q
  BY DEF PeekCheck, Content, Used, Wrap
<1>. QED BY <1>1, <1>2, <1>3, <1>4
       DEF F!Look, F!Front, PeekCheck, Return, Answer, pvars

\* EMPTY and FULL are said of the queue as it is at the load that decides them.
LEMMA EmptyIsTrue ==
    ASSUME IInv, NEW c \in Consumers, LoadTail(c)
    PROVE  F!Empty(c, cn[c]) \/ UNCHANGED F!vars
<1>1. /\ head \in Indexes /\ tail \in Indexes /\ slots \in [Indexes -> Nat]
      /\ chead[c] = head
  BY DEF IInv, TypeOK, HeadKnown, LoadTail
<1>2. Len(Content(head, tail, slots)) = Used(head, tail) /\ Used(head, tail) \in Nat
  BY <1>1, ContentSeq, UsedBound
<1>3. cn[c] \in Nat
  BY BatchSize DEF IInv, TypeOK
<1>4. Content(head, tail, slots)' = Content(head, tail, slots)
  BY DEF LoadTail, Content, Used, Wrap
<1>. QED BY <1>1, <1>2, <1>3, <1>4 DEF F!Empty, F!vars, LoadTail, Answer, pvars

LEMMA FullIsTrue ==
    ASSUME IInv, PushCheck
    PROVE  F!Full(pn) \/ UNCHANGED F!vars
<1>1. head \in Indexes /\ tail \in Indexes /\ slots \in [Indexes -> Nat] /\ pn \in Nat
  BY BatchSize DEF IInv, TypeOK
<1>2. /\ Len(Content(head, tail, slots)) = Used(head, tail)
      /\ Used(head, tail) \in Nat /\ Free(head, tail) = N - 1 - Used(head, tail)
  BY <1>1, ContentSeq, UsedBound
<1>3. Content(head, tail, slots)' = Content(head, tail, slots)
  BY DEF PushCheck, Content, Used, Wrap
<1>4. Free(head, tail) < pn => Len(Content(head, tail, slots)) + pn > N - 1
  BY <1>1, <1>2, RingSize
<1>. QED BY <1>3, <1>4 DEF F!Full, F!vars, PushCheck, cvars

\* A step that changes nothing the queue promises.
LEMMA Stutter ==
    ASSUME UNCHANGED <<head, tail, made, pushed, popped, got>>,
           Content(head, tail, slots') = Content(head, tail, slots)
    PROVE  UNCHANGED F!vars
BY DEF F!vars, Content, Used, Wrap

LEMMA WriteIsStutter == ASSUME IInv, PushWrite PROVE UNCHANGED F!vars
<1>1. head \in Indexes /\ tail \in Indexes /\ slots \in [Indexes -> Nat]
  BY DEF IInv, TypeOK
<1>2. slots' \in [Indexes -> Nat]
  BY ProducerType DEF IInv, Producer, TypeOK
<1>3. Content(head, tail, slots') = Content(head, tail, slots)
  BY <1>1, <1>2, WriteElsewhere, SameContent
<1>. QED BY <1>3, Stutter DEF PushWrite, cvars

LEMMA ProducerRefines ==
    ASSUME IInv, Producer
    PROVE  [F!Next]_F!vars
<1> USE DEF pvars, cvars
<1>1. ASSUME NEW n \in Batches, PushBegin(n) PROVE F!AskPush
  BY <1>1 DEF PushBegin, F!AskPush, Content, Used, Wrap
<1>2. CASE PushCheck
  <2>1. pn \in Batches
    BY <1>2 DEF IInv, BatchWritten, PushCheck
  <2>. QED BY <1>2, <2>1, FullIsTrue DEF F!Next
<1>3. CASE PushWrite
  BY <1>3, WriteIsStutter
<1>4. CASE PushCommit
  <2>1. pn \in Batches
    BY <1>4 DEF IInv, BatchWritten, PushCommit
  <2>. QED BY <1>4, <2>1, CommitIsPut DEF F!Next
<1>5. CASE WriterFails
  BY <1>5 DEF WriterFails, F!PushGivenUp, F!Next, Content, Used, Wrap
<1>. QED BY <1>1, <1>2, <1>3, <1>4, <1>5 DEF Producer, F!Next

LEMMA ConsumerRefines ==
    ASSUME IInv, NEW c \in Consumers, Consumer(c)
    PROVE  [F!Next]_F!vars
<1> USE DEF pvars
<1>1. cpc[c] # "idle" => cn[c] \in Batches
  BY DEF IInv, HeadKnown
<1>2. ASSUME NEW op \in Calls, NEW n \in Batches, PopBegin(c, op, n) PROVE F!AskPop(c)
  BY <1>2 DEF PopBegin, F!AskPop, Content, Used, Wrap
<1>3. CASE LoadHead(c)
  BY <1>3, Stutter DEF LoadHead
<1>4. CASE LoadTail(c)
  BY <1>1, <1>4, EmptyIsTrue DEF F!Next, LoadTail
<1>5. CASE Copy(c)
  BY <1>5, Stutter DEF Copy
<1>6. CASE PopCommit(c)
  BY <1>1, <1>6, PopIsTake DEF F!Next, PopCommit
<1>7. CASE CasFails(c)
  BY <1>7, Stutter DEF CasFails
<1>8. CASE PeekCheck(c)
  BY <1>1, <1>8, PeekIsLook DEF F!Next, PeekCheck
<1>9. CASE ReaderFails(c)
  BY <1>9 DEF ReaderFails, Answer, F!PopGivenUp, F!Next, Content, Used, Wrap
<1>. QED BY <1>2, <1>3, <1>4, <1>5, <1>6, <1>7, <1>8, <1>9 DEF Consumer, F!Next

LEMMA RefinementInit == Init => F!Init
<1> SUFFICES ASSUME Init PROVE F!Init
  OBVIOUS
<1>1. Used(head, tail) = 0
  BY DEF Init, Used
<1>. QED BY <1>1 DEF Init, F!Init, Content

LEMMA RefinementStep == IInv /\ [Next]_vars => [F!Next]_F!vars
<1> SUFFICES ASSUME IInv, [Next]_vars PROVE [F!Next]_F!vars
  OBVIOUS
<1>1. CASE UNCHANGED vars
  BY <1>1, Stutter DEF vars, pvars, cvars
<1>2. CASE Reset
  <2>1. Used(head', tail') = 0
    BY <1>2 DEF Reset, Used
  <2>2. Content(head, tail, slots)' = <<>>
    BY <2>1 DEF Content, Used
  <2>. QED BY <1>2, <2>2 DEF Reset, F!Next, F!Clear, pvars, cvars
<1>. QED BY <1>1, <1>2, ProducerRefines, ConsumerRefines DEF Next

\* With one consumer the ring implements the bounded FIFO queue: every item is
\* returned once and in order, and FULL and EMPTY are never said wrongly.
THEOREM QueueIsFifo == ASSUME SingleConsumer PROVE Spec => ImplementsFifo
BY InvariantHolds, RefinementInit, RefinementStep, PTL DEF Spec, ImplementsFifo, F!Spec
=============================================================================
