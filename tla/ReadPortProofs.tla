--------------------------- MODULE ReadPortProofs ---------------------------
(* Proofs about ReadPort: its types and its safety properties, for any reads, *)
(* any amount of bytes and any capacity, in the environments named here.      *)
EXTENDS ReadPort, SequenceTheorems, TLAPS

\* The producer is an interrupt of the reader's core, under a port whose starts
\* may fail or that may be reset, but not both; or it is a thread beside a
\* polite reader whose starts do not fail.
SoundEnv(e) == IF e.isr THEN e.fails => e.resets = 0 ELSE e.polite /\ ~e.fails
SoundEnvs == \A e \in Envs : SoundEnv(e)

----------------------------------------------------------------------------
(* The inductive invariant.                                                   *)

Looking == {"store", "size", "pop", "arm"}   \* the call has not armed its read
Started == {"fun", "failed", "wait", "detached", "reap", "release"}
Serving == {"pop", "finish", "status", "broken"}
Claimed == busy = "BLOCK_CLAIMED"

\* The calls so far are the reads 1..rd, and info_ is one of them.
Books ==
    /\ info <= rd
    /\ pc # "idle" => rd \in Reads
    /\ pc \in Started => info = rd
    /\ \A r \in Reads : r > rd => status[r] = "READY" /\ got[r] = <<>>

\* What a read that is under way may be.
ReadUnderWay ==
    /\ pc \in Looking =>
          /\ busy \in {"IDLE", "EVENT"} /\ got[rd] = <<>>
          /\ status[rd] \in {"READY", "RUNNING"}
          /\ info = rd => status[rd] = "RUNNING"
          /\ ppc \notin Serving
    /\ pc \in {"wait", "detached", "reap", "release"} => IsBlock(rd)
    /\ pc = "pop" => Enough(size[rd])
    /\ pc = "failed" => env.fails
    /\ pc \in {"reap", "release"} => Claimed
    /\ pc = "detached" => busy = "BLOCK_DETACHED"
    /\ resets <= env.resets

\* A pending or detached read is the last one, and nothing was copied for it.
PendingRead ==
    /\ busy \in {"PENDING", "BLOCK_DETACHED"} =>
          /\ info = rd /\ rd \in Reads /\ status[rd] = "RUNNING"
          /\ ppc # "finish" => got[rd] = <<>>
    /\ busy = "PENDING" => pc \in {"fun", "failed", "wait", "idle"} /\ (pc = "idle" => ~IsBlock(rd))
    /\ busy = "BLOCK_DETACHED" =>
          /\ pc \in {"fun", "wait", "detached"} /\ IsBlock(rd) /\ resets > 0
          /\ ppc \notin Serving

\* The token of a claimed read: it is posted when the bytes are in the buffer,
\* and taken by the call that releases the port.
ClaimedRead ==
    /\ Claimed =>
          /\ info = rd /\ rd \in Reads /\ status[rd] = "RUNNING" /\ IsBlock(rd)
          /\ pc \in {"fun", "failed", "wait", "reap", "release"}
          /\ ppc \in {"pop", "broken", "finish", "idle", "filled"}
          /\ ppc \in {"pop", "broken"} => got[rd] = <<>>
          /\ ppc \notin {"pop", "broken"} => Len(got[rd]) = size[rd]
          /\ ppc \in {"pop", "broken", "finish"} => sem = 0 /\ pc # "release"
          /\ ppc \in {"idle", "filled"} => sem = IF pc = "release" THEN 0 ELSE 1
    /\ ~Claimed => sem = 0

\* The read the producer is completing.
ServedRead ==
    /\ ppc \in Serving => info = rd /\ rd \in Reads /\ status[rd] = "RUNNING"
    /\ ppc \in Serving /\ ~Claimed =>
          /\ ppc # "broken" /\ ~IsBlock(rd) /\ pc \in {"fun", "failed", "idle"}
          /\ busy = IF ppc = "status" THEN "IDLE" ELSE "PENDING"
          /\ ppc = "pop" => Enough(size[rd]) /\ got[rd] = <<>>
          /\ ppc \in {"finish", "status"} => Len(got[rd]) = size[rd]
    /\ ppc = "claim" => IsBlock(info)

\* A polite reader that has seen a timeout repeats that read, so that a producer
\* that looked at it looks at the size and the kind of the next one.
Repeats ==
    env.polite => \A r, s \in Reads :
        r < s /\ s <= rd /\ status[r] = "TIMEOUT" => kind[s] = kind[r] /\ size[s] = size[r]

GaveUp(r) == r <= info /\ status[r] = "TIMEOUT" /\ IsBlock(r)
LookedAt ==
    /\ ppc \in {"pending", "claim"} => info \in Reads
    /\ ppc \in {"pending", "claim"} /\ busy # "PENDING" =>
          ~env.isr /\ \E r \in Reads : GaveUp(r)
    /\ env.isr /\ (ppc = "claim" \/ ppc = "pop") => Enough(size[info])
    /\ env.isr => ppc # "broken"

\* Between its look at the queue and its CAS, and while it is pending, a read
\* can be served only if the producer has yet to look.
Armed == busy = "PENDING" \/ (pc = "arm" /\ busy = "IDLE")
NoMissedBytes == ppc = "idle" /\ Armed => ~Enough(size[rd])

\* The queue holds the last bytes; the buffers hold earlier ones, in order.
Taken == made - Len(queue_data)
Bytes ==
    /\ Len(queue_data) <= made
    /\ \A i \in 1..Len(queue_data) : queue_data[i] = Taken + i
    /\ \A r \in Reads : Increasing(got[r]) /\ \A i \in 1..Len(got[r]) : got[r][i] <= Taken
    /\ \A r, s \in Reads : r < s => Before(got[r], got[s])
    /\ resets = 0 => \A b \in 1..Taken : \E r \in Reads : \E i \in 1..Len(got[r]) : got[r][i] = b

Handoff ==
    /\ Books /\ ReadUnderWay /\ PendingRead /\ ClaimedRead /\ ServedRead
    /\ Repeats /\ LookedAt /\ NoMissedBytes

IInv == TypeOK /\ SoundEnv(env) /\ Handoff /\ Bytes /\ BufferMatchesStatus

----------------------------------------------------------------------------

LEMMA Bounds ==
    /\ Sizes \subseteq Nat /\ MaxReads \in Nat /\ MaxBytes \in Nat /\ Cap \in Nat
    /\ Kinds \subseteq {"BLOCK", "POLLING"} /\ \A e \in Envs : e \in EnvType
BY ConstantsAssumption

\* A step that leaves the bytes alone leaves them in order.
LEMMA BytesFrame ==
    ASSUME Bytes, UNCHANGED <<queue_data, got, made, resets>>
    PROVE  Bytes'
BY DEF Bytes, Taken, Increasing, Before

LEMMA InvInit == SoundEnvs /\ Init => IInv
<1> SUFFICES ASSUME SoundEnvs, Init PROVE IInv
  OBVIOUS
<1> USE Bounds DEF Init
<1>1. TypeOK
  BY DEF TypeOK, BusyState, Reads, NoRead, Final, EnvType
<1>2. SoundEnv(env)
  BY DEF SoundEnvs
<1>3. Handoff
  BY DEF Handoff, Books, ReadUnderWay, PendingRead, ClaimedRead, ServedRead, Repeats, LookedAt,
         NoMissedBytes, Armed, Looking, Started, Serving, Claimed, NoRead, Reads, EnvType
<1>4. Bytes /\ BufferMatchesStatus
  BY DEF Bytes, Taken, Increasing, Before, BufferMatchesStatus, Reads
<1>. QED BY <1>1, <1>2, <1>3, <1>4 DEF IInv

\* A step that makes no new reads, and lets no earlier one time out.
LEMMA RepeatsFrame ==
    ASSUME TypeOK, Repeats, UNCHANGED <<env, rd, kind, size>>,
           \A r \in Reads : status'[r] = "TIMEOUT" => status[r] = "TIMEOUT" \/ r = rd
    PROVE  Repeats'
<1> SUFFICES ASSUME env.polite, NEW r \in Reads, NEW s \in Reads, r < s, s <= rd,
                    status'[r] = "TIMEOUT"
             PROVE  kind[s] = kind[r] /\ size[s] = size[r]
  BY DEF Repeats
<1>1. r # rd
  BY Bounds DEF TypeOK, Reads, NoRead
<1>. QED BY <1>1 DEF Repeats

\* The reads that are still to come are untouched.
LEMMA Unissued ==
    ASSUME TypeOK, Books, NEW r \in Reads, r > rd
    PROVE  r # rd /\ status[r] = "READY" /\ got[r] = <<>>
<1>1. r # rd
  BY Bounds DEF TypeOK, Reads, NoRead
<1>2. \A q \in Reads : q > rd => status[q] = "READY" /\ got[q] = <<>>
  BY DEF Books
<1>. QED BY <1>1, <1>2

\* The steps of a call that move no bytes.
LEMMA CallStep ==
    ASSUME IInv,
           StoreIdle \/ CheckSize \/ Publish \/ Arm \/ ReadFunAccepts \/ ReadFunFails
           \/ RollBack \/ WaitPosted \/ Release \/ WaitTimeout \/ DetachedStore
    PROVE  IInv'
<1> USE Bounds DEF IInv, Handoff, TypeOK, SoundEnv, Books, ReadUnderWay, PendingRead, ClaimedRead,
        ServedRead, LookedAt, GaveUp, NoMissedBytes, Armed, Looking, Started, Serving, Claimed,
        NoRead, Reads, EnvType, BusyState, Final, IsBlock, Told, Goto, Runs, Enough, reads,
        BufferMatchesStatus
<1>1. CASE StoreIdle
  <2>1. Bytes' /\ Repeats'
    BY <1>1, BytesFrame, RepeatsFrame DEF StoreIdle
  <2>2. TypeOK'
    BY <1>1 DEF StoreIdle
  <2>3. BufferMatchesStatus'
    BY <1>1 DEF StoreIdle
  <2>4. Books' /\ ReadUnderWay'
    BY <1>1 DEF StoreIdle
  <2>5. PendingRead' /\ ClaimedRead'
    BY <1>1 DEF StoreIdle
  <2>6. ServedRead' /\ LookedAt'
    BY <1>1 DEF StoreIdle
  <2>7. NoMissedBytes'
    BY <1>1 DEF StoreIdle
  <2>. QED BY <1>1, <2>1, <2>2, <2>3, <2>4, <2>5, <2>6, <2>7 DEF StoreIdle
<1>2. CASE CheckSize
  <2>1. Bytes' /\ Repeats'
    BY <1>2, BytesFrame, RepeatsFrame DEF CheckSize
  <2>2. TypeOK'
    BY <1>2 DEF CheckSize
  <2>3. BufferMatchesStatus'
    BY <1>2 DEF CheckSize
  <2>4. Books' /\ ReadUnderWay'
    BY <1>2 DEF CheckSize
  <2>5. PendingRead' /\ ClaimedRead'
    BY <1>2 DEF CheckSize
  <2>6. ServedRead' /\ LookedAt'
    BY <1>2 DEF CheckSize
  <2>7. NoMissedBytes'
    BY <1>2 DEF CheckSize
  <2>. QED BY ZenonT(40), <1>2, <2>1, <2>2, <2>3, <2>4, <2>5, <2>6, <2>7 DEF CheckSize
<1>3. CASE Publish
  <2>1. Bytes' /\ Repeats'
    BY <1>3, BytesFrame, RepeatsFrame DEF Publish
  <2>2. TypeOK'
    BY <1>3 DEF Publish
  <2>3. BufferMatchesStatus'
    BY <1>3 DEF Publish
  <2>4. Books'
    <3>1. rd \in Reads /\ info' = rd /\ rd' = rd /\ got' = got /\ pc' = "arm"
      BY <1>3 DEF Publish
    <3>2. info' <= rd'
      BY <3>1
    <3>3. ASSUME NEW r \in Reads, r > rd PROVE status'[r] = "READY" /\ got'[r] = <<>>
      <4>1. r # rd /\ status[r] = "READY" /\ got[r] = <<>>
        BY <3>3, Unissued
      <4>. QED BY <1>3, <3>1, <4>1 DEF Publish
    <3>. QED BY <3>1, <3>2, <3>3
  <2>8. ReadUnderWay'
    BY <1>3 DEF Publish
  <2>5. PendingRead' /\ ClaimedRead'
    BY <1>3 DEF Publish
  <2>6. ServedRead' /\ LookedAt'
    <3>1. rd \in Reads /\ info < rd /\ busy # "PENDING" /\ ppc \notin Serving
      BY <1>3 DEF Publish
    <3>2. ASSUME ppc \in {"pending", "claim"}
          PROVE  /\ ~env.isr
                 /\ \E r \in Reads : r <= rd /\ r # rd /\ status[r] = "TIMEOUT" /\ IsBlock(r)
      <4>1. ~env.isr
        BY <3>1, <3>2
      <4>2. PICK r \in Reads : GaveUp(r)
        BY <3>1, <3>2
      <4>. QED BY <3>1, <4>1, <4>2
    <3>3. ASSUME ppc \in {"pending", "claim"} PROVE IsBlock(rd)
      <4>1. env.polite
        BY <3>2, <3>3
      <4>2. PICK r \in Reads : r <= rd /\ r # rd /\ status[r] = "TIMEOUT" /\ IsBlock(r)
        BY <3>2, <3>3
      <4>3. r < rd
        BY <3>1, <4>2
      <4>. QED BY <3>1, <4>1, <4>2, <4>3 DEF Repeats
    <3>4. \A r \in Reads : r # rd => status'[r] = status[r]
      BY <1>3 DEF Publish
    <3>5. ServedRead'
      BY <1>3, <3>1, <3>3 DEF Publish
    <3>6. LookedAt'
      BY <1>3, <3>1, <3>2, <3>4 DEF Publish
    <3>. QED BY <3>5, <3>6
  <2>7. NoMissedBytes'
    BY <1>3 DEF Publish
  <2>. QED BY <1>3, <2>1, <2>2, <2>3, <2>4, <2>5, <2>6, <2>7, <2>8 DEF Publish
<1>4. CASE Arm
  <2>1. Bytes' /\ Repeats'
    BY <1>4, BytesFrame, RepeatsFrame DEF Arm, Armable
  <2>2. CASE Armable(busy)
    <3>1. TypeOK'
      BY <1>4, <2>2 DEF Arm, Armable
    <3>2. BufferMatchesStatus'
      BY <1>4, <2>2 DEF Arm, Armable
    <3>3. Books' /\ ReadUnderWay'
      BY <1>4, <2>2 DEF Arm, Armable
    <3>4. PendingRead' /\ ClaimedRead'
      BY <1>4, <2>2 DEF Arm, Armable
    <3>5. ServedRead' /\ LookedAt'
      BY <1>4, <2>2 DEF Arm, Armable
    <3>6. NoMissedBytes'
      BY <1>4, <2>2 DEF Arm, Armable
    <3>. QED BY <1>4, <2>1, <3>1, <3>2, <3>3, <3>4, <3>5, <3>6 DEF Arm, Armable
  <2>3. CASE ~Armable(busy)
    <3>1. TypeOK'
      BY <1>4, <2>3 DEF Arm, Armable
    <3>2. BufferMatchesStatus'
      BY <1>4, <2>3 DEF Arm, Armable
    <3>3. Books' /\ ReadUnderWay'
      BY <1>4, <2>3 DEF Arm, Armable
    <3>4. PendingRead' /\ ClaimedRead'
      BY <1>4, <2>3 DEF Arm, Armable
    <3>5. ServedRead' /\ LookedAt'
      BY <1>4, <2>3 DEF Arm, Armable
    <3>6. NoMissedBytes'
      BY <1>4, <2>3 DEF Arm, Armable
    <3>. QED BY <1>4, <2>1, <3>1, <3>2, <3>3, <3>4, <3>5, <3>6 DEF Arm, Armable
  <2>. QED BY <1>4, <2>2, <2>3 DEF Arm, Armable
<1>5. CASE ReadFunAccepts
  <2>1. Bytes' /\ Repeats'
    BY <1>5, BytesFrame, RepeatsFrame DEF ReadFunAccepts
  <2>2. TypeOK'
    BY <1>5 DEF ReadFunAccepts
  <2>3. BufferMatchesStatus'
    BY <1>5 DEF ReadFunAccepts
  <2>4. Books' /\ ReadUnderWay'
    BY <1>5 DEF ReadFunAccepts
  <2>5. PendingRead' /\ ClaimedRead'
    BY <1>5 DEF ReadFunAccepts
  <2>6. ServedRead' /\ LookedAt'
    BY <1>5 DEF ReadFunAccepts
  <2>7. NoMissedBytes'
    BY <1>5 DEF ReadFunAccepts
  <2>. QED BY <1>5, <2>1, <2>2, <2>3, <2>4, <2>5, <2>6, <2>7 DEF ReadFunAccepts
<1>6. CASE ReadFunFails
  <2>1. Bytes' /\ Repeats'
    BY <1>6, BytesFrame, RepeatsFrame DEF ReadFunFails
  <2>2. TypeOK'
    BY <1>6 DEF ReadFunFails
  <2>3. BufferMatchesStatus'
    BY <1>6 DEF ReadFunFails
  <2>4. Books' /\ ReadUnderWay'
    BY <1>6 DEF ReadFunFails
  <2>5. PendingRead' /\ ClaimedRead'
    <3>1. env.fails /\ env \in EnvType
      BY <1>6 DEF ReadFunFails
    <3>2. resets = 0
      BY <3>1
    <3>3. PendingRead'
      BY <1>6, <3>2 DEF ReadFunFails
    <3>4. ClaimedRead'
      BY <1>6 DEF ReadFunFails
    <3>. QED BY <3>3, <3>4
  <2>6. ServedRead' /\ LookedAt'
    BY <1>6 DEF ReadFunFails
  <2>7. NoMissedBytes'
    BY <1>6 DEF ReadFunFails
  <2>. QED BY <1>6, <2>1, <2>2, <2>3, <2>4, <2>5, <2>6, <2>7 DEF ReadFunFails
<1>7. CASE RollBack
  <2>1. Bytes' /\ Repeats'
    BY <1>7, BytesFrame, RepeatsFrame DEF RollBack, RollBackAble
  <2>2. CASE RollBackAble(busy)
    <3>1. TypeOK'
      BY <1>7, <2>2 DEF RollBack, RollBackAble
    <3>2. BufferMatchesStatus'
      BY ZenonT(40), <1>7, <2>2 DEF RollBack, RollBackAble
    <3>3. Books' /\ ReadUnderWay'
      BY <1>7, <2>2 DEF RollBack, RollBackAble
    <3>4. PendingRead' /\ ClaimedRead'
      BY <1>7, <2>2 DEF RollBack, RollBackAble
    <3>5. ServedRead' /\ LookedAt'
      BY <1>7, <2>2 DEF RollBack, RollBackAble
    <3>6. NoMissedBytes'
      BY <1>7, <2>2 DEF RollBack, RollBackAble
    <3>. QED BY <1>7, <2>1, <3>1, <3>2, <3>3, <3>4, <3>5, <3>6 DEF RollBack, RollBackAble
  <2>3. CASE busy = "BLOCK_DETACHED"
    <3>1. TypeOK'
      BY <1>7, <2>3 DEF RollBack, RollBackAble
    <3>2. BufferMatchesStatus'
      BY <1>7, <2>3 DEF RollBack, RollBackAble
    <3>3. Books' /\ ReadUnderWay'
      BY <1>7, <2>3 DEF RollBack, RollBackAble
    <3>4. PendingRead' /\ ClaimedRead'
      BY <1>7, <2>3 DEF RollBack, RollBackAble
    <3>5. ServedRead' /\ LookedAt'
      BY <1>7, <2>3 DEF RollBack, RollBackAble
    <3>6. NoMissedBytes'
      BY <1>7, <2>3 DEF RollBack, RollBackAble
    <3>. QED BY <1>7, <2>1, <3>1, <3>2, <3>3, <3>4, <3>5, <3>6 DEF RollBack, RollBackAble
  <2>4. CASE busy = "IDLE"
    <3>1. TypeOK'
      BY <1>7, <2>4 DEF RollBack, RollBackAble
    <3>2. BufferMatchesStatus'
      BY <1>7, <2>4 DEF RollBack, RollBackAble
    <3>3. Books' /\ ReadUnderWay'
      BY <1>7, <2>4 DEF RollBack, RollBackAble
    <3>4. PendingRead' /\ ClaimedRead'
      BY <1>7, <2>4 DEF RollBack, RollBackAble
    <3>5. ServedRead' /\ LookedAt'
      BY <1>7, <2>4 DEF RollBack, RollBackAble
    <3>6. NoMissedBytes'
      BY <1>7, <2>4 DEF RollBack, RollBackAble
    <3>. QED BY <1>7, <2>1, <3>1, <3>2, <3>3, <3>4, <3>5, <3>6 DEF RollBack, RollBackAble
  <2>5. CASE busy = "BLOCK_CLAIMED"
    <3>1. TypeOK'
      BY <1>7, <2>5 DEF RollBack, RollBackAble
    <3>2. BufferMatchesStatus'
      BY <1>7, <2>5 DEF RollBack, RollBackAble
    <3>3. Books' /\ ReadUnderWay'
      BY <1>7, <2>5 DEF RollBack, RollBackAble
    <3>4. PendingRead' /\ ClaimedRead'
      BY <1>7, <2>5 DEF RollBack, RollBackAble
    <3>5. ServedRead' /\ LookedAt'
      BY <1>7, <2>5 DEF RollBack, RollBackAble
    <3>6. NoMissedBytes'
      BY <1>7, <2>5 DEF RollBack, RollBackAble
    <3>. QED BY <1>7, <2>1, <3>1, <3>2, <3>3, <3>4, <3>5, <3>6 DEF RollBack, RollBackAble
  <2>. QED BY <1>7, <2>2, <2>3, <2>4, <2>5 DEF RollBack, RollBackAble
<1>8. CASE WaitPosted
  <2>1. Bytes' /\ Repeats'
    BY <1>8, BytesFrame, RepeatsFrame DEF WaitPosted, TakeToken
  <2>2. TypeOK'
    <3>1. sem = 1 /\ sem' = 0
      BY <1>8 DEF WaitPosted, TakeToken
    <3>. QED BY <1>8, <3>1 DEF WaitPosted
  <2>3. BufferMatchesStatus'
    BY <1>8 DEF WaitPosted, TakeToken
  <2>4. Books' /\ ReadUnderWay'
    BY <1>8 DEF WaitPosted, TakeToken
  <2>5. PendingRead' /\ ClaimedRead'
    <3>0. sem # 0 /\ Claimed
      BY <1>8 DEF WaitPosted, TakeToken
    <3>1. sem = 1 /\ sem' = 0 /\ Claimed
      BY <1>8, <3>0 DEF WaitPosted, TakeToken
    <3>2. ppc \in {"idle", "filled"}
      BY <3>1
    <3>. QED BY <1>8, <3>1, <3>2 DEF WaitPosted
  <2>6. ServedRead' /\ LookedAt'
    BY <1>8 DEF WaitPosted, TakeToken
  <2>7. NoMissedBytes'
    BY <1>8 DEF WaitPosted, TakeToken
  <2>. QED BY <1>8, <2>1, <2>2, <2>3, <2>4, <2>5, <2>6, <2>7 DEF WaitPosted, TakeToken
<1>9. CASE Release
  <2>1. Bytes' /\ Repeats'
    BY <1>9, BytesFrame, RepeatsFrame DEF Release
  <2>2. TypeOK'
    BY <1>9 DEF Release
  <2>3. BufferMatchesStatus'
    BY <1>9 DEF Release
  <2>4. Books' /\ ReadUnderWay'
    BY <1>9 DEF Release
  <2>5. PendingRead' /\ ClaimedRead'
    BY <1>9 DEF Release
  <2>6. ServedRead' /\ LookedAt'
    BY <1>9 DEF Release
  <2>7. NoMissedBytes'
    BY <1>9 DEF Release
  <2>. QED BY <1>9, <2>1, <2>2, <2>3, <2>4, <2>5, <2>6, <2>7 DEF Release
<1>10. CASE WaitTimeout
  <2>1. Bytes' /\ Repeats'
    BY <1>10, BytesFrame, RepeatsFrame DEF WaitTimeout, Cancellable
  <2>2. CASE Cancellable(busy)
    <3>1. TypeOK'
      BY <1>10, <2>2 DEF WaitTimeout, Cancellable
    <3>2. BufferMatchesStatus'
      BY ZenonT(40), <1>10, <2>2 DEF WaitTimeout, Cancellable
    <3>3. Books' /\ ReadUnderWay'
      BY <1>10, <2>2 DEF WaitTimeout, Cancellable
    <3>4. PendingRead' /\ ClaimedRead'
      BY <1>10, <2>2 DEF WaitTimeout, Cancellable
    <3>5. ServedRead' /\ LookedAt'
      BY ZenonT(40), <1>10, <2>2 DEF WaitTimeout, Cancellable
    <3>6. NoMissedBytes'
      BY <1>10, <2>2 DEF WaitTimeout, Cancellable
    <3>. QED BY <1>10, <2>1, <3>1, <3>2, <3>3, <3>4, <3>5, <3>6 DEF WaitTimeout, Cancellable
  <2>3. CASE busy = "BLOCK_DETACHED"
    <3>1. TypeOK'
      BY <1>10, <2>3 DEF WaitTimeout, Cancellable
    <3>2. BufferMatchesStatus'
      BY <1>10, <2>3 DEF WaitTimeout, Cancellable
    <3>3. Books' /\ ReadUnderWay'
      BY <1>10, <2>3 DEF WaitTimeout, Cancellable
    <3>4. PendingRead' /\ ClaimedRead'
      BY <1>10, <2>3 DEF WaitTimeout, Cancellable
    <3>5. ServedRead' /\ LookedAt'
      BY <1>10, <2>3 DEF WaitTimeout, Cancellable
    <3>6. NoMissedBytes'
      BY <1>10, <2>3 DEF WaitTimeout, Cancellable
    <3>. QED BY <1>10, <2>1, <3>1, <3>2, <3>3, <3>4, <3>5, <3>6 DEF WaitTimeout, Cancellable
  <2>4. CASE busy = "BLOCK_CLAIMED"
    <3>1. TypeOK'
      BY <1>10, <2>4 DEF WaitTimeout, Cancellable
    <3>2. BufferMatchesStatus'
      BY <1>10, <2>4 DEF WaitTimeout, Cancellable
    <3>3. Books' /\ ReadUnderWay'
      BY <1>10, <2>4 DEF WaitTimeout, Cancellable
    <3>4. PendingRead' /\ ClaimedRead'
      BY <1>10, <2>4 DEF WaitTimeout, Cancellable
    <3>5. ServedRead' /\ LookedAt'
      BY <1>10, <2>4 DEF WaitTimeout, Cancellable
    <3>6. NoMissedBytes'
      BY <1>10, <2>4 DEF WaitTimeout, Cancellable
    <3>. QED BY <1>10, <2>1, <3>1, <3>2, <3>3, <3>4, <3>5, <3>6 DEF WaitTimeout, Cancellable
  <2>. QED BY <1>10, <2>2, <2>3, <2>4 DEF WaitTimeout, Cancellable
<1>11. CASE DetachedStore
  <2>1. Bytes' /\ Repeats'
    BY <1>11, BytesFrame, RepeatsFrame DEF DetachedStore, Reopened
  <2>2. TypeOK'
    BY <1>11 DEF DetachedStore, Reopened
  <2>3. BufferMatchesStatus'
    BY <1>11 DEF DetachedStore, Reopened
  <2>4. Books' /\ ReadUnderWay'
    BY <1>11 DEF DetachedStore, Reopened
  <2>5. PendingRead' /\ ClaimedRead'
    BY <1>11 DEF DetachedStore, Reopened
  <2>6. ServedRead' /\ LookedAt'
    BY <1>11 DEF DetachedStore, Reopened
  <2>7. NoMissedBytes'
    BY <1>11 DEF DetachedStore, Reopened
  <2>. QED BY <1>11, <2>1, <2>2, <2>3, <2>4, <2>5, <2>6, <2>7 DEF DetachedStore, Reopened
<1>. QED BY <1>1, <1>2, <1>3, <1>4, <1>5, <1>6, <1>7, <1>8, <1>9, <1>10, <1>11

----------------------------------------------------------------------------
(* The bytes: PushBatch and PopBatch.                                         *)

LEMMA Popped ==
    ASSUME NEW S, NEW q \in Seq(S), NEW n \in Nat, n <= Len(q)
    PROVE  LET first == SubSeq(q, 1, n)
               rest == SubSeq(q, n + 1, Len(q)) IN
           /\ first \in Seq(S) /\ Len(first) = n /\ \A i \in 1..n : first[i] = q[i]
           /\ rest \in Seq(S) /\ Len(rest) = Len(q) - n
           /\ \A i \in 1..(Len(q) - n) : rest[i] = q[n + i]
<1>1. \A i \in 1..Len(q) : q[i] \in S
  BY ElementOfSeq
<1>2. /\ SubSeq(q, 1, n) \in Seq(S) /\ Len(SubSeq(q, 1, n)) = n
      /\ \A i \in 1..n : SubSeq(q, 1, n)[i] = q[i]
  <2>1. \A i \in 1..n : q[i] \in S
    BY <1>1
  <2>. QED BY <2>1, SubSeqProperties
<1>3. /\ SubSeq(q, n + 1, Len(q)) \in Seq(S) /\ Len(SubSeq(q, n + 1, Len(q))) = Len(q) - n
      /\ \A i \in 1..(Len(q) - n) : SubSeq(q, n + 1, Len(q))[i] = q[n + i]
  <2>1. \A i \in (n + 1)..Len(q) : q[i] \in S
    BY <1>1
  <2>. QED BY <2>1, SubSeqProperties
<1>. QED BY <1>2, <1>3

LEMMA PushBytes ==
    ASSUME TypeOK, Bytes, Push
    PROVE  /\ Bytes' /\ queue_data' \in Seq(1..MaxBytes) /\ Len(queue_data') = Len(queue_data) + 1
           /\ \A n \in Nat : Enough(n) => Enough(n)'
<1> DEFINE q == queue_data
<1> USE Bounds DEF TypeOK
<1>1. q \in Seq(1..MaxBytes) /\ made \in 0..MaxBytes /\ made + 1 \in 1..MaxBytes
  BY DEF Push
<1>2. q' = Append(q, made + 1) /\ made' = made + 1 /\ UNCHANGED <<got, resets>>
  BY DEF Push, reads
<1>3. /\ q' \in Seq(1..MaxBytes) /\ Len(q') = Len(q) + 1
      /\ \A i \in 1..Len(q) + 1 : q'[i] = IF i <= Len(q) THEN q[i] ELSE made + 1
  BY <1>1, <1>2, AppendProperties
<1>4. Taken' = Taken
  BY <1>1, <1>2, <1>3 DEF Taken
<1>5. \A i \in 1..Len(q') : q'[i] = Taken + i
  <2> TAKE i \in 1..Len(q')
  <2>1. CASE i <= Len(q)
    <3>1. i \in 1..Len(q) /\ q'[i] = q[i]
      BY <1>1, <1>3, <2>1
    <3>. QED BY <3>1 DEF Bytes
  <2>2. CASE i > Len(q)
    <3>1. i = Len(q) + 1 /\ q'[i] = made + 1
      BY <1>1, <1>3, <2>2
    <3>. QED BY <1>1, <3>1 DEF Taken
  <2>. QED BY <1>1, <1>3, <2>1, <2>2
<1>6. Len(q') <= made'
  BY <1>1, <1>2, <1>3 DEF Bytes
<1>7. \A n \in Nat : Enough(n) => Enough(n)'
  <2>1. Len(q) \in Nat
    BY <1>1
  <2>. QED BY <1>3, <2>1 DEF Enough
<1>. QED BY <1>2, <1>3, <1>4, <1>5, <1>6, <1>7 DEF Bytes, Increasing, Before

\* A pop moves the oldest bytes to the last read that has any.
LEMMA PopBytes ==
    ASSUME TypeOK, Bytes, NEW r \in Reads, size[r] <= Len(queue_data),
           \A s \in Reads : s >= r => got[s] = <<>>,
           PopInto(r), UNCHANGED <<made, resets>>
    PROVE  /\ Bytes' /\ queue_data' \in Seq(1..MaxBytes) /\ Len(queue_data') <= Len(queue_data)
           /\ got' \in [Reads -> Seq(1..MaxBytes)] /\ Len(got'[r]) = size[r]
           /\ \A s \in Reads : s # r => got'[s] = got[s]
<1> DEFINE q == queue_data
           n == size[r]
<1>1. /\ q \in Seq(1..MaxBytes) /\ n \in Nat /\ n <= Len(q) /\ made \in Nat /\ Len(q) \in Nat
      /\ got \in [Reads -> Seq(1..MaxBytes)]
  BY Bounds DEF TypeOK
<1>2. /\ q' = SubSeq(q, n + 1, Len(q)) /\ got'[r] = SubSeq(q, 1, n)
      /\ \A s \in Reads : s # r => got'[s] = got[s]
  BY <1>1 DEF PopInto, Rest
<1>3. /\ q' \in Seq(1..MaxBytes) /\ Len(q') = Len(q) - n
      /\ \A i \in 1..(Len(q) - n) : q'[i] = q[n + i]
  BY ZenonT(40), <1>1, <1>2, Popped
<1>4. /\ got'[r] \in Seq(1..MaxBytes) /\ Len(got'[r]) = n
      /\ \A i \in 1..n : got'[r][i] = q[i]
  <2>1. /\ SubSeq(q, 1, n) \in Seq(1..MaxBytes) /\ Len(SubSeq(q, 1, n)) = n
        /\ \A i \in 1..n : SubSeq(q, 1, n)[i] = q[i]
    BY ZenonT(40), <1>1, Popped
  <2>. QED BY <1>2, <2>1
<1>5. Taken \in Nat /\ Taken' = Taken + n
  BY <1>1, <1>3 DEF Taken, Bytes
<1>6. \A i \in 1..Len(q') : q'[i] = Taken' + i
  <2> TAKE i \in 1..Len(q')
  <2>1. n + i \in 1..Len(q) /\ q'[i] = q[n + i]
    BY <1>1, <1>3
  <2>2. q[n + i] = Taken + (n + i)
    BY <2>1 DEF Bytes
  <2>. QED BY <1>1, <1>5, <2>1, <2>2
<1>7. \A i \in 1..n : got'[r][i] = Taken + i
  BY <1>1, <1>4 DEF Bytes
<1>8. ASSUME NEW s \in Reads
      PROVE  Increasing(got'[s]) /\ \A i \in 1..Len(got'[s]) : got'[s][i] <= Taken'
  <2>1. CASE s = r
    <3>1. DOMAIN got'[s] = 1..n
      BY <1>4, <2>1, LenProperties
    <3>2. Increasing(got'[s])
      BY <1>1, <1>5, <1>7, <2>1, <3>1 DEF Increasing
    <3>. QED BY <1>1, <1>4, <1>5, <1>7, <2>1, <3>2
  <2>2. CASE s # r
    <3>1. \A i \in 1..Len(got[s]) : got[s][i] \in Nat /\ got[s][i] <= Taken
      BY <1>1, Bounds DEF Bytes
    <3>. QED BY <1>1, <1>2, <1>5, <2>2, <3>1 DEF Bytes
  <2>. QED BY <2>1, <2>2
<1>9. ASSUME NEW s \in Reads, NEW t \in Reads, s < t PROVE Before(got'[s], got'[t])
  <2>1. CASE t = r
    <3>1. got'[s] = got[s] /\ s # r
      BY <1>2, <2>1, <1>9, Bounds DEF Reads
    <3>2. \A i \in 1..Len(got[s]) : got[s][i] \in Nat /\ got[s][i] <= Taken
      BY <1>1, Bounds DEF Bytes
    <3>3. DOMAIN got'[s] = 1..Len(got[s]) /\ DOMAIN got'[t] = 1..n
      <4>1. got[s] \in Seq(1..MaxBytes)
        BY <1>1
      <4>. QED BY <1>4, <2>1, <3>1, <4>1, LenProperties
    <3>. QED BY <1>1, <1>5, <1>7, <2>1, <3>1, <3>2, <3>3 DEF Before
  <2>2. CASE t # r /\ t < r
    <3>1. s # r
      BY <1>9, <2>2, Bounds DEF Reads
    <3>. QED BY <1>2, <1>9, <2>2, <3>1 DEF Bytes
  <2>3. CASE t > r
    <3>1. got'[t] = <<>>
      BY <1>2, <2>3, Bounds DEF Reads
    <3>. QED BY <3>1 DEF Before
  <2>. QED BY <2>1, <2>2, <2>3, Bounds DEF Reads
<1>10. ASSUME resets' = 0, NEW b \in 1..Taken'
       PROVE  \E s \in Reads : \E i \in 1..Len(got'[s]) : got'[s][i] = b
  <2>1. CASE b <= Taken
    <3>1. PICK s \in Reads : \E i \in 1..Len(got[s]) : got[s][i] = b
      BY <1>5, <1>10, <2>1 DEF Bytes
    <3>2. s # r
      BY <3>1, Bounds DEF Reads
    <3>. QED BY <1>2, <3>1, <3>2
  <2>2. CASE b > Taken
    <3>1. b - Taken \in 1..n
      BY <1>1, <1>5, <1>10, <2>2
    <3>2. got'[r][b - Taken] = b
      BY <1>5, <1>7, <3>1
    <3>. QED BY <1>4, <3>1, <3>2
  <2>. QED BY <1>5, <2>1, <2>2
<1>11. Len(q') <= made'
  BY <1>1, <1>3 DEF Bytes
<1>12. got' \in [Reads -> Seq(1..MaxBytes)]
  BY <1>1, <1>4 DEF PopInto
<1>13. Bytes'
  BY <1>3, <1>6, <1>8, <1>9, <1>10, <1>11 DEF Bytes, Taken
<1>. QED BY <1>1, <1>2, <1>3, <1>4, <1>12, <1>13

\* A call begins.
LEMMA IssueStep ==
    ASSUME IInv, NEW k \in Kinds, NEW n \in Sizes, Issue(k, n)
    PROVE  IInv'
<1> USE Bounds DEF IInv, Handoff, TypeOK, SoundEnv, Books, ReadUnderWay, PendingRead, ClaimedRead,
        ServedRead, LookedAt, GaveUp, NoMissedBytes, Armed, Looking, Started, Serving, Claimed,
        NoRead, Reads, EnvType, BusyState, Final, IsBlock, Told, Goto, Runs, Enough, reads,
        BufferMatchesStatus
<1>1. rd' = rd + 1 /\ rd \in Nat /\ rd' \in Reads /\ info < rd'
  BY DEF Issue
<1>2. status[rd'] = "READY" /\ got[rd'] = <<>>
  <2>1. rd + 1 \in Reads /\ rd + 1 > rd
    BY <1>1
  <2>. QED BY <1>1, <2>1, Unissued
<1>3. ppc \notin Serving
  <2>1. CASE env.isr
    BY <2>1 DEF Issue
  <2>2. CASE ~env.isr
    <3>1. ppc \in Serving => rd \in 1..rd /\ status[rd] = "RUNNING"
      BY <1>1
    <3>. QED BY <2>2, <3>1 DEF Issue, MayIssue
  <2>. QED BY <2>1, <2>2
<1>4. Bytes'
  BY BytesFrame DEF Issue
<1>5. Repeats'
  <2> SUFFICES ASSUME env.polite, NEW r \in Reads, NEW s \in Reads, r < s, s <= rd + 1,
                      status[r] = "TIMEOUT"
               PROVE  kind'[s] = kind'[r] /\ size'[s] = size'[r]
    <3>1. UNCHANGED <<env, status>> /\ rd' = rd + 1
      BY DEF Issue
    <3>. QED BY ZenonT(40), <3>1 DEF Repeats
  <2>1. r \in 1..rd /\ r # rd'
    BY <1>1
  <2>2. CASE s = rd + 1
    BY <1>1, <2>1, <2>2 DEF Issue, MayIssue
  <2>3. CASE s # rd + 1
    <3>1. s <= rd /\ s # rd'
      BY <1>1, <2>3
    <3>2. kind[s] = kind[r] /\ size[s] = size[r]
      BY <3>1 DEF Repeats
    <3>. QED BY <1>1, <2>1, <3>1, <3>2 DEF Issue
  <2>. QED BY <2>2, <2>3
<1>6. TypeOK'
  BY <1>1, <1>2, <1>3 DEF Issue
<1>7. BufferMatchesStatus'
  BY <1>1, <1>2, <1>3 DEF Issue
<1>8. Books' /\ ReadUnderWay'
  <2>1. \A r \in Reads : r > rd' => status[r] = "READY" /\ got[r] = <<>>
    <3> TAKE r \in Reads
    <3>1. r > rd' => r > rd
      BY <1>1
    <3>. QED BY <3>1, Unissued
  <2>2. Books'
    BY <1>1, <2>1 DEF Issue
  <2>3. ReadUnderWay'
    BY <1>1, <1>2, <1>3 DEF Issue
  <2>. QED BY <2>2, <2>3
<1>9. PendingRead' /\ ClaimedRead'
  BY <1>1, <1>2, <1>3 DEF Issue
<1>10. ServedRead' /\ LookedAt'
  <2>1. \A r \in Reads : r # rd' => kind'[r] = kind[r] /\ size'[r] = size[r]
    BY <1>1 DEF Issue
  <2>2. info # rd'
    BY <1>1
  <2>3. ServedRead'
    BY <1>3, <2>1, <2>2 DEF Issue
  <2>4. LookedAt'
    <3>1. ASSUME NEW r \in Reads, GaveUp(r) PROVE GaveUp(r)'
      <4>1. r # rd'
        BY <1>1, <3>1
      <4>. QED BY <2>1, <3>1, <4>1 DEF Issue
    <3>. QED BY <1>3, <2>1, <2>2, <3>1 DEF Issue
  <2>. QED BY <2>3, <2>4
<1>11. NoMissedBytes'
  BY <1>1, <1>2, <1>3 DEF Issue
<1>. QED BY <1>4, <1>5, <1>6, <1>7, <1>8, <1>9, <1>10, <1>11 DEF Issue

\* A call finds its bytes in the queue.
LEMMA PopNowStep ==
    ASSUME IInv, PopNow
    PROVE  IInv'
<1> USE Bounds DEF IInv, Handoff, TypeOK, SoundEnv, Books, ReadUnderWay, PendingRead, ClaimedRead,
        ServedRead, LookedAt, GaveUp, NoMissedBytes, Armed, Looking, Started, Serving, Claimed,
        NoRead, Reads, EnvType, BusyState, Final, IsBlock, Told, Goto, Runs, Enough, reads,
        BufferMatchesStatus
<1>1. rd \in Reads /\ size[rd] <= Len(queue_data) /\ got[rd] = <<>>
  BY DEF PopNow
<1>2. \A s \in Reads : s >= rd => got[s] = <<>>
  <2> TAKE s \in Reads
  <2>. QED BY <1>1, Unissued
<1>3. /\ Bytes' /\ queue_data' \in Seq(1..MaxBytes) /\ Len(queue_data') <= Len(queue_data)
      /\ got' \in [Reads -> Seq(1..MaxBytes)] /\ Len(got'[rd]) = size[rd]
      /\ \A s \in Reads : s # rd => got'[s] = got[s]
  BY <1>1, <1>2, PopBytes DEF PopNow
<1>4. Repeats'
  BY RepeatsFrame DEF PopNow
<1>0. Len(queue_data') \in Nat
  BY <1>3
<1>5. TypeOK'
  <2>1. Len(queue_data') <= Cap
    BY <1>0, <1>3
  <2>. QED BY <1>3, <2>1 DEF PopNow
<1>6. BufferMatchesStatus'
  BY ZenonT(40), <1>0, <1>1, <1>3 DEF PopNow
<1>7. Books' /\ ReadUnderWay'
  <2>1. \A r \in Reads : r > rd => status'[r] = "READY" /\ got'[r] = <<>>
    <3> TAKE r \in Reads
    <3>. QED BY <1>1, <1>3, Unissued DEF PopNow
  <2>2. Books'
    BY <2>1 DEF PopNow
  <2>3. ReadUnderWay'
    BY <1>1 DEF PopNow
  <2>. QED BY <2>2, <2>3
<1>8. PendingRead' /\ ClaimedRead'
  BY <1>0, <1>1, <1>3 DEF PopNow
<1>9. ServedRead' /\ LookedAt'
  BY <1>0, <1>1, <1>3 DEF PopNow
<1>10. NoMissedBytes'
  BY <1>0, <1>1, <1>3 DEF PopNow
<1>. QED BY <1>3, <1>4, <1>5, <1>6, <1>7, <1>8, <1>9, <1>10 DEF PopNow

\* Bytes arrive.
LEMMA PushStep ==
    ASSUME IInv, Push
    PROVE  IInv'
<1> USE Bounds DEF IInv, Handoff, TypeOK, SoundEnv, Books, ReadUnderWay, PendingRead, ClaimedRead,
        ServedRead, LookedAt, GaveUp, NoMissedBytes, Armed, Looking, Started, Serving, Claimed,
        NoRead, Reads, EnvType, BusyState, Final, IsBlock, Told, Goto, Runs, Enough, reads,
        BufferMatchesStatus
<1>1. /\ Bytes' /\ queue_data' \in Seq(1..MaxBytes) /\ Len(queue_data') = Len(queue_data) + 1
      /\ \A n \in Nat : Enough(n) => Enough(n)'
  BY PushBytes
<1>2. Repeats'
  BY RepeatsFrame DEF Push
<1>3. TypeOK'
  <2>1. Len(queue_data') <= Cap
    BY <1>1 DEF Push, HasRoom
  <2>2. made' \in 0..MaxBytes
    BY DEF Push
  <2>. QED BY <1>1, <2>1, <2>2 DEF Push
<1>4. BufferMatchesStatus'
  BY <1>1 DEF Push, HasRoom
<1>5. Books' /\ ReadUnderWay'
  <2>1. Books'
    BY DEF Push
  <2>2. pc = "pop" => Len(queue_data') >= size[rd] /\ Len(queue_data') # 0
    BY <1>1
  <2>3. ReadUnderWay'
    BY <2>2 DEF Push
  <2>. QED BY <2>1, <2>3
<1>6. PendingRead' /\ ClaimedRead'
  BY <1>1 DEF Push, HasRoom
<1>7. ServedRead' /\ LookedAt'
  BY <1>1 DEF Push, HasRoom
<1>8. NoMissedBytes'
  BY <1>1 DEF Push, HasRoom
<1>. QED BY <1>1, <1>2, <1>3, <1>4, <1>5, <1>6, <1>7, <1>8 DEF Push

\* ProcessPendingReads() completes a read.
LEMMA PopPendingStep ==
    ASSUME IInv, PopPending
    PROVE  IInv'
<1> USE Bounds DEF IInv, Handoff, TypeOK, SoundEnv, Books, ReadUnderWay, PendingRead, ClaimedRead,
        ServedRead, LookedAt, GaveUp, NoMissedBytes, Armed, Looking, Started, Serving, Claimed,
        NoRead, Reads, EnvType, BusyState, Final, IsBlock, Told, Goto, Runs, Enough, reads,
        BufferMatchesStatus
<1>1. info = rd /\ rd \in Reads /\ got[rd] = <<>> /\ pc # "arm"
  BY DEF PopPending
<1>2. Repeats'
  BY RepeatsFrame DEF PopPending
<1>3. CASE Len(queue_data) >= size[rd]
  <2>1. \A s \in Reads : s >= rd => got[s] = <<>>
    <3> TAKE s \in Reads
    <3>. QED BY <1>1, Unissued
  <2>2. PopInto(rd) /\ ppc' = "finish"
    BY <1>1, <1>3 DEF PopPending
  <2>3. /\ Bytes' /\ queue_data' \in Seq(1..MaxBytes) /\ Len(queue_data') <= Len(queue_data)
        /\ got' \in [Reads -> Seq(1..MaxBytes)] /\ Len(got'[rd]) = size[rd]
        /\ \A s \in Reads : s # rd => got'[s] = got[s]
    BY <1>1, <1>3, <2>1, <2>2, PopBytes DEF PopPending
  <2>0. Len(queue_data') \in Nat
    BY <2>3
  <2>4. TypeOK'
    <3>1. Len(queue_data') <= Cap
      BY <2>0, <2>3
    <3>. QED BY <2>2, <2>3, <3>1 DEF PopPending
  <2>5. BufferMatchesStatus'
    BY ZenonT(40), <1>1, <2>0, <2>2, <2>3 DEF PopPending
  <2>6. Books' /\ ReadUnderWay'
    BY <1>1, <2>0, <2>2, <2>3 DEF PopPending
  <2>7. PendingRead' /\ ClaimedRead'
    BY <1>1, <2>0, <2>2, <2>3 DEF PopPending
  <2>8. ServedRead' /\ LookedAt'
    BY <1>1, <2>0, <2>2, <2>3 DEF PopPending
  <2>9. NoMissedBytes'
    BY <1>1, <2>0, <2>2, <2>3 DEF PopPending
  <2>. QED BY <1>2, <2>3, <2>4, <2>5, <2>6, <2>7, <2>8, <2>9 DEF PopPending
<1>4. CASE ~(Len(queue_data) >= size[rd])
  <2>1. ppc' = "broken" /\ UNCHANGED <<queue_data, got>> /\ Claimed /\ ~env.isr
    BY <1>1, <1>4 DEF PopPending
  <2>2. Bytes'
    BY <2>1, BytesFrame DEF PopPending
  <2>3. TypeOK'
    BY <1>1, <2>1 DEF PopPending
  <2>4. BufferMatchesStatus'
    BY <1>1, <2>1 DEF PopPending
  <2>5. Books' /\ ReadUnderWay'
    BY <1>1, <2>1 DEF PopPending
  <2>6. PendingRead' /\ ClaimedRead'
    BY <1>1, <2>1 DEF PopPending
  <2>7. ServedRead' /\ LookedAt'
    BY <1>1, <2>1 DEF PopPending
  <2>8. NoMissedBytes'
    BY <1>1, <2>1 DEF PopPending
  <2>. QED BY <1>2, <2>2, <2>3, <2>4, <2>5, <2>6, <2>7, <2>8 DEF PopPending
<1>. QED BY <1>3, <1>4

\* Reset() drops what is queued.
LEMMA ResetStep ==
    ASSUME IInv, Reset
    PROVE  IInv'
<1> USE Bounds DEF IInv, Handoff, TypeOK, SoundEnv, Books, ReadUnderWay, PendingRead, ClaimedRead,
        ServedRead, LookedAt, GaveUp, NoMissedBytes, Armed, Looking, Started, Serving, Claimed,
        NoRead, Reads, EnvType, BusyState, Final, IsBlock, Told, Goto, Runs, Enough, reads,
        BufferMatchesStatus
<1>1. queue_data' = <<>> /\ Len(queue_data') = 0 /\ queue_data' \in Seq(1..MaxBytes)
  BY DEF Reset
<1>2. resets' = resets + 1 /\ resets' # 0 /\ env.resets # 0 /\ resets' <= env.resets
  BY SMTT(30) DEF Reset
<1>3. Bytes'
  <2>1. Taken \in Nat /\ Taken <= made /\ Taken' = made /\ made' = made /\ got' = got
    BY SMTT(30), <1>1 DEF Reset, Taken, Bytes
  <2>2. \A r \in Reads : \A i \in 1..Len(got[r]) : got[r][i] <= made
    <3> TAKE r \in Reads
    <3> TAKE i \in 1..Len(got[r])
    <3>1. got[r] \in Seq(1..MaxBytes)
      OBVIOUS
    <3>2. got[r][i] \in Nat
      <4>1. got[r][i] \in 1..MaxBytes
        BY <3>1, ElementOfSeq
      <4>. QED BY <4>1
    <3>3. got[r][i] <= Taken
      BY DEF Bytes
    <3>. QED BY <2>1, <3>2, <3>3
  <2>3. \A r \in Reads : Increasing(got'[r]) /\ \A i \in 1..Len(got'[r]) : got'[r][i] <= Taken'
    BY <2>1, <2>2 DEF Bytes, Increasing
  <2>4. \A r, s \in Reads : r < s => Before(got'[r], got'[s])
    BY <2>1 DEF Bytes, Before
  <2>. QED BY <1>1, <1>2, <2>1, <2>3, <2>4 DEF Bytes
<1>4. Repeats'
  BY RepeatsFrame DEF Reset
<1>5. ~env.fails
  BY <1>2
<1>6. TypeOK'
  <2>1. busy' \in BusyState
    BY DEF Reset
  <2>2. Len(queue_data') <= Cap /\ resets' \in Nat
    BY <1>1, <1>2
  <2>. QED BY <1>1, <2>1, <2>2 DEF Reset
<1>7. BufferMatchesStatus'
  BY <1>1, <1>2, <1>5 DEF Reset
<1>8. Books' /\ ReadUnderWay'
  BY <1>1, <1>2, <1>5 DEF Reset
<1>9. PendingRead' /\ ClaimedRead'
  BY SMTT(30), <1>1, <1>2, <1>5 DEF Reset
<1>10. ServedRead' /\ LookedAt'
  BY <1>1, <1>2, <1>5 DEF Reset
<1>11. NoMissedBytes'
  BY <1>1, <1>2, <1>5 DEF Reset
<1>. QED BY <1>3, <1>4, <1>6, <1>7, <1>8, <1>9, <1>10, <1>11 DEF Reset

\* The reads after one that timed out are that read again.
LEMMA RepeatedRead ==
    ASSUME TypeOK, Books, Repeats, env.polite, NEW r \in Reads, GaveUp(r), info \in Reads
    PROVE  /\ kind[info] = kind[r] /\ size[info] = size[r]
           /\ kind[rd] = kind[r] /\ size[rd] = size[r]
<1>1. info <= rd /\ rd \in Reads /\ r <= info /\ status[r] = "TIMEOUT"
  BY Bounds DEF TypeOK, Books, GaveUp, Reads, NoRead
<1>2. \A s \in Reads : r < s /\ s <= rd => kind[s] = kind[r] /\ size[s] = size[r]
  BY <1>1 DEF Repeats
<1>. QED BY <1>1, <1>2, Bounds DEF Reads

\* The rest of ProcessPendingReads() and Finish().
LEMMA ProcessStep ==
    ASSUME IInv, LoadBusy \/ SetEvent \/ CheckPending \/ Claim \/ Finish \/ FinishStatus
    PROVE  IInv'
<1> USE Bounds DEF IInv, Handoff, TypeOK, SoundEnv, Books, ReadUnderWay, PendingRead, ClaimedRead,
        ServedRead, LookedAt, GaveUp, NoMissedBytes, Armed, Looking, Started, Serving, Claimed,
        NoRead, Reads, EnvType, BusyState, Final, IsBlock, Told, Goto, Runs, Enough, reads,
        BufferMatchesStatus
<1>1. CASE LoadBusy
  <2>1. Bytes' /\ Repeats'
    BY <1>1, BytesFrame, RepeatsFrame DEF LoadBusy
  <2>2. TypeOK'
    BY <1>1 DEF LoadBusy
  <2>3. BufferMatchesStatus'
    BY <1>1 DEF LoadBusy
  <2>4. Books' /\ ReadUnderWay'
    BY <1>1 DEF LoadBusy
  <2>5. PendingRead' /\ ClaimedRead'
    BY <1>1 DEF LoadBusy
  <2>6. ServedRead' /\ LookedAt'
    BY <1>1 DEF LoadBusy
  <2>7. NoMissedBytes'
    BY <1>1 DEF LoadBusy
  <2>. QED BY <1>1, <2>1, <2>2, <2>3, <2>4, <2>5, <2>6, <2>7 DEF LoadBusy
<1>2. CASE SetEvent
  <2>1. Bytes' /\ Repeats'
    BY <1>2, BytesFrame, RepeatsFrame DEF SetEvent
  <2>2. TypeOK'
    BY <1>2 DEF SetEvent
  <2>3. BufferMatchesStatus'
    BY <1>2 DEF SetEvent
  <2>4. Books' /\ ReadUnderWay'
    BY <1>2 DEF SetEvent
  <2>5. PendingRead' /\ ClaimedRead'
    BY <1>2 DEF SetEvent
  <2>6. ServedRead' /\ LookedAt'
    BY <1>2 DEF SetEvent
  <2>7. NoMissedBytes'
    BY <1>2 DEF SetEvent
  <2>. QED BY <1>2, <2>1, <2>2, <2>3, <2>4, <2>5, <2>6, <2>7 DEF SetEvent
<1>3. CASE CheckPending
  <2>0. /\ info \in Reads /\ ppc = "pending" /\ ppc' \in {"idle", "claim", "pop"}
        /\ ppc' = "idle" <=> ~Enough(size[info])
        /\ ppc' = "claim" => IsBlock(info)
        /\ ppc' = "pop" => busy = "PENDING" /\ ~IsBlock(info)
    <3>1. busy # "PENDING" => IsBlock(info)
      <4> SUFFICES ASSUME busy # "PENDING" PROVE IsBlock(info)
        OBVIOUS
      <4>1. PICK r \in Reads : GaveUp(r)
        BY <1>3 DEF CheckPending
      <4>. QED BY <1>3, <4>1, RepeatedRead DEF CheckPending
    <3>2. info \in Reads
      BY <1>3 DEF CheckPending
    <3>3. CASE ~Enough(size[info])
      <4>1. ppc = "pending" /\ ppc' = "idle"
        BY <1>3, <3>3 DEF CheckPending, Serves
      <4>. QED BY <3>2, <3>3, <4>1
    <3>4. CASE Enough(size[info])
      BY <1>3, <3>1, <3>2, <3>4 DEF CheckPending, Serves
    <3>. QED BY <3>3, <3>4
  <2>1. Bytes' /\ Repeats'
    BY <1>3, BytesFrame, RepeatsFrame DEF CheckPending, Serves
  <2>2. TypeOK'
    BY <1>3 DEF CheckPending, Serves
  <2>3. BufferMatchesStatus'
    BY <1>3 DEF CheckPending, Serves
  <2>4. Books' /\ ReadUnderWay'
    <3>1. Books'
      BY <1>3 DEF CheckPending
    <3>2. ReadUnderWay'
      BY <1>3, <2>0 DEF CheckPending
    <3>. QED BY <3>1, <3>2
  <2>5. PendingRead' /\ ClaimedRead'
    BY <1>3 DEF CheckPending, Serves
  <2>6. ServedRead' /\ LookedAt'
    <3>1. ServedRead'
      BY <1>3, <2>0 DEF CheckPending
    <3>2. LookedAt'
      BY <1>3, <2>0 DEF CheckPending
    <3>. QED BY <3>1, <3>2
  <2>7. NoMissedBytes'
    <3> SUFFICES ASSUME ppc' = "idle", Armed PROVE ~Enough(size[rd])
      BY <1>3 DEF CheckPending
    <3>1. CASE busy = "PENDING"
      BY <2>0, <3>1
    <3>2. CASE busy # "PENDING"
      <4>1. PICK r \in Reads : GaveUp(r)
        BY <2>0, <3>2
      <4>2. size[info] = size[r] /\ size[rd] = size[r]
        BY <2>0, <4>1, <3>2, RepeatedRead
      <4>. QED BY <2>0, <4>2
    <3>. QED BY <3>1, <3>2
  <2>. QED BY <1>3, <2>1, <2>2, <2>3, <2>4, <2>5, <2>6, <2>7 DEF CheckPending, Serves
<1>4. CASE Claim
  <2>1. Bytes' /\ Repeats'
    BY <1>4, BytesFrame, RepeatsFrame DEF Claim
  <2>2. TypeOK'
    BY <1>4 DEF Claim
  <2>3. BufferMatchesStatus'
    BY <1>4 DEF Claim
  <2>4. Books' /\ ReadUnderWay'
    BY <1>4 DEF Claim
  <2>5. PendingRead' /\ ClaimedRead'
    BY <1>4 DEF Claim
  <2>6. ServedRead' /\ LookedAt'
    BY <1>4 DEF Claim
  <2>7. NoMissedBytes'
    BY <1>4 DEF Claim
  <2>. QED BY <1>4, <2>1, <2>2, <2>3, <2>4, <2>5, <2>6, <2>7 DEF Claim
<1>5. CASE Finish
  <2>1. Bytes' /\ Repeats'
    BY <1>5, BytesFrame, RepeatsFrame DEF Finish
  <2>2. TypeOK'
    BY <1>5 DEF Finish
  <2>3. BufferMatchesStatus'
    BY <1>5 DEF Finish
  <2>4. Books' /\ ReadUnderWay'
    BY <1>5 DEF Finish
  <2>5. PendingRead' /\ ClaimedRead'
    <3>1. CASE Claimed
      BY <1>5, <3>1 DEF Finish
    <3>2. CASE ~Claimed
      BY <1>5, <3>2 DEF Finish
    <3>. QED BY <3>1, <3>2
  <2>6. ServedRead' /\ LookedAt'
    BY <1>5 DEF Finish
  <2>7. NoMissedBytes'
    BY <1>5 DEF Finish
  <2>. QED BY <1>5, <2>1, <2>2, <2>3, <2>4, <2>5, <2>6, <2>7 DEF Finish
<1>6. CASE FinishStatus
  <2>1. Bytes' /\ Repeats'
    BY <1>6, BytesFrame, RepeatsFrame DEF FinishStatus
  <2>2. TypeOK'
    BY <1>6 DEF FinishStatus
  <2>3. BufferMatchesStatus'
    BY <1>6 DEF FinishStatus
  <2>4. Books' /\ ReadUnderWay'
    BY <1>6 DEF FinishStatus
  <2>5. PendingRead' /\ ClaimedRead'
    BY <1>6 DEF FinishStatus
  <2>6. ServedRead' /\ LookedAt'
    BY <1>6 DEF FinishStatus
  <2>7. NoMissedBytes'
    BY <1>6 DEF FinishStatus
  <2>. QED BY <1>6, <2>1, <2>2, <2>3, <2>4, <2>5, <2>6, <2>7 DEF FinishStatus
<1>. QED BY <1>1, <1>2, <1>3, <1>4, <1>5, <1>6

----------------------------------------------------------------------------

LEMMA InvNext == IInv /\ [Next]_vars => IInv'
<1> SUFFICES ASSUME IInv, [Next]_vars PROVE IInv'
  OBVIOUS
<1>1. CASE UNCHANGED vars
  <2>1. Bytes'
    BY <1>1, BytesFrame DEF IInv, vars, reads
  <2>2. Handoff' /\ TypeOK' /\ SoundEnv(env)' /\ BufferMatchesStatus'
    BY <1>1 DEF IInv, Handoff, TypeOK, SoundEnv, Books, ReadUnderWay, PendingRead, ClaimedRead,
                ServedRead, Repeats, LookedAt, GaveUp, NoMissedBytes, Armed, Claimed, IsBlock,
                Enough, BufferMatchesStatus, reads, vars
  <2>. QED BY <2>1, <2>2 DEF IInv
<1>2. ASSUME NEW k \in Kinds, NEW n \in Sizes, Issue(k, n) PROVE IInv'
  BY <1>2, IssueStep
<1>3. CASE InCall \/ WaitTimeout
  BY <1>3, CallStep, PopNowStep DEF InCall
<1>4. CASE Push
  BY <1>4, PushStep
<1>5. CASE Process
  BY <1>5, ProcessStep, PopPendingStep DEF Process
<1>6. CASE Reset
  BY <1>6, ResetStep
<1>. QED BY <1>1, <1>2, <1>3, <1>4, <1>5, <1>6 DEF Next

LEMMA Invariance == ASSUME SoundEnvs PROVE Spec => []IInv
<1>1. Init => IInv
  BY InvInit
<1>. QED BY <1>1, InvNext, PTL DEF Spec

\* The port keeps its types in the sound environments: busy_ and the places of
\* the two sides stay in their ranges, and queue_data_ within its capacity.
THEOREM TypeCorrect == ASSUME SoundEnvs PROVE Spec => []TypeOK
<1>1. IInv => TypeOK
  BY DEF IInv
<1>. QED BY <1>1, Invariance, PTL

\* What PopBatch takes out of queue_data_ reaches the buffers of the reads in
\* the order it was pushed, none twice, and none is missing unless Reset()
\* dropped it, whichever of operator() and ProcessPendingReads() takes it.
THEOREM OrderKept == ASSUME SoundEnvs PROVE Spec => []BytesInOrder
<1>1. IInv => BytesInOrder
  <2> SUFFICES ASSUME IInv PROVE BytesInOrder
    OBVIOUS
  <2> USE Bounds DEF IInv, TypeOK
  <2>1. DOMAIN queue_data = 1..Len(queue_data) /\ Len(queue_data) \in Nat /\ made \in Nat
    BY LenProperties
  <2>2. \A r \in Reads : DOMAIN got[r] = 1..Len(got[r])
    BY LenProperties
  <2>3. \A r \in Reads : \A i \in 1..Len(got[r]) : got[r][i] \in 1..MaxBytes /\ got[r][i] <= Taken
    <3> TAKE r \in Reads
    <3> TAKE i \in 1..Len(got[r])
    <3>1. got[r] \in Seq(1..MaxBytes)
      OBVIOUS
    <3>2. got[r][i] \in 1..MaxBytes
      BY <3>1, ElementOfSeq
    <3>. QED BY <3>2 DEF Bytes
  <2>4. Taken \in Nat /\ Taken + Len(queue_data) = made
    BY <2>1 DEF Bytes, Taken
  <2>5. \A i \in 1..Len(queue_data) : queue_data[i] = Taken + i
    BY DEF Bytes
  <2>6. Increasing(queue_data)
    BY <2>1, <2>4, <2>5 DEF Increasing
  <2>7. \A r \in Reads : Increasing(got[r]) /\ Before(got[r], queue_data)
    <3> TAKE r \in Reads
    <3>1. ASSUME NEW i \in DOMAIN got[r], NEW j \in DOMAIN queue_data
          PROVE  got[r][i] < queue_data[j]
      <4>1. got[r][i] \in Nat /\ got[r][i] <= Taken
        BY <2>2, <2>3
      <4>2. j \in Nat /\ j > 0 /\ queue_data[j] = Taken + j
        BY <2>1, <2>5
      <4>. QED BY <2>4, <4>1, <4>2
    <3>. QED BY <3>1 DEF Bytes, Before
  <2>8. \A r, s \in Reads : r < s => Before(got[r], got[s])
    BY DEF Bytes
  <2>9. ASSUME resets = 0 PROVE 1..made = Delivered \cup ToSet(queue_data)
    <3>1. ASSUME NEW b \in 1..made PROVE b \in Delivered \cup ToSet(queue_data)
      <4>1. CASE b <= Taken
        <5>1. b \in 1..Taken
          BY <2>1, <2>4, <4>1
        <5>2. PICK r \in Reads : \E i \in 1..Len(got[r]) : got[r][i] = b
          BY <2>9, <5>1 DEF Bytes
        <5>. QED BY <2>2, <5>2 DEF Delivered, ToSet
      <4>2. CASE b > Taken
        <5>1. b - Taken \in 1..Len(queue_data) /\ queue_data[b - Taken] = b
          BY <2>1, <2>4, <2>5, <4>2
        <5>. QED BY <2>1, <5>1 DEF ToSet
      <4>. QED BY <2>4, <4>1, <4>2
    <3>2. ASSUME NEW b \in Delivered PROVE b \in 1..made
      <4>1. PICK r \in Reads : b \in ToSet(got[r])
        BY <3>2 DEF Delivered
      <4>2. PICK i \in 1..Len(got[r]) : b = got[r][i]
        BY <2>2, <4>1 DEF ToSet
      <4>3. b \in 1..MaxBytes /\ b <= Taken
        BY <2>3, <4>2
      <4>. QED BY <2>1, <2>4, <4>3
    <3>3. ASSUME NEW b \in ToSet(queue_data) PROVE b \in 1..made
      <4>1. PICK i \in 1..Len(queue_data) : b = queue_data[i]
        BY <2>1, <3>3 DEF ToSet
      <4>2. b = Taken + i
        BY <2>5, <4>1
      <4>. QED BY <2>1, <2>4, <4>2
    <3>. QED BY <3>1, <3>2, <3>3
  <2>. QED BY <2>6, <2>7, <2>8, <2>9 DEF BytesInOrder
<1>. QED BY <1>1, Invariance, PTL

\* A read's buffer is full when its owner is told of success, and untouched when
\* the owner is told that it failed or timed out, and ever after.
THEOREM BuffersOwned == ASSUME SoundEnvs PROVE Spec => []BufferMatchesStatus
<1>1. IInv => BufferMatchesStatus
  BY DEF IInv
<1>. QED BY <1>1, Invariance, PTL

\* Between two calls of ProcessPendingReads() no read is pending that the queue
\* could serve: the EVENT state closes every window between a call's look at the
\* queue and its CAS to PENDING.
THEOREM NoWakeupLost == ASSUME SoundEnvs PROVE Spec => []NoLostWakeup
<1>1. IInv => NoLostWakeup
  BY DEF IInv, Handoff, NoMissedBytes, Armed, PendingRead, NoLostWakeup
<1>. QED BY <1>1, Invariance, PTL

\* When a call has returned, its semaphore holds no token and the port is not
\* left claimed or detached, however the completion, the timeout and a Reset()
\* fell together.
THEOREM CallsLeaveClean == ASSUME SoundEnvs PROVE Spec => []CallLeavesClean
<1>1. IInv => CallLeavesClean
  BY DEF IInv, Handoff, TypeOK, ClaimedRead, PendingRead, Claimed, BusyState, CallLeavesClean
<1>. QED BY <1>1, Invariance, PTL

\* What a read's owner was told is never taken back or told again.
THEOREM StatusFinal == ASSUME SoundEnvs PROVE Spec => StatusIsFinal
<1>1. IInv /\ [Next]_vars => [\A r \in Reads : status[r] \in Final => status'[r] = status[r]]_vars
  <2> SUFFICES ASSUME IInv, Next
               PROVE  \A r \in Reads : status[r] \in Final => status'[r] = status[r]
    OBVIOUS
  <2>1. ASSUME NEW o \in Reads, status[o] \notin Final, NEW s, Told(o, s)
        PROVE  \A r \in Reads : status[r] \in Final => status'[r] = status[r]
    BY <2>1 DEF IInv, TypeOK, Told
  <2>2. CASE UNCHANGED status
    BY <2>2
  <2>3. CASE PopNow \/ Publish
    <3>1. rd \in Reads /\ status[rd] \notin Final
      BY <2>3 DEF IInv, Handoff, Books, ReadUnderWay, Looking, PopNow, Publish, Final
    <3>. QED BY <2>1, <2>3, <3>1 DEF PopNow, Publish
  <2>4. CASE RollBack \/ WaitTimeout \/ DetachedStore \/ Release
    <3>1. \/ UNCHANGED status
          \/ \E s : Told(rd, s) /\ busy \in {"PENDING", "BLOCK_DETACHED", "BLOCK_CLAIMED"}
      BY <2>4 DEF IInv, Handoff, ReadUnderWay, Claimed, RollBack, RollBackAble, WaitTimeout,
                  Cancellable, DetachedStore, Release
    <3>2. busy \in {"PENDING", "BLOCK_DETACHED", "BLOCK_CLAIMED"}
             => rd \in Reads /\ status[rd] = "RUNNING"
      BY DEF IInv, Handoff, PendingRead, ClaimedRead, Claimed
    <3>. QED BY <2>1, <3>1, <3>2 DEF Final
  <2>5. CASE FinishStatus
    <3>1. info \in Reads /\ status[info] = "RUNNING"
      BY <2>5 DEF IInv, Handoff, ServedRead, Serving, FinishStatus
    <3>. QED BY <2>1, <2>5, <3>1 DEF Final, FinishStatus
  <2>. QED BY <2>2, <2>3, <2>4, <2>5
           DEF Next, InCall, Process, Issue, StoreIdle, CheckSize, Arm, ReadFunAccepts,
               ReadFunFails, WaitPosted, Push, LoadBusy, SetEvent, CheckPending, Claim,
               PopPending, Finish, Reset, reads
<1>. QED BY <1>1, Invariance, PTL DEF Spec, StatusIsFinal

\* When the producer is an interrupt of the reader's core, the bytes that
\* ProcessPendingReads() counted are there when it pops them: its ASSERT holds.
THEOREM InterruptServed ==
    ASSUME SoundEnvs, \A e \in Envs : e.isr
    PROVE  Spec => []PopServed
<1>1. IInv => PopServed
  BY DEF IInv, TypeOK, Handoff, LookedAt, PopServed
<1>. QED BY <1>1, Invariance, PTL
=============================================================================
