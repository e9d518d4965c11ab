---------------------------- MODULE TopicServer ----------------------------
(***************************************************************************)
(* Topic::Server: packets on a line that loses and adds bytes are cut into *)
(* batches by whatever carries them; ParseData() queues a batch, or drops  *)
(* it whole when the queue has no room, and publishes the packets it finds.*)
(*                                                                         *)
(* A byte is <<m, i>>, the i-th of packet m; <<0, i>> is noise.  A header  *)
(* is H bytes, the first one the prefix; its CRC and that of the packet    *)
(* are ideal: they hold of the bytes of one packet in their order only.    *)
(***************************************************************************)
EXTENDS Naturals, SequencesExt

CONSTANTS
    Length, H,             \* of queue_, and of PackedDataHeader
    MaxPackets, Kinds,     \* packets on the line: [data, topic, echo]
    Batches, MaxFaults     \* lengths of batches; bound: losses and noise

Packets == 1..MaxPackets
Base == H + 1              \* PACK_BASE_SIZE: a header and the packet's CRC

ServerAssumption ==
    /\ Length \in Nat /\ H \in Nat \ {0} /\ Length > Base /\ MaxPackets \in Nat
    /\ Kinds \subseteq [data : Nat, topic : BOOLEAN, echo : BOOLEAN]
    /\ Batches \subseteq Nat \ {0} /\ MaxFaults \in Nat

VARIABLES
    kind,                  \* each packet's length of data, whether its topic is registered,
                           \* and whether its first byte of data looks like a prefix
    line,                  \* bytes that have not arrived yet
    faults,
    queue, parse_buff,     \* queue_, parse_buff_
    status,                \* status_, and "idle" outside ParseData
    resume,                \* status_ while no call runs
    published,             \* packets handed to their topics
    heard                  \* bytes that were queued, in order

lineVars == <<kind, line, faults>>
vars == <<lineVars, queue, parse_buff, status, resume, published, heard>>

Bytes == (0..MaxPackets) \X (1..(Base + 4))
States == {"WAIT_START", "WAIT_TOPIC", "WAIT_DATA_CRC"}

TypeOK ==
    /\ kind \in [Packets -> Kinds] /\ faults \in 0..MaxFaults
    /\ {line, queue, parse_buff, heard} \subseteq Seq(Bytes) /\ Len(queue) <= Length
    /\ status \in States \cup {"idle"} /\ resume \in States
    /\ published \in Seq(Packets)

Size(m) == Base + kind[m].data
Packet(m) == [i \in 1..Size(m) |-> <<m, i>>]
LooksLikePrefix(b) == b[2] = 1 \/ (b[1] # 0 /\ b[2] = H + 1 /\ kind[b[1]].echo)

Init ==
    /\ kind \in [Packets -> Kinds] /\ line = FlattenSeq([m \in Packets |-> Packet(m)])
    /\ faults = 0 /\ queue = <<>> /\ parse_buff = <<>> /\ status = "idle"
    /\ resume = "WAIT_START" /\ published = <<>> /\ heard = <<>>

\* The packet whose header these bytes are, if its topic is registered and it
\* fits into the queue: what ReadHeader() checks.
Headers(bytes) ==
    {m \in Packets : /\ bytes = SubSeq(Packet(m), 1, H) /\ kind[m].topic
                     /\ kind[m].data + Base <= Length}

NoChecksum(bytes) == TRUE  \* mutant: ReadPayload() does not verify the packet
Checksum(bytes) == \E m \in Packets : bytes = Packet(m)

----------------------------------------------------------------------------
(* The line.                                                                  *)

Lose(n) ==
    /\ status = "idle" /\ n <= Len(line) /\ faults < MaxFaults /\ faults' = faults + 1
    /\ line' = SubSeq(line, n + 1, Len(line))
    /\ UNCHANGED <<kind, queue, parse_buff, status, resume, published, heard>>

Noise(i) ==
    /\ status = "idle" /\ faults < MaxFaults /\ faults' = faults + 1
    /\ line' = <<<<0, i>>>> \o line
    /\ UNCHANGED <<kind, queue, parse_buff, status, resume, published, heard>>

----------------------------------------------------------------------------
(* ParseData(): PushBatch is all or nothing, and its answer is not looked at. *)

ParseData(n) ==
    /\ status = "idle" /\ n <= Len(line)
    /\ line' = SubSeq(line, n + 1, Len(line)) /\ status' = resume
    /\ LET batch == SubSeq(line, 1, n) IN
         IF Len(queue) + n <= Length
         THEN queue' = queue \o batch /\ heard' = heard \o batch
         ELSE UNCHANGED <<queue, heard>>
    /\ UNCHANGED <<kind, faults, parse_buff, resume, published>>

Return == status' = "idle" /\ resume' = status

SyncToPacketStart ==
    /\ status = "WAIT_START"
    /\ LET starts == {i \in DOMAIN queue : LooksLikePrefix(queue[i])} IN
         IF starts = {} THEN queue' = <<>> /\ Return
         ELSE /\ queue' = SubSeq(queue, CHOOSE i \in starts : \A j \in starts : i <= j, Len(queue))
              /\ status' = "WAIT_TOPIC" /\ UNCHANGED resume
    /\ UNCHANGED <<lineVars, parse_buff, published, heard>>

ReadHeader ==
    /\ status = "WAIT_TOPIC"
    /\ IF Len(queue) < H THEN Return /\ UNCHANGED <<queue, parse_buff>>
       ELSE /\ parse_buff' = SubSeq(queue, 1, H) /\ queue' = SubSeq(queue, H + 1, Len(queue))
            /\ status' = IF Headers(parse_buff') # {} THEN "WAIT_DATA_CRC" ELSE "WAIT_START"
            /\ UNCHANGED resume
    /\ UNCHANGED <<lineVars, published, heard>>

ReadPayload ==
    /\ status = "WAIT_DATA_CRC"
    /\ LET m == CHOOSE m \in Headers(SubSeq(parse_buff, 1, H)) : TRUE
           n == kind[m].data + 1
           whole == parse_buff \o SubSeq(queue, 1, n)
       IN  IF Len(queue) < n THEN Return /\ UNCHANGED <<queue, parse_buff, published>>
           ELSE /\ queue' = SubSeq(queue, n + 1, Len(queue)) /\ parse_buff' = <<>>
                /\ published' = IF Checksum(whole) THEN Append(published, m) ELSE published
                /\ status' = "WAIT_START" /\ UNCHANGED resume
    /\ UNCHANGED <<lineVars, heard>>

Step == SyncToPacketStart \/ ReadHeader \/ ReadPayload

Next ==
    \/ Step
    \/ \E n \in Batches : ParseData(n) \/ Lose(n)
    \/ \E i \in 1..2 : Noise(i)

Spec == Init /\ [][Next]_vars

----------------------------------------------------------------------------
(* Properties.                                                                *)

Between(i, j) == SubSeq(heard, i + 1, j)

\* Where the scan of the whole stream looks for a packet's start: past a byte
\* that is no prefix, past a header that is refused, and past the packet that
\* an accepted header announces, whatever it holds.
Boundary ==
    LET ends[i \in 0..Len(heard)] ==
          \/ i = 0
          \/ i > 0 /\ ends[i - 1] /\ ~LooksLikePrefix(heard[i])
          \/ /\ i >= H /\ ends[i - H] /\ LooksLikePrefix(heard[i - H + 1])
             /\ Headers(Between(i - H, i)) = {}
          \/ \E m \in Packets :
                LET start == i - Size(m) IN
                  start >= 0 /\ ends[start] /\ m \in Headers(Between(start, start + H))
    IN  ends

\* What is published depends on the bytes that were queued, not on how they
\* were cut into batches: every packet that begins at a boundary of the stream
\* and is whole, in order and once, and nothing else.
PublishedIsScanned ==
    status = "idle" =>
        /\ \A i, j \in DOMAIN published : i < j => published[i] < published[j]
        /\ ToSet(published) =
             {m \in Packets : \E i \in 0..Len(heard) :
                /\ i + Size(m) <= Len(heard) /\ Boundary[i]
                /\ Headers(SubSeq(Packet(m), 1, H)) = {m} /\ Between(i, i + Size(m)) = Packet(m)}

\* Between calls the queue has room for a header and a CRC, or for what is left
\* beside an incomplete header: no batch of that length is ever dropped.
RoomKept ==
    status = "idle" => Length - Len(queue) >= IF Length > 2 * H THEN Base ELSE Length - H + 1

ParsesAnyBatches == TypeOK /\ PublishedIsScanned /\ RoomKept
=============================================================================
