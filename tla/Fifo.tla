------------------------------- MODULE Fifo -------------------------------
(***************************************************************************)
(* What LibXR::LockFreeQueue promises to one producer and its consumers: a *)
(* bounded queue whose operations take effect in one step, and whose FULL  *)
(* and EMPTY answers were true when they were given.                       *)
(***************************************************************************)
EXTENDS Naturals, Sequences

CONSTANTS
    Capacity,   \* MaxSize()
    Consumers,
    Batches     \* sizes of the batches asked for

VARIABLES
    items,      \* the items in the queue, numbered as they were pushed
    made,       \* items pushed so far
    pushed,     \* the producer's last answer
    popped,     \* popped[c]: consumer c's last answer
    got         \* got[c]: the items c's last successful call returned

vars == <<items, made, pushed, popped, got>>

Init ==
    /\ items = <<>> /\ made = 0 /\ pushed = "none"
    /\ popped = [c \in Consumers |-> "none"]
    /\ got = [c \in Consumers |-> <<>>]

\* A new call forgets the last answer.
AskPush == pushed' = "none" /\ UNCHANGED <<items, made, popped, got>>
AskPop(c) ==
    /\ popped' = [popped EXCEPT ![c] = "none"]
    /\ UNCHANGED <<items, made, pushed, got>>

Put(n) ==
    /\ Len(items) + n <= Capacity
    /\ items' = items \o [i \in 1..n |-> made + i]
    /\ made' = made + n /\ pushed' = "OK"
    /\ UNCHANGED <<popped, got>>

Full(n) ==
    /\ Len(items) + n > Capacity
    /\ pushed' = "FULL" /\ UNCHANGED <<items, made, popped, got>>

\* The caller's own writer or reader callback gave up.
PushGivenUp == pushed' = "FAILED" /\ UNCHANGED <<items, made, popped, got>>
PopGivenUp(c) ==
    /\ popped' = [popped EXCEPT ![c] = "FAILED"]
    /\ UNCHANGED <<items, made, pushed, got>>

Front(n) == SubSeq(items, 1, n)
Rest(n) == SubSeq(items, n + 1, Len(items))

Look(c, n) ==
    /\ n <= Len(items)
    /\ got' = [got EXCEPT ![c] = Front(n)]
    /\ popped' = [popped EXCEPT ![c] = "OK"]
    /\ UNCHANGED <<items, made, pushed>>

Take(c, n) ==
    /\ n <= Len(items)
    /\ got' = [got EXCEPT ![c] = Front(n)]
    /\ popped' = [popped EXCEPT ![c] = "OK"]
    /\ items' = Rest(n)
    /\ UNCHANGED <<made, pushed>>

Empty(c, n) ==
    /\ n > Len(items)
    /\ popped' = [popped EXCEPT ![c] = "EMPTY"]
    /\ UNCHANGED <<items, made, pushed, got>>

Clear == items' = <<>> /\ UNCHANGED <<made, pushed, popped, got>>

Next ==
    \/ AskPush \/ PushGivenUp \/ Clear
    \/ \E n \in Batches : Put(n) \/ Full(n)
    \/ \E c \in Consumers :
        \/ AskPop(c) \/ PopGivenUp(c)
        \/ \E n \in Batches : Look(c, n) \/ Take(c, n) \/ Empty(c, n)

Spec == Init /\ [][Next]_vars
=============================================================================
