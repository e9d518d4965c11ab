--------------------------- MODULE KeyValueStore ---------------------------
(***************************************************************************)
(* What a database on flash promises: calls take effect whole, one at a    *)
(* time, and a power loss leaves the key that was being written with its   *)
(* old or its new value.  An engine that promises less names the damage a  *)
(* power loss may do with Harms.                                           *)
(***************************************************************************)
EXTENDS Naturals

CONSTANTS
    Keys, Values,
    Missing,     \* no such key
    Blank,       \* erased flash in the place of the value
    OtherSize,   \* data whose size is not the stored key's
    Harms        \* what a power loss may do to a call

VARIABLES
    store,    \* the value of each key
    call,     \* the call in progress
    answer,   \* what the last call returned
    up,       \* FALSE from a power loss until Init() is done
    harm,     \* the damage of the last power loss
    trust     \* "torn" after a call that was torn, "gone" when that has made
              \* the engine lose track of its keys

vars == <<store, call, answer, up, harm, trust>>

Stored == Values \cup {Missing, Blank}
NoCall == [op |-> "none"]
Request(o, k, v) == [op |-> o, key |-> k, val |-> v]
Empty == [k \in Keys |-> Missing]

Init ==
    /\ store \in [Keys -> Stored] /\ call = NoCall /\ answer = NoCall
    /\ up = FALSE /\ harm = "none" /\ trust = "whole"

Begin ==
    /\ up /\ call = NoCall
    /\ call' \in {Request(o, k, v) : o \in {"get", "set", "add"}, k \in Keys,
                  v \in Values \cup {OtherSize}} \cup {[op |-> "restore"]}
    /\ UNCHANGED <<store, answer, up, harm, trust>>

\* The store after the call in progress.
After ==
    CASE call.op \in {"set", "add"} -> [store EXCEPT ![call.key] = call.val]
      [] call.op = "restore" -> Empty
      [] OTHER -> store

Answer(c) == answer' = [op |-> call.op, code |-> c, val |-> Missing]

\* A read returns what is stored.
FinishGet ==
    /\ call.op = "get" /\ UNCHANGED store
    /\ answer' = [op |-> "get", val |-> store[call.key],
                  code |-> IF store[call.key] = Missing THEN "NOT_FOUND" ELSE "OK"]

\* A write that succeeds.
FinishOk ==
    /\ call.op \in {"set", "add", "restore"} /\ Answer("OK") /\ store' = After
    /\ call.op = "set" => store[call.key] # Missing
    /\ call.op # "restore" => call.val # OtherSize

\* A write that fails has changed nothing.
FinishFailed ==
    /\ UNCHANGED store
    /\ \/ Answer("FAILED") /\ call.op \in {"set", "add"}
          /\ (call.val = OtherSize \/ store[call.key] = Missing)
       \/ Answer("FULL") /\ call.op \in {"set", "add"}

Finish ==
    /\ up /\ call # NoCall /\ call' = NoCall
    /\ FinishGet \/ FinishOk \/ FinishFailed
    /\ trust' = IF call.op = "restore" THEN "whole" ELSE trust
    /\ UNCHANGED <<up, harm>>

\* The next Init() may start from nothing.
LoseTrack ==
    /\ trust = "torn" /\ trust' = "gone"
    /\ UNCHANGED <<store, call, answer, up, harm>>

PowerLoss ==
    /\ up /\ up' = FALSE
    /\ harm' \in Harms /\ (call = NoCall => harm' = "none")
    /\ UNCHANGED <<store, call, answer, trust>>

\* Init() has found what the power loss left.
Recover ==
    /\ ~up /\ up' = TRUE /\ call' = NoCall /\ harm' = "none"
    /\ LET left == CASE harm = "none" -> {store, After}
                     [] harm = "lost" -> {[store EXCEPT ![call.key] = Missing]}
                     [] harm = "blank" -> {[store EXCEPT ![call.key] = Blank]}
                     [] harm = "wiped" -> {Empty}
       IN  store' \in left \cup (IF trust = "gone" THEN {Empty} ELSE {})
    /\ \/ trust' = IF harm = "lost" /\ trust = "whole" THEN "torn" ELSE trust
       \/ trust' = "whole" /\ store' = Empty
    /\ UNCHANGED answer

Next == Begin \/ Finish \/ LoseTrack \/ PowerLoss \/ Recover

Spec == Init /\ [][Next]_vars
=============================================================================
