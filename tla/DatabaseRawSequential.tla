----------------------- MODULE DatabaseRawSequential -----------------------
(***************************************************************************)
(* LibXR::DatabaseRawSequential: the whole store is one image in RAM, and  *)
(* every change writes it to the backup block and then to the main block.  *)
(* The power may fail between any two flash operations.                    *)
(*                                                                         *)
(* A flash operation is a step.  plan holds those the current procedure    *)
(* still has to do, each with what the block will hold after it; nothing   *)
(* they depend on changes in between, since one thread uses the database.  *)
(***************************************************************************)
EXTENDS Naturals, Sequences, SequencesExt

CONSTANTS
    Keys, Values, Missing, Blank, OtherSize,
    Room,       \* keys that max_buffer_size_ has room for
    MaxCalls,   \* bound: calls
    MaxLosses   \* bound: power losses

ASSUME SequentialAssumption ==
    /\ Room \in Nat \ {0} /\ MaxCalls \in Nat /\ MaxLosses \in Nat
    /\ Missing \notin Values /\ OtherSize \notin Values /\ Blank \notin Values

VARIABLES
    flash,    \* flash[b]: a block
    buffer,   \* buffer_: the image in RAM
    plan,     \* the flash operations still to do
    pc,       \* where the database is
    call,     \* the call in progress
    answer,   \* what the last call returned
    before,   \* auxiliary: what the store held when the call began
    calls, losses

vars == <<flash, buffer, plan, pc, call, answer, before, calls, losses>>

Blocks == {"MAIN", "BACKUP"}
Entries == [key : Keys, val : Values]

\* A block: whether its last byte is CHECKSUM_BYTE, and its keys.  A block that
\* is erased, or was erased and is half written, has no CHECKSUM_BYTE.
Block(image) == [sum |-> TRUE, keys |-> image]
Unfinished == [sum |-> FALSE, keys |-> <<>>]

NoCall == [op |-> "none"]
Request(o, k, v) == [op |-> o, key |-> k, val |-> v]
Requests == {Request(o, k, v) : o \in {"get", "set", "add"}, k \in Keys,
             v \in Values \cup {OtherSize}}
Calls == Requests \cup {[op |-> "restore"]}
Answers == [op : {"get", "set", "add", "restore"}, code : {"OK", "NOT_FOUND", "FAILED", "FULL"},
            val : Values \cup {Missing}]

TypeOK ==
    /\ flash \in [Blocks -> [sum : BOOLEAN, keys : Seq(Entries)]]
    /\ buffer \in Seq(Entries)
    /\ plan \in Seq([block : Blocks, to : [sum : BOOLEAN, keys : Seq(Entries)]])
    /\ pc \in {"off", "boot", "load", "idle", "call", "save"}
    /\ call \in Calls \cup {NoCall} /\ answer \in Answers \cup {NoCall}
    /\ before \in [Keys -> Values \cup {Missing}]
    /\ calls \in 0..MaxCalls /\ losses \in 0..MaxLosses
    /\ Len(buffer) <= Room

\* Fresh flash.
Init ==
    /\ flash = [b \in Blocks |-> Unfinished] /\ buffer = <<>> /\ plan = <<>>
    /\ pc = "off" /\ call = NoCall /\ answer = NoCall
    /\ before = [k \in Keys |-> Missing] /\ calls = 0 /\ losses = 0

----------------------------------------------------------------------------
(* Flash operations.                                                          *)

Erase(b) == [block |-> b, to |-> Unfinished]
Write(b, image) == [block |-> b, to |-> Block(image)]

\* mutant: both copies are erased before one is written again
SaveBothErased(image) ==
    <<Erase("BACKUP"), Erase("MAIN"), Write("BACKUP", image), Write("MAIN", image)>>
Save(image) ==
    <<Erase("BACKUP"), Write("BACKUP", image), Erase("MAIN"), Write("MAIN", image)>>

\* The next operation of the plan; at its end the procedure goes on at l.
Operate(l) ==
    /\ plan # <<>>
    /\ flash' = [flash EXCEPT ![Head(plan).block] = Head(plan).to]
    /\ plan' = Tail(plan)
    /\ pc' = IF Len(plan) = 1 THEN l ELSE pc

----------------------------------------------------------------------------
(* Init().                                                                    *)

\* What Init() writes: an empty image over a bad backup, the backup over a bad
\* main block.
Boots ==
    LET backup == IF flash["BACKUP"].sum THEN <<>> ELSE <<Erase("BACKUP"), Write("BACKUP", <<>>)>>
        kept == IF flash["BACKUP"].sum THEN flash["BACKUP"].keys ELSE <<>>
        main == IF flash["MAIN"].sum THEN <<>> ELSE <<Erase("MAIN"), Write("MAIN", kept)>>
    IN  backup \o main

PowerOn ==
    /\ pc = "off" /\ plan' = Boots
    /\ pc' = IF Boots = <<>> THEN "load" ELSE "boot"
    /\ UNCHANGED <<flash, buffer, call, answer, before, calls, losses>>

BootStep ==
    /\ pc = "boot" /\ Operate("load")
    /\ UNCHANGED <<buffer, call, answer, before, calls, losses>>

\* What a read finds: the last entry of a key is its only one.
Lookup(image, k) ==
    LET at == {i \in DOMAIN image : image[i].key = k}
    IN  IF at = {} THEN 0 ELSE CHOOSE i \in at : TRUE
Content == [k \in Keys |-> LET i == Lookup(flash["MAIN"].keys, k)
                           IN  IF i = 0 THEN Missing ELSE flash["MAIN"].keys[i].val]

LoadNothing == buffer  \* mutant: Init() does not call Load()
Loaded == flash["MAIN"].keys

Load ==
    /\ pc = "load" /\ pc' = "idle" /\ buffer' = Loaded
    /\ call' = NoCall /\ before' = Content
    /\ UNCHANGED <<flash, plan, answer, calls, losses>>

----------------------------------------------------------------------------
(* Get, Set, Add, Restore.                                                    *)

Begin(c) ==
    /\ pc = "idle" /\ calls < MaxCalls /\ calls' = calls + 1
    \* a key of another size is found, never created
    /\ c.op = "add" /\ c.val = OtherSize => Content[c.key] # Missing
    /\ c.op = "get" => c.val = OtherSize
    /\ pc' = "call" /\ call' = c /\ before' = Content
    /\ UNCHANGED <<flash, buffer, plan, answer, losses>>

Found == Lookup(flash["MAIN"].keys, call.key)

Return(code, v) ==
    /\ pc' = "idle" /\ call' = NoCall
    /\ answer' = [op |-> call.op, code |-> code, val |-> v]

Get ==
    /\ pc = "call" /\ call.op = "get"
    /\ IF Found = 0 THEN Return("NOT_FOUND", Missing)
       ELSE Return("OK", flash["MAIN"].keys[Found].val)
    /\ UNCHANGED <<flash, buffer, plan, before, calls, losses>>

HasRoomAtLast == Len(flash["MAIN"].keys) <= Room  \* mutant: off by one
HasRoom == Len(flash["MAIN"].keys) < Room

\* The early returns of SetKey and AddKey.
Refuse ==
    /\ pc = "call" /\ call.op \in {"set", "add"}
    /\ \/ Found = 0 /\ call.op = "set" /\ Return("FAILED", Missing)
       \/ Found # 0 /\ call.val = OtherSize /\ Return("FAILED", Missing)
       \/ Found = 0 /\ call.op = "add" /\ ~HasRoom
             /\ Return("FULL", Missing)
       \/ Found # 0 /\ flash["MAIN"].keys[Found].val = call.val /\ Return("OK", Missing)
    /\ UNCHANGED <<flash, buffer, plan, before, calls, losses>>

\* The image with the call's key: changed in place, or appended.
Changed ==
    IF Found = 0 THEN Append(buffer, [key |-> call.key, val |-> call.val])
    ELSE [buffer EXCEPT ![Found].val = call.val]

Change ==
    /\ pc = "call" /\ call.op \in {"set", "add"} /\ call.val # OtherSize
    /\ IF Found = 0 THEN call.op = "add" /\ HasRoom
       ELSE flash["MAIN"].keys[Found].val # call.val
    /\ buffer' = Changed /\ plan' = Save(Changed) /\ pc' = "save"
    /\ UNCHANGED <<flash, call, answer, before, calls, losses>>

\* Restore() writes over both blocks without erasing them first.
Restore ==
    /\ pc = "call" /\ call.op = "restore"
    /\ buffer' = <<>> /\ plan' = <<Write("MAIN", <<>>), Write("BACKUP", <<>>)>>
    /\ pc' = "save"
    /\ UNCHANGED <<flash, call, answer, before, calls, losses>>

SaveStep ==
    /\ pc = "save" /\ Len(plan) > 1 /\ Operate("save")
    /\ UNCHANGED <<buffer, call, answer, before, calls, losses>>

SaveLast ==
    /\ pc = "save" /\ Len(plan) = 1
    /\ flash' = [flash EXCEPT ![plan[1].block] = plan[1].to] /\ plan' = <<>>
    /\ Return("OK", Missing)
    /\ UNCHANGED <<buffer, before, calls, losses>>

----------------------------------------------------------------------------

\* What is in RAM is gone, and the operation under way leaves what was there, or,
\* if it writes a block, an unfinished one.
PowerLoss ==
    /\ pc # "off" /\ losses < MaxLosses /\ losses' = losses + 1
    /\ pc' = "off" /\ plan' = <<>> /\ buffer' = <<>>
    /\ before' = IF pc = "idle" THEN Content ELSE before
    /\ UNCHANGED <<flash, call, answer, calls>>

Step ==
    \/ PowerOn \/ BootStep \/ Load
    \/ Get \/ Refuse \/ Change \/ Restore \/ SaveStep \/ SaveLast

Next == (\E c \in Calls : Begin(c)) \/ Step \/ PowerLoss

Spec == Init /\ [][Next]_vars
FairSpec == Spec /\ WF_vars(Step)

----------------------------------------------------------------------------
(* Properties.                                                                *)

Up == pc \in {"idle", "call", "save"}

S == INSTANCE KeyValueStore WITH
        store <- IF pc = "idle" THEN Content ELSE before,
        up <- Up, harm <- "none", trust <- "whole", Harms <- {"none"}

\* A key has its old or its new value after a power loss at any point of any
\* call, or of Init() itself; every other key is as it was; and a call that
\* returns has done what its code says.
ImplementsStore == S!Spec

\* Between flash operations the image in RAM is the one in the main block: a
\* stale one would take the other keys with it at the next Save().
ImageInRam == pc \in {"idle", "call"} => flash["MAIN"] = Block(buffer)
=============================================================================
