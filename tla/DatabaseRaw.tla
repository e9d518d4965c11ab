---------------------------- MODULE DatabaseRaw ----------------------------
(***************************************************************************)
(* LibXR::DatabaseRaw: a chain of entries in the main block, appended to   *)
(* in place; an entry that is overwritten is marked, and Recycle() copies  *)
(* the live ones through the backup block.  The power may fail between any *)
(* two flash operations.                                                   *)
(*                                                                         *)
(* As in DatabaseRawSequential, plan holds the flash operations still to   *)
(* do.  Entries have one size, so an offset is the number of a slot: 0 is  *)
(* the placeholder, and Cap + 1 the erased rest of the block.              *)
(***************************************************************************)
EXTENDS Naturals, Sequences, SequencesExt, FiniteSetsExt

CONSTANTS
    Keys, Values, Missing, Blank, OtherSize,
    Cap,         \* entries a block has room for
    Threshold,   \* recycle_threshold_
    Starts,      \* what the main block may hold at first, as sequences of pairs
    MaxCalls,    \* bound: calls
    MaxLosses    \* bound: power losses

\* The placeholder counts as unavailable: with a threshold of 0 SearchKey would
\* recycle for ever.
RawAssumption ==
    /\ Cap \in Nat \ {0} /\ Threshold \in Nat \ {0}
    /\ MaxCalls \in Nat /\ MaxLosses \in Nat
    /\ Missing \notin Values /\ OtherSize \notin Values /\ Blank \notin Values

VARIABLES
    flash,     \* flash[b]: header, checksum and slots of a block
    plan,      \* the flash operations still to do
    pc, ret,   \* where the database is, and where it goes after the plan
    call,      \* the call in progress
    found,     \* SearchKey's answer
    recycled,  \* whether this call has recycled for room already
    answer,    \* what the last call returned
    before,    \* auxiliary: what the store held when the call began
    harm,      \* auxiliary: what the last power loss tore
    trust,     \* auxiliary: "torn" after a power loss in SetKey(), "gone" once
               \* Recycle() has then copied a chain whose last entry was spent
    calls, losses

bounds == <<calls, losses>>
aux == <<before, harm, trust>>
vars == <<flash, plan, pc, ret, call, found, recycled, answer, aux, bounds>>

Blocks == {"MAIN", "BACKUP"}
Slots == 0..(Cap + 1)

----------------------------------------------------------------------------
(* Blocks.  last is no_next_key, avail available_flag, sized says that        *)
(* raw_info is not erased.                                                    *)

Entry == [last : BOOLEAN, avail : BOOLEAN, uninit : BOOLEAN, sized : BOOLEAN,
          key : Keys \cup {Blank}, val : Values \cup {Blank}]
BlockSet == [header : BOOLEAN, sum : BOOLEAN, slots : [Slots -> Entry]]

ErasedSlot == [last |-> TRUE, avail |-> TRUE, uninit |-> TRUE, sized |-> FALSE,
               key |-> Blank, val |-> Blank]
NewKey == [ErasedSlot EXCEPT !.sized = TRUE]
EmptyMark == [NewKey EXCEPT !.uninit = FALSE]
ChainStart == [EmptyMark EXCEPT !.avail = FALSE, !.last = FALSE]

Erased == [header |-> FALSE, sum |-> FALSE, slots |-> [i \in Slots |-> ErasedSlot]]
Formatted == [Erased EXCEPT !.header = TRUE, !.sum = TRUE]
Chain(b, es) ==
    [b EXCEPT !.slots = [i \in Slots |-> IF i = 0 THEN ChainStart
                                         ELSE IF i <= Len(es) THEN es[i] ELSE ErasedSlot]]

IsBlockValid(b) == b.header /\ b.sum
IsBlockEmpty(b) == b.slots[0].avail
GetLastKey(b) == CHOOSE i \in Slots : b.slots[i].last /\ \A j \in 0..(i - 1) : ~b.slots[j].last
\* The chain runs into erased flash.
Broken(b) == ~IsBlockEmpty(b) /\ ~b.slots[GetLastKey(b)].sized
Live(b) == IF IsBlockEmpty(b) THEN {} ELSE {i \in 1..GetLastKey(b) : b.slots[i].avail}
Spent(b, n) == Cardinality({i \in 0..n : ~b.slots[i].avail})

Main == flash["MAIN"]
Backup == flash["BACKUP"]

\* SearchKey: the first live entry of the key, and the entries it skipped.
Search(k) ==
    LET at == {i \in Live(Main) : Main.slots[i].key = k}
    IN  IF at = {} THEN 0 ELSE Min(at)
Skipped(k) ==
    IF IsBlockEmpty(Main) THEN 0
    ELSE Spent(Main, IF Search(k) = 0 THEN GetLastKey(Main) ELSE Search(k))

Content == [k \in Keys |-> IF Search(k) = 0 THEN Missing ELSE Main.slots[Search(k)].val]

----------------------------------------------------------------------------
(* Flash operations.                                                          *)

To(b, img) == [block |-> b, to |-> img]

\* Sectors are erased upwards: the header goes first.
Erase(b) == <<To(b, [flash[b] EXCEPT !.header = FALSE]), To(b, Erased)>>
InitBlock(b) ==
    LET marked == [Erased EXCEPT !.header = TRUE, !.slots[0] = EmptyMark]
    IN  Erase(b) \o <<To(b, marked), To(b, [marked EXCEPT !.sum = TRUE])>>
InvalidateBlock(b) == <<To(b, [flash[b] EXCEPT !.sum = FALSE])>>

\* CopyBlockPrefixAndChecksum onto the erased main block, the checksum last.
CopyToMain(b) == <<To("MAIN", [b EXCEPT !.sum = FALSE]), To("MAIN", b)>>

\* mutant: the main block is erased before its keys are in the backup block
RecycleEraseFirst(clean, steps) == Erase("MAIN") \o clean \o steps
RecycleCopies(clean, steps) == clean \o steps \o Erase("MAIN")

Recycle ==
    LET clean == IF IsBlockValid(Backup) /\ IsBlockEmpty(Backup) THEN <<>> ELSE InitBlock("BACKUP")
        live == [n \in 1..Cardinality(Live(Main)) |->
                    Main.slots[CHOOSE i \in Live(Main) :
                                   Cardinality({j \in Live(Main) : j <= i}) = n]]
        copies == [n \in 1..(Len(live) + 1) |->
                      To("BACKUP", Chain(Formatted, SubSeq(live, 1, n - 1)))]
    IN  RecycleCopies(clean, copies) \o CopyToMain(Chain(Formatted, live)) \o InitBlock("BACKUP")

\* AddKeyBody, then the name and the data; b is what the main block holds.
AddKey(b, k, v) ==
    LET old == GetLastKey(b)
        p == IF IsBlockEmpty(b) THEN 1 ELSE old + 1
        new == [b EXCEPT !.slots[p] = NewKey]
        linked == [new EXCEPT !.slots[old].last = FALSE]
        inited == [linked EXCEPT !.slots[p].uninit = FALSE]
        named == [inited EXCEPT !.slots[p].key = k]
        done == [named EXCEPT !.slots[p].val = v]
    IN  (IF IsBlockEmpty(b)
         THEN <<To("MAIN", [b EXCEPT !.slots[0] = ChainStart]),
                To("MAIN", [new EXCEPT !.slots[0] = ChainStart])>>
         ELSE <<To("MAIN", new), To("MAIN", linked)>>)
        \o [n \in 1..3 |->
               LET img == <<inited, named, done>>[n]
               IN  To("MAIN", IF IsBlockEmpty(b)
                              THEN [img EXCEPT !.slots[0] = ChainStart] ELSE img)]

\* SetKey: the old entry is marked first.
SetKey(i, k, v) ==
    LET marked == [Main EXCEPT !.slots[i].avail = FALSE]
    IN  <<To("MAIN", marked)>> \o AddKey(marked, k, v)

----------------------------------------------------------------------------
NoCall == [op |-> "none"]
Request(o, k, v) == [op |-> o, key |-> k, val |-> v]
Requests == {Request(o, k, v) : o \in {"get", "set", "add"}, k \in Keys,
             v \in Values \cup {OtherSize}}
Calls == Requests \cup {[op |-> "restore"]}

TypeOK ==
    /\ flash \in [Blocks -> BlockSet]
    \* no entry reaches into the checksum
    /\ \A b \in Blocks : flash[b].slots[Cap + 1] = ErasedSlot
    /\ plan \in Seq([block : Blocks, to : BlockSet])
    /\ pc \in {"off", "check", "ready", "idle", "search", "found", "write", "done"}
    /\ ret \in {"check", "ready", "search", "found", "done"}
    /\ call \in Calls \cup {NoCall} /\ found \in Slots /\ recycled \in BOOLEAN
    /\ answer \in [op : STRING, code : STRING, val : Values \cup {Missing, Blank}] \cup {NoCall}
    /\ before \in [Keys -> Values \cup {Missing, Blank}]
    /\ harm \in {"none", "lost", "blank", "wiped"} /\ trust \in {"whole", "torn", "gone"}
    /\ calls \in 0..MaxCalls /\ losses \in 0..MaxLosses

\* Fresh flash, or the keys an earlier run of the device has left.
Left(s) ==
    [b \in Blocks |-> IF b = "BACKUP" THEN Erased ELSE Chain(Formatted, [i \in DOMAIN s |->
         [EmptyMark EXCEPT !.last = i = Len(s), !.key = s[i][1], !.val = s[i][2]]])]

Init ==
    /\ flash \in {[b \in Blocks |-> Erased]} \cup {Left(s) : s \in Starts}
    /\ plan = <<>>
    /\ pc = "off" /\ ret = "done" /\ call = NoCall /\ found = 0 /\ recycled = FALSE
    /\ answer = NoCall /\ before = Content
    /\ harm = "none" /\ trust = "whole" /\ calls = 0 /\ losses = 0

\* Carry out plan p, then go on at l.
Do(p, l) ==
    /\ plan' = p /\ ret' = l /\ pc' = IF p = <<>> THEN l ELSE "write"

Program ==
    /\ pc = "write"
    /\ flash' = [flash EXCEPT ![Head(plan).block] = Head(plan).to]
    /\ plan' = Tail(plan) /\ pc' = IF Len(plan) = 1 THEN ret ELSE pc
    /\ UNCHANGED <<ret, call, found, recycled, answer, aux, bounds>>

\* Recycle(), from one of its callers.  On a chain that runs into erased flash it
\* copies out of range and fails an ASSERT: the call goes no further.
RecycleThen(l) ==
    /\ ~Broken(Main)
    /\ Do(IF IsBlockEmpty(Main) THEN <<>> ELSE Recycle, l)
    /\ trust' = IF IsBlockEmpty(Main) \/ Main.slots[GetLastKey(Main)].avail THEN trust ELSE "gone"
    /\ UNCHANGED flash

----------------------------------------------------------------------------
(* Init().                                                                    *)

PowerOn ==
    /\ pc = "off"
    /\ IF ~IsBlockValid(Main)
       THEN IF ~IsBlockValid(Backup) \/ IsBlockEmpty(Backup) THEN Do(InitBlock("MAIN"), "check")
            ELSE IF Broken(Backup) THEN Do(InvalidateBlock("BACKUP") \o InitBlock("MAIN"), "check")
            ELSE Do(Erase("MAIN") \o CopyToMain(Backup) \o InvalidateBlock("BACKUP"), "check")
       ELSE Do(IF IsBlockValid(Backup) /\ ~IsBlockEmpty(Backup)
               THEN InvalidateBlock("BACKUP") ELSE <<>>, "check")
    /\ UNCHANGED <<flash, call, found, recycled, answer, aux, bounds>>

\* An entry the chain reaches was never finished.
Unfinished == ~IsBlockEmpty(Main) /\ \E i \in 0..GetLastKey(Main) : Main.slots[i].uninit

CheckChain ==
    /\ pc = "check"
    /\ IF Unfinished THEN Do(InitBlock("MAIN"), "ready") /\ UNCHANGED <<flash, trust>>
       ELSE IF ~IsBlockEmpty(Main) /\ Spent(Main, GetLastKey(Main)) > Threshold + 1
       THEN RecycleThen("ready")
       ELSE Do(<<>>, "ready") /\ UNCHANGED <<flash, trust>>
    /\ UNCHANGED <<call, found, recycled, answer, before, harm, bounds>>

Ready ==
    /\ pc = "ready" /\ pc' = "idle" /\ call' = NoCall /\ before' = Content /\ harm' = "none"
    /\ trust' = IF IsBlockEmpty(Main) THEN "whole"
                ELSE IF harm = "lost" /\ trust = "whole" THEN "torn" ELSE trust
    /\ UNCHANGED <<flash, plan, ret, found, recycled, answer, bounds>>

----------------------------------------------------------------------------
(* Get, Set, Add, Restore.                                                    *)

Begin(c) ==
    /\ pc = "idle" /\ calls < MaxCalls /\ calls' = calls + 1
    \* a key of another size is found, never created
    /\ c.op = "add" /\ c.val = OtherSize => Content[c.key] # Missing
    /\ c.op = "get" => c.val = OtherSize
    /\ pc' = "search" /\ call' = c /\ before' = Content
    /\ found' = 0 /\ recycled' = FALSE
    /\ UNCHANGED <<flash, plan, ret, answer, harm, trust, losses>>

SearchKey ==
    /\ pc = "search" /\ call.op # "restore"
    /\ IF Skipped(call.key) > Threshold
       THEN RecycleThen("search") /\ UNCHANGED found
       ELSE pc' = "found" /\ found' = Search(call.key) /\ UNCHANGED <<flash, plan, ret, trust>>
    /\ UNCHANGED <<call, recycled, answer, before, harm, bounds>>

Return(code, v) ==
    /\ pc' = "idle" /\ call' = NoCall
    /\ answer' = [op |-> call.op, code |-> code, val |-> v]
    /\ UNCHANGED <<flash, plan, ret, found, recycled, aux, bounds>>

Get ==
    /\ pc = "found" /\ call.op = "get"
    /\ IF found = 0 THEN Return("NOT_FOUND", Missing) ELSE Return("OK", Main.slots[found].val)

Writing == pc = "found" /\ call.op \in {"set", "add"}

NotThere == Writing /\ found = 0 /\ call.op = "set" /\ Return("FAILED", Missing)
WrongSize == Writing /\ found # 0 /\ call.val = OtherSize /\ Return("FAILED", Missing)
SameData == Writing /\ found # 0 /\ call.val = Main.slots[found].val /\ Return("OK", Missing)

\* The call has something to write.
Fresh ==
    /\ Writing /\ ~Broken(Main)
    /\ IF found = 0 THEN call.op = "add"
       ELSE call.val # OtherSize /\ call.val # Main.slots[found].val

HasRoom == IsBlockEmpty(Main) \/ GetLastKey(Main) < Cap

RecycledForgotten == FALSE  \* mutant: SetKey calls itself without recycle = false
Recycled == recycled

MakeRoom ==
    /\ Fresh /\ ~HasRoom /\ ~Recycled
    \* SetKey starts over; AddKeyBody does not search again
    /\ RecycleThen(IF found = 0 THEN "found" ELSE "search") /\ recycled' = TRUE
    /\ UNCHANGED <<call, found, answer, before, harm, bounds>>

Full == Fresh /\ ~HasRoom /\ Recycled /\ Return("FULL", Missing)

Store ==
    /\ Fresh /\ HasRoom
    /\ Do(IF found = 0 THEN AddKey(Main, call.key, call.val)
          ELSE SetKey(found, call.key, call.val), "done")
    /\ UNCHANGED <<flash, call, found, recycled, answer, aux, bounds>>

Restore ==
    /\ pc = "search" /\ call.op = "restore"
    /\ Do(InitBlock("MAIN") \o InitBlock("BACKUP"), "done")
    /\ UNCHANGED <<flash, call, found, recycled, answer, aux, bounds>>

Done ==
    /\ pc = "done" /\ pc' = "idle" /\ call' = NoCall
    /\ answer' = [op |-> call.op, code |-> "OK", val |-> Missing]
    /\ trust' = IF call.op = "restore" THEN "whole" ELSE trust
    /\ UNCHANGED <<flash, plan, ret, found, recycled, before, harm, bounds>>

----------------------------------------------------------------------------
Up == {pc, IF pc = "write" THEN ret ELSE pc} \cap {"idle", "search", "found", "done"} # {}

\* What a power loss now would do to the call: SetKey has marked the old entry;
\* the new one is linked and not initialised; or it has its name and no data.
Harm ==
    IF pc # "write" \/ ret # "done" \/ call.op = "restore" THEN "none"
    ELSE CASE Len(plan) = 1 -> "blank"
           [] Len(plan) = 3 -> "wiped"
           [] Len(plan) \in {2, 4, 5} /\ found # 0 -> "lost"
           [] OTHER -> "none"

PowerLoss ==
    /\ pc # "off" /\ losses < MaxLosses /\ losses' = losses + 1
    /\ pc' = "off" /\ plan' = <<>> /\ ret' = "done" /\ found' = 0 /\ recycled' = FALSE
    /\ harm' = IF Up THEN Harm ELSE harm
    /\ before' = IF pc = "idle" THEN Content ELSE before
    /\ UNCHANGED <<flash, call, answer, trust, calls>>

Step ==
    \/ Program \/ PowerOn \/ CheckChain \/ Ready \/ SearchKey
    \/ Get \/ NotThere \/ WrongSize \/ SameData \/ MakeRoom \/ Full \/ Store \/ Restore \/ Done

Next == (\E c \in Calls : Begin(c)) \/ Step \/ PowerLoss

Spec == Init /\ [][Next]_vars
FairSpec == Spec /\ WF_vars(Step)

----------------------------------------------------------------------------
(* Properties.                                                                *)

S == INSTANCE KeyValueStore WITH
        store <- IF pc = "idle" THEN Content ELSE before, up <- Up,
        Harms <- {"none", "lost", "blank", "wiped"}

\* A call takes effect whole, a power loss leaves old or new values, unless it
\* comes in one of the three places Harm names, where it does just that damage;
\* Recycle() and Init() lose nothing wherever the power fails.
ImplementsStore == S!Spec

\* A call returns, however often it has to recycle.
CallsReturn == (Up /\ call # NoCall) ~> (call = NoCall \/ trust = "gone")
=============================================================================
