--------------------------- MODULE DatabaseProofs ---------------------------
(* Proofs about DatabaseRawSequential: a power loss between any two flash      *)
(* operations leaves a store that a call has changed whole, or not at all.     *)
EXTENDS DatabaseRawSequential, SequenceTheorems, TLAPS

PlanStep == [block : Blocks, to : [sum : BOOLEAN, keys : Seq(Entries)]]
Images == {image \in Seq(Entries) : Len(image) <= Room}

----------------------------------------------------------------------------
(* What an image holds.                                                       *)

ContentOf(image) ==
    [k \in Keys |-> LET i == Lookup(image, k)
                    IN  IF i = 0 THEN Missing ELSE image[i].val]

At(image, k) == {i \in DOMAIN image : image[i].key = k}

LEMMA ContentIs == Content = ContentOf(flash["MAIN"].keys)
BY DEF Content, ContentOf

OneOf(places) == IF places = {} THEN 0 ELSE CHOOSE i \in places : TRUE
LEMMA LookupIs == ASSUME NEW image, NEW k PROVE Lookup(image, k) = OneOf(At(image, k))
BY Zenon DEF At, Lookup, OneOf

LEMMA LookupFinds ==
    ASSUME NEW image \in Seq(Entries), NEW k \in Keys
    PROVE  IF At(image, k) = {} THEN Lookup(image, k) = 0
           ELSE /\ Lookup(image, k) \in DOMAIN image /\ Lookup(image, k) # 0
                /\ image[Lookup(image, k)].key = k /\ image[Lookup(image, k)].val \in Values
<1>1. CASE At(image, k) = {}
  BY <1>1, LookupIs DEF OneOf
<1>2. CASE At(image, k) # {}
  <2>1. Lookup(image, k) = CHOOSE i \in At(image, k) : TRUE
    BY <1>2, LookupIs DEF OneOf
  <2>2. Lookup(image, k) \in At(image, k)
    BY <1>2, <2>1
  <2>3. Lookup(image, k) \in 1..Len(image) /\ image[Lookup(image, k)].key = k
    BY <2>2 DEF At
  <2>4. image[Lookup(image, k)] \in Entries
    BY <2>3
  <2>. QED BY <1>2, <2>3, <2>4 DEF Entries
<1>. QED BY <1>1, <1>2

LEMMA SameKeys ==
    ASSUME NEW image, NEW other, NEW k, At(image, k) = At(other, k)
    PROVE  Lookup(image, k) = Lookup(other, k)
BY LookupIs

LEMMA ContentEmpty == ContentOf(<<>>) = S!Empty
<1>1. ASSUME NEW k \in Keys PROVE Lookup(<<>>, k) = 0
  <2>1. At(<<>>, k) = {}
    BY DEF At
  <2>. QED BY <2>1 DEF At, Lookup
<1>. QED BY <1>1 DEF ContentOf, S!Empty

LEMMA ContentType ==
    ASSUME NEW image \in Seq(Entries) PROVE ContentOf(image) \in [Keys -> Values \cup {Missing}]
BY LookupFinds DEF ContentOf

\* Changed, of the call, in the two ways it has.
InPlace(image, k, v) == [image EXCEPT ![Lookup(image, k)].val = v]
Appended(image, k, v) == Append(image, [key |-> k, val |-> v])

\* SetKey changes the key's value in place, and no other key.
LEMMA ChangedInPlace ==
    ASSUME NEW image \in Seq(Entries), NEW k \in Keys, NEW v \in Values, Lookup(image, k) # 0
    PROVE  /\ InPlace(image, k, v) \in Seq(Entries) /\ Len(InPlace(image, k, v)) = Len(image)
           /\ ContentOf(InPlace(image, k, v)) = [ContentOf(image) EXCEPT ![k] = v]
<1> DEFINE i == Lookup(image, k)
           new == InPlace(image, k, v)
<1>1. i \in 1..Len(image) /\ image[i].key = k
  BY LookupFinds
<1>d. image[i] \in Entries
  BY <1>1
<1>e. [image[i] EXCEPT !.val = v] \in Entries
  BY <1>d DEF Entries
<1>2. new \in Seq(Entries) /\ Len(new) = Len(image)
  BY <1>1, <1>e DEF InPlace
<1>3. /\ DOMAIN new = DOMAIN image /\ new[i].val = v
      /\ \A j \in DOMAIN image : new[j].key = image[j].key /\ (j # i => new[j] = image[j])
  BY <1>1, <1>2 DEF Entries, InPlace
<1> HIDE DEF new
<1>4. \A l \in Keys : Lookup(new, l) = Lookup(image, l)
  <2> TAKE l \in Keys
  <2>1. At(new, l) = At(image, l)
    BY <1>3 DEF At
  <2>. QED BY <2>1, SameKeys
<1>5. ASSUME NEW l \in Keys
      PROVE  ContentOf(new)[l] = IF l = k THEN v ELSE ContentOf(image)[l]
  <2>1. CASE l = k
    BY <1>1, <1>3, <1>4, <2>1 DEF ContentOf
  <2>2. CASE l # k /\ Lookup(image, l) = 0
    BY <1>4, <2>2 DEF ContentOf
  <2>3. CASE l # k /\ Lookup(image, l) # 0
    <3>1. Lookup(image, l) \in DOMAIN image /\ image[Lookup(image, l)].key = l
      BY <2>3, LookupFinds
    <3>2. Lookup(image, l) # i
      BY <1>1, <2>3, <3>1
    <3>. QED BY <1>3, <1>4, <2>3, <3>1, <3>2 DEF ContentOf
  <2>. QED BY <2>1, <2>2, <2>3
<1>6. ContentOf(new) = [ContentOf(image) EXCEPT ![k] = v]
  BY <1>5 DEF ContentOf
<1>. QED BY <1>2, <1>6 DEF new

\* AddKey appends a key that is not there, and changes no other.
LEMMA ChangedByAppend ==
    ASSUME NEW image \in Seq(Entries), NEW k \in Keys, NEW v \in Values, Lookup(image, k) = 0
    PROVE  /\ Appended(image, k, v) \in Seq(Entries) /\ Len(Appended(image, k, v)) = Len(image) + 1
           /\ ContentOf(Appended(image, k, v)) = [ContentOf(image) EXCEPT ![k] = v]
<1> DEFINE e == [key |-> k, val |-> v]
           new == Appended(image, k, v)
           n == Len(image) + 1
<1>1. /\ new \in Seq(Entries) /\ Len(new) = n /\ new[n] = e
      /\ \A j \in 1..Len(image) : new[j] = image[j]
  BY DEF Entries, Appended
<1> HIDE DEF new
<1>2. At(image, k) = {}
  BY LookupFinds
<1>3. At(new, k) = {n}
  <2>1. \A j \in 1..n : j = n \/ j \in 1..Len(image)
    OBVIOUS
  <2>2. \A j \in 1..Len(image) : new[j].key # k
    BY <1>1, <1>2 DEF At
  <2>. QED BY <1>1, <2>1, <2>2 DEF At
<1>4. Lookup(new, k) = n /\ n # 0
  <2>1. Lookup(new, k) = CHOOSE i \in {n} : TRUE
    BY <1>3, LookupIs DEF OneOf
  <2>. QED BY <2>1
<1>5. ASSUME NEW l \in Keys, l # k PROVE ContentOf(new)[l] = ContentOf(image)[l]
  <2>1. At(new, l) = At(image, l)
    <3>1. \A j \in 1..n : j = n \/ j \in 1..Len(image)
      OBVIOUS
    <3>. QED BY <1>1, <1>5, <3>1 DEF At
  <2>2. Lookup(new, l) = Lookup(image, l)
    BY <2>1, SameKeys
  <2>3. Lookup(image, l) # 0 => Lookup(image, l) \in 1..Len(image)
    BY LookupFinds
  <2>. QED BY <1>1, <2>2, <2>3 DEF ContentOf
<1>6. ContentOf(new)[k] = v
  BY <1>1, <1>4 DEF ContentOf
<1>7. ContentOf(new) = [ContentOf(image) EXCEPT ![k] = v]
  BY <1>5, <1>6 DEF ContentOf
<1>. QED BY <1>1, <1>7 DEF new

----------------------------------------------------------------------------
(* The plans.                                                                 *)

LEMMA Joins ==
    ASSUME NEW a, NEW b, NEW c, NEW d
    PROVE  /\ <<>> \o <<>> = <<>> /\ <<a, b>> \o <<>> = <<a, b>> /\ <<>> \o <<c, d>> = <<c, d>>
           /\ <<a, b>> \o <<c, d>> = <<a, b, c, d>>
<1>1. <<>> \o <<>> = <<>> /\ <<a, b>> \o <<>> = <<a, b>> /\ <<>> \o <<c, d>> = <<c, d>>
  OBVIOUS
<1>2. <<a, b>> \o <<c, d>> = <<a, b, c, d>>
  <2> DEFINE All == {a, b, c, d}
  <2>1. <<a, b>> \in Seq(All) /\ <<c, d>> \in Seq(All) /\ <<a, b, c, d>> \in Seq(All)
    OBVIOUS
  <2>2. Len(<<a, b>> \o <<c, d>>) = 4 /\ <<a, b>> \o <<c, d>> \in Seq(All)
    BY <2>1
  <2>3. \A i \in 1..4 : (<<a, b>> \o <<c, d>>)[i] = <<a, b, c, d>>[i]
    <3>1. \A i \in 1..4 : i = 1 \/ i = 2 \/ i = 3 \/ i = 4
      OBVIOUS
    <3>. QED BY <3>1
  <2>. QED BY <2>1, <2>2, <2>3, SeqEqual
<1>. QED BY <1>1, <1>2

LEMMA PlanTypes ==
    ASSUME NEW x \in PlanStep, NEW y \in PlanStep, NEW z \in PlanStep, NEW w \in PlanStep
    PROVE  {<<>>, <<x>>, <<x, y>>, <<x, y, z>>, <<x, y, z, w>>} \subseteq Seq(PlanStep)
OBVIOUS

LEMMA StepTypes ==
    ASSUME NEW b \in Blocks, NEW image \in Seq(Entries)
    PROVE  Erase(b) \in PlanStep /\ Write(b, image) \in PlanStep
BY DEF Erase, Write, PlanStep, Block, Unfinished

\* Init() with a bad backup, and when only the main block is still to be written.
BootPlan ==
    LET B == flash["BACKUP"]
        M == flash["MAIN"]
    IN  \/ /\ ~B.sum /\ M.sum
           /\ plan \in {<<Erase("BACKUP"), Write("BACKUP", <<>>)>>, <<Write("BACKUP", <<>>)>>}
        \/ /\ ~B.sum /\ ~M.sum
           /\ plan \in {<<Erase("BACKUP"), Write("BACKUP", <<>>),
                          Erase("MAIN"), Write("MAIN", <<>>)>>,
                        <<Write("BACKUP", <<>>), Erase("MAIN"), Write("MAIN", <<>>)>>}
        \/ /\ B.sum /\ ~M.sum
           /\ plan \in {<<Erase("MAIN"), Write("MAIN", B.keys)>>, <<Write("MAIN", B.keys)>>}

\* What Init() will load.
Recovered ==
    IF flash["MAIN"].sum THEN flash["MAIN"].keys
    ELSE IF flash["BACKUP"].sum THEN flash["BACKUP"].keys ELSE <<>>

\* What the store holds after the call.
AfterCall ==
    CASE call.op \in {"set", "add"} -> [before EXCEPT ![call.key] = call.val]
      [] call.op = "restore" -> S!Empty
      [] OTHER -> before

\* Save() and Restore() always leave one good copy, of the old image or the new.
OldImage == flash["MAIN"].sum /\ Content = before
SavePlan ==
    /\ call.op \in {"set", "add"} /\ call.val # OtherSize /\ ContentOf(buffer) = AfterCall
    /\ call.op = "set" => before[call.key] # Missing
    /\ LET B == Write("BACKUP", buffer)
           M == Write("MAIN", buffer)
       IN  \/ OldImage /\ plan \in {<<Erase("BACKUP"), B, Erase("MAIN"), M>>,
                                    <<B, Erase("MAIN"), M>>}
           \/ /\ flash["BACKUP"] = Block(buffer)
              /\ \/ OldImage /\ plan = <<Erase("MAIN"), M>>
                 \/ ~flash["MAIN"].sum /\ plan = <<M>>
RestorePlan ==
    /\ call.op = "restore" /\ buffer = <<>>
    /\ \/ OldImage /\ plan = <<Write("MAIN", <<>>), Write("BACKUP", <<>>)>>
       \/ flash["MAIN"] = Block(<<>>) /\ plan = <<Write("BACKUP", <<>>)>>

Small == \A b \in Blocks : Len(flash[b].keys) <= Room
Down == pc \in {"off", "boot", "load"} => ContentOf(Recovered) \in {before, AfterCall}
Booted == /\ pc = "boot" => BootPlan
          /\ pc = "load" => flash["MAIN"].sum
Calling == pc = "call" => OldImage
Saving == pc = "save" => SavePlan \/ RestorePlan
Serving == (pc \in {"call", "save"} => call \in Calls) /\ (pc = "idle" => call = NoCall)

IInv == TypeOK /\ Small /\ Down /\ Booted /\ Calling /\ Saving /\ Serving /\ ImageInRam

----------------------------------------------------------------------------
(* The invariant, action by action.                                           *)

LEMMA InitInv == Init => IInv
<1> SUFFICES ASSUME Init PROVE IInv
  OBVIOUS
<1> USE DEF Init
<1>1. TypeOK
  <2>1. flash \in [Blocks -> [sum : BOOLEAN, keys : Seq(Entries)]]
    BY DEF Unfinished
  <2>2. Room \in Nat /\ 0 \in 0..MaxCalls /\ 0 \in 0..MaxLosses
    BY SequentialAssumption
  <2>. QED BY <2>1, <2>2 DEF TypeOK
<1>2. Small
  BY SequentialAssumption DEF Small, Unfinished
<1>3. Down
  <2>1. Recovered = <<>>
    BY DEF Recovered, Unfinished, Blocks
  <2>2. S!Empty = before
    BY DEF S!Empty
  <2>. QED BY <2>1, <2>2, ContentEmpty DEF Down
<1>. QED BY <1>1, <1>2, <1>3 DEF IInv, Booted, Calling, Saving, Serving, ImageInRam

LEMMA BlockTypes ==
    ASSUME TypeOK
    PROVE  /\ flash["MAIN"] \in [sum : BOOLEAN, keys : Seq(Entries)]
           /\ flash["BACKUP"] \in [sum : BOOLEAN, keys : Seq(Entries)]
BY DEF TypeOK, Blocks

LEMMA BootsAre ==
    ASSUME TypeOK, flash' = flash, plan' = Boots
    PROVE  /\ plan' \in Seq(PlanStep)
           /\ IF plan' = <<>> THEN flash["MAIN"].sum ELSE BootPlan'
<1>1. /\ flash["MAIN"].sum \in BOOLEAN /\ flash["BACKUP"].sum \in BOOLEAN
      /\ flash["BACKUP"].keys \in Seq(Entries) /\ <<>> \in Seq(Entries)
  BY BlockTypes
<1> DEFINE EB == Erase("BACKUP")
           WB == Write("BACKUP", <<>>)
           EM == Erase("MAIN")
           WM(k) == Write("MAIN", k)
<1>2. EB \in PlanStep /\ WB \in PlanStep /\ EM \in PlanStep
  BY <1>1, StepTypes DEF Blocks
<1>3. \A k \in Seq(Entries) : WM(k) \in PlanStep
  BY StepTypes DEF Blocks
<1> HIDE DEF EB, WB, EM, WM
<1>4. Boots = (IF flash["BACKUP"].sum THEN <<>> ELSE <<EB, WB>>)
                \o (IF flash["MAIN"].sum THEN <<>>
                    ELSE <<EM, WM(IF flash["BACKUP"].sum THEN flash["BACKUP"].keys ELSE <<>>)>>)
  BY DEF Boots, EB, WB, EM, WM
<1>5. CASE flash["BACKUP"].sum /\ flash["MAIN"].sum
  <2>1. plan' = <<>>
    BY <1>4, <1>5, Joins
  <2>. QED BY <1>5, <2>1
<1>6. CASE ~flash["BACKUP"].sum /\ flash["MAIN"].sum
  <2>1. plan' = <<EB, WB>>
    BY <1>4, <1>6, Joins
  <2>2. plan' \in Seq(PlanStep) /\ plan' # <<>>
    BY <1>2, <2>1
  <2>. QED BY <1>6, <2>1, <2>2 DEF BootPlan, EB, WB
<1>7. CASE ~flash["BACKUP"].sum /\ ~flash["MAIN"].sum
  <2>1. plan' = <<EB, WB, EM, WM(<<>>)>>
    BY <1>4, <1>7, Joins
  <2>2. plan' \in Seq(PlanStep) /\ plan' # <<>>
    <3>1. WM(<<>>) \in PlanStep
      BY <1>1, <1>3
    <3>. QED BY <1>2, <2>1, <3>1, PlanTypes
  <2>. QED BY <1>7, <2>1, <2>2 DEF BootPlan, EB, WB, EM, WM
<1>8. CASE flash["BACKUP"].sum /\ ~flash["MAIN"].sum
  <2>1. plan' = <<EM, WM(flash["BACKUP"].keys)>>
    BY <1>4, <1>8, Joins
  <2>2. plan' \in Seq(PlanStep) /\ plan' # <<>>
    BY <1>1, <1>2, <1>3, <2>1
  <2>. QED BY <1>8, <2>1, <2>2 DEF BootPlan, EM, WM
<1>. QED BY <1>1, <1>5, <1>6, <1>7, <1>8

\* What a flash operation leaves.
LEMMA Operated ==
    ASSUME TypeOK, Small, NEW b \in Blocks, NEW to \in [sum : BOOLEAN, keys : Images],
           flash' = [flash EXCEPT ![b] = to]
    PROVE  /\ flash' \in [Blocks -> [sum : BOOLEAN, keys : Seq(Entries)]] /\ Small'
           /\ flash'[b] = to /\ \A c \in Blocks : c # b => flash'[c] = flash[c]
BY DEF TypeOK, Small, Images

LEMMA StepsAre ==
    ASSUME NEW b \in Blocks, NEW image \in Images
    PROVE  /\ Erase(b) = [block |-> b, to |-> Unfinished]
           /\ Write(b, image) = [block |-> b, to |-> Block(image)]
           /\ Unfinished \in [sum : BOOLEAN, keys : Images] /\ ~Unfinished.sum
           /\ Block(image) \in [sum : BOOLEAN, keys : Images]
           /\ Block(image).sum /\ Block(image).keys = image
           /\ <<>> \in Images
BY SequentialAssumption DEF Erase, Write, Unfinished, Block, Images

\* A step of Init() changes nothing of what it will load, and comes nearer.
LEMMA BootMoves ==
    ASSUME TypeOK, Small, BootPlan, pc = "boot", Operate("load")
    PROVE  /\ flash' \in [Blocks -> [sum : BOOLEAN, keys : Seq(Entries)]] /\ Small'
           /\ Recovered' = Recovered
           /\ \/ pc' = "boot" /\ BootPlan'
              \/ pc' = "load" /\ flash'["MAIN"].sum
<1> DEFINE B == flash["BACKUP"]
           M == flash["MAIN"]
           EB == Erase("BACKUP")
           WB == Write("BACKUP", <<>>)
           EM == Erase("MAIN")
           WM(k) == Write("MAIN", k)
<1>1. B.keys \in Images /\ <<>> \in Images /\ "MAIN" \in Blocks /\ "BACKUP" \in Blocks
  BY BlockTypes, SequentialAssumption DEF Small, Blocks, Images
<1>2. /\ EB.block = "BACKUP" /\ EB.to = Unfinished /\ WB.block = "BACKUP" /\ WB.to = Block(<<>>)
      /\ EM.block = "MAIN" /\ EM.to = Unfinished
      /\ \A k \in Images : WM(k).block = "MAIN" /\ WM(k).to = Block(k)
  BY DEF Erase, Write
<1>3. /\ Unfinished \in [sum : BOOLEAN, keys : Images] /\ ~Unfinished.sum
      /\ \A k \in Images : /\ Block(k) \in [sum : BOOLEAN, keys : Images]
                           /\ Block(k).sum /\ Block(k).keys = k
  BY <1>1, StepsAre
<1>4. /\ flash' = [flash EXCEPT ![Head(plan).block] = Head(plan).to] /\ plan' = Tail(plan)
      /\ pc' = IF Len(plan) = 1 THEN "load" ELSE pc
  BY DEF Operate
<1> HIDE DEF EB, WB, EM, WM
<1>5. CASE ~B.sum /\ M.sum /\ plan = <<EB, WB>>
  <2>0. Head(plan) = EB /\ Len(plan) # 1
    BY <1>5
  <2>t. Tail(plan) = <<WB>>
    BY <1>5
  <2>1. flash' = [flash EXCEPT !["BACKUP"] = Unfinished] /\ pc' = "boot"
    BY <1>2, <1>4, <2>0
  <2>2. plan' = <<WB>>
    BY <1>4, <2>t, Zenon
  <2>. QED BY <1>1, <1>3, <1>5, <2>1, <2>2, Operated DEF BootPlan, Recovered, WB
<1>6. CASE ~B.sum /\ M.sum /\ plan = <<WB>>
  <2>0. Head(plan) = WB /\ Len(plan) = 1
    BY <1>6
  <2>t. Tail(plan) = <<>>
    BY <1>6
  <2>1. flash' = [flash EXCEPT !["BACKUP"] = Block(<<>>)] /\ pc' = "load"
    BY <1>2, <1>4, <2>0
  <2>. QED BY <1>1, <1>3, <1>6, <2>1, Operated DEF Recovered
<1>7. CASE ~B.sum /\ ~M.sum /\ plan = <<EB, WB, EM, WM(<<>>)>>
  <2>0. Head(plan) = EB /\ Len(plan) # 1
    BY <1>7
  <2>t. Tail(plan) = <<WB, EM, WM(<<>>)>>
    BY <1>7
  <2>1. flash' = [flash EXCEPT !["BACKUP"] = Unfinished] /\ pc' = "boot"
    BY <1>2, <1>4, <2>0
  <2>2. plan' = <<WB, EM, WM(<<>>)>>
    BY <1>4, <2>t, Zenon
  <2>. QED BY <1>1, <1>3, <1>7, <2>1, <2>2, Operated DEF BootPlan, Recovered, WB, EM, WM
<1>8. CASE ~B.sum /\ ~M.sum /\ plan = <<WB, EM, WM(<<>>)>>
  <2>0. Head(plan) = WB /\ Len(plan) # 1
    BY <1>8
  <2>t. Tail(plan) = <<EM, WM(<<>>)>>
    BY <1>8
  <2>1. flash' = [flash EXCEPT !["BACKUP"] = Block(<<>>)] /\ pc' = "boot"
    BY <1>2, <1>4, <2>0
  <2>2. plan' = <<EM, WM(<<>>)>>
    BY <1>4, <2>t, Zenon
  <2>. QED BY <1>1, <1>3, <1>8, <2>1, <2>2, Operated DEF BootPlan, Recovered, EM, WM
<1>9. CASE B.sum /\ ~M.sum /\ plan = <<EM, WM(B.keys)>>
  <2>0. Head(plan) = EM /\ Len(plan) # 1
    BY <1>9
  <2>t. Tail(plan) = <<WM(B.keys)>>
    BY <1>9
  <2>1. flash' = [flash EXCEPT !["MAIN"] = Unfinished] /\ pc' = "boot"
    BY <1>2, <1>4, <2>0
  <2>2. plan' = <<WM(B.keys)>>
    BY <1>4, <2>t, Zenon
  <2>. QED BY <1>1, <1>3, <1>9, <2>1, <2>2, Operated DEF BootPlan, Recovered, WM
<1>10. CASE B.sum /\ ~M.sum /\ plan = <<WM(B.keys)>>
  <2>0. Head(plan) = WM(B.keys) /\ Len(plan) = 1
    BY <1>10
  <2>t. Tail(plan) = <<>>
    BY <1>10
  <2>1. flash' = [flash EXCEPT !["MAIN"] = Block(B.keys)] /\ pc' = "load"
    BY <1>1, <1>2, <1>4, <2>0
  <2>. QED BY <1>1, <1>3, <1>10, <2>1, Operated DEF Recovered
<1>. QED BY <1>5, <1>6, <1>7, <1>8, <1>9, <1>10 DEF BootPlan, EB, WB, EM, WM

\* An operation of Save() or Restore() leaves a good copy, and the last one the new.
LEMMA SaveMoves ==
    ASSUME TypeOK, Small, SavePlan, buffer' = buffer,
           Len(plan) = 1 \/ UNCHANGED <<call, before>>,
           plan # <<>>, flash' = [flash EXCEPT ![Head(plan).block] = Head(plan).to],
           plan' = Tail(plan)
    PROVE  /\ flash' \in [Blocks -> [sum : BOOLEAN, keys : Seq(Entries)]] /\ Small'
           /\ IF Len(plan) = 1 THEN flash'["MAIN"] = Block(buffer) /\ plan' = <<>> ELSE SavePlan'
<1> DEFINE EB == Erase("BACKUP")
           WB == Write("BACKUP", buffer)
           EM == Erase("MAIN")
           WM == Write("MAIN", buffer)
<1>1. buffer \in Images /\ "MAIN" \in Blocks /\ "BACKUP" \in Blocks
  BY DEF TypeOK, Blocks, Images
<1>2. /\ EB.block = "BACKUP" /\ EB.to = Unfinished /\ WB.block = "BACKUP" /\ WB.to = Block(buffer)
      /\ EM.block = "MAIN" /\ EM.to = Unfinished /\ WM.block = "MAIN" /\ WM.to = Block(buffer)
  BY DEF Erase, Write
<1>3. /\ Unfinished \in [sum : BOOLEAN, keys : Images] /\ ~Unfinished.sum
      /\ Block(buffer) \in [sum : BOOLEAN, keys : Images]
  BY <1>1, StepsAre
<1>4. \/ OldImage /\ plan \in {<<EB, WB, EM, WM>>, <<WB, EM, WM>>}
      \/ /\ flash["BACKUP"] = Block(buffer)
         /\ \/ OldImage /\ plan = <<EM, WM>>
            \/ ~flash["MAIN"].sum /\ plan = <<WM>>
  BY DEF SavePlan
<1>5. Len(plan) # 1 =>
        /\ AfterCall' = AfterCall /\ call' = call /\ before' = before
        /\ ContentOf(buffer)' = ContentOf(buffer)
  BY DEF AfterCall, ContentOf
<1>6. Len(plan) # 1 =>
        /\ call'.op \in {"set", "add"} /\ call'.val # OtherSize /\ ContentOf(buffer)' = AfterCall'
        /\ (call'.op = "set" => before'[call'.key] # Missing)
  BY <1>5 DEF SavePlan
<1>7. Len(plan) # 1 /\ flash'["MAIN"] = flash["MAIN"] /\ OldImage => OldImage'
  BY <1>5 DEF OldImage, Content
<1>8. /\ EB' = EB /\ WB' = WB /\ EM' = EM /\ WM' = WM
  OBVIOUS
<1>9. Len(plan) # 1 =>
        (SavePlan' <=> \/ OldImage' /\ plan' \in {<<EB, WB, EM, WM>>, <<WB, EM, WM>>}
                       \/ /\ flash'["BACKUP"] = Block(buffer)
                          /\ \/ OldImage' /\ plan' = <<EM, WM>>
                             \/ ~flash'["MAIN"].sum /\ plan' = <<WM>>)
  BY <1>6 DEF SavePlan
<1> HIDE DEF EB, WB, EM, WM
<1>10. CASE OldImage /\ plan = <<EB, WB, EM, WM>>
  <2>0. Head(plan) = EB /\ Len(plan) # 1
    BY <1>10
  <2>t. Tail(plan) = <<WB, EM, WM>>
    BY <1>10
  <2>1. flash' = [flash EXCEPT !["BACKUP"] = Unfinished] /\ Len(plan) # 1
    BY <1>2, <2>0
  <2>2. plan' = <<WB, EM, WM>>
    BY <1>4, <2>t, Zenon
  <2>. QED BY <1>1, <1>3, <1>7, <1>9, <1>10, <2>1, <2>2, Operated
<1>11. CASE OldImage /\ plan = <<WB, EM, WM>>
  <2>0. Head(plan) = WB /\ Len(plan) # 1
    BY <1>11
  <2>t. Tail(plan) = <<EM, WM>>
    BY <1>11
  <2>1. flash' = [flash EXCEPT !["BACKUP"] = Block(buffer)] /\ Len(plan) # 1
    BY <1>2, <2>0
  <2>2. plan' = <<EM, WM>>
    BY <1>4, <2>t, Zenon
  <2>. QED BY <1>1, <1>3, <1>7, <1>9, <1>11, <2>1, <2>2, Operated
<1>12. CASE flash["BACKUP"] = Block(buffer) /\ OldImage /\ plan = <<EM, WM>>
  <2>0. Head(plan) = EM /\ Len(plan) # 1
    BY <1>12
  <2>t. Tail(plan) = <<WM>>
    BY <1>12
  <2>1. flash' = [flash EXCEPT !["MAIN"] = Unfinished] /\ Len(plan) # 1
    BY <1>2, <2>0
  <2>2. plan' = <<WM>>
    BY <1>4, <2>t, Zenon
  <2>. QED BY <1>1, <1>3, <1>9, <1>12, <2>1, <2>2, Operated
<1>13. CASE flash["BACKUP"] = Block(buffer) /\ plan = <<WM>>
  <2>0. Head(plan) = WM /\ Len(plan) = 1
    BY <1>13
  <2>t. Tail(plan) = <<>>
    BY <1>13
  <2>1. flash' = [flash EXCEPT !["MAIN"] = Block(buffer)] /\ Len(plan) = 1
    BY <1>2, <2>0
  <2>2. plan' = <<>>
    BY <1>4, <2>t, Zenon
  <2>. QED BY <1>1, <1>3, <1>13, <2>1, <2>2, Operated
<1>. QED BY <1>4, <1>10, <1>11, <1>12, <1>13

LEMMA RestoreMoves ==
    ASSUME TypeOK, Small, RestorePlan, buffer' = buffer,
           Len(plan) = 1 \/ UNCHANGED <<call, before>>,
           plan # <<>>, flash' = [flash EXCEPT ![Head(plan).block] = Head(plan).to],
           plan' = Tail(plan)
    PROVE  /\ flash' \in [Blocks -> [sum : BOOLEAN, keys : Seq(Entries)]] /\ Small'
           /\ IF Len(plan) = 1 THEN flash'["MAIN"] = Block(buffer) /\ plan' = <<>> ELSE RestorePlan'
<1> DEFINE WB == Write("BACKUP", <<>>)
           WM == Write("MAIN", <<>>)
<1>1. <<>> \in Images /\ "MAIN" \in Blocks /\ "BACKUP" \in Blocks
  BY SequentialAssumption DEF Blocks, Images
<1>2. WB.block = "BACKUP" /\ WB.to = Block(<<>>) /\ WM.block = "MAIN" /\ WM.to = Block(<<>>)
  BY DEF Write
<1>3. Block(<<>>) \in [sum : BOOLEAN, keys : Images]
  BY <1>1, StepsAre
<1> HIDE DEF WB, WM
<1>4. CASE plan = <<WM, WB>>
  <2>0. Head(plan) = WM /\ Len(plan) # 1
    BY <1>4
  <2>t. Tail(plan) = <<WB>>
    BY <1>4
  <2>1. flash' = [flash EXCEPT !["MAIN"] = Block(<<>>)] /\ Len(plan) # 1
    BY <1>2, <2>0
  <2>2. plan' = <<WB>>
    BY <1>4, <2>t, Zenon
  <2>. QED BY <1>1, <1>3, <2>1, <2>2, Operated DEF RestorePlan, WB
<1>5. CASE flash["MAIN"] = Block(<<>>) /\ plan = <<WB>>
  <2>0. Head(plan) = WB /\ Len(plan) = 1
    BY <1>5
  <2>t. Tail(plan) = <<>>
    BY <1>5
  <2>1. flash' = [flash EXCEPT !["BACKUP"] = Block(<<>>)] /\ Len(plan) = 1
    BY <1>2, <2>0
  <2>2. plan' = <<>>
    BY <1>4, <2>t, Zenon
  <2>. QED BY <1>1, <1>3, <1>5, <2>1, <2>2, Operated DEF RestorePlan
<1>. QED BY <1>4, <1>5 DEF RestorePlan, WB, WM

LEMMA MainIsRam ==
    ASSUME TypeOK, ImageInRam, pc \in {"idle", "call"}
    PROVE  flash["MAIN"].sum /\ flash["MAIN"].keys = buffer /\ Content = ContentOf(buffer)
BY ContentIs DEF ImageInRam, Block

LEMMA PowerOnInv == ASSUME IInv, PowerOn PROVE IInv'
<1> USE DEF IInv, PowerOn
<1>1. /\ plan' \in Seq(PlanStep)
      /\ IF plan' = <<>> THEN flash["MAIN"].sum ELSE BootPlan'
  BY BootsAre
<1>2. pc' \in {"boot", "load"} /\ TypeOK'
  BY <1>1 DEF TypeOK, PlanStep
<1>3. Recovered' = Recovered /\ AfterCall' = AfterCall
  BY DEF Recovered, AfterCall
<1>4. Down' /\ Small'
  BY <1>3 DEF Down, Small, ContentOf
<1>5. Booted'
  BY <1>1 DEF Booted
<1>. QED BY <1>2, <1>4, <1>5 DEF Calling, Saving, Serving, ImageInRam

LEMMA BootStepInv == ASSUME IInv, BootStep PROVE IInv'
<1> USE DEF IInv, BootStep
<1>1. /\ flash' \in [Blocks -> [sum : BOOLEAN, keys : Seq(Entries)]] /\ Small'
      /\ Recovered' = Recovered
      /\ \/ pc' = "boot" /\ BootPlan'
         \/ pc' = "load" /\ flash'["MAIN"].sum
  BY BootMoves DEF Booted
<1>2. plan' \in Seq([block : Blocks, to : [sum : BOOLEAN, keys : Seq(Entries)]])
  BY DEF Operate, TypeOK
<1>3. TypeOK'
  BY <1>1, <1>2 DEF TypeOK
<1>4. Down'
  BY <1>1 DEF Down, AfterCall, ContentOf
<1>. QED BY <1>1, <1>3, <1>4 DEF Booted, Calling, Saving, Serving, ImageInRam

LEMMA LoadInv == ASSUME IInv, Load PROVE IInv'
<1> USE DEF IInv, Load
<1>1. flash["MAIN"] \in [sum : BOOLEAN, keys : Seq(Entries)] /\ flash["MAIN"].sum
  BY BlockTypes DEF Booted
<1>2. Len(flash["MAIN"].keys) <= Room
  BY DEF Small, Blocks
<1>3. Content \in [Keys -> Values \cup {Missing}]
  BY <1>1, ContentIs, ContentType
<1>4. TypeOK'
  BY <1>1, <1>2, <1>3 DEF TypeOK, Loaded
<1>5. ImageInRam'
  BY <1>1 DEF ImageInRam, Block, Loaded
<1>. QED BY <1>4, <1>5 DEF Small, Down, Booted, Calling, Saving, Serving

LEMMA BeginInv == ASSUME IInv, NEW c \in Calls, Begin(c) PROVE IInv'
<1> USE DEF IInv, Begin
<1>1. flash["MAIN"].sum /\ flash["MAIN"].keys = buffer
  BY MainIsRam
<1>2. Content \in [Keys -> Values \cup {Missing}] /\ Content' = Content
  BY <1>1, ContentIs, ContentType DEF TypeOK, Content
<1>3. calls' \in 0..MaxCalls
  BY SequentialAssumption DEF TypeOK
<1>4. TypeOK'
  BY <1>2, <1>3 DEF TypeOK
<1>5. Calling'
  BY <1>1, <1>2 DEF Calling, OldImage
<1>. QED BY <1>4, <1>5 DEF Small, Down, Booted, Saving, Serving, ImageInRam

LEMMA FoundHas ==
    ASSUME TypeOK, ImageInRam, pc = "call", call.key \in Keys
    PROVE  /\ Found = Lookup(buffer, call.key)
           /\ IF Found = 0 THEN Content[call.key] = Missing
              ELSE /\ Content[call.key] = flash["MAIN"].keys[Found].val
                   /\ Content[call.key] \in Values
<1>1. flash["MAIN"].keys = buffer /\ Content = ContentOf(buffer)
  BY MainIsRam
<1>2. Found = Lookup(buffer, call.key)
  BY <1>1 DEF Found
<1>3. buffer \in Seq(Entries)
  BY DEF TypeOK
<1>4. Found # 0 => buffer[Found].val \in Values
  BY <1>2, <1>3, LookupFinds
<1>5. Content[call.key] = IF Found = 0 THEN Missing ELSE buffer[Found].val
  BY <1>1, <1>2 DEF ContentOf
<1>. QED BY <1>1, <1>2, <1>4, <1>5

\* A request names a key.
LEMMA RequestKey ==
    ASSUME call \in Calls, call.op \in {"get", "set", "add"}
    PROVE  call.key \in Keys /\ call.val \in Values \cup {OtherSize}
BY DEF Calls, Requests, Request

LEMMA ReturnInv ==
    ASSUME IInv, pc = "call", NEW code \in {"OK", "NOT_FOUND", "FAILED", "FULL"},
           NEW v \in Values \cup {Missing}, Return(code, v), call.op \in {"get", "set", "add"},
           UNCHANGED <<flash, buffer, plan, before, calls, losses>>
    PROVE  IInv'
<1> USE DEF IInv, Return
<1>1. answer' \in Answers
  BY DEF Answers
<1>2. TypeOK'
  BY <1>1 DEF TypeOK
<1>. QED BY <1>2 DEF Small, Down, Booted, Calling, Saving, Serving, ImageInRam

LEMMA GetInv == ASSUME IInv, Get PROVE IInv'
<1>1. call.key \in Keys /\ call.op = "get" /\ pc = "call"
  BY RequestKey DEF IInv, Get, Serving
<1>2. Found # 0 => flash["MAIN"].keys[Found].val \in Values
  BY <1>1, FoundHas DEF IInv
<1>. QED BY <1>1, <1>2, ReturnInv DEF Get

LEMMA RefuseInv == ASSUME IInv, Refuse PROVE IInv'
BY ReturnInv DEF Refuse

LEMMA ChangeInv == ASSUME IInv, Change PROVE IInv'
<1> USE DEF IInv, Change
<1>1. /\ call.key \in Keys /\ call.val \in Values /\ pc = "call" /\ pc' = "save"
      /\ UNCHANGED <<flash, call, answer, before, calls, losses>>
  BY RequestKey DEF Serving
<1>2. /\ flash["MAIN"].sum /\ flash["MAIN"].keys = buffer /\ Content = ContentOf(buffer)
      /\ buffer \in Seq(Entries) /\ Len(buffer) <= Room /\ Len(buffer) \in Nat
  BY <1>1, MainIsRam DEF TypeOK
<1>3. Found = Lookup(buffer, call.key)
  BY <1>1, FoundHas
<1>4. OldImage
  BY <1>1 DEF Calling
<1>5. /\ buffer' \in Images
      /\ ContentOf(buffer') = [before EXCEPT ![call.key] = call.val]
  <2>1. CASE Found = 0
    <3>1. buffer' = Appended(buffer, call.key, call.val) /\ Len(buffer) < Room
      BY <1>2, <2>1 DEF Changed, HasRoom, Appended
    <3>2. Len(buffer) + 1 <= Room
      BY <1>2, <3>1, SequentialAssumption
    <3>n. Lookup(buffer, call.key) = 0
      BY <1>3, <2>1
    <3>a. /\ Appended(buffer, call.key, call.val) \in Seq(Entries)
          /\ Len(Appended(buffer, call.key, call.val)) = Len(buffer) + 1
          /\ ContentOf(Appended(buffer, call.key, call.val))
                = [ContentOf(buffer) EXCEPT ![call.key] = call.val]
      BY <1>1, <1>2, <3>n, ChangedByAppend
    <3>3. /\ buffer' \in Seq(Entries) /\ Len(buffer') = Len(buffer) + 1
          /\ ContentOf(buffer') = [ContentOf(buffer) EXCEPT ![call.key] = call.val]
      BY <3>1, <3>a
    <3>. QED BY <1>2, <1>4, <3>2, <3>3 DEF Images, OldImage
  <2>2. CASE Found # 0
    <3>1. buffer' = InPlace(buffer, call.key, call.val)
      BY <1>3, <2>2 DEF Changed, InPlace
    <3>2. /\ buffer' \in Seq(Entries) /\ Len(buffer') = Len(buffer)
          /\ ContentOf(buffer') = [ContentOf(buffer) EXCEPT ![call.key] = call.val]
      BY <1>1, <1>2, <1>3, <2>2, <3>1, ChangedInPlace
    <3>. QED BY <1>2, <1>4, <3>2 DEF Images, OldImage
  <2>. QED BY <2>1, <2>2
<1>6. call.op = "set" => before[call.key] # Missing
  <2>1. ASSUME call.op = "set" PROVE Content[call.key] \in Values
    BY <1>1, <2>1, FoundHas
  <2>. QED BY <1>4, <2>1, SequentialAssumption DEF OldImage
<1>7. SavePlan'
  <2>1. AfterCall' = [before EXCEPT ![call.key] = call.val]
    BY <1>1 DEF AfterCall
  <2>2. ContentOf(buffer)' = AfterCall'
    BY <1>5, <2>1 DEF ContentOf
  <2>3. OldImage'
    BY <1>1, <1>4 DEF OldImage, Content
  <2>4. plan' = <<Erase("BACKUP"), Write("BACKUP", buffer'), Erase("MAIN"), Write("MAIN", buffer')>>
    BY DEF Save
  <2>5. call'.op \in {"set", "add"} /\ call'.val # OtherSize
        /\ (call'.op = "set" => before'[call'.key] # Missing)
    BY <1>1, <1>6
  <2>. QED BY <2>2, <2>3, <2>4, <2>5 DEF SavePlan
<1>8. TypeOK'
  <2>1. /\ Erase("BACKUP") \in PlanStep /\ Write("BACKUP", buffer') \in PlanStep
        /\ Erase("MAIN") \in PlanStep /\ Write("MAIN", buffer') \in PlanStep
    BY <1>5, StepTypes DEF Images, Blocks
  <2>2. plan' \in Seq(PlanStep)
    BY <2>1, PlanTypes DEF Save
  <2>. QED BY <1>1, <1>5, <2>2 DEF TypeOK, PlanStep, Images
<1>. QED BY <1>1, <1>7, <1>8 DEF Small, Down, Booted, Calling, Saving, Serving, ImageInRam

LEMMA RestoreInv == ASSUME IInv, Restore PROVE IInv'
<1> USE DEF IInv, Restore
<1>1. /\ plan' = <<Write("MAIN", <<>>), Write("BACKUP", <<>>)>> /\ buffer' = <<>>
      /\ pc = "call" /\ pc' = "save" /\ UNCHANGED <<flash, call, answer, before, calls, losses>>
  OBVIOUS
<1>2. RestorePlan'
  BY <1>1 DEF RestorePlan, Calling, OldImage, Content
<1>3. TypeOK'
  <2>1. Write("MAIN", <<>>) \in PlanStep /\ Write("BACKUP", <<>>) \in PlanStep
    <3>1. <<>> \in Seq(Entries)
      OBVIOUS
    <3>. QED BY <3>1, StepTypes DEF Blocks
  <2>2. plan' \in Seq(PlanStep)
    BY <1>1, <2>1, PlanTypes
  <2>3. <<>> \in Seq(Entries) /\ Len(<<>>) <= Room
    BY SequentialAssumption
  <2>. QED BY <1>1, <2>2, <2>3 DEF TypeOK, PlanStep
<1>. QED BY <1>1, <1>2, <1>3 DEF Small, Down, Booted, Calling, Saving, Serving, ImageInRam

LEMMA SaveStepInv == ASSUME IInv, SaveStep PROVE IInv'
<1> USE DEF IInv, SaveStep
<1>0. Len(plan) # 1
  <2>1. Len(plan) \in Nat
    BY DEF TypeOK
  <2>2. Len(plan) > 1
    BY DEF SaveStep
  <2>3. \A n \in Nat : n > 1 => n # 1
    OBVIOUS
  <2>. QED BY <2>1, <2>2, <2>3
<1>1. /\ flash' = [flash EXCEPT ![Head(plan).block] = Head(plan).to] /\ plan' = Tail(plan)
      /\ pc' = "save" /\ plan # <<>>
      /\ UNCHANGED <<buffer, call, answer, before, calls, losses>>
  BY <1>0 DEF Operate
<1>2. /\ flash' \in [Blocks -> [sum : BOOLEAN, keys : Seq(Entries)]] /\ Small'
      /\ (SavePlan \/ RestorePlan)'
  BY <1>0, <1>1, SaveMoves, RestoreMoves DEF Saving
<1>3. plan' \in Seq([block : Blocks, to : [sum : BOOLEAN, keys : Seq(Entries)]])
  BY <1>1 DEF TypeOK
<1>4. TypeOK'
  BY <1>1, <1>2, <1>3 DEF TypeOK
<1>. QED BY <1>1, <1>2, <1>4 DEF Down, Booted, Calling, Saving, Serving, ImageInRam

\* The last operation of a procedure leaves the new image in the main block.
LEMMA SaveEnds ==
    ASSUME IInv, SaveLast
    PROVE  /\ flash' \in [Blocks -> [sum : BOOLEAN, keys : Seq(Entries)]] /\ Small'
           /\ flash'["MAIN"] = Block(buffer) /\ Content' = AfterCall
           /\ call.op \in {"set", "add", "restore"}
           /\ call.op = "set" => before[call.key] # Missing
           /\ call.op # "restore" => call.val # OtherSize
<1> USE DEF IInv, SaveLast
<1>1. plan \in Seq(PlanStep) /\ Len(plan) = 1
  BY DEF TypeOK, PlanStep
<1>2. plan # <<>> /\ Head(plan) = plan[1] /\ Tail(plan) = <<>>
  <2>1. plan # <<>> /\ Head(plan) = plan[1]
    BY <1>1
  <2>2. Tail(plan) \in Seq(PlanStep) /\ Len(Tail(plan)) = Len(plan) - 1
    BY <1>1, <2>1
  <2>3. Len(Tail(plan)) = 0
    BY <1>1, <2>2
  <2>. QED BY <2>1, <2>2, <2>3, EmptySeq
<1>3. /\ flash' = [flash EXCEPT ![Head(plan).block] = Head(plan).to] /\ plan' = Tail(plan)
      /\ UNCHANGED <<buffer, before>> /\ Len(plan) = 1
  BY <1>2
<1>4. SavePlan \/ RestorePlan
  BY DEF Saving
<1>5. Content' = ContentOf(flash'["MAIN"].keys)
  BY DEF Content, ContentOf
<1>6. CASE SavePlan
  <2>1. /\ flash' \in [Blocks -> [sum : BOOLEAN, keys : Seq(Entries)]] /\ Small'
        /\ flash'["MAIN"] = Block(buffer)
    BY <1>2, <1>3, <1>6, SaveMoves
  <2>. QED BY <1>5, <1>6, <2>1 DEF SavePlan, Block
<1>7. CASE RestorePlan
  <2>1. /\ flash' \in [Blocks -> [sum : BOOLEAN, keys : Seq(Entries)]] /\ Small'
        /\ flash'["MAIN"] = Block(buffer)
    BY <1>2, <1>3, <1>7, RestoreMoves
  <2>2. AfterCall = S!Empty
    BY <1>7 DEF RestorePlan, AfterCall
  <2>3. flash'["MAIN"].keys = <<>>
    BY <1>7, <2>1 DEF RestorePlan, Block
  <2>. QED BY <1>5, <1>7, <2>1, <2>2, <2>3, ContentEmpty DEF RestorePlan
<1>. QED BY <1>4, <1>6, <1>7

LEMMA SaveLastInv == ASSUME IInv, SaveLast PROVE IInv'
<1>1. /\ flash' \in [Blocks -> [sum : BOOLEAN, keys : Seq(Entries)]] /\ Small'
      /\ flash'["MAIN"] = Block(buffer)
  BY SaveEnds
<1>2. /\ pc' = "idle" /\ call' = NoCall /\ plan' = <<>>
      /\ UNCHANGED <<buffer, before, calls, losses>>
  BY DEF SaveLast, Return
<1>3. answer' \in Answers
  BY SaveEnds DEF SaveLast, Return, Answers
<1>4. TypeOK'
  BY <1>1, <1>2, <1>3 DEF IInv, TypeOK
<1>. QED BY <1>1, <1>2, <1>4 DEF IInv, Down, Booted, Calling, Saving, Serving, ImageInRam

\* Whenever the power fails, a good copy is left, of the old store or the new.
LEMMA PowerLossInv == ASSUME IInv, PowerLoss PROVE IInv'
<1> USE DEF IInv, PowerLoss
<1>1. /\ pc' = "off" /\ plan' = <<>> /\ buffer' = <<>> /\ losses' \in 0..MaxLosses
      /\ UNCHANGED <<flash, call, answer, calls>>
  BY SequentialAssumption DEF TypeOK
<1>2. /\ flash["MAIN"] \in [sum : BOOLEAN, keys : Seq(Entries)]
      /\ Content \in [Keys -> Values \cup {Missing}]
  BY BlockTypes, ContentIs, ContentType
<1>3. before' \in [Keys -> Values \cup {Missing}]
  BY <1>2 DEF TypeOK
<1>4. TypeOK'
  <2>1. <<>> \in Seq(Entries) /\ Len(<<>>) <= Room
    BY SequentialAssumption
  <2>. QED BY <1>1, <1>3, <2>1 DEF TypeOK
<1>5. Down'
  <2>1. Recovered' = Recovered /\ ContentOf(Recovered)' = ContentOf(Recovered)
    BY <1>1 DEF Recovered, ContentOf
  <2>2. CASE pc = "idle"
    <3>1. Content = ContentOf(Recovered)
      BY <2>2, MainIsRam, ContentIs DEF Recovered
    <3>. QED BY <2>1, <2>2, <3>1 DEF Down
  <2>3. CASE pc # "idle"
    <3>1. before' = before /\ AfterCall' = AfterCall
      BY <1>1, <2>3 DEF AfterCall
    <3>2. OldImage => ContentOf(Recovered) = before
      BY ContentIs DEF OldImage, Recovered
    <3>3. CASE pc = "call"
      BY <2>1, <3>1, <3>2, <3>3 DEF Calling, Down
    <3>4. CASE pc = "save" /\ SavePlan
      <4>1. CASE OldImage
        BY <2>1, <3>1, <3>2, <4>1 DEF Down
      <4>2. CASE ~flash["MAIN"].sum /\ flash["BACKUP"] = Block(buffer)
        <5>1. Recovered = buffer
          BY <4>2 DEF Recovered, Block
        <5>. QED BY <2>1, <3>1, <3>4, <5>1 DEF SavePlan, Down
      <4>. QED BY <3>4, <4>1, <4>2 DEF SavePlan
    <3>5. CASE pc = "save" /\ RestorePlan
      <4>1. CASE OldImage
        BY <2>1, <3>1, <3>2, <4>1 DEF Down
      <4>2. CASE flash["MAIN"] = Block(<<>>)
        <5>1. Recovered = <<>> /\ AfterCall = S!Empty
          BY <3>5, <4>2 DEF Recovered, Block, RestorePlan, AfterCall
        <5>. QED BY <2>1, <3>1, <5>1, ContentEmpty DEF Down
      <4>. QED BY <3>5, <4>1, <4>2 DEF RestorePlan
    <3>6. CASE pc \in {"boot", "load"}
      BY <2>1, <3>1, <3>6 DEF Down
    <3>. QED BY <2>3, <3>3, <3>4, <3>5, <3>6 DEF TypeOK, Saving
  <2>. QED BY <2>2, <2>3
<1>. QED BY <1>1, <1>4, <1>5 DEF Small, Booted, Calling, Saving, Serving, ImageInRam

LEMMA StepInv == ASSUME IInv, [Next]_vars PROVE IInv'
<1>1. CASE UNCHANGED vars
  <2> USE <1>1 DEF vars
  <2>1. TypeOK' /\ Small'
    BY DEF IInv, TypeOK, Small
  <2>2. Down' /\ Booted'
    BY DEF IInv, Down, Recovered, AfterCall, ContentOf, Booted, BootPlan, OldImage, Content
  <2>3. Calling' /\ Serving' /\ ImageInRam'
    BY DEF IInv, Calling, OldImage, Content, ContentOf, Serving, ImageInRam
  <2>4. Saving'
    BY DEF IInv, Saving, SavePlan, RestorePlan, AfterCall, OldImage, Content, ContentOf
  <2>. QED BY <2>1, <2>2, <2>3, <2>4 DEF IInv
<1>. QED BY <1>1, PowerOnInv, BootStepInv, LoadInv, BeginInv, GetInv, RefuseInv, ChangeInv,
            RestoreInv, SaveStepInv, SaveLastInv, PowerLossInv DEF Next, Step

LEMMA AlwaysInv == Spec => []IInv
BY InitInv, StepInv, PTL DEF Spec

\* Every variable keeps its type, and no image outgrows max_buffer_size_, for any
\* keys, values and room, whenever the power fails.
THEOREM TypeCorrect == Spec => []TypeOK
<1>1. IInv => TypeOK
  BY DEF IInv
<1>. QED BY <1>1, AlwaysInv, PTL

\* Between calls buffer_ is what the main block holds, so the next Save() writes
\* nothing stale, whatever the power losses and Init() left.
THEOREM ImageKept == Spec => []ImageInRam
<1>1. IInv => ImageInRam
  BY DEF IInv
<1>. QED BY <1>1, AlwaysInv, PTL

----------------------------------------------------------------------------
(* The database implements KeyValueStore.                                     *)

Store == IF pc = "idle" THEN Content ELSE before

LEMMA StoreInit == Init => S!Init
<1> SUFFICES ASSUME Init PROVE S!Init
  OBVIOUS
<1>1. Store \in [Keys -> S!Stored]
  BY DEF Init, Store, S!Stored
<1>. QED BY <1>1 DEF Init, S!Init, Store, Up, NoCall, S!NoCall

\* What each step of the store takes.
LEMMA Keeps == ASSUME UNCHANGED <<Store, call, answer, Up>> PROVE UNCHANGED S!vars
BY DEF S!vars, Store, Up

LEMMA Begins ==
    ASSUME Up, Up', call = NoCall, call' \in Calls, UNCHANGED <<Store, answer>> PROVE S!Next
<1>1. call' \in {S!Request(o, k, v) : o \in {"get", "set", "add"}, k \in Keys,
                   v \in Values \cup {OtherSize}} \cup {[op |-> "restore"]}
  BY DEF Calls, Requests, Request, S!Request
<1>. QED BY <1>1 DEF S!Next, S!Begin, Store, NoCall, S!NoCall, Up

LEMMA Finishes ==
    ASSUME Up, Up', call # NoCall, call' = NoCall,
           \/ /\ call.op = "get" /\ Store' = Store
              /\ answer' = [op |-> "get", val |-> Store[call.key],
                            code |-> IF Store[call.key] = Missing THEN "NOT_FOUND" ELSE "OK"]
           \/ /\ call.op \in {"set", "add", "restore"}
              /\ answer' = [op |-> call.op, code |-> "OK", val |-> Missing]
              /\ Store' = CASE call.op \in {"set", "add"} -> [Store EXCEPT ![call.key] = call.val]
                            [] OTHER -> S!Empty
              /\ call.op = "set" => Store[call.key] # Missing
              /\ call.op # "restore" => call.val # OtherSize
           \/ /\ call.op \in {"set", "add"} /\ Store' = Store
              /\ \/ /\ answer' = [op |-> call.op, code |-> "FAILED", val |-> Missing]
                    /\ call.val = OtherSize \/ Store[call.key] = Missing
                 \/ answer' = [op |-> call.op, code |-> "FULL", val |-> Missing]
    PROVE  S!Next
<1>1. S!FinishGet \/ S!FinishOk \/ S!FinishFailed
  BY DEF S!FinishGet, S!FinishOk, S!FinishFailed, S!Answer, S!After, Store
<1>. QED BY <1>1 DEF S!Next, S!Finish, NoCall, S!NoCall, Up

LEMMA Recovers ==
    ASSUME ~Up, Up', call' = NoCall, answer' = answer, pc # "idle", Store' \in {before, AfterCall}
    PROVE  S!Next
<1>1. S!After = AfterCall
  BY DEF S!After, AfterCall
<1>. QED BY <1>1 DEF S!Next, S!Recover, Store, NoCall, S!NoCall, Up

LEMMA Fails ==
    ASSUME Up, ~Up', UNCHANGED <<Store, call, answer>> PROVE S!Next
BY DEF S!Next, S!PowerLoss, Store, Up

LEMMA LoadRecovers == ASSUME IInv, Load PROVE S!Next
<1>1. pc = "load" /\ pc' = "idle" /\ flash' = flash /\ flash["MAIN"].sum
      /\ call' = NoCall /\ answer' = answer
  BY DEF Load, IInv, Booted
<1>2. Content = ContentOf(Recovered)
  BY <1>1, ContentIs DEF Recovered
<1>3. Content \in {before, AfterCall}
  BY <1>1, <1>2 DEF IInv, Down
<1>4. Store' = Content
  BY <1>1 DEF Store, Content
<1>. QED BY <1>1, <1>3, <1>4, Recovers DEF Up

LEMMA BeginBegins == ASSUME IInv, NEW c \in Calls, Begin(c) PROVE S!Next
<1>1. pc = "idle" /\ pc' = "call" /\ call' = c /\ before' = Content /\ answer' = answer
      /\ call = NoCall
  BY DEF Begin, IInv, Serving
<1>. QED BY <1>1, Begins DEF Store, Up

LEMMA ReturnsStore ==
    ASSUME IInv, pc = "call", NEW code, NEW v, Return(code, v), flash' = flash
    PROVE  /\ Store = Content /\ Store' = Store /\ Up /\ Up' /\ call' = NoCall
           /\ call \in Calls /\ answer' = [op |-> call.op, code |-> code, val |-> v]
BY DEF Return, IInv, Calling, OldImage, Store, Content, Up, Serving

LEMMA CallHasName == ASSUME call \in Calls PROVE call # NoCall
BY DEF Calls, Requests, Request, NoCall

LEMMA GetFinishes == ASSUME IInv, Get PROVE S!Next
<1>1. call.key \in Keys /\ call.op = "get" /\ pc = "call" /\ call # NoCall /\ flash' = flash
  BY RequestKey, CallHasName DEF IInv, Get, Serving
<1>2. IF Found = 0 THEN Content[call.key] = Missing
      ELSE /\ Content[call.key] = flash["MAIN"].keys[Found].val
           /\ Content[call.key] # Missing
  BY <1>1, FoundHas, SequentialAssumption DEF IInv
<1>3. CASE Found = 0
  <2>1. Return("NOT_FOUND", Missing)
    BY <1>3 DEF Get
  <2>. QED BY <1>1, <1>2, <1>3, <2>1, ReturnsStore, Finishes
<1>4. CASE Found # 0
  <2>1. Return("OK", Content[call.key])
    BY <1>2, <1>4 DEF Get
  <2>. QED BY <1>1, <1>2, <1>4, <2>1, ReturnsStore, Finishes
<1>. QED BY <1>3, <1>4

LEMMA RefuseFinishes == ASSUME IInv, Refuse PROVE S!Next
<1>1. /\ call.key \in Keys /\ call.op \in {"set", "add"} /\ pc = "call" /\ call # NoCall
      /\ flash' = flash
  BY RequestKey, CallHasName DEF IInv, Refuse, Serving
<1>2. IF Found = 0 THEN Content[call.key] = Missing
      ELSE /\ Content[call.key] = flash["MAIN"].keys[Found].val
           /\ Content[call.key] \in Values
  BY <1>1, FoundHas DEF IInv
<1>3. CASE Found = 0 /\ call.op = "set" /\ Return("FAILED", Missing)
  BY <1>1, <1>2, <1>3, ReturnsStore, Finishes
<1>4. CASE Found # 0 /\ call.val = OtherSize /\ Return("FAILED", Missing)
  BY <1>1, <1>4, ReturnsStore, Finishes
<1>5. CASE Found = 0 /\ call.op = "add" /\ Return("FULL", Missing)
  BY <1>1, <1>5, ReturnsStore, Finishes
<1>6. CASE Found # 0 /\ flash["MAIN"].keys[Found].val = call.val /\ Return("OK", Missing)
  <2>1. Content[call.key] = call.val /\ call.val \in Values
    BY <1>2, <1>6
  <2>2. Content = [Content EXCEPT ![call.key] = call.val]
    BY <1>1, <2>1 DEF Content
  <2>3. call.val # OtherSize /\ Content[call.key] # Missing
    BY <2>1, SequentialAssumption
  <2>4. /\ Store = Content /\ Store' = Store /\ Up /\ Up' /\ call' = NoCall
        /\ answer' = [op |-> call.op, code |-> "OK", val |-> Missing]
    BY <1>1, <1>6, ReturnsStore
  <2>5. Store' = CASE call.op \in {"set", "add"} -> [Store EXCEPT ![call.key] = call.val]
                   [] OTHER -> S!Empty
    BY <1>1, <2>2, <2>4
  <2>. QED BY <1>1, <2>3, <2>4, <2>5, Finishes
<1>. QED BY <1>3, <1>4, <1>5, <1>6 DEF Refuse

LEMMA SaveFinishes == ASSUME IInv, SaveLast PROVE S!Next
<1>1. /\ Content' = AfterCall /\ call.op \in {"set", "add", "restore"}
      /\ call.op = "set" => before[call.key] # Missing
      /\ call.op # "restore" => call.val # OtherSize
  BY SaveEnds
<1>2. /\ pc = "save" /\ pc' = "idle" /\ call' = NoCall
      /\ answer' = [op |-> call.op, code |-> "OK", val |-> Missing]
  BY DEF SaveLast, Return
<1>3. Store = before /\ Store' = AfterCall /\ Up /\ Up' /\ call # NoCall
  BY <1>1, <1>2, CallHasName DEF Store, Up, IInv, Serving
<1>4. Store' = CASE call.op \in {"set", "add"} -> [Store EXCEPT ![call.key] = call.val]
                 [] OTHER -> S!Empty
  BY <1>1, <1>3 DEF AfterCall
<1>. QED BY <1>1, <1>2, <1>3, <1>4, Finishes

LEMMA InnerKeeps ==
    ASSUME PowerOn \/ BootStep \/ Change \/ Restore \/ SaveStep PROVE UNCHANGED S!vars
<1>1. /\ UNCHANGED <<call, answer, before>> /\ pc # "idle" /\ pc' # "idle" /\ Up' = Up
  BY DEF PowerOn, BootStep, Change, Restore, SaveStep, Operate, Up
<1>. QED BY <1>1, Keeps DEF Store

LEMMA PowerLossFails == ASSUME IInv, PowerLoss PROVE [S!Next]_(S!vars)
<1>1. /\ UNCHANGED <<call, answer>> /\ pc' = "off" /\ pc # "off"
      /\ before' = IF pc = "idle" THEN Content ELSE before
  BY DEF PowerLoss
<1>2. Store' = Store /\ ~Up'
  BY <1>1 DEF Store, Up
<1>3. CASE Up
  BY <1>1, <1>2, <1>3, Fails
<1>4. CASE ~Up
  <2>1. Up' = Up
    BY <1>1, <1>4 DEF Up
  <2>. QED BY <1>1, <1>2, <2>1, Keeps
<1>. QED BY <1>3, <1>4

LEMMA StoreStep == ASSUME IInv, [Next]_vars PROVE [S!Next]_(S!vars)
<1>1. CASE UNCHANGED vars
  BY <1>1, Keeps DEF vars, Store, Content, Up
<1>. QED BY <1>1, LoadRecovers, BeginBegins, GetFinishes, RefuseFinishes, SaveFinishes,
            InnerKeeps, PowerLossFails DEF Next, Step

\* DatabaseRawSequential is a KeyValueStore whose power losses do no harm, for any
\* keys, values and room: the key that is being written has its old or its new value
\* after a power loss at any point of any call or of Init(), every other key is as it
\* was, and a call that returns has done what its code says.
THEOREM StoreKept == Spec => ImplementsStore
<1>1. IInv /\ [Next]_vars => [S!Next]_(S!vars)
  BY StoreStep
<1>. QED BY <1>1, StoreInit, AlwaysInv, PTL DEF Spec, ImplementsStore, S!Spec
=============================================================================
