--------------------------- MODULE WriteService ---------------------------
(***************************************************************************)
(* What LibXR::WritePort promises to those who write: the device serves    *)
(* the writes it accepted one at a time, in the order they were accepted,  *)
(* and the owner of each is told once, and nothing but what the device     *)
(* answered to that write, or that he has given up waiting.  A reset drops *)
(* what has not been answered.                                             *)
(***************************************************************************)
EXTENDS Naturals, Sequences

CONSTANTS
    Writes,    \* numbered as their callers got the port
    Answers    \* what the device may answer

VARIABLES
    accepted,  \* the writes accepted so far
    line,      \* those that are neither answered nor dropped, oldest first
    answered,  \* answered[w]: what the device answered
    told,      \* told[w]: what w's owner was told
    misled     \* writes that a reset has robbed of their answer

vars == <<accepted, line, answered, told, misled>>

Init ==
    /\ accepted = {} /\ line = <<>> /\ misled = {}
    /\ answered = [w \in Writes |-> "none"]
    /\ told = [w \in Writes |-> "none"]

Accept(w) ==
    /\ \A v \in accepted : v < w
    /\ accepted' = accepted \cup {w} /\ line' = Append(line, w)
    /\ UNCHANGED <<answered, told, misled>>

\* Whoever polls or gave a callback is told at once, who waits is told later,
\* and who gave up is told no more.
Serve(ans) ==
    /\ line # <<>>
    /\ LET w == Head(line)
       IN  /\ answered' = [answered EXCEPT ![w] = ans]
           /\ \/ UNCHANGED told
              \/ told[w] = "none" /\ told' = [told EXCEPT ![w] = ans]
    /\ line' = Tail(line)
    /\ UNCHANGED <<accepted, misled>>

Tell(w) ==
    /\ answered[w] # "none" /\ told[w] = "none"
    /\ told' = [told EXCEPT ![w] = IF w \in misled THEN "OK" ELSE answered[w]]
    /\ misled' = misled \ {w}
    /\ UNCHANGED <<accepted, line, answered>>

GiveUp(w) ==
    /\ w \in accepted /\ told[w] = "none"
    /\ told' = [told EXCEPT ![w] = "TIMEOUT"]
    /\ UNCHANGED <<accepted, line, answered, misled>>

Untold == {w \in Writes : answered[w] # "none" /\ told[w] = "none"}

\* Reset(): what has not been answered never will be, and an answer that was not
\* passed on yet may turn into OK.
Drop ==
    /\ line' = <<>> /\ misled' \in SUBSET Untold
    /\ UNCHANGED <<accepted, answered, told>>

Next ==
    \/ \E w \in Writes : Accept(w) \/ Tell(w) \/ GiveUp(w)
    \/ \E ans \in Answers : Serve(ans)
    \/ Drop

Spec == Init /\ [][Next]_vars

\* The device answers what it accepted, and its answers are passed on.
FairSpec ==
    /\ Spec
    /\ WF_vars(\E ans \in Answers : Serve(ans))
    /\ \A w \in Writes : WF_vars(Tell(w))
=============================================================================
