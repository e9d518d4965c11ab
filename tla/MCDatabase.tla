----------------------------- MODULE MCDatabase -----------------------------
(***************************************************************************)
(* Both flash databases against the one store they promise: the engine is  *)
(* chosen at the start, and the other one does nothing.                    *)
(***************************************************************************)
EXTENDS DatabaseRawSequential, TLC

CONSTANTS k1, k2, k3, v1, v2, Cap, Threshold

VARIABLES engine, rflash, rplan, rpc, ret, rcall, found, recycled, ranswer,
          rbefore, harm, trust, rcalls, rlosses

MCKeys == {k1, k2, k3}
MCValues == {v1, v2}

Raw == INSTANCE DatabaseRaw WITH
          Keys <- {k1, k2}, MaxCalls <- 3, Starts <- {<<<<k1, v1>>, <<k2, v1>>>>},
          flash <- rflash, plan <- rplan, pc <- rpc, call <- rcall, answer <- ranswer,
          before <- rbefore, calls <- rcalls, losses <- rlosses

rvars == <<rflash, rplan, rpc, ret, rcall, found, recycled, ranswer,
           rbefore, harm, trust, rcalls, rlosses>>

ASSUME Raw!RawAssumption

MCInit ==
    /\ Init /\ Raw!Init
    /\ engine \in {"sequential", "raw"} /\ (engine = "sequential" => rbefore[k1] = Missing)

Sequential == engine = "sequential" /\ Next /\ UNCHANGED <<engine, rvars>>
InPlace == engine = "raw" /\ Raw!Next /\ UNCHANGED <<engine, vars>>

MCSpec ==
    /\ MCInit /\ [][Sequential \/ InPlace]_<<engine, vars, rvars>>
    /\ WF_vars(engine = "sequential" /\ Step)
    /\ WF_rvars(engine = "raw" /\ Raw!Step)

\* The type invariants of both databases.
TypesOK == TypeOK /\ Raw!TypeOK

\* DatabaseRaw::Set, Add and Get take effect whole, and a power loss leaves old
\* or new values, unless it comes in one of the windows that Harm names.
RawImplementsStore == Raw!ImplementsStore

\* A call of DatabaseRaw returns, however often it recycles.
RawCallsReturn == Raw!CallsReturn
=============================================================================
