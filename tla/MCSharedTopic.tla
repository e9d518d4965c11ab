--------------------------- MODULE MCSharedTopic ---------------------------
(* Instances of SharedTopic for TLC.                                        *)
EXTENDS SharedTopic, TLC

Env(a, b, p, d, j) == [modes |-> <<a, b>>, publishes |-> p, deaths |-> d, joins |-> j]

\* Every mode alone and beside another, with a death wherever it leaves TLC
\* time; fewer drops than a turn of the ring.
MCEnvs ==
    {Env("FULL", None, 4, 1, 0), Env("DROP_OLD", None, 4, 1, 0),
     Env("DROP_OLD", "FULL", 3, 0, 0), Env("BALANCE", "FULL", 2, 1, 0),
     Env("BALANCE", "BALANCE", 3, 1, 0), Env("FULL", None, 2, 1, 1)}

TurnEnvs == {Env("DROP_OLD", None, 3, 0, 0)}
=============================================================================
