---------------------------- MODULE MCReadPort ----------------------------
(* Instances of ReadPort for TLC.                                           *)
EXTENDS ReadPort, TLC

Env(i, p, f, r) == [isr |-> i, polite |-> p, fails |-> f, resets |-> r]

\* An interrupt against any reader, with failing starts or with Reset(); a
\* second thread against a polite reader.
SafeEnvs == {Env(TRUE, FALSE, TRUE, 0), Env(TRUE, FALSE, FALSE, 1),
             Env(FALSE, TRUE, FALSE, 1)}

\* A receive thread against a reader that changes its request on a timeout.
ThreadEnv == {Env(FALSE, FALSE, FALSE, 0)}

BothKinds == {"BLOCK", "POLLING"}
BlockOnly == {"BLOCK"}
UpToTwo == {0, 1, 2}
OneOrTwo == {1, 2}
=============================================================================
