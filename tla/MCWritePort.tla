--------------------------- MODULE MCWritePort ---------------------------
(* Instances of WritePort for TLC.                                         *)
EXTENDS WritePort, TLC

CONSTANTS b1, b2, p1

OneBlock == {b1}
TwoBlock == {b1, b2}
BlockAndPolling == {b1, p1}
BothKinds == {"POLLING", "CALLBACK"}
OneByte == {1}
OneOrTwo == {1, 2}
PollingOnly == {"POLLING"}
=============================================================================
