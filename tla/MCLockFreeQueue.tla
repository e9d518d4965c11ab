-------------------------- MODULE MCLockFreeQueue --------------------------
(* Instances of LockFreeQueue for TLC.                                      *)
EXTENDS LockFreeQueue, TLC

CONSTANTS c1, c2

OneConsumer == {c1}
TwoConsumers == {c1, c2}
ZeroOneOrThree == {0, 1, 3}
One == {1}
PopOnly == {"pop"}
=============================================================================
