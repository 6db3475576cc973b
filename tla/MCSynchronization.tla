------------------------- MODULE MCSynchronization -------------------------
(* An auto-reset event and a semaphore that share a pair, as in            *)
(* COutMemStream, and a manual-reset event with a pair of its own.         *)
EXTENDS Synchronization

CONSTANTS auto, manual, sem, shared, own

MCMaxCount == [o \in Objects |-> IF o = sem THEN 2 ELSE 1]
MCInitial == [o \in Objects |-> IF o = sem THEN 1 ELSE 0]
MCSynchroOf == [o \in Objects |-> IF o = manual THEN own ELSE shared]
MCWaits == {<<auto, sem>>, <<sem>>, <<manual>>}
=============================================================================
