----------------------------- MODULE MCTaskQueue -----------------------------
(* Instances of TaskQueue for TLC. *)
EXTENDS TaskQueue, TLC

CONSTANTS t1, t2, t3, t4, A, B

OneThread == [t \in Tasks |-> A]
TwoThreads == [t \in Tasks |-> IF t \in {t1, t3} THEN A ELSE B]
EachOwnThread == [t \in Tasks |-> t]
=============================================================================
