------------------------------ MODULE MCCiLogic ------------------------------
(* Four tasks, added by four calls, one of which adds none; two more queues. *)
EXTENDS CiLogic

CONSTANTS t1, t2, t3, t4, workers, quay

FourTasks == {t1, t2, t3, t4}
FourCalls == <<<<t1, t2>>, <<t3>>, <<>>, <<t4>>>>
TwoQueues == {workers, quay}
=============================================================================
