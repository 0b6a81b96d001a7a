--------------------------- MODULE MCWorkerLanes ---------------------------
(* The modes of WorkerLanes that TLC's runs start from. *)
EXTENDS WorkerLanes

FusedWithPreemption == [fused |-> TRUE, preempts |-> 1]
FusedOnly == [fused |-> TRUE, preempts |-> 0]
SerialOnly == [fused |-> FALSE, preempts |-> 0]

BothRunners == {FusedWithPreemption, SerialOnly}
FusedRunner == {FusedOnly}
=============================================================================
