------------------------------ MODULE MCMemory ------------------------------
(***************************************************************************)
(* What lies in files and in memory beside the requests: the weights and   *)
(* the allocation of the caches (MCWeights), and the pool of KV blocks     *)
(* inside one of those caches.  The pool takes its number of blocks from   *)
(* them and nothing else; so a behaviour is one of either.                 *)
(***************************************************************************)
EXTENDS MCWeights, KvBlockPool

VARIABLE side

memoryVars == <<allVars, vars, side>>

(* Beside the pool the rest keeps one initial state, in which nothing is   *)
(* owed to anyone.                                                         *)
MemoryInit ==
    /\ WeightsInit /\ Init
    /\ side \in {"weights", "blocks"}
    /\ side = "blocks" => part = "stage" /\ case = DeepSeek(DeepSeekNames)

MemoryNext ==
    \/ side = "weights" /\ WeightsNext /\ UNCHANGED <<vars, side>>
    \/ side = "blocks" /\ Next /\ UNCHANGED <<allVars, side>>

MemorySpec == MemoryInit /\ [][MemoryNext]_memoryVars /\ WeightsFairness
=============================================================================
