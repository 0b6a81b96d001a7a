--------------------------- MODULE MCServingFront ---------------------------
(***************************************************************************)
(* The router and a profiling session.  They meet only in the workers'     *)
(* command queues, where a profile command is a barrier (see WorkerLanes); *)
(* a behaviour is one of either, chosen at the start.                      *)
(***************************************************************************)
EXTENDS ReplicaRouter, ProfileSession

VARIABLE part

allVars == <<rvars, pvars, part>>

(* A streamed, a whole and an over-long prompt, and one without tokens. *)
Prompts == [a |-> 2, b |-> 1, long |-> 4, empty |-> 0]
News == [a |-> 1, b |-> 3, long |-> 1, empty |-> 1]

FrontInit == RInit /\ PInit /\ part \in {"router", "profile"}

FrontNext ==
  \/ part = "router" /\ RNext /\ UNCHANGED <<pvars, part>>
  \/ part = "profile" /\ PNext /\ UNCHANGED <<rvars, part>>

FrontSpec ==
  /\ FrontInit /\ [][FrontNext]_allVars
  /\ part = "router" => RFairness
  /\ part = "profile" => PFairness

(* AsyncLLMEngine.start returns or raises. *)
EngineStartSettles == part = "router" => StartSettles

(* A profile request is answered, late acknowledgements or not. *)
ProfileRequestAnswered == part = "profile" => ProfileAnswered

(* start() returns or raises, with everything it began undone; and a       *)
(* profile request is answered, whatever acknowledgements are late.        *)
FrontAnswers == EngineStartSettles /\ ProfileRequestAnswered
=============================================================================
