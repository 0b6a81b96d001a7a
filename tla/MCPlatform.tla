----------------------------- MODULE MCPlatform -----------------------------
(***************************************************************************)
(* The two parts of the platform that the repository implements, an edge   *)
(* and the engines.  They share no state, so a behaviour is one of either  *)
(* part, chosen at the start.                                              *)
(***************************************************************************)
EXTENDS PlatformChannel, PlatformEngine

VARIABLE part

allVars == <<vars, evars, part>>

TwoThreads == <<<<2, 1, 3>>, <<1, 2>>>>
TwoNames == <<"prefill", "decode">>
AllHashes == [{"prefill", "decode"} -> {0, 1}]

PlatformInit == Init /\ EInit /\ part \in {"edge", "engines"}

PlatformNext ==
  \/ part = "edge" /\ Next /\ UNCHANGED <<evars, part>>
  \/ part = "engines" /\ ENext /\ UNCHANGED <<vars, part>>

PlatformSpec ==
  /\ PlatformInit /\ [][PlatformNext]_allVars
  /\ part = "edge" => Fairness
  /\ part = "engines" => EFairness

(* Every message sent over the edge is delivered: pushMessageLocking gets  *)
(* its turn and finds room, and neither channel runs ahead of the other.   *)
EdgeDelivers == part = "edge" => AllDelivered

(* Every instance of the platform is started, stopped and finalized.       *)
EnginesFinish == part = "engines" => EveryInstanceFinalizes

(* Every message that is pushed is delivered, and every instance that the  *)
(* deployer started is stopped and finalized.                              *)
PlatformFinishes == EdgeDelivers /\ EnginesFinish
=============================================================================
