---------------------------- MODULE ReplicaRouter ----------------------------
(***************************************************************************)
(* AsyncLLMEngine (src/pypto_serving/serving/engine/async_engine.py): the  *)
(* engine cores of all replicas are started and stopped together, and      *)
(* every request is routed to the replica with the least unfinished work.  *)
(*                                                                         *)
(* asyncio runs one task at a time, so what lies between two awaits is one *)
(* action.  A request is served by two nested asynchronous generators: the *)
(* router's and the core's.  When the consumer stops at a yield, the outer *)
(* one is closed first and the inner one later, by the event loop's hook   *)
(* for abandoned generators; a cancellation that arrives while the inner   *)
(* one waits for its queue unwinds both at once.                           *)
(***************************************************************************)
EXTENDS Integers, Sequences, FiniteSets, Functions

CONSTANTS
  NumReplicas,
  Request,
  PromptLen,    \* request -> prompt tokens, 0 for a prompt that has none
  MaxNew,       \* request -> max_new_tokens
  Streaming,    \* requests whose consumer breaks off at the final output
  MaxSeqLen

Replica == 0..(NumReplicas - 1)

ASSUME ReplicasAssumption == NumReplicas \in Nat \ {0}
ASSUME RequestsAssumption ==
  /\ PromptLen \in [Request -> Nat] /\ MaxNew \in [Request -> Nat \ {0}]
  /\ Streaming \subseteq Request /\ MaxSeqLen \in Nat

VARIABLES
  engine,     \* position of start(), then of stop()
  core,       \* replica -> position of its start() task
  proc,       \* replica -> its worker process
  owned,      \* replica -> the core still holds the process handle
  shutdown,   \* replica -> thread of _shutdown_worker -> its position
  counter,    \* _route_counter
  extra,      \* _route_extra_load
  placement,  \* _request_to_replica
  client,     \* request -> what its consumer does
  contexts,   \* replica -> _request_contexts
  left,       \* replica -> (request in its scheduler -> unfinished tokens)
  outputs,    \* request -> outputs queued for it; TRUE is the final one
  aborted     \* requests abort_request was called for

lifecycle == <<engine, core, proc, owned, shutdown>>
routing == <<counter, extra, placement, client, contexts, left, outputs, aborted>>
rvars == <<lifecycle, routing>>

ShutdownThread == {"start", "stop"}

RInit ==
  /\ engine = "starting"
  /\ core = [c \in Replica |-> "spawn"]
  /\ proc = [c \in Replica |-> "none"]
  /\ owned = [c \in Replica |-> FALSE]
  /\ shutdown = [c \in Replica |-> [t \in ShutdownThread |-> "off"]]
  /\ counter = 0
  /\ extra = [c \in Replica |-> 0]
  /\ placement = <<>>
  /\ client = [r \in Request |-> "new"]
  /\ contexts = [c \in Replica |-> {}]
  /\ left = [c \in Replica |-> <<>>]
  /\ outputs = [r \in Request |-> <<>>]
  /\ aborted = {}

(***************************************************************************)
(* Start-up                                                                *)
(***************************************************************************)
(* ReplicaEngineCore.start spawns the worker and waits for its event. *)
SpawnWorker(c) ==
  /\ core[c] = "spawn"
  /\ engine = "starting"
  /\ core' = [core EXCEPT ![c] = "waiting"]
  /\ proc' = [proc EXCEPT ![c] = "loading"]
  /\ owned' = [owned EXCEPT ![c] = TRUE]
  /\ UNCHANGED <<engine, shutdown, routing>>

(* The worker sets the event when it is ready and also when it failed. *)
WorkerEntry(c) ==
  /\ proc[c] = "loading"
  /\ \E outcome \in {"ready", "failed"} : proc' = [proc EXCEPT ![c] = outcome]
  /\ UNCHANGED <<engine, core, owned, shutdown, routing>>

(* A start that does not look at the number of pages. *)
WorkerReadyUnchecked(c) ==
  /\ core[c] = "waiting"
  /\ proc[c] \in {"ready", "failed"}
  /\ core' = [core EXCEPT ![c] = "started"]
  /\ UNCHANGED <<engine, proc, owned, shutdown, routing>>

(* The wait ends: with pages the core runs; with 0 pages initialize()      *)
(* raises, and nothing in this start() shuts the worker down.              *)
WorkerReady(c) ==
  /\ core[c] = "waiting"
  /\ proc[c] \in {"ready", "failed"}
  /\ core' = [core EXCEPT ![c] = IF proc[c] = "ready" THEN "started" ELSE "raised"]
  /\ UNCHANGED <<engine, proc, owned, shutdown, routing>>

(* A thread of _shutdown_worker takes the handle it finds. *)
ShutdownBegins(c, t) ==
  shutdown' = [shutdown EXCEPT ![c][t] = IF owned[c] THEN "join" ELSE "clear"]

(* The init timeout: the except clause awaits a shutdown of the worker. *)
InitTimeout(c) ==
  /\ core[c] = "waiting"
  /\ proc[c] = "loading"
  /\ core' = [core EXCEPT ![c] = "aborting"]
  /\ ShutdownBegins(c, "start")
  /\ UNCHANGED <<engine, proc, owned, routing>>

(* The worker obeys the shutdown command, or is terminated after the join. *)
ShutdownJoin(c, t) ==
  /\ shutdown[c][t] = "join"
  /\ proc' = [proc EXCEPT ![c] = "dead"]
  /\ shutdown' = [shutdown EXCEPT ![c][t] = "clear"]
  /\ UNCHANGED <<engine, core, owned, routing>>

ShutdownClear(c, t) ==
  /\ shutdown[c][t] = "clear"
  /\ owned' = [owned EXCEPT ![c] = FALSE]
  /\ shutdown' = [shutdown EXCEPT ![c][t] = "done"]
  /\ core' = IF t = "start" /\ core[c] = "aborting" THEN [core EXCEPT ![c] = "raised"] ELSE core
  /\ UNCHANGED <<engine, proc, routing>>

(* gather: all started. *)
StartReturns ==
  /\ engine = "starting"
  /\ \A c \in Replica : core[c] = "started"
  /\ engine' = "serving"
  /\ UNCHANGED <<core, proc, owned, shutdown, routing>>

(* One core raised, or the caller was cancelled: the tasks that are not    *)
(* done are cancelled.  One that waits shuts its worker down; one that is  *)
(* already awaiting that shutdown ends, and its thread goes on alone; one  *)
(* that has not begun never will.                                          *)
CancelStart ==
  /\ engine = "starting"
  /\ engine' = "cancelling"
  /\ core' = [c \in Replica |->
       CASE core[c] = "waiting" -> "aborting"
         [] core[c] \in {"spawn", "aborting"} -> "raised"
         [] OTHER -> core[c]]
  /\ shutdown' = [c \in Replica |->
       IF core[c] = "waiting" THEN [shutdown[c] EXCEPT !["start"] = "join"] ELSE shutdown[c]]
  /\ UNCHANGED <<proc, owned, routing>>

(* An unwinding that stops the cores that did start, and no other. *)
StopAfterFailureStarted ==
  /\ engine = "cancelling"
  /\ \A c \in Replica : core[c] \in {"started", "raised"}
  /\ engine' = "unwinding"
  /\ shutdown' = [c \in Replica |->
       [shutdown[c] EXCEPT !["stop"] =
          IF core[c] # "started" THEN "done" ELSE IF owned[c] THEN "join" ELSE "clear"]]
  /\ UNCHANGED <<core, proc, owned, routing>>

(* The second gather; then stop() on every core. *)
StopAfterFailure ==
  /\ engine = "cancelling"
  /\ \A c \in Replica : core[c] \in {"started", "raised"}
  /\ engine' = "unwinding"
  /\ shutdown' = [c \in Replica |->
       [shutdown[c] EXCEPT !["stop"] = IF owned[c] THEN "join" ELSE "clear"]]
  /\ UNCHANGED <<core, proc, owned, routing>>

(* stop() in service: the loop tasks are awaited, then the workers. *)
Stop ==
  /\ engine = "serving"
  /\ engine' = "stopping"
  /\ shutdown' = [c \in Replica |->
       [shutdown[c] EXCEPT !["stop"] = IF owned[c] THEN "join" ELSE "clear"]]
  /\ UNCHANGED <<core, proc, owned, routing>>

StopReturns ==
  /\ engine \in {"unwinding", "stopping"}
  /\ \A c \in Replica : shutdown[c]["stop"] = "done"
  /\ engine' = IF engine = "unwinding" THEN "raised" ELSE "stopped"
  /\ UNCHANGED <<core, proc, owned, shutdown, routing>>

(***************************************************************************)
(* Routing                                                                 *)
(***************************************************************************)
(* pending_token_load: what the scheduler's requests still have to do. *)
PendingTokenLoad(c) == SumFunction(left[c])

RouteLoad(c) == PendingTokenLoad(c) + extra[c]

(* Among the least loaded, the first at or after the counter. *)
SelectReplica ==
  CHOOSE c \in Replica :
    \A d \in Replica :
       \/ RouteLoad(c) < RouteLoad(d)
       \/ /\ RouteLoad(c) = RouteLoad(d)
          /\ (c - counter) % NumReplicas <= (d - counter) % NumReplicas

(* Scheduler.add_request: too long is rejected, generation is capped. *)
Rejected(r) == PromptLen[r] >= MaxSeqLen

Capped(r) == IF MaxNew[r] > MaxSeqLen - PromptLen[r] THEN MaxSeqLen - PromptLen[r] ELSE MaxNew[r]

With(f, k, v) == [x \in DOMAIN f \cup {k} |-> IF x = k THEN v ELSE f[x]]

Without(f, k) == Restrict(f, DOMAIN f \ {k})

(* What clear_route_extra_load leaves of the estimate in extra. *)
ClearRouteExtraLoad(ex, c, load) == [ex EXCEPT ![c] = IF @ > load THEN @ - load ELSE 0]

(* A finally clause that leaves the estimate of a rejected request. *)
FinallyKeeps(ex, c, load) == ex

(* What add_request's finally clause does when the request was rejected    *)
(* before on_queued.                                                       *)
FinallyClears(ex, c, load) == ClearRouteExtraLoad(ex, c, load)

EstimateRequestLoad(r) == PromptLen[r] + MaxNew[r]

(* add_request up to its first await.  A prompt without tokens fails after *)
(* the selection; a rejected one after its context was recorded.           *)
AddRequest(r) ==
  LET c == SelectReplica
      ex == [extra EXCEPT ![c] = @ + EstimateRequestLoad(r)]
  IN
  /\ engine = "serving"
  /\ client[r] = "new"
  /\ counter' = (c + 1) % NumReplicas
  /\ IF PromptLen[r] = 0
     THEN client' = [client EXCEPT ![r] = "failed"] /\ UNCHANGED <<extra, placement, contexts, left>>
     ELSE /\ contexts' = [contexts EXCEPT ![c] = @ \cup {r}]
          /\ IF Rejected(r)
             THEN /\ client' = [client EXCEPT ![r] = "failed"]
                  /\ extra' = FinallyClears(ex, c, EstimateRequestLoad(r))
                  /\ UNCHANGED <<placement, left>>
             ELSE /\ client' = [client EXCEPT ![r] = "consuming"]
                  /\ extra' = ClearRouteExtraLoad(ex, c, EstimateRequestLoad(r))
                  /\ placement' = With(placement, r, c)
                  /\ left' = [left EXCEPT ![c] = With(@, r, PromptLen[r] + Capped(r))]
  /\ UNCHANGED <<outputs, aborted, lifecycle>>

(* A step of a core: a chunk of the prompt, or tokens and maybe the end of *)
(* the request.                                                            *)
StepOutput(c, r) ==
  /\ engine = "serving"
  /\ r \in DOMAIN left[c]
  /\ \E n \in 0..(left[c][r] - 1), last \in BOOLEAN :
       /\ last => n < Capped(r)
       /\ n = 0 => last
       /\ left' = [left EXCEPT ![c] = IF last THEN Without(@, r) ELSE [@ EXCEPT ![r] = n]]
       /\ outputs' = IF r \in contexts[c] /\ n < Capped(r) /\ (last \/ r \in Streaming)
                     THEN [outputs EXCEPT ![r] = Append(@, last)] ELSE outputs
  /\ UNCHANGED <<counter, extra, placement, client, contexts, aborted, lifecycle>>

(* scheduler.abort_request and the context popped, on one core. *)
CoreAbort(c, r) ==
  /\ contexts' = [contexts EXCEPT ![c] = @ \ {r}]
  /\ left' = [left EXCEPT ![c] = Without(@, r)]

(* A response that is built as a whole: the consumer goes on to the end of *)
(* the core's generator, which then keeps the context.                     *)
WholeResponse(r) ==
  /\ client[r] = "consuming" /\ r \notin Streaming
  /\ outputs[r] # <<>>
  /\ outputs' = [outputs EXCEPT ![r] = Tail(@)]
  /\ client' = [client EXCEPT ![r] = "done"]
  /\ placement' = Without(placement, r)
  /\ UNCHANGED <<counter, extra, contexts, left, aborted, lifecycle>>

(* A streamed response: at the final output the consumer breaks off, at    *)
(* the yield of the router's generator.                                    *)
StreamResponse(r) ==
  /\ client[r] = "consuming" /\ r \in Streaming
  /\ outputs[r] # <<>>
  /\ outputs' = [outputs EXCEPT ![r] = Tail(@)]
  /\ IF Head(outputs[r])
     THEN /\ client' = [client EXCEPT ![r] = "closing"]
          /\ placement' = Without(placement, r)
     ELSE UNCHANGED <<client, placement>>
  /\ UNCHANGED <<counter, extra, contexts, left, aborted, lifecycle>>

(* The consumer is gone at a yield: the router's generator is closed. *)
Disconnect(r) ==
  /\ client[r] = "consuming"
  /\ client' = [client EXCEPT ![r] = "closing"]
  /\ placement' = Without(placement, r)
  /\ UNCHANGED <<counter, extra, contexts, left, outputs, aborted, lifecycle>>

(* A finally clause that looks the replica up in the placement table. *)
CloseInnerPlaced(r) ==
  /\ client[r] = "closing"
  /\ client' = [client EXCEPT ![r] = "done"]
  /\ \/ \E c \in Replica : r \in DOMAIN placement /\ r \in contexts[c] /\ CoreAbort(c, r)
     \/ r \notin DOMAIN placement /\ UNCHANGED <<contexts, left>>
  /\ UNCHANGED <<counter, extra, placement, outputs, aborted, lifecycle>>

(* The event loop closes the core's generator. *)
CloseInner(r) ==
  /\ client[r] = "closing"
  /\ client' = [client EXCEPT ![r] = "done"]
  /\ \/ \E c \in Replica : r \in contexts[c] /\ CoreAbort(c, r)
     \/ (\A c \in Replica : r \notin contexts[c]) /\ UNCHANGED <<contexts, left>>
  /\ UNCHANGED <<counter, extra, placement, outputs, aborted, lifecycle>>

(* The consumer is cancelled while it waits for the queue. *)
Cancel(r) ==
  /\ client[r] = "consuming"
  /\ outputs[r] = <<>>
  /\ client' = [client EXCEPT ![r] = "done"]
  /\ placement' = Without(placement, r)
  /\ \/ \E c \in Replica : r \in contexts[c] /\ CoreAbort(c, r)
     \/ (\A c \in Replica : r \notin contexts[c]) /\ UNCHANGED <<contexts, left>>
  /\ UNCHANGED <<counter, extra, outputs, aborted, lifecycle>>

(* An abort that goes by the placement table alone. *)
AbortTargetsPlaced(r) == IF r \in DOMAIN placement THEN {placement[r]} ELSE {}

(* The cores abort_request asks: the one it was placed on, or all. *)
AbortTargets(r) == IF r \in DOMAIN placement THEN {placement[r]} ELSE Replica

AbortRequest(r) ==
  LET hit == {c \in AbortTargets(r) : r \in contexts[c]}
  IN
  /\ engine = "serving"
  /\ client[r] # "new" /\ r \notin aborted
  /\ aborted' = aborted \cup {r}
  /\ contexts' = [c \in Replica |-> IF c \in hit THEN contexts[c] \ {r} ELSE contexts[c]]
  /\ left' = [c \in Replica |-> IF c \in hit THEN Without(left[c], r) ELSE left[c]]
  /\ outputs' = IF hit = {} THEN outputs ELSE [outputs EXCEPT ![r] = Append(@, TRUE)]
  /\ UNCHANGED <<counter, extra, placement, client, lifecycle>>

CoreStart(c) == SpawnWorker(c) \/ WorkerEntry(c) \/ WorkerReady(c) \/ InitTimeout(c)

Shutdown(c) == \E t \in ShutdownThread : ShutdownJoin(c, t) \/ ShutdownClear(c, t)

(* A gather that collects the errors of all cores before it raises. *)
StartFailsAll == (\A c \in Replica : core[c] = "raised") /\ CancelStart

(* An error of a core wakes gather. *)
StartFails == (\E c \in Replica : core[c] = "raised") /\ CancelStart

Interrupt == CancelStart

Serve(r) ==
  \/ \E c \in Replica : StepOutput(c, r)
  \/ WholeResponse(r) \/ StreamResponse(r)

RNext ==
  \/ \E c \in Replica : CoreStart(c) \/ Shutdown(c)
  \/ StartReturns \/ StartFails \/ Interrupt \/ StopAfterFailure \/ Stop \/ StopReturns
  \/ \E r \in Request :
        AddRequest(r) \/ Serve(r) \/ Disconnect(r) \/ CloseInner(r) \/ Cancel(r) \/ AbortRequest(r)

(* Tasks and threads that can go on do; a worker that loads ends somehow;  *)
(* nobody has to interrupt, to stop, to disconnect or to abort.            *)
RFairness ==
  /\ \A c \in Replica : WF_rvars(CoreStart(c)) /\ WF_rvars(Shutdown(c))
  /\ WF_rvars(StartReturns) /\ WF_rvars(StartFails)
  /\ WF_rvars(StopAfterFailure) /\ WF_rvars(StopReturns)
  /\ \A r \in Request : WF_rvars(Serve(r)) /\ WF_rvars(CloseInner(r))

-----------------------------------------------------------------------------
(* Outside add_request's first stretch no estimate is left in              *)
(* _route_extra_load, on any of its paths: a replica that looks busier     *)
(* than it is would be avoided for ever.                                   *)
ExtraLoadReturned == \A c \in Replica : extra[c] = 0

(* When start() raises, or stop() returns, no worker process is left, even *)
(* if two shutdowns of one core overlap or a start-up was cut short.       *)
NoOrphanWorkers ==
  engine \in {"raised", "stopped"} =>
    \A c \in Replica : proc[c] \in {"none", "dead", "failed"} /\ ~owned[c]

(* A start that returns has a worker that serves on every replica. *)
ServingWorkersAlive ==
  engine = "serving" => \A c \in Replica : proc[c] = "ready" /\ owned[c]

(* Whichever replica fails or is cancelled during start(), no worker       *)
(* process outlives the engine, and all are ready when start() returns.    *)
WorkersAccounted == NoOrphanWorkers /\ ServingWorkersAlive

(* abort_request takes a request off its replica, also while its generators *)
(* are being closed and it is no longer in the placement table.             *)
AbortedIsGone == \A r \in aborted, c \in Replica : r \notin DOMAIN left[c]

(* When the generators of a request are gone, so is its work: served,      *)
(* disconnected, cancelled, rejected or aborted, no scheduler keeps it.    *)
GoneMeansReleased ==
  \A r \in Request, c \in Replica :
     client[r] \in {"done", "failed"} => r \notin DOMAIN left[c]

(* A request that ends, by its last output, a disconnect, a cancellation   *)
(* or an abort at any await, leaves no extra load in the router and no     *)
(* work in the scheduler of any replica.                                   *)
RequestsReleased == ExtraLoadReturned /\ AbortedIsGone /\ GoneMeansReleased

(* start() comes to an end. *)
StartSettles == <>(engine # "starting" /\ engine # "cancelling" /\ engine # "unwinding")

-----------------------------------------------------------------------------
(***************************************************************************)
(* Inductive invariants (ServingFront_proofs).  A core hands over a worker *)
(* only once: a shutdown that is past its join, or that found no handle,   *)
(* leaves no process behind, and a core has a worker before it starts.     *)
(***************************************************************************)
WorkerInv ==
  /\ core \in [Replica -> {"spawn", "waiting", "started", "raised", "aborting"}]
  /\ proc \in [Replica -> {"none", "loading", "ready", "failed", "dead"}]
  /\ owned \in [Replica -> BOOLEAN]
  /\ shutdown \in [Replica -> [ShutdownThread -> {"off", "join", "clear", "done"}]]
  /\ \A c \in Replica :
       /\ core[c] \in {"spawn", "waiting"} => engine = "starting" /\ shutdown[c]["start"] = "off"
       /\ core[c] = "spawn" => proc[c] = "none"
       /\ core[c] = "waiting" => owned[c]
       /\ core[c] = "started" => shutdown[c]["start"] = "off"
       /\ core[c] = "started" /\ shutdown[c]["stop"] = "off" => proc[c] = "ready" /\ owned[c]
       /\ ~owned[c] => proc[c] \in {"none", "dead"}
       /\ \A t \in ShutdownThread :
            /\ shutdown[c][t] = "clear" => ~owned[c] \/ proc[c] = "dead"
            /\ shutdown[c][t] = "done" => ~owned[c]
       /\ engine \in {"starting", "cancelling", "serving"} => shutdown[c]["stop"] = "off"
       /\ engine = "serving" => core[c] = "started"
       /\ engine \in {"raised", "stopped"} => ~owned[c]

(* Where a request may be: before it is added nowhere, then on one replica *)
(* at most, the one it is placed on, whose core knows it for as long as    *)
(* its scheduler does.                                                     *)
Located(r) ==
  /\ \A c \in Replica : r \in DOMAIN left[c] => r \in contexts[c]
  /\ \A c, d \in Replica : r \in contexts[c] /\ r \in contexts[d] => c = d
  /\ \A c \in Replica : r \in contexts[c] /\ r \in DOMAIN placement => placement[r] = c
  /\ client[r] = "new" =>
       /\ outputs[r] = <<>> /\ r \notin aborted /\ r \notin DOMAIN placement
       /\ \A c \in Replica : r \notin contexts[c]

(* What keeps a request out of every scheduler. *)
OffSchedulers(r) ==
  \/ r \in aborted
  \/ client[r] \in {"done", "failed"}
  \/ r \notin Streaming /\ outputs[r] # <<>>

RouterInv ==
  /\ extra = [c \in Replica |-> 0]
  /\ contexts \in [Replica -> SUBSET Request]
  /\ left = [c \in Replica |-> left[c]]
  /\ client \in [Request -> {"new", "consuming", "closing", "done", "failed"}]
  /\ outputs \in [Request -> Seq(BOOLEAN)]
  /\ aborted \subseteq Request
  /\ \A r \in Request :
       Located(r) /\ (OffSchedulers(r) => \A c \in Replica : r \notin DOMAIN left[c])
=============================================================================
