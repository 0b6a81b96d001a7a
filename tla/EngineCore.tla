----------------------------- MODULE EngineCore -----------------------------
(***************************************************************************)
(* ReplicaEngineCore and its worker process: the protocol of steps.        *)
(*                                                                         *)
(* The engine is one asyncio coroutine (_engine_loop) that schedules,      *)
(* sends StepCommands over a FIFO queue and applies StepResults that come  *)
(* back over another one.  It keeps up to MaxInFlight steps in flight.     *)
(* Client coroutines (add_request, abort_request, a disconnect) run only   *)
(* where the engine coroutine is suspended: while it waits for a result    *)
(* ("await"), for the reply to a cleanup command ("flush") or sleeps       *)
(* ("idle").  The worker is a process of its own.                          *)
(*                                                                         *)
(* What the scheduler selects is left open here (module Scheduler): a step *)
(* carries any batch of requests that may still produce tokens, and a      *)
(* scheduling pass may preempt or reject others.                           *)
(***************************************************************************)
EXTENDS Naturals, Sequences, FiniteSets

CONSTANTS
  Request,      \* request identifiers, each used for one request
  MaxInFlight,  \* 2 with async scheduling, 1 without
  MaxTokens,    \* bound: steps after which every request has finished
  MaxPreempts,  \* bound: preemptions in a run
  Faults        \* which failures may happen, a subset of FaultKinds

FaultKinds == {"timeout", "flush_timeout", "worker_error", "worker_death"}

ASSUME RequestAssumption == IsFiniteSet(Request)
ASSUME MaxInFlightAssumption == MaxInFlight \in Nat \ {0}
ASSUME BoundsAssumption == MaxTokens \in Nat \ {0} /\ MaxPreempts \in Nat
ASSUME FaultsAssumption == Faults \subseteq FaultKinds

VARIABLES
  \* the engine coroutine
  pc,           \* "loop", or where it is suspended: "await", "flush", "idle"
  cur,          \* while in "await": the batch popped off batchQueue
  batchQueue,   \* _batch_queue: dispatched steps, oldest first
  stepCounter,  \* _step_counter
  discardIds,   \* _discard_result_step_ids
  pendingFree,  \* _pending_free_ids, a list that is never given an id twice
  workerKnown,  \* _worker_known_req_ids
  contexts,     \* keys of _request_contexts
  \* the scheduler, as far as the protocol sees it
  status,       \* per request: "new", "live", "preempted" or "gone"
  produced,     \* per request, the steps applied to it
  preempts,     \* preemptions so far
  \* the clients
  client,       \* per request: "new", "waiting" in the generator, or "done"
  outputs,      \* per request, the terminal items of ctx.queue
  \* the worker process and its two queues
  inQueue,      \* StepCommands in transit
  outQueue,     \* StepResults in transit
  workerUp,     \* the process is alive
  reqCache      \* keys of _req_cache

engineVars == <<pc, cur, batchQueue, stepCounter, discardIds, pendingFree,
                workerKnown, contexts>>
schedVars  == <<status, produced, preempts>>
clientVars == <<client, outputs>>
workerVars == <<inQueue, outQueue, workerUp, reqCache>>
vars == <<engineVars, schedVars, clientVars, workerVars>>

NoBatch == [id |-> 0, reqs |-> {}]

Batch   == [id : Nat, reqs : SUBSET Request]
Command == [id : Nat, reqs : SUBSET Request, fresh : SUBSET Request,
            finished : SUBSET Request]
Result  == [id : Nat, error : BOOLEAN]

Init ==
  /\ pc = "loop" /\ cur = NoBatch /\ batchQueue = <<>> /\ stepCounter = 0
  /\ discardIds = {} /\ pendingFree = {} /\ workerKnown = {} /\ contexts = {}
  /\ status = [r \in Request |-> "new"]
  /\ produced = [r \in Request |-> 0]
  /\ preempts = 0
  /\ client = [r \in Request |-> "new"]
  /\ outputs = [r \in Request |-> <<>>]
  /\ inQueue = <<>> /\ outQueue = <<>> /\ workerUp = TRUE /\ reqCache = {}

-----------------------------------------------------------------------------
(***************************************************************************)
(* Client coroutines.                                                      *)
(***************************************************************************)
Suspended == pc \in {"await", "flush", "idle"}

\* add_request up to its first await.  The context is registered first: a
\* request that the scheduler refuses (ValueError) raises out of the
\* generator and leaves its context behind.
AddRequest(r) ==
  /\ Suspended
  /\ client[r] = "new"
  /\ contexts' = contexts \cup {r}
  /\ \/ /\ status' = [status EXCEPT ![r] = "live"]
        /\ client' = [client EXCEPT ![r] = "waiting"]
     \/ /\ status' = [status EXCEPT ![r] = "gone"]
        /\ client' = [client EXCEPT ![r] = "done"]
  /\ UNCHANGED <<pc, cur, batchQueue, stepCounter, discardIds, pendingFree,
                 workerKnown, produced, preempts, outputs, workerVars>>

\* The generator takes the next item: a final output ends it and leaves the
\* context in place, an exception (a rejection) drops the context and is
\* raised to the caller.
Consume(r) ==
  /\ Suspended
  /\ client[r] = "waiting" /\ outputs[r] # <<>>
  /\ client' = [client EXCEPT ![r] = "done"]
  /\ outputs' = [outputs EXCEPT ![r] = Tail(@)]
  /\ contexts' = IF Head(outputs[r]) = "reject" THEN contexts \ {r} ELSE contexts
  /\ UNCHANGED <<pc, cur, batchQueue, stepCounter, discardIds, pendingFree,
                 workerKnown, schedVars, workerVars>>

\* The generator is cancelled, or closed before it resumed from the final
\* output: the finally block cleans up if the context is still there
\* (scheduler.abort_request, _schedule_worker_free).
Disconnect(r) ==
  /\ Suspended
  /\ client[r] = "waiting"
  /\ client' = [client EXCEPT ![r] = "done"]
  /\ IF r \in contexts
     THEN /\ contexts' = contexts \ {r}
          /\ status' = [status EXCEPT ![r] = "gone"]
          /\ pendingFree' = pendingFree \cup {r}
     ELSE UNCHANGED <<contexts, status, pendingFree>>
  /\ UNCHANGED <<pc, cur, batchQueue, stepCounter, discardIds, workerKnown,
                 produced, preempts, outputs, workerVars>>

\* abort_request, for a request whose context is still there.
Abort(r) ==
  /\ Suspended
  /\ r \in contexts
  /\ contexts' = contexts \ {r}
  /\ status' = [status EXCEPT ![r] = "gone"]
  /\ outputs' = [outputs EXCEPT ![r] = Append(@, "final")]
  /\ pendingFree' = pendingFree \cup {r}
  /\ UNCHANGED <<pc, cur, batchQueue, stepCounter, discardIds, workerKnown,
                 produced, preempts, client, workerVars>>

-----------------------------------------------------------------------------
(***************************************************************************)
(* The engine loop.                                                        *)
(***************************************************************************)
InFlight(r) == Cardinality({i \in DOMAIN batchQueue : r \in batchQueue[i].reqs})

\* The requests a scheduling pass may select.  Steps in flight count: async
\* scheduling has advanced their requests already.
Schedulable ==
  {r \in Request : \/ status[r] = "live" /\ produced[r] + InFlight(r) < MaxTokens
                   \/ status[r] = "preempted"}

\* Admitted requests: a step of theirs was applied or is in flight.
Running == {r \in Request : status[r] = "live" /\ (produced[r] > 0 \/ InFlight(r) > 0)}

HasWork == \E r \in Request : status[r] \in {"live", "preempted"}

\* What one pass of scheduler.schedule may return: a batch, the victims it
\* preempted and the waiting requests it rejected.  A pass that returns no
\* batch preempted or rejected somebody, or found nothing to run.
MayReturn(batch, victims, rejects) ==
  /\ batch \subseteq Schedulable
  /\ victims \subseteq Running \ batch
  /\ preempts + Cardinality(victims) <= MaxPreempts
  /\ rejects \subseteq {r \in Request : status[r] \in {"live", "preempted"}}
                      \ (Running \cup batch)
  /\ batch = {} => victims \cup rejects # {} \/ Schedulable = {}

\* The state scheduler.schedule leaves behind.  A restarted request is live.
Scheduled(batch, victims, rejects) ==
  /\ status' = [r \in Request |-> IF r \in batch THEN "live"
                                  ELSE IF r \in victims THEN "preempted"
                                  ELSE IF r \in rejects THEN "gone"
                                  ELSE status[r]]
  /\ preempts' = preempts + Cardinality(victims)
  /\ outputs' = [r \in Request |-> IF r \in rejects \cap contexts
                                   THEN Append(outputs[r], "reject") ELSE outputs[r]]

\* Mutant of FreedByPass: the lists are appended, not their ids.
FreedAppended(victims, rejects) == {victims, rejects \cap workerKnown}

\* The ids _try_dispatch_step adds to the pending frees after a pass.
FreedByPass(victims, rejects) == victims \cup (rejects \cap workerKnown)

\* Sending a command with its own step id (_build_step_command,
\* _flush_pending_frees): released ids are forgotten before the requests of
\* the batch that the worker does not know are given their NewRequestData.
Send(batch, freed) ==
  LET fresh == batch \ (workerKnown \ freed)
  IN  /\ stepCounter' = stepCounter + 1
      /\ pendingFree' = {}
      /\ workerKnown' = (workerKnown \ freed) \cup fresh
      /\ inQueue' = Append(inQueue, [id |-> stepCounter + 1, reqs |-> batch,
                                     fresh |-> fresh, finished |-> freed])

\* The loop blocks on the oldest step: it pops it and suspends.
AwaitOldest(queue) ==
  /\ pc' = "await" /\ cur' = Head(queue) /\ batchQueue' = Tail(queue)

\* Mutant of PipelineFull: one step too many.
PipelineOverfull(queue) == Len(queue) > MaxInFlight

\* _max_in_flight steps are under way.
PipelineFull(queue) == Len(queue) >= MaxInFlight

\* One iteration in which _try_dispatch_step sends a step.  The loop suspends
\* only when the pipeline is full.
Dispatch(batch, victims, rejects) ==
  /\ pc = "loop"
  /\ ~PipelineFull(batchQueue) /\ HasWork
  /\ batch # {} /\ MayReturn(batch, victims, rejects)
  /\ Scheduled(batch, victims, rejects)
  /\ Send(batch, pendingFree \cup FreedByPass(victims, rejects))
  /\ LET queue == Append(batchQueue, [id |-> stepCounter + 1, reqs |-> batch])
     IN  IF PipelineFull(queue)
         THEN AwaitOldest(queue)
         ELSE batchQueue' = queue /\ UNCHANGED <<pc, cur>>
  /\ UNCHANGED <<discardIds, contexts, produced, client, outQueue, workerUp, reqCache>>

\* An iteration that sends no step (pipeline full, no work, or an empty
\* schedule) blocks on the oldest step if there is one, else sends the
\* pending frees on their own (_flush_pending_frees), else sleeps.
NoDispatch(victims, rejects) ==
  /\ pc = "loop"
  /\ IF ~PipelineFull(batchQueue) /\ HasWork
     THEN MayReturn({}, victims, rejects)
     ELSE victims = {} /\ rejects = {}
  /\ Scheduled({}, victims, rejects)
  /\ LET freed == pendingFree \cup FreedByPass(victims, rejects)
     IN  \/ /\ batchQueue # <<>>
            /\ AwaitOldest(batchQueue)
            /\ pendingFree' = freed
            /\ UNCHANGED <<stepCounter, workerKnown, inQueue>>
         \/ /\ batchQueue = <<>> /\ freed # {}
            /\ pc' = "flush"
            /\ Send({}, freed)
            /\ UNCHANGED <<cur, batchQueue>>
         \/ /\ batchQueue = <<>> /\ freed = {}
            /\ pc' = "idle"
            /\ UNCHANGED <<cur, batchQueue, stepCounter, pendingFree, workerKnown,
                           inQueue>>
  /\ UNCHANGED <<discardIds, contexts, produced, client, outQueue, workerUp, reqCache>>

\* asyncio.sleep(engine_loop_interval) returns.
WakeUp ==
  /\ pc = "idle"
  /\ pc' = "loop"
  /\ UNCHANGED <<cur, batchQueue, stepCounter, discardIds, pendingFree, workerKnown,
                 contexts, schedVars, clientVars, workerVars>>

-----------------------------------------------------------------------------
(***************************************************************************)
(* Results (_get_live_result and its two callers).                         *)
(***************************************************************************)

\* The result of a step that was discarded is dropped.
Drain ==
  /\ pc \in {"await", "flush"}
  /\ outQueue # <<>> /\ Head(outQueue).id \in discardIds
  /\ discardIds' = discardIds \ {Head(outQueue).id}
  /\ outQueue' = Tail(outQueue)
  /\ UNCHANGED <<pc, cur, batchQueue, stepCounter, pendingFree, workerKnown, contexts,
                 schedVars, clientVars, inQueue, workerUp, reqCache>>

\* The next result that is not drained.
LiveResult == outQueue # <<>> /\ Head(outQueue).id \notin discardIds

\* Mutant of HandleStepError: the clients are not told.
HandleErrorSilently(resultPending) ==
  LET lost   == {batchQueue[i] : i \in DOMAIN batchQueue}
      failed == UNION {b.reqs : b \in lost \cup {cur}}
  IN  /\ discardIds' = discardIds \cup {b.id : b \in lost}
                                  \cup (IF resultPending THEN {cur.id} ELSE {})
      /\ batchQueue' = <<>> /\ cur' = NoBatch /\ pc' = "loop"
      /\ pendingFree' = pendingFree \cup failed
      /\ status' = [r \in Request |-> IF r \in failed THEN "gone" ELSE status[r]]
      /\ UNCHANGED <<stepCounter, workerKnown, contexts, produced, preempts, client,
                     outputs, inQueue, workerUp, reqCache>>

\* _handle_step_error: every batch in flight is dropped and its results are
\* marked for draining (the failed one's too if it is still to come); their
\* requests are aborted, their clients told.
HandleStepError(resultPending) ==
  LET lost   == {batchQueue[i] : i \in DOMAIN batchQueue}
      failed == UNION {b.reqs : b \in lost \cup {cur}}
  IN  /\ discardIds' = discardIds \cup {b.id : b \in lost}
                                  \cup (IF resultPending THEN {cur.id} ELSE {})
      /\ batchQueue' = <<>> /\ cur' = NoBatch /\ pc' = "loop"
      /\ outputs' = [r \in Request |-> IF r \in failed \cap contexts
                                       THEN Append(outputs[r], "final") ELSE outputs[r]]
      /\ pendingFree' = pendingFree \cup failed
      /\ status' = [r \in Request |-> IF r \in failed THEN "gone" ELSE status[r]]
      /\ UNCHANGED <<stepCounter, workerKnown, contexts, produced, preempts, client,
                     inQueue, workerUp, reqCache>>

\* The result names another step ("Pipeline desync") or reports an error.
ResultFails ==
  /\ pc = "await" /\ LiveResult
  /\ Head(outQueue).id # cur.id \/ Head(outQueue).error
  /\ outQueue' = Tail(outQueue)
  /\ HandleStepError(FALSE)

\* Mutant of StepTimeout: the late result of the step is not marked.
TimeoutForgotten ==
  /\ "timeout" \in Faults
  /\ pc = "await" /\ outQueue = <<>>
  /\ HandleStepError(FALSE)
  /\ UNCHANGED outQueue

\* The wait times out (queue.Empty): the worker is late, or dead.
StepTimeout ==
  /\ "timeout" \in Faults
  /\ pc = "await" /\ outQueue = <<>>
  /\ HandleStepError(TRUE)
  /\ UNCHANGED outQueue

\* _process_step_output: requests that were aborted, have finished or were
\* preempted since the step was sent are skipped; the others move on, and
\* finish at their limit or where the model ends them (eos).
ApplyResult(eos) ==
  LET active == {r \in cur.reqs : status[r] = "live"}
      done   == {r \in active : produced[r] + 1 = MaxTokens} \cup eos
  IN  /\ pc = "await" /\ LiveResult
      /\ Head(outQueue).id = cur.id /\ ~Head(outQueue).error
      /\ eos \subseteq active
      /\ outQueue' = Tail(outQueue)
      /\ produced' = [r \in Request |-> IF r \in active THEN produced[r] + 1 ELSE produced[r]]
      /\ status' = [r \in Request |-> IF r \in done THEN "gone" ELSE status[r]]
      /\ outputs' = [r \in Request |-> IF r \in done \cap contexts
                                       THEN Append(outputs[r], "final") ELSE outputs[r]]
      /\ pendingFree' = pendingFree \cup (done \cap contexts)
      /\ pc' = "loop" /\ cur' = NoBatch
      /\ UNCHANGED <<batchQueue, stepCounter, discardIds, workerKnown, contexts, preempts,
                     client, inQueue, workerUp, reqCache>>

\* The reply to a cleanup command, whichever step it names; or none in time.
FlushReply ==
  /\ pc = "flush"
  /\ \/ LiveResult /\ outQueue' = Tail(outQueue)
     \/ "flush_timeout" \in Faults /\ outQueue = <<>> /\ UNCHANGED outQueue
  /\ pc' = "idle"
  /\ UNCHANGED <<cur, batchQueue, stepCounter, discardIds, pendingFree, workerKnown, contexts,
                 schedVars, clientVars, inQueue, workerUp, reqCache>>

-----------------------------------------------------------------------------
(***************************************************************************)
(* The worker process (_serial_busy_loop).                                 *)
(***************************************************************************)

\* Mutants of Lifecycle: registrations come first; releases are ignored.
LifecycleSwapped(cache, cmd) == (cache \cup cmd.fresh) \ cmd.finished
LifecycleLeaks(cache, cmd) == cache \cup cmd.fresh

\* _apply_command_lifecycle: releases, then registrations.
Lifecycle(cache, cmd) == (cache \ cmd.finished) \cup cmd.fresh

\* _handle_step_command: one result for every command, an error if a request
\* of the step is not in the cache or if the executor fails.
WorkerStep ==
  /\ workerUp /\ inQueue # <<>>
  /\ LET cmd   == Head(inQueue)
         cache == Lifecycle(reqCache, cmd)
     IN  /\ reqCache' = cache
         /\ \E error \in BOOLEAN :
              /\ ~(cmd.reqs \subseteq cache) => error
              /\ error => ~(cmd.reqs \subseteq cache) \/ "worker_error" \in Faults
              /\ outQueue' = Append(outQueue, [id |-> cmd.id, error |-> error])
  /\ inQueue' = Tail(inQueue)
  /\ UNCHANGED <<workerUp, engineVars, schedVars, clientVars>>

WorkerDies ==
  /\ "worker_death" \in Faults
  /\ workerUp
  /\ workerUp' = FALSE
  /\ UNCHANGED <<inQueue, outQueue, reqCache, engineVars, schedVars, clientVars>>

-----------------------------------------------------------------------------
EngineStep ==
  \/ \E batch, victims, rejects \in SUBSET Request : Dispatch(batch, victims, rejects)
  \/ \E victims, rejects \in SUBSET Request : NoDispatch(victims, rejects)
  \/ WakeUp
  \/ Drain
  \/ ResultFails
  \/ StepTimeout
  \/ \E eos \in SUBSET Request : ApplyResult(eos)
  \/ FlushReply

Next ==
  \/ EngineStep
  \/ \E r \in Request : AddRequest(r) \/ Consume(r) \/ Disconnect(r) \/ Abort(r)
  \/ WorkerStep
  \/ WorkerDies

\* A wait for a result ends with a result or with its timeout, and the worker,
\* while it lives, serves its queue.  asyncio runs ready coroutines in FIFO
\* order, so a client with an item in its queue runs although the engine
\* coroutine keeps resuming: strong fairness, since a client is enabled only
\* while the engine is suspended.
Fairness ==
  /\ WF_vars(EngineStep)
  /\ WF_vars(WorkerStep)
  /\ \A r \in Request : SF_vars(Consume(r))

Spec == Init /\ [][Next]_vars /\ Fairness

-----------------------------------------------------------------------------
(***************************************************************************)
(* Properties.                                                             *)
(***************************************************************************)

\* Type invariant of the engine, its clients and the worker.
TypeOK ==
  /\ pc \in {"loop", "await", "flush", "idle"}
  /\ cur \in Batch /\ batchQueue \in Seq(Batch)
  /\ stepCounter \in Nat /\ discardIds \in SUBSET Nat
  /\ pendingFree \in SUBSET Request /\ workerKnown \in SUBSET Request
  /\ contexts \in SUBSET Request
  /\ status \in [Request -> {"new", "live", "preempted", "gone"}]
  /\ produced \in [Request -> Nat] /\ preempts \in Nat
  /\ client \in [Request -> {"new", "waiting", "done"}]
  /\ outputs \in [Request -> Seq({"final", "reject"})]
  /\ inQueue \in Seq(Command) /\ outQueue \in Seq(Result)
  /\ workerUp \in BOOLEAN /\ reqCache \in SUBSET Request

\* The result _await_and_apply_oldest is given is the one of the batch it
\* popped: the "Should never happen" branch of that method is dead code, across
\* timeouts whose answers come late and errors that drop the pipeline.
LiveResultMatches == pc = "await" /\ LiveResult => Head(outQueue).id = cur.id

\* The worker's request cache once the first n commands of a queue were
\* served: a request is in it if the last command that names it registers it,
\* or if it was there before and none of them releases it.
CacheAfter(queue, cache, n) ==
  {r \in Request :
     \/ \E i \in 1 .. n : /\ r \in queue[i].fresh
                          /\ \A m \in (i + 1) .. n : r \notin queue[m].finished
     \/ r \in cache /\ \A m \in 1 .. n : r \notin queue[m].finished}

\* _worker_known_req_ids is the worker's request cache as it will be once the
\* commands in transit have been served, through frees, restarts of preempted
\* requests and dropped batches.
KnownMirrorsWorker == workerKnown = CacheAfter(inQueue, reqCache, Len(inQueue))

\* The worker always has the prompt and the sampling parameters of every
\* request of the step it is about to run.
WorkerKnowsScheduled ==
  inQueue # <<>> => Head(inQueue).reqs \subseteq Lifecycle(reqCache, Head(inQueue))

\* The worker's request cache, seen through the commands still in its queue, is
\* what _worker_known_req_ids says, and it holds every request of a step by
\* the time the step is run.
WorkerCacheExact == KnownMirrorsWorker /\ WorkerKnowsScheduled

\* A request preempted with a step in flight is not sent again before that
\* step's result was drained: its stale tokens would be taken for new ones
\* (the NOTE in Scheduler.update_from_output).
RestartAfterDrain ==
  [][\A r \in Request : status[r] = "preempted" /\ status'[r] = "live" => InFlight(r) = 0]_vars

\* Every client that waits for its request is answered or gives up, also when
\* the worker fails, answers late or dies.
ClientAnswered == \A r \in Request : client[r] = "waiting" ~> client[r] = "done"

\* The state of a finished or aborted request does not stay in the worker.
WorkerForgets ==
  \A r \in Request : status[r] = "gone" ~> (r \notin reqCache \/ ~workerUp)

-----------------------------------------------------------------------------
(***************************************************************************)
(* The inductive invariant behind LiveResultMatches (EngineCore_proofs):   *)
(* the ids in transit are, in order and without repetition, exactly those  *)
(* the engine means to drain or still waits for.                           *)
(***************************************************************************)
Ids(queue) == {queue[i].id : i \in 1 .. Len(queue)}

Increasing(queue) ==
  \A i, j \in 1 .. Len(queue) : i < j => queue[i].id < queue[j].id

Transit == Ids(outQueue) \cup Ids(inQueue)

\* The step whose result the engine coroutine is suspended on.
Awaited == IF pc = "await" THEN {cur.id} ELSE IF pc = "flush" THEN {stepCounter} ELSE {}

Fifo ==
  /\ Increasing(outQueue) /\ Increasing(inQueue) /\ Increasing(batchQueue)
  /\ \A x \in Ids(outQueue), y \in Ids(inQueue) : x < y
  /\ \A x \in Transit : x <= stepCounter

Accounted ==
  /\ Transit = discardIds \cup Ids(batchQueue) \cup Awaited
  /\ discardIds \cap (Ids(batchQueue) \cup Awaited) = {}
  /\ pc = "await" => \A x \in Ids(batchQueue) : cur.id < x
  /\ pc = "flush" => batchQueue = <<>>

PipelineInv == TypeOK /\ Fifo /\ Accounted

\* WorkerKnowsScheduled of every command in transit.
ScheduledKnown ==
  \A n \in 1 .. Len(inQueue) : inQueue[n].reqs \subseteq CacheAfter(inQueue, reqCache, n)

CacheInv == TypeOK /\ KnownMirrorsWorker /\ ScheduledKnown

\* With two steps in flight at most one is queued behind the awaited one, and
\* a preempted request is in none that is queued.
PreemptInv ==
  /\ TypeOK
  /\ Len(batchQueue) < 2
  /\ \A r \in Request : status[r] = "preempted" =>
       \A i \in 1 .. Len(batchQueue) : r \notin batchQueue[i].reqs
=============================================================================
