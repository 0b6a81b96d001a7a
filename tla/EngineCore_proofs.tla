------------------------- MODULE EngineCore_proofs -------------------------
(***************************************************************************)
(* Proofs about the step protocol of EngineCore, for every number of       *)
(* requests, every pipeline depth and every bound.                         *)
(***************************************************************************)
EXTENDS EngineCore, FiniteSetTheorems, SequenceTheorems, TLAPS

USE MaxInFlightAssumption, BoundsAssumption

-----------------------------------------------------------------------------
(***************************************************************************)
(* Queues of things with an id.                                            *)
(***************************************************************************)
HasIds(S) == \A x \in S : x.id \in Nat

LEMMA RecordsHaveIds == HasIds(Batch) /\ HasIds(Command) /\ HasIds(Result)
BY DEF HasIds, Batch, Command, Result

LEMMA IdsAreNats ==
  ASSUME NEW S, HasIds(S), NEW q \in Seq(S)
  PROVE  Ids(q) \subseteq Nat
BY DEF HasIds, Ids

\* Appending an id above all others keeps a queue increasing.
LEMMA AppendIds ==
  ASSUME NEW S, HasIds(S), NEW q \in Seq(S), NEW e \in S
  PROVE  /\ Append(q, e) \in Seq(S)
         /\ Ids(Append(q, e)) = Ids(q) \cup {e.id}
         /\ Increasing(q) /\ (\A x \in Ids(q) : x < e.id) => Increasing(Append(q, e))
<1> DEFINE p == Append(q, e)
<1>1. /\ p \in Seq(S)
      /\ Len(p) = Len(q) + 1
      /\ \A i \in 1 .. Len(q) : p[i] = q[i]
      /\ p[Len(q) + 1] = e
  OBVIOUS
<1> HIDE DEF p
<1>2. Ids(p) = Ids(q) \cup {e.id}
  <2>1. ASSUME NEW x \in Ids(p) PROVE x \in Ids(q) \cup {e.id}
    <3>1. PICK i \in 1 .. Len(p) : x = p[i].id
      BY <2>1 DEF Ids
    <3>2. i \in 1 .. Len(q) \/ i = Len(q) + 1
      BY <1>1, <3>1
    <3> QED
      BY <1>1, <3>1, <3>2 DEF Ids
  <2>2. ASSUME NEW x \in Ids(q) PROVE x \in Ids(p)
    <3>1. PICK i \in 1 .. Len(q) : x = q[i].id
      BY <2>2 DEF Ids
    <3>2. i \in 1 .. Len(p) /\ p[i] = q[i]
      BY <1>1, <3>1
    <3> QED
      BY <3>1, <3>2 DEF Ids
  <2>3. e.id \in Ids(p)
    <3>1. Len(q) + 1 \in 1 .. Len(p)
      BY <1>1
    <3> QED
      BY <1>1, <3>1 DEF Ids
  <2> QED
    BY <2>1, <2>2, <2>3
<1>3. ASSUME Increasing(q), \A x \in Ids(q) : x < e.id
      PROVE  Increasing(p)
  <2> SUFFICES ASSUME NEW i \in 1 .. Len(p), NEW j \in 1 .. Len(p), i < j
               PROVE  p[i].id < p[j].id
    BY DEF Increasing
  <2>1. i \in 1 .. Len(q) /\ p[i] = q[i] /\ q[i].id \in Ids(q)
    BY <1>1 DEF Ids
  <2>2. CASE j \in 1 .. Len(q)
    BY <1>1, <1>3, <2>1, <2>2 DEF Increasing
  <2>3. CASE j = Len(q) + 1
    BY <1>1, <1>3, <2>1, <2>3
  <2> QED
    BY <1>1, <2>2, <2>3
<1> QED
  BY <1>1, <1>2, <1>3 DEF p

\* The head of an increasing queue has the least id, and leaves the others.
LEMMA TailIds ==
  ASSUME NEW S, HasIds(S), NEW q \in Seq(S), q # <<>>, Increasing(q)
  PROVE  /\ Tail(q) \in Seq(S)
         /\ Head(q) \in S
         /\ Increasing(Tail(q))
         /\ Ids(Tail(q)) = Ids(q) \ {Head(q).id}
         /\ Head(q).id \in Ids(q)
         /\ \A x \in Ids(q) : x = Head(q).id \/ Head(q).id < x
<1> DEFINE p == Tail(q)
<1>1. /\ p \in Seq(S)
      /\ Len(q) \in Nat /\ Len(q) >= 1
      /\ Len(p) = Len(q) - 1
      /\ \A i \in 1 .. Len(p) : p[i] = q[i + 1]
      /\ Head(q) = q[1] /\ q[1] \in S
  OBVIOUS
<1> HIDE DEF p
<1>2. Increasing(p)
  BY <1>1 DEF Increasing
<1>3. q[1].id \in Ids(q)
  BY <1>1 DEF Ids
<1>4. ASSUME NEW x \in Ids(q) PROVE x = q[1].id \/ (q[1].id < x /\ x \in Ids(p))
  <2>1. PICK i \in 1 .. Len(q) : x = q[i].id
    BY <1>4 DEF Ids
  <2>2. CASE i = 1
    BY <2>1, <2>2
  <2>3. CASE i > 1
    <3>1. i - 1 \in 1 .. Len(p) /\ p[i - 1] = q[i] /\ 1 \in 1 .. Len(q)
      BY <1>1, <2>1, <2>3
    <3> QED
      BY <2>1, <2>3, <3>1 DEF Ids, Increasing
  <2> QED
    BY <2>1, <2>2, <2>3
<1>5. ASSUME NEW x \in Ids(p) PROVE x \in Ids(q) /\ x # q[1].id
  <2>1. PICK i \in 1 .. Len(p) : x = p[i].id
    BY <1>5 DEF Ids
  <2>2. i + 1 \in 1 .. Len(q) /\ 1 \in 1 .. Len(q) /\ p[i] = q[i + 1] /\ 1 < i + 1
    BY <1>1, <2>1
  <2>3. q[1].id < q[i + 1].id
    BY <2>2 DEF Increasing
  <2>4. q[1].id \in Nat
    BY <1>1 DEF HasIds
  <2> QED
    BY <2>1, <2>2, <2>3, <2>4 DEF Ids
<1>6. Ids(p) = Ids(q) \ {q[1].id}
  BY <1>3, <1>4, <1>5
<1> QED
  BY <1>1, <1>2, <1>3, <1>4, <1>6 DEF p

\* The empty queue.
LEMMA EmptyIds == Ids(<<>>) = {} /\ Increasing(<<>>)
BY DEF Ids, Increasing

-----------------------------------------------------------------------------
(***************************************************************************)
(* Types.                                                                  *)
(***************************************************************************)
LEMMA InitTypeOK == Init => TypeOK
BY DEF Init, TypeOK, NoBatch, Batch

LEMMA SendTypes ==
  ASSUME TypeOK, NEW batch \in SUBSET Request, NEW freed \in SUBSET Request,
         Send(batch, freed)
  PROVE  /\ stepCounter' \in Nat /\ pendingFree' \in SUBSET Request
         /\ workerKnown' \in SUBSET Request
         /\ inQueue' \in Seq(Command)
<1> DEFINE fresh == batch \ (workerKnown \ freed)
           cmd == [id |-> stepCounter + 1, reqs |-> batch, fresh |-> fresh, finished |-> freed]
<1>1. cmd \in Command /\ fresh \in SUBSET Request
  BY DEF TypeOK, Command
<1>2. inQueue' = Append(inQueue, cmd)
  BY DEF Send
<1>3. inQueue' \in Seq(Command)
  BY <1>1, <1>2 DEF TypeOK
<1> HIDE DEF fresh, cmd
<1> QED
  BY <1>1, <1>3 DEF TypeOK, Send, fresh

LEMMA ScheduledTypes ==
  ASSUME TypeOK, NEW batch \in SUBSET Request, NEW victims \in SUBSET Request,
         NEW rejects \in SUBSET Request, Scheduled(batch, victims, rejects)
  PROVE  /\ status' \in [Request -> {"new", "live", "preempted", "gone"}]
         /\ preempts' \in Nat
         /\ outputs' \in [Request -> Seq({"final", "reject"})]
<1>1. Cardinality(victims) \in Nat
  BY RequestAssumption, FS_Subset, FS_CardinalityType
<1> QED
  BY <1>1 DEF TypeOK, Scheduled

LEMMA DispatchType ==
  ASSUME TypeOK, NEW batch \in SUBSET Request, NEW victims \in SUBSET Request,
         NEW rejects \in SUBSET Request, Dispatch(batch, victims, rejects)
  PROVE  TypeOK'
<1> DEFINE entry == [id |-> stepCounter + 1, reqs |-> batch]
           queue == Append(batchQueue, entry)
<1>1. entry \in Batch
  BY DEF TypeOK, Batch
<1> HIDE DEF entry
<1>2. pc' \in {"loop", "await", "flush", "idle"} /\ cur' \in Batch /\ batchQueue' \in Seq(Batch)
  <2>1. queue \in Seq(Batch) /\ Head(queue) \in Batch /\ Tail(queue) \in Seq(Batch)
    <3>1. batchQueue \in Seq(Batch)
      BY DEF TypeOK
    <3>2. queue \in Seq(Batch) /\ Len(queue) = Len(batchQueue) + 1
      BY <1>1, <3>1
    <3> HIDE DEF queue
    <3>3. queue # <<>>
      BY <3>1, <3>2
    <3> QED
      BY <3>2, <3>3
  <2>2. \/ pc' = "await" /\ cur' = Head(queue) /\ batchQueue' = Tail(queue)
        \/ batchQueue' = queue /\ UNCHANGED <<pc, cur>>
    BY DEF Dispatch, AwaitOldest, entry
  <2> HIDE DEF queue
  <2> QED
    BY <2>1, <2>2 DEF TypeOK
<1>3. /\ stepCounter' \in Nat /\ pendingFree' \in SUBSET Request
      /\ workerKnown' \in SUBSET Request
      /\ inQueue' \in Seq(Command)
  <2>1. pendingFree \cup FreedByPass(victims, rejects) \in SUBSET Request
    BY DEF TypeOK, FreedByPass
  <2> QED
    BY <2>1, SendTypes DEF Dispatch
<1>4. /\ status' \in [Request -> {"new", "live", "preempted", "gone"}]
      /\ preempts' \in Nat
      /\ outputs' \in [Request -> Seq({"final", "reject"})]
  BY ScheduledTypes DEF Dispatch
<1> QED
  BY <1>2, <1>3, <1>4 DEF TypeOK, Dispatch

LEMMA NoDispatchType ==
  ASSUME TypeOK, NEW victims \in SUBSET Request, NEW rejects \in SUBSET Request,
         NoDispatch(victims, rejects)
  PROVE  TypeOK'
<1> DEFINE freed == pendingFree \cup FreedByPass(victims, rejects)
<1>1. freed \in SUBSET Request /\ {} \in SUBSET Request
  BY DEF TypeOK, FreedByPass
<1> HIDE DEF freed
<1>2. /\ status' \in [Request -> {"new", "live", "preempted", "gone"}]
      /\ preempts' \in Nat
      /\ outputs' \in [Request -> Seq({"final", "reject"})]
  BY ScheduledTypes, <1>1 DEF NoDispatch
<1>3. UNCHANGED <<discardIds, contexts, produced, client, outQueue, workerUp, reqCache>>
  BY DEF NoDispatch
<1>4. CASE batchQueue # <<>> /\ AwaitOldest(batchQueue) /\ pendingFree' = freed
           /\ UNCHANGED <<stepCounter, workerKnown, inQueue>>
  <2>1. Head(batchQueue) \in Batch /\ Tail(batchQueue) \in Seq(Batch)
    BY <1>4 DEF TypeOK
  <2> QED
    BY <1>1, <1>2, <1>3, <1>4, <2>1 DEF TypeOK, AwaitOldest
<1>5. CASE pc' = "flush" /\ Send({}, freed) /\ UNCHANGED <<cur, batchQueue>>
  BY <1>1, <1>2, <1>3, <1>5, SendTypes DEF TypeOK
<1>6. CASE pc' = "idle" /\ UNCHANGED <<cur, batchQueue, stepCounter, pendingFree,
                                       workerKnown, inQueue>>
  BY <1>2, <1>3, <1>6 DEF TypeOK
<1> QED
  BY <1>4, <1>5, <1>6 DEF NoDispatch, freed

LEMMA HandleErrorType ==
  ASSUME TypeOK, NEW pending \in BOOLEAN, HandleStepError(pending),
         outQueue' \in Seq(Result)
  PROVE  TypeOK'
<1> DEFINE lost   == {batchQueue[i] : i \in DOMAIN batchQueue}
           failed == UNION {b.reqs : b \in lost \cup {cur}}
<1>1. lost \subseteq Batch
  BY DEF TypeOK
<1>2. failed \in SUBSET Request /\ {b.id : b \in lost} \in SUBSET Nat /\ cur.id \in Nat
  <2>1. cur \in Batch /\ \A b \in Batch : b.id \in Nat /\ b.reqs \subseteq Request
    BY DEF TypeOK, Batch
  <2> HIDE DEF lost
  <2> QED
    BY <1>1, <2>1
<1>3. /\ discardIds' = discardIds \cup {b.id : b \in lost}
                                  \cup (IF pending THEN {cur.id} ELSE {})
      /\ batchQueue' = <<>> /\ cur' = NoBatch /\ pc' = "loop"
      /\ outputs' = [r \in Request |-> IF r \in failed \cap contexts
                                       THEN Append(outputs[r], "final") ELSE outputs[r]]
      /\ pendingFree' = pendingFree \cup failed
      /\ status' = [r \in Request |-> IF r \in failed THEN "gone" ELSE status[r]]
      /\ UNCHANGED <<stepCounter, workerKnown, contexts, produced, preempts, client,
                     inQueue, workerUp, reqCache>>
  BY DEF HandleStepError
<1> HIDE DEF lost, failed
<1>4. discardIds' \in SUBSET Nat
  BY <1>2, <1>3 DEF TypeOK
<1>5. outputs' \in [Request -> Seq({"final", "reject"})]
  BY <1>3 DEF TypeOK
<1> QED
  BY <1>2, <1>3, <1>4, <1>5 DEF TypeOK, NoBatch, Batch

LEMMA ApplyResultType ==
  ASSUME TypeOK, NEW eos \in SUBSET Request, ApplyResult(eos)
  PROVE  TypeOK'
<1> DEFINE active == {r \in cur.reqs : status[r] = "live"}
           done   == {r \in active : produced[r] + 1 = MaxTokens} \cup eos
<1>1. active \in SUBSET Request /\ done \in SUBSET Request
  BY DEF TypeOK, Batch
<1>2. /\ outQueue # <<>> /\ outQueue' = Tail(outQueue)
      /\ produced' = [r \in Request |-> IF r \in active THEN produced[r] + 1 ELSE produced[r]]
      /\ status' = [r \in Request |-> IF r \in done THEN "gone" ELSE status[r]]
      /\ outputs' = [r \in Request |-> IF r \in done \cap contexts
                                       THEN Append(outputs[r], "final") ELSE outputs[r]]
      /\ pendingFree' = pendingFree \cup (done \cap contexts)
      /\ pc' = "loop" /\ cur' = NoBatch
      /\ UNCHANGED <<batchQueue, stepCounter, discardIds, workerKnown, contexts, preempts,
                     client, inQueue, workerUp, reqCache>>
  BY DEF ApplyResult, LiveResult
<1> HIDE DEF active, done
<1>3. outputs' \in [Request -> Seq({"final", "reject"})] /\ outQueue' \in Seq(Result)
  BY <1>2 DEF TypeOK
<1> QED
  BY <1>1, <1>2, <1>3 DEF TypeOK, NoBatch, Batch

LEMMA NextTypeOK == TypeOK /\ [Next]_vars => TypeOK'
<1> SUFFICES ASSUME TypeOK, [Next]_vars PROVE TypeOK'
  OBVIOUS
<1> USE DEF schedVars, clientVars, workerVars, engineVars
<1>1. CASE UNCHANGED vars
  BY <1>1 DEF TypeOK, vars
<1>2. ASSUME NEW r \in Request, AddRequest(r) \/ Disconnect(r) PROVE TypeOK'
  <2>1. CASE AddRequest(r)
    BY <2>1 DEF TypeOK, AddRequest
  <2>2. CASE Disconnect(r)
    BY <2>2 DEF TypeOK, Disconnect
  <2> QED
    BY <1>2, <2>1, <2>2
<1>3. ASSUME NEW r \in Request, Consume(r) PROVE TypeOK'
  <2>1. outputs' \in [Request -> Seq({"final", "reject"})]
    BY <1>3 DEF TypeOK, Consume
  <2> QED
    BY <1>3, <2>1 DEF TypeOK, Consume
<1>4. ASSUME NEW r \in Request, Abort(r) PROVE TypeOK'
  BY <1>4 DEF TypeOK, Abort
<1>5. CASE WakeUp
  BY <1>5 DEF TypeOK, WakeUp
<1>6. CASE Drain
  <2>1. outQueue \in Seq(Result) /\ outQueue # <<>> /\ outQueue' = Tail(outQueue)
        /\ discardIds' \in SUBSET Nat
    BY <1>6 DEF TypeOK, Drain
  <2>2. outQueue' \in Seq(Result)
    BY <2>1
  <2> QED
    BY <1>6, <2>1, <2>2 DEF TypeOK, Drain
<1>7. CASE ResultFails
  <2>1. outQueue' \in Seq(Result)
    BY <1>7 DEF TypeOK, ResultFails, LiveResult
  <2> QED
    BY <1>7, <2>1, HandleErrorType DEF ResultFails
<1>8. CASE StepTimeout
  <2>1. outQueue' \in Seq(Result)
    BY <1>8 DEF TypeOK, StepTimeout
  <2> QED
    BY <1>8, <2>1, HandleErrorType DEF StepTimeout
<1>9. CASE FlushReply
  <2>1. /\ outQueue \in Seq(Result)
        /\ \/ outQueue' = outQueue
           \/ outQueue # <<>> /\ outQueue' = Tail(outQueue)
    BY <1>9 DEF TypeOK, FlushReply, LiveResult
  <2>2. outQueue' \in Seq(Result)
    <3>1. CASE outQueue' = outQueue
      BY <2>1, <3>1
    <3>2. CASE outQueue # <<>> /\ outQueue' = Tail(outQueue)
      BY <2>1, <3>2
    <3> QED
      BY <2>1, <3>1, <3>2
  <2> QED
    <3>1. pc' = "idle" /\ UNCHANGED <<cur, batchQueue, stepCounter, discardIds, pendingFree,
             workerKnown, contexts, schedVars, clientVars, inQueue, workerUp, reqCache>>
      BY <1>9 DEF FlushReply
    <3> QED
      BY <2>2, <3>1 DEF TypeOK
<1>10. CASE WorkerStep
  <2>1. PICK error \in BOOLEAN :
          outQueue' = Append(outQueue, [id |-> Head(inQueue).id, error |-> error])
    BY <1>10 DEF WorkerStep
  <2>2. inQueue # <<>> /\ Head(inQueue) \in Command /\ inQueue' = Tail(inQueue)
    BY <1>10 DEF WorkerStep, TypeOK
  <2>3. [id |-> Head(inQueue).id, error |-> error] \in Result
    BY <2>2 DEF Command, Result
  <2>4. outQueue' \in Seq(Result) /\ inQueue' \in Seq(Command)
    BY <2>1, <2>2, <2>3 DEF TypeOK
  <2>5. reqCache' \in SUBSET Request
    BY <1>10, <2>2 DEF WorkerStep, Lifecycle, TypeOK, Command
  <2> QED
    BY <1>10, <2>4, <2>5 DEF WorkerStep, TypeOK
<1>11. CASE WorkerDies
  BY <1>11 DEF WorkerDies, TypeOK
<1> QED
  BY <1>1, <1>2, <1>3, <1>4, <1>5, <1>6, <1>7, <1>8, <1>9, <1>10, <1>11,
     DispatchType, NoDispatchType, ApplyResultType DEF Next, EngineStep

-----------------------------------------------------------------------------
(***************************************************************************)
(* The ids in transit.                                                     *)
(***************************************************************************)
pipeVars == <<pc, cur, batchQueue, stepCounter, discardIds, inQueue, outQueue>>

LEMMA InitPipeline == Init => Fifo /\ Accounted
BY EmptyIds DEF Init, Fifo, Accounted, Transit, Awaited

\* Steps that touch none of the pipeline's variables (clients, worker death).
LEMMA PipelineStutter ==
  ASSUME Fifo, Accounted, UNCHANGED pipeVars
  PROVE  (Fifo /\ Accounted)'
BY DEF Fifo, Accounted, Transit, Awaited, Ids, Increasing, pipeVars

\* The first result that is not drained is the one the engine waits for: it
\* has the least id in transit, and the awaited id is in transit too.
LEMMA LiveIsAwaited ==
  ASSUME PipelineInv, LiveResult, pc \in {"await", "flush"}
  PROVE  /\ outQueue # <<>>
         /\ Head(outQueue).id \notin discardIds
         /\ Awaited = {Head(outQueue).id}
<1>1. outQueue \in Seq(Result) /\ outQueue # <<>> /\ Head(outQueue).id \notin discardIds
  BY DEF PipelineInv, TypeOK, LiveResult
<1>2. /\ Head(outQueue).id \in Ids(outQueue)
      /\ \A x \in Ids(outQueue) : x = Head(outQueue).id \/ Head(outQueue).id < x
  BY <1>1, TailIds, RecordsHaveIds DEF PipelineInv, Fifo
<1>3. \A x \in Transit : x = Head(outQueue).id \/ Head(outQueue).id < x
  BY <1>2 DEF PipelineInv, Fifo, Transit
<1>4. Head(outQueue).id \in Ids(batchQueue) \cup Awaited
  BY <1>1, <1>2 DEF PipelineInv, Accounted, Transit
<1>5. Head(outQueue).id \in Nat
  BY <1>1, <1>2, IdsAreNats, RecordsHaveIds
<1>6. CASE pc = "flush"
  <2>1. Ids(batchQueue) = {}
    BY <1>6, EmptyIds DEF PipelineInv, Accounted
  <2> QED
    BY <1>1, <1>4, <1>6, <2>1 DEF Awaited
<1>7. CASE pc = "await"
  <2>1. Awaited = {cur.id} /\ cur.id \in Transit
    BY <1>7 DEF Awaited, PipelineInv, Accounted
  <2>2. cur.id \in Nat
    BY DEF PipelineInv, TypeOK, Batch
  <2>3. \A x \in Ids(batchQueue) : cur.id < x
    BY <1>7 DEF PipelineInv, Accounted
  <2>4. Head(outQueue).id \notin Ids(batchQueue)
    BY <1>3, <1>5, <2>1, <2>2, <2>3
  <2> QED
    BY <1>1, <1>4, <2>1, <2>4
<1> QED
  BY <1>6, <1>7

\* Sending a command: its id is above every id in transit.
LEMMA SendPipeline ==
  ASSUME PipelineInv, NEW batch \in SUBSET Request, NEW freed \in SUBSET Request,
         Send(batch, freed), outQueue' = outQueue
  PROVE  /\ stepCounter' = stepCounter + 1
         /\ Increasing(outQueue') /\ Increasing(inQueue')
         /\ \A x \in Ids(outQueue'), y \in Ids(inQueue') : x < y
         /\ \A x \in Transit' : x <= stepCounter'
         /\ Transit' = Transit \cup {stepCounter + 1}
         /\ stepCounter + 1 \notin Transit
<1> DEFINE cmd == [id |-> stepCounter + 1, reqs |-> batch,
                   fresh |-> batch \ (workerKnown \ freed), finished |-> freed]
<1>1. /\ TypeOK
      /\ stepCounter \in Nat
      /\ cmd \in Command /\ cmd.id = stepCounter + 1
      /\ inQueue \in Seq(Command)
  BY DEF PipelineInv, TypeOK, Command
<1>2. inQueue' = Append(inQueue, cmd) /\ stepCounter' = stepCounter + 1
  BY DEF Send
<1> HIDE DEF cmd
<1>3. /\ Ids(inQueue') = Ids(inQueue) \cup {stepCounter + 1}
      /\ (\A x \in Ids(inQueue) : x < stepCounter + 1) => Increasing(inQueue')
  BY <1>1, <1>2, AppendIds, RecordsHaveIds DEF PipelineInv, Fifo
<1>4. \A x \in Transit : x \in Nat /\ x <= stepCounter
  <2>1. Ids(outQueue) \subseteq Nat
    BY IdsAreNats, RecordsHaveIds DEF PipelineInv, TypeOK
  <2>2. Ids(inQueue) \subseteq Nat
    BY IdsAreNats, RecordsHaveIds DEF PipelineInv, TypeOK
  <2> QED
    BY <2>1, <2>2 DEF Transit, PipelineInv, Fifo
<1>5. Transit' = Transit \cup {stepCounter + 1}
  BY <1>3 DEF Transit
<1>6. \A x \in Transit : x < stepCounter + 1
  BY <1>1, <1>4
<1> QED
  BY <1>1, <1>2, <1>3, <1>4, <1>5, <1>6 DEF PipelineInv, Fifo, Transit

LEMMA DispatchPipeline ==
  ASSUME PipelineInv, NEW batch \in SUBSET Request, NEW victims \in SUBSET Request,
         NEW rejects \in SUBSET Request, Dispatch(batch, victims, rejects)
  PROVE  (Fifo /\ Accounted)'
<1> DEFINE entry == [id |-> stepCounter + 1, reqs |-> batch]
           queue == Append(batchQueue, entry)
<1>1. entry \in Batch /\ entry.id = stepCounter + 1 /\ batchQueue \in Seq(Batch)
      /\ stepCounter \in Nat
  BY DEF PipelineInv, TypeOK, Batch
<1>2. /\ pc = "loop" /\ discardIds' = discardIds /\ outQueue' = outQueue
      /\ Send(batch, pendingFree \cup FreedByPass(victims, rejects))
      /\ \/ pc' = "await" /\ cur' = Head(queue) /\ batchQueue' = Tail(queue)
         \/ batchQueue' = queue /\ UNCHANGED <<pc, cur>>
  BY DEF Dispatch, AwaitOldest
<1> HIDE DEF entry
<1>3. /\ stepCounter' = stepCounter + 1
      /\ Increasing(outQueue') /\ Increasing(inQueue')
      /\ \A x \in Ids(outQueue'), y \in Ids(inQueue') : x < y
      /\ \A x \in Transit' : x <= stepCounter'
      /\ Transit' = Transit \cup {stepCounter + 1}
      /\ stepCounter + 1 \notin Transit
  <2>1. pendingFree \cup FreedByPass(victims, rejects) \in SUBSET Request
    BY DEF PipelineInv, TypeOK, FreedByPass
  <2> QED
    BY <1>2, <2>1, SendPipeline
<1>4. /\ Transit = discardIds \cup Ids(batchQueue)
      /\ discardIds \cap Ids(batchQueue) = {}
      /\ Increasing(batchQueue)
      /\ \A x \in Ids(batchQueue) : x <= stepCounter
  BY <1>2 DEF PipelineInv, Fifo, Accounted, Awaited
<1>5. /\ queue \in Seq(Batch)
      /\ Ids(queue) = Ids(batchQueue) \cup {stepCounter + 1}
      /\ Increasing(queue)
  <2>1. \A x \in Ids(batchQueue) : x < entry.id
    <3>1. Ids(batchQueue) \subseteq Nat
      BY <1>1, IdsAreNats, RecordsHaveIds
    <3> QED
      BY <1>1, <1>4, <3>1
  <2> QED
    BY <1>1, <1>4, <2>1, AppendIds, RecordsHaveIds
<1>6. CASE pc' = "await" /\ cur' = Head(queue) /\ batchQueue' = Tail(queue)
  <2>1. queue # <<>>
    BY <1>5, EmptyIds
  <2>2. /\ Increasing(Tail(queue))
        /\ Ids(Tail(queue)) = Ids(queue) \ {Head(queue).id}
        /\ Head(queue).id \in Ids(queue)
        /\ \A x \in Ids(queue) : x = Head(queue).id \/ Head(queue).id < x
    BY <1>5, <2>1, TailIds, RecordsHaveIds
  <2>3. Awaited' = {Head(queue).id}
    BY <1>6 DEF Awaited
  <2> HIDE DEF queue
  <2>4. Ids(batchQueue') = Ids(Tail(queue)) /\ Increasing(batchQueue')
    BY <1>6, <2>2
  <2>5. Transit' = discardIds' \cup Ids(batchQueue') \cup Awaited'
    BY <1>2, <1>3, <1>4, <1>5, <2>2, <2>3, <2>4
  <2>6. discardIds' \cap (Ids(batchQueue') \cup Awaited') = {}
    BY <1>2, <1>3, <1>4, <1>5, <2>2, <2>3, <2>4
  <2>7. \A x \in Ids(batchQueue') : cur'.id < x
    BY <1>6, <2>2, <2>4
  <2> QED
    BY <1>3, <1>6, <2>4, <2>5, <2>6, <2>7 DEF Fifo, Accounted
<1>7. CASE batchQueue' = queue /\ UNCHANGED <<pc, cur>>
  <2> HIDE DEF queue
  <2>1. Awaited' = {} /\ Ids(batchQueue') = Ids(queue) /\ Increasing(batchQueue')
    BY <1>2, <1>5, <1>7 DEF Awaited
  <2> QED
    BY <1>2, <1>3, <1>4, <1>5, <1>7, <2>1 DEF Fifo, Accounted
<1> QED
  BY <1>2, <1>6, <1>7

LEMMA NoDispatchPipeline ==
  ASSUME PipelineInv, NEW victims \in SUBSET Request, NEW rejects \in SUBSET Request,
         NoDispatch(victims, rejects)
  PROVE  (Fifo /\ Accounted)'
<1> DEFINE freed == pendingFree \cup FreedByPass(victims, rejects)
<1>1. pc = "loop" /\ discardIds' = discardIds /\ outQueue' = outQueue
      /\ freed \in SUBSET Request /\ {} \in SUBSET Request
  BY DEF NoDispatch, PipelineInv, TypeOK, FreedByPass
<1>2. /\ Transit = discardIds \cup Ids(batchQueue)
      /\ discardIds \cap Ids(batchQueue) = {}
      /\ Increasing(batchQueue)
      /\ batchQueue \in Seq(Batch)
  BY <1>1 DEF PipelineInv, TypeOK, Fifo, Accounted, Awaited
<1> HIDE DEF freed
<1>3. CASE batchQueue # <<>> /\ AwaitOldest(batchQueue)
           /\ UNCHANGED <<stepCounter, workerKnown, inQueue>>
  <2>1. /\ Increasing(Tail(batchQueue))
        /\ Ids(Tail(batchQueue)) = Ids(batchQueue) \ {Head(batchQueue).id}
        /\ Head(batchQueue).id \in Ids(batchQueue)
        /\ \A x \in Ids(batchQueue) : x = Head(batchQueue).id \/ Head(batchQueue).id < x
    BY <1>2, <1>3, TailIds, RecordsHaveIds
  <2>2. /\ Awaited' = {Head(batchQueue).id} /\ Transit' = Transit
        /\ Ids(batchQueue') = Ids(Tail(batchQueue)) /\ Increasing(batchQueue')
        /\ pc' = "await" /\ cur' = Head(batchQueue)
    BY <1>1, <1>3, <2>1 DEF AwaitOldest, Awaited, Transit
  <2>3. Fifo'
    BY <1>1, <1>3, <2>2 DEF PipelineInv, Fifo
  <2>4. Transit' = discardIds' \cup Ids(batchQueue') \cup Awaited'
    BY <1>1, <1>2, <2>1, <2>2
  <2>5. discardIds' \cap (Ids(batchQueue') \cup Awaited') = {}
    BY <1>1, <1>2, <2>1, <2>2
  <2>6. \A x \in Ids(batchQueue') : cur'.id < x
    BY <2>1, <2>2
  <2> QED
    BY <2>2, <2>3, <2>4, <2>5, <2>6 DEF Accounted
<1>4. CASE batchQueue = <<>> /\ pc' = "flush" /\ Send({}, freed) /\ UNCHANGED <<cur, batchQueue>>
  <2>1. /\ stepCounter' = stepCounter + 1
        /\ Increasing(outQueue') /\ Increasing(inQueue')
        /\ \A x \in Ids(outQueue'), y \in Ids(inQueue') : x < y
        /\ \A x \in Transit' : x <= stepCounter'
        /\ Transit' = Transit \cup {stepCounter + 1}
        /\ stepCounter + 1 \notin Transit
    BY <1>1, <1>4, SendPipeline
  <2>2. Awaited' = {stepCounter + 1} /\ Ids(batchQueue') = {} /\ Ids(batchQueue) = {}
        /\ Increasing(batchQueue')
    BY <1>4, <2>1, EmptyIds DEF Awaited
  <2> QED
    BY <1>1, <1>2, <1>4, <2>1, <2>2 DEF Fifo, Accounted
<1>5. CASE pc' = "idle" /\ UNCHANGED <<cur, batchQueue, stepCounter, pendingFree,
                                       workerKnown, inQueue>>
  <2>1. Awaited' = {} /\ Transit' = Transit /\ Ids(batchQueue') = Ids(batchQueue)
        /\ Increasing(batchQueue')
    BY <1>1, <1>2, <1>5 DEF Awaited, Transit
  <2>2. Fifo'
    BY <1>1, <1>5, <2>1 DEF PipelineInv, Fifo
  <2> QED
    BY <1>1, <1>2, <1>5, <2>1, <2>2 DEF Accounted
<1> QED
  BY <1>3, <1>4, <1>5 DEF NoDispatch, freed

\* Taking the head off outQueue takes its id, the least, out of transit.
LEMMA TakeResult ==
  ASSUME PipelineInv, outQueue # <<>>, outQueue' = Tail(outQueue),
         UNCHANGED <<inQueue, stepCounter>>
  PROVE  /\ Increasing(outQueue') /\ Increasing(inQueue')
         /\ \A x \in Ids(outQueue'), y \in Ids(inQueue') : x < y
         /\ \A x \in Transit' : x <= stepCounter'
         /\ Transit' = Transit \ {Head(outQueue).id}
<1>1. outQueue \in Seq(Result) /\ inQueue \in Seq(Command)
  BY DEF PipelineInv, TypeOK
<1>2. /\ Increasing(Tail(outQueue))
      /\ Ids(Tail(outQueue)) = Ids(outQueue) \ {Head(outQueue).id}
      /\ Head(outQueue).id \in Ids(outQueue)
  BY <1>1, TailIds, RecordsHaveIds DEF PipelineInv, Fifo
<1>3. Ids(outQueue') = Ids(outQueue) \ {Head(outQueue).id} /\ Ids(inQueue') = Ids(inQueue)
      /\ Increasing(outQueue') /\ Increasing(inQueue')
  BY <1>2 DEF PipelineInv, Fifo
<1>4. Head(outQueue).id \notin Ids(inQueue)
  <2>1. Ids(outQueue) \subseteq Nat
    BY <1>1, IdsAreNats, RecordsHaveIds
  <2> QED
    BY <1>2, <2>1 DEF PipelineInv, Fifo
<1>5. Transit' = Transit \ {Head(outQueue).id}
  BY <1>3, <1>4 DEF Transit
<1>6. \A x \in Ids(outQueue'), y \in Ids(inQueue') : x < y
  BY <1>3 DEF PipelineInv, Fifo
<1>7. \A x \in Transit' : x <= stepCounter'
  BY <1>5 DEF PipelineInv, Fifo
<1> QED
  BY <1>3, <1>5, <1>6, <1>7

LEMMA DrainPipeline == ASSUME PipelineInv, Drain PROVE (Fifo /\ Accounted)'
<1>1. /\ outQueue # <<>> /\ outQueue' = Tail(outQueue)
      /\ Head(outQueue).id \in discardIds
      /\ discardIds' = discardIds \ {Head(outQueue).id}
      /\ UNCHANGED <<pc, cur, batchQueue, stepCounter, inQueue>>
  BY DEF Drain
<1>2. Awaited' = Awaited /\ Ids(batchQueue') = Ids(batchQueue)
  BY <1>1 DEF Awaited
<1>3. Fifo' /\ Transit' = Transit \ {Head(outQueue).id}
  BY <1>1, TakeResult DEF PipelineInv, Fifo
<1>4. Transit' = discardIds' \cup Ids(batchQueue') \cup Awaited'
      /\ discardIds' \cap (Ids(batchQueue') \cup Awaited') = {}
  BY <1>1, <1>2, <1>3 DEF PipelineInv, Accounted
<1> QED
  BY <1>1, <1>2, <1>3, <1>4 DEF PipelineInv, Accounted

\* A step fails: every id the engine knew of is accounted for by draining.
LEMMA ErrorPipeline ==
  ASSUME PipelineInv, pc = "await", NEW pending \in BOOLEAN, HandleStepError(pending),
         \/ pending /\ outQueue' = outQueue
         \/ ~pending /\ LiveResult /\ outQueue' = Tail(outQueue)
  PROVE  (Fifo /\ Accounted)'
<1>1. /\ discardIds' = discardIds \cup Ids(batchQueue)
                       \cup (IF pending THEN {cur.id} ELSE {})
      /\ batchQueue' = <<>> /\ pc' = "loop" /\ UNCHANGED <<stepCounter, inQueue>>
  <2>1. batchQueue \in Seq(Batch)
    BY DEF PipelineInv, TypeOK
  <2>2. {b.id : b \in {batchQueue[i] : i \in DOMAIN batchQueue}} = Ids(batchQueue)
    BY <2>1 DEF Ids
  <2> QED
    BY <2>2 DEF HandleStepError
<1>2. Awaited' = {} /\ Ids(batchQueue') = {} /\ Increasing(batchQueue')
  BY <1>1, EmptyIds DEF Awaited
<1>3. Awaited = {cur.id} /\ Transit = discardIds \cup Ids(batchQueue) \cup {cur.id}
      /\ cur.id \notin discardIds /\ cur.id \notin Ids(batchQueue)
  <2>1. Awaited = {cur.id} /\ cur.id \in Nat
    BY DEF Awaited, PipelineInv, TypeOK, Batch
  <2> QED
    BY <2>1 DEF PipelineInv, Accounted
<1>4. CASE pending /\ outQueue' = outQueue
  <2>1. Transit' = Transit /\ Fifo'
    BY <1>1, <1>2, <1>4 DEF PipelineInv, Fifo, Transit
  <2> QED
    BY <1>1, <1>2, <1>3, <1>4, <2>1 DEF Accounted
<1>5. CASE ~pending /\ LiveResult /\ outQueue' = Tail(outQueue)
  <2>1. outQueue # <<>> /\ Head(outQueue).id = cur.id
    BY <1>3, <1>5, LiveIsAwaited
  <2>2. Fifo' /\ Transit' = Transit \ {cur.id}
    BY <1>1, <1>2, <1>5, <2>1, TakeResult DEF Fifo
  <2> QED
    BY <1>1, <1>2, <1>3, <1>5, <2>2 DEF Accounted
<1> QED
  BY <1>4, <1>5

\* A result is applied, or the reply to a cleanup command taken.
LEMMA TakeAwaited ==
  ASSUME PipelineInv, pc \in {"await", "flush"}, LiveResult, outQueue' = Tail(outQueue),
         pc' \in {"loop", "idle"},
         UNCHANGED <<batchQueue, stepCounter, discardIds, inQueue>>
  PROVE  (Fifo /\ Accounted)'
<1>1. outQueue # <<>> /\ Awaited = {Head(outQueue).id}
  BY LiveIsAwaited
<1>2. Awaited' = {} /\ Ids(batchQueue') = Ids(batchQueue) /\ discardIds' = discardIds
  BY DEF Awaited
<1>3. Fifo' /\ Transit' = Transit \ {Head(outQueue).id}
  BY <1>1, TakeResult DEF PipelineInv, Fifo
<1>4. Head(outQueue).id \notin Ids(batchQueue)
  <2>1. CASE pc = "flush"
    BY <2>1, EmptyIds DEF PipelineInv, Accounted
  <2>2. CASE pc = "await"
    <3>1. cur.id = Head(outQueue).id /\ cur.id \in Nat
      BY <1>1, <2>2 DEF Awaited, PipelineInv, TypeOK, Batch
    <3> QED
      BY <2>2, <3>1 DEF PipelineInv, Accounted
  <2> QED
    BY <2>1, <2>2
<1>5. Transit' = discardIds' \cup Ids(batchQueue') \cup Awaited'
      /\ discardIds' \cap (Ids(batchQueue') \cup Awaited') = {}
  BY <1>1, <1>2, <1>3, <1>4 DEF PipelineInv, Accounted
<1> QED
  BY <1>3, <1>5 DEF Accounted

LEMMA WorkerPipeline == ASSUME PipelineInv, WorkerStep PROVE (Fifo /\ Accounted)'
<1>1. /\ inQueue # <<>> /\ inQueue' = Tail(inQueue)
      /\ UNCHANGED <<pc, cur, batchQueue, stepCounter, discardIds>>
  BY DEF WorkerStep, engineVars
<1>2. PICK error \in BOOLEAN :
        outQueue' = Append(outQueue, [id |-> Head(inQueue).id, error |-> error])
  BY DEF WorkerStep
<1> DEFINE h == Head(inQueue).id
           res == [id |-> h, error |-> error]
<1>3. outQueue \in Seq(Result) /\ inQueue \in Seq(Command)
  BY DEF PipelineInv, TypeOK
<1>4. /\ Increasing(Tail(inQueue))
      /\ Ids(Tail(inQueue)) = Ids(inQueue) \ {h}
      /\ h \in Ids(inQueue)
      /\ \A x \in Ids(inQueue) : x = h \/ h < x
  BY <1>1, <1>3, TailIds, RecordsHaveIds DEF PipelineInv, Fifo
<1>5. h \in Nat /\ res \in Result /\ res.id = h
  BY <1>3, <1>4, IdsAreNats, RecordsHaveIds DEF Result
<1> HIDE DEF h, res
<1>6. /\ Ids(outQueue') = Ids(outQueue) \cup {h}
      /\ Increasing(outQueue')
  <2>1. \A x \in Ids(outQueue) : x < h
    BY <1>4 DEF PipelineInv, Fifo
  <2>2. outQueue' = Append(outQueue, res) /\ Increasing(outQueue)
    BY <1>2 DEF res, h, PipelineInv, Fifo
  <2> QED
    BY <1>3, <1>5, <2>1, <2>2, AppendIds, RecordsHaveIds
<1>7. Ids(inQueue') = Ids(inQueue) \ {h} /\ Increasing(inQueue')
  BY <1>1, <1>4
<1>8. Transit' = Transit
  BY <1>4, <1>6, <1>7 DEF Transit
<1>9. \A x \in Ids(outQueue'), y \in Ids(inQueue') : x < y
  BY <1>4, <1>6, <1>7 DEF PipelineInv, Fifo
<1>10. Fifo'
  BY <1>1, <1>6, <1>7, <1>8, <1>9 DEF PipelineInv, Fifo
<1>11. Awaited' = Awaited
  BY <1>1 DEF Awaited
<1> QED
  BY <1>1, <1>8, <1>10, <1>11 DEF PipelineInv, Accounted

-----------------------------------------------------------------------------
(***************************************************************************)
(* Theorems.                                                               *)
(***************************************************************************)

\* Type correctness of the engine, its clients and the worker.
THEOREM TypeCorrect == Spec => []TypeOK
BY InitTypeOK, NextTypeOK, PTL DEF Spec

LEMMA NextPipeline ==
  ASSUME "flush_timeout" \notin Faults
  PROVE  PipelineInv /\ [Next]_vars => PipelineInv'
<1> SUFFICES ASSUME PipelineInv, [Next]_vars PROVE (Fifo /\ Accounted)'
  BY NextTypeOK DEF PipelineInv
<1>1. CASE UNCHANGED vars
  BY <1>1, PipelineStutter DEF vars, engineVars, workerVars, pipeVars, PipelineInv
<1>2. ASSUME NEW r \in Request, AddRequest(r) \/ Consume(r) \/ Disconnect(r) \/ Abort(r)
      PROVE  (Fifo /\ Accounted)'
  BY <1>2, PipelineStutter
     DEF AddRequest, Consume, Disconnect, Abort, workerVars, pipeVars, PipelineInv
<1>3. CASE WorkerDies
  BY <1>3, PipelineStutter DEF WorkerDies, engineVars, pipeVars, PipelineInv
<1>4. CASE WakeUp
  <2>1. UNCHANGED <<cur, batchQueue, stepCounter, discardIds, inQueue, outQueue>>
        /\ pc = "idle" /\ pc' = "loop"
    BY <1>4 DEF WakeUp, workerVars
  <2> QED
    <3>1. Awaited = {} /\ Awaited' = {} /\ Transit' = Transit
          /\ Ids(batchQueue') = Ids(batchQueue)
      BY <2>1 DEF Awaited, Transit
    <3>2. Fifo'
      BY <2>1, <3>1 DEF PipelineInv, Fifo
    <3> QED
      BY <2>1, <3>1, <3>2 DEF PipelineInv, Accounted
<1>5. CASE ResultFails
  BY <1>5, ErrorPipeline DEF ResultFails
<1>6. CASE StepTimeout
  BY <1>6, ErrorPipeline DEF StepTimeout
<1>7. ASSUME NEW eos \in SUBSET Request, ApplyResult(eos) PROVE (Fifo /\ Accounted)'
  BY <1>7, TakeAwaited DEF ApplyResult
<1>8. CASE FlushReply
  BY <1>8, TakeAwaited DEF FlushReply
<1> QED
  BY <1>1, <1>2, <1>3, <1>4, <1>5, <1>6, <1>7, <1>8, DispatchPipeline,
     NoDispatchPipeline, DrainPipeline, WorkerPipeline DEF Next, EngineStep

\* As long as cleanup commands are answered in time, every id in transit is
\* one the engine drains or waits for, in order.
THEOREM PipelineInvariant ==
  ASSUME "flush_timeout" \notin Faults
  PROVE  Spec => []PipelineInv
<1>1. Init => PipelineInv
  BY InitTypeOK, InitPipeline DEF PipelineInv
<1> QED
  BY <1>1, NextPipeline, PTL DEF Spec

\* A live result is always the one of the oldest batch, whatever steps timed
\* out or failed before it: no result is taken for another step's.
THEOREM NoDesync ==
  ASSUME "flush_timeout" \notin Faults
  PROVE  Spec => []LiveResultMatches
<1>1. PipelineInv => LiveResultMatches
  <2> SUFFICES ASSUME PipelineInv, pc = "await", LiveResult
               PROVE  Head(outQueue).id = cur.id
    BY DEF LiveResultMatches
  <2>1. Awaited = {Head(outQueue).id}
    BY LiveIsAwaited
  <2> QED
    BY <2>1 DEF Awaited
<1> QED
  BY <1>1, PipelineInvariant, PTL

-----------------------------------------------------------------------------
(***************************************************************************)
(* The worker's request cache.                                             *)
(***************************************************************************)

\* What one more command at the end of the queue does to the final cache.
LEMMA CacheAppend ==
  ASSUME NEW q \in Seq(Command), NEW e \in Command, NEW cache \in SUBSET Request
  PROVE  /\ CacheAfter(Append(q, e), cache, Len(q) + 1)
              = Lifecycle(CacheAfter(q, cache, Len(q)), e)
         /\ \A n \in 1 .. Len(q) : CacheAfter(Append(q, e), cache, n) = CacheAfter(q, cache, n)
<1> DEFINE p == Append(q, e)
           N == Len(q)
<1>1. /\ N \in Nat
      /\ \A i \in 1 .. N : p[i] = q[i]
      /\ p[N + 1] = e
  OBVIOUS
<1>2. e.fresh \subseteq Request /\ e.finished \subseteq Request
  BY DEF Command
<1> HIDE DEF p, N
<1>3. ASSUME NEW n \in 1 .. N PROVE CacheAfter(p, cache, n) = CacheAfter(q, cache, n)
  BY <1>1, <1>3 DEF CacheAfter
<1>4. ASSUME NEW r \in Request
      PROVE  r \in CacheAfter(p, cache, N + 1) <=> r \in Lifecycle(CacheAfter(q, cache, N), e)
  <2>1. CASE r \in e.fresh
    <3>1. N + 1 \in 1 .. N + 1 /\ \A m \in (N + 1 + 1) .. N + 1 : r \notin p[m].finished
      BY <1>1
    <3> QED
      BY <1>1, <2>1, <3>1 DEF CacheAfter, Lifecycle
  <2>2. CASE r \notin e.fresh /\ r \in e.finished
    <3>1. N + 1 \in 1 .. N + 1 /\ \A i \in 1 .. N : N + 1 \in (i + 1) .. (N + 1)
      BY <1>1
    <3>2. \A i \in 1 .. N + 1 : i \in 1 .. N \/ i = N + 1
      BY <1>1
    <3> QED
      BY <1>1, <2>2, <3>1, <3>2 DEF CacheAfter, Lifecycle
  <2>3. CASE r \notin e.fresh /\ r \notin e.finished
    <3>1. \A i \in 1 .. N + 1 : i \in 1 .. N \/ i = N + 1
      BY <1>1
    <3>2. \A i \in 1 .. N : /\ i \in 1 .. N + 1
                            /\ (i + 1) .. N \subseteq 1 .. N
                            /\ (i + 1) .. (N + 1) = ((i + 1) .. N) \cup {N + 1}
      BY <1>1
    <3>3. (\A m \in 1 .. N + 1 : r \notin p[m].finished) <=> (\A m \in 1 .. N : r \notin q[m].finished)
      BY <1>1, <2>3, <3>1
    <3>4. ASSUME NEW i \in 1 .. N
          PROVE  (r \in p[i].fresh /\ \A m \in (i + 1) .. (N + 1) : r \notin p[m].finished)
                   <=> (r \in q[i].fresh /\ \A m \in (i + 1) .. N : r \notin q[m].finished)
      BY <1>1, <2>3, <3>2
    <3>5. (\E i \in 1 .. N + 1 : r \in p[i].fresh /\ \A m \in (i + 1) .. (N + 1) : r \notin p[m].finished)
            <=> (\E i \in 1 .. N : r \in q[i].fresh /\ \A m \in (i + 1) .. N : r \notin q[m].finished)
      BY <1>1, <2>3, <3>1, <3>2, <3>4
    <3> QED
      BY <2>3, <3>3, <3>5 DEF CacheAfter, Lifecycle
  <2> QED
    BY <2>1, <2>2, <2>3
<1>5. CacheAfter(p, cache, N + 1) \subseteq Request
      /\ Lifecycle(CacheAfter(q, cache, N), e) \subseteq Request
  BY <1>2 DEF CacheAfter, Lifecycle
<1>6. CacheAfter(p, cache, N + 1) = Lifecycle(CacheAfter(q, cache, N), e)
  BY <1>4, <1>5
<1> QED
  BY <1>3, <1>6 DEF p, N

\* Serving the first command leaves what the rest of the queue does.
LEMMA CacheTail ==
  ASSUME NEW q \in Seq(Command), q # <<>>, NEW cache \in SUBSET Request
  PROVE  \A n \in 0 .. Len(q) - 1 :
           CacheAfter(Tail(q), Lifecycle(cache, Head(q)), n) = CacheAfter(q, cache, n + 1)
<1> DEFINE p == Tail(q)
           e == Head(q)
<1>1. /\ Len(q) \in Nat /\ Len(q) >= 1
      /\ Len(p) = Len(q) - 1
      /\ \A i \in 1 .. Len(q) - 1 : p[i] = q[i + 1]
      /\ e = q[1] /\ e \in Command
  OBVIOUS
<1>2. e.fresh \subseteq Request /\ e.finished \subseteq Request
  BY <1>1 DEF Command
<1> HIDE DEF p, e
<1>3. ASSUME NEW n \in 0 .. Len(q) - 1, NEW r \in Request
      PROVE  r \in CacheAfter(p, Lifecycle(cache, e), n) <=> r \in CacheAfter(q, cache, n + 1)
  <2> DEFINE Clear(i) == \A m \in (i + 1) .. (n + 1) : r \notin q[m].finished
  <2>1. ASSUME NEW i \in 0 .. n
        PROVE  (\A m \in (i + 1) .. n : r \notin p[m].finished) <=> Clear(i + 1)
    <3>1. \A m \in (i + 1) .. n : p[m] = q[m + 1] /\ m + 1 \in (i + 1 + 1) .. (n + 1)
      BY <1>1
    <3>2. \A m \in (i + 1 + 1) .. (n + 1) : m - 1 \in (i + 1) .. n /\ p[m - 1] = q[m]
      BY <1>1
    <3> QED
      BY <3>1, <3>2
  <2>2. (\A m \in 1 .. n : r \notin p[m].finished) <=> Clear(1)
    <3>1. 0 \in 0 .. n /\ 0 + 1 = 1
      OBVIOUS
    <3>2. (\A m \in (0 + 1) .. n : r \notin p[m].finished) <=> Clear(0 + 1)
      BY <2>1, <3>1
    <3> HIDE DEF Clear
    <3> QED
      BY <3>1, <3>2
  <2>3. (\A m \in 1 .. n + 1 : r \notin q[m].finished) <=> (r \notin e.finished /\ Clear(1))
    <3>1. \A m \in 1 .. n + 1 : m = 1 \/ m \in 2 .. n + 1
      OBVIOUS
    <3>2. 1 \in 1 .. n + 1 /\ \A m \in 2 .. n + 1 : m \in 1 .. n + 1
      OBVIOUS
    <3> QED
      BY <1>1, <3>1, <3>2
  <2>4. (\E i \in 1 .. n : r \in p[i].fresh /\ \A m \in (i + 1) .. n : r \notin p[m].finished)
          <=> (\E i \in 2 .. n + 1 : r \in q[i].fresh /\ Clear(i))
    <3> HIDE DEF Clear
    <3>1. ASSUME NEW i \in 1 .. n
          PROVE  /\ i + 1 \in 2 .. n + 1 /\ p[i] = q[i + 1]
                 /\ (\A m \in (i + 1) .. n : r \notin p[m].finished) <=> Clear(i + 1)
      <4>1. i \in 0 .. n /\ i + 1 \in 2 .. n + 1 /\ i \in 1 .. Len(q) - 1
        BY <1>1
      <4> QED
        BY <1>1, <2>1, <4>1
    <3>2. ASSUME NEW i \in 2 .. n + 1 PROVE i - 1 \in 1 .. n /\ (i - 1) + 1 = i
      OBVIOUS
    <3>3. ASSUME NEW i \in 2 .. n + 1, r \in q[i].fresh, Clear(i)
          PROVE  \E k \in 1 .. n : r \in p[k].fresh /\ \A m \in (k + 1) .. n : r \notin p[m].finished
      <4>1. i - 1 \in 1 .. n /\ p[i - 1] = q[i]
            /\ \A m \in ((i - 1) + 1) .. n : r \notin p[m].finished
        BY <3>1, <3>2, <3>3
      <4> QED
        BY <3>3, <4>1
    <3>4. ASSUME NEW i \in 1 .. n, r \in p[i].fresh, \A m \in (i + 1) .. n : r \notin p[m].finished
          PROVE  \E k \in 2 .. n + 1 : r \in q[k].fresh /\ Clear(k)
      BY <3>1, <3>4
    <3> QED
      BY <3>3, <3>4
  <2>5. (\E i \in 1 .. n + 1 : r \in q[i].fresh /\ Clear(i))
          <=> (r \in e.fresh /\ Clear(1)) \/ (\E i \in 2 .. n + 1 : r \in q[i].fresh /\ Clear(i))
    <3>1. \A i \in 1 .. n + 1 : i = 1 \/ i \in 2 .. n + 1
      OBVIOUS
    <3>2. 1 \in 1 .. n + 1 /\ \A i \in 2 .. n + 1 : i \in 1 .. n + 1
      OBVIOUS
    <3> HIDE DEF Clear
    <3> QED
      BY <1>1, <3>1, <3>2
  <2>6. r \in CacheAfter(q, cache, n + 1)
          <=> \/ \E i \in 1 .. n + 1 : r \in q[i].fresh /\ Clear(i)
              \/ r \in cache /\ \A m \in 1 .. n + 1 : r \notin q[m].finished
    BY DEF CacheAfter
  <2>7. r \in CacheAfter(p, Lifecycle(cache, e), n)
          <=> \/ \E i \in 1 .. n : r \in p[i].fresh /\ \A m \in (i + 1) .. n : r \notin p[m].finished
              \/ r \in Lifecycle(cache, e) /\ \A m \in 1 .. n : r \notin p[m].finished
    BY DEF CacheAfter
  <2> HIDE DEF Clear
  <2> QED
    BY <2>2, <2>3, <2>4, <2>5, <2>6, <2>7 DEF Lifecycle
<1> QED
  BY <1>3 DEF CacheAfter, p, e

LEMMA SendCache ==
  ASSUME CacheInv, NEW batch \in SUBSET Request, NEW freed \in SUBSET Request,
         Send(batch, freed), UNCHANGED reqCache
  PROVE  KnownMirrorsWorker' /\ ScheduledKnown'
<1> DEFINE fresh == batch \ (workerKnown \ freed)
           cmd == [id |-> stepCounter + 1, reqs |-> batch, fresh |-> fresh, finished |-> freed]
<1>1. /\ cmd \in Command /\ inQueue \in Seq(Command) /\ reqCache \in SUBSET Request
      /\ cmd.fresh = fresh /\ cmd.finished = freed /\ cmd.reqs = batch
  BY DEF CacheInv, TypeOK, Command
<1>2. inQueue' = Append(inQueue, cmd) /\ workerKnown' = (workerKnown \ freed) \cup fresh
  BY DEF Send
<1>3. batch \subseteq (workerKnown \ freed) \cup fresh
  OBVIOUS
<1> HIDE DEF fresh, cmd
<1>4. /\ CacheAfter(inQueue', reqCache, Len(inQueue) + 1)
            = Lifecycle(CacheAfter(inQueue, reqCache, Len(inQueue)), cmd)
      /\ \A n \in 1 .. Len(inQueue) : CacheAfter(inQueue', reqCache, n) = CacheAfter(inQueue, reqCache, n)
  BY <1>1, <1>2, CacheAppend
<1>5. CacheAfter(inQueue', reqCache, Len(inQueue) + 1) = workerKnown'
  BY <1>1, <1>2, <1>4 DEF CacheInv, KnownMirrorsWorker, Lifecycle
<1>6. /\ Len(inQueue') = Len(inQueue) + 1 /\ Len(inQueue) \in Nat
      /\ \A n \in 1 .. Len(inQueue) : inQueue'[n] = inQueue[n]
      /\ inQueue'[Len(inQueue) + 1] = cmd
  BY <1>1, <1>2
<1>7. KnownMirrorsWorker'
  BY <1>5, <1>6 DEF KnownMirrorsWorker
<1>8. ASSUME NEW n \in 1 .. Len(inQueue')
      PROVE  inQueue'[n].reqs \subseteq CacheAfter(inQueue', reqCache, n)
  <2>1. CASE n \in 1 .. Len(inQueue)
    BY <1>4, <1>6, <2>1 DEF CacheInv, ScheduledKnown
  <2>2. CASE n = Len(inQueue) + 1
    BY <1>1, <1>2, <1>3, <1>5, <1>6, <2>2
  <2> QED
    BY <1>6, <2>1, <2>2
<1> QED
  BY <1>7, <1>8 DEF ScheduledKnown

LEMMA NextCache == CacheInv /\ [Next]_vars => CacheInv'
<1> SUFFICES ASSUME CacheInv, [Next]_vars PROVE KnownMirrorsWorker' /\ ScheduledKnown'
  BY NextTypeOK DEF CacheInv
<1> USE DEF schedVars, clientVars, workerVars, engineVars
<1>1. CASE UNCHANGED <<inQueue, reqCache, workerKnown>>
  BY <1>1 DEF CacheInv, KnownMirrorsWorker, ScheduledKnown
<1>2. ASSUME NEW batch \in SUBSET Request, NEW victims \in SUBSET Request,
             NEW rejects \in SUBSET Request, Dispatch(batch, victims, rejects)
      PROVE  KnownMirrorsWorker' /\ ScheduledKnown'
  <2>1. pendingFree \cup FreedByPass(victims, rejects) \in SUBSET Request
    BY DEF CacheInv, TypeOK, FreedByPass
  <2> QED
    BY <1>2, <2>1, SendCache DEF Dispatch
<1>3. ASSUME NEW victims \in SUBSET Request, NEW rejects \in SUBSET Request,
             NoDispatch(victims, rejects)
      PROVE  KnownMirrorsWorker' /\ ScheduledKnown'
  <2>1. pendingFree \cup FreedByPass(victims, rejects) \in SUBSET Request /\ {} \in SUBSET Request
    BY DEF CacheInv, TypeOK, FreedByPass
  <2>2. CASE UNCHANGED <<inQueue, workerKnown>>
    BY <1>1, <1>3, <2>2 DEF NoDispatch
  <2>3. CASE Send({}, pendingFree \cup FreedByPass(victims, rejects))
    BY <1>3, <2>1, <2>3, SendCache DEF NoDispatch
  <2> QED
    BY <1>3, <2>2, <2>3 DEF NoDispatch
<1>4. CASE WorkerStep
  <2>1. /\ inQueue \in Seq(Command) /\ inQueue # <<>> /\ reqCache \in SUBSET Request
        /\ inQueue' = Tail(inQueue) /\ reqCache' = Lifecycle(reqCache, Head(inQueue))
        /\ workerKnown' = workerKnown
    BY <1>4 DEF WorkerStep, CacheInv, TypeOK
  <2>2. /\ Len(inQueue) \in Nat /\ Len(inQueue) >= 1 /\ Len(inQueue') = Len(inQueue) - 1
        /\ \A n \in 1 .. Len(inQueue) - 1 : inQueue'[n] = inQueue[n + 1]
    BY <2>1
  <2>3. \A n \in 0 .. Len(inQueue) - 1 :
          CacheAfter(inQueue', reqCache', n) = CacheAfter(inQueue, reqCache, n + 1)
    BY <2>1, CacheTail
  <2>4. KnownMirrorsWorker'
    <3>1. CacheAfter(inQueue', reqCache', Len(inQueue) - 1)
            = CacheAfter(inQueue, reqCache, (Len(inQueue) - 1) + 1)
      BY <2>2, <2>3
    <3>2. (Len(inQueue) - 1) + 1 = Len(inQueue)
      BY <2>2
    <3> QED
      BY <2>1, <2>2, <3>1, <3>2 DEF CacheInv, KnownMirrorsWorker
  <2>5. ASSUME NEW n \in 1 .. Len(inQueue')
        PROVE  inQueue'[n].reqs \subseteq CacheAfter(inQueue', reqCache', n)
    <3>1. n + 1 \in 1 .. Len(inQueue) /\ inQueue'[n] = inQueue[n + 1] /\ n \in 0 .. Len(inQueue) - 1
      BY <2>2
    <3> QED
      BY <2>3, <3>1 DEF CacheInv, ScheduledKnown
  <2> QED
    BY <2>4, <2>5 DEF ScheduledKnown
<1>5. ASSUME \/ \E r \in Request : AddRequest(r) \/ Consume(r) \/ Disconnect(r) \/ Abort(r)
             \/ WakeUp \/ Drain \/ ResultFails \/ StepTimeout \/ FlushReply \/ WorkerDies
             \/ \E eos \in SUBSET Request : ApplyResult(eos)
             \/ UNCHANGED vars
      PROVE  UNCHANGED <<inQueue, reqCache, workerKnown>>
  BY <1>5 DEF AddRequest, Consume, Disconnect, Abort, WakeUp, Drain, ResultFails, StepTimeout,
              FlushReply, WorkerDies, ApplyResult, HandleStepError, vars
<1> QED
  BY <1>1, <1>2, <1>3, <1>4, <1>5 DEF Next, EngineStep

\* The engine and its worker agree on the requests the worker knows, and the
\* worker knows the requests of every step it runs, under every fault: late
\* replies, failed steps, dropped batches and the death of the worker.
THEOREM WorkerCacheCorrect == Spec => []WorkerCacheExact
<1>1. Init => CacheInv
  <2> SUFFICES ASSUME Init PROVE CacheInv
    OBVIOUS
  <2>1. inQueue = <<>> /\ reqCache = {} /\ workerKnown = {} /\ Len(inQueue) = 0
    BY DEF Init
  <2> QED
    BY <2>1, InitTypeOK DEF CacheInv, KnownMirrorsWorker, ScheduledKnown, CacheAfter
<1>2. CacheInv => WorkerCacheExact
  <2> SUFFICES ASSUME CacheInv, inQueue # <<>>
               PROVE  Head(inQueue).reqs \subseteq Lifecycle(reqCache, Head(inQueue))
    BY DEF WorkerCacheExact, WorkerKnowsScheduled, CacheInv
  <2>1. inQueue \in Seq(Command) /\ reqCache \in SUBSET Request
    BY DEF CacheInv, TypeOK
  <2>2. Head(inQueue) = inQueue[1] /\ 1 \in 1 .. Len(inQueue)
    BY <2>1
  <2>3. inQueue[1].reqs \subseteq CacheAfter(inQueue, reqCache, 1)
    BY <2>2 DEF CacheInv, ScheduledKnown
  <2>4. CacheAfter(inQueue, reqCache, 1) \subseteq Lifecycle(reqCache, inQueue[1])
    BY DEF CacheAfter, Lifecycle
  <2> QED
    BY <2>2, <2>3, <2>4
<1> QED
  BY <1>1, <1>2, NextCache, PTL DEF Spec

-----------------------------------------------------------------------------
(***************************************************************************)
(* Preempted requests.                                                     *)
(***************************************************************************)

\* A scheduling pass makes nobody preempted whom it puts into the batch, and
\* makes live only the requests of the batch.
LEMMA ScheduledStatus ==
  ASSUME TypeOK, NEW batch \in SUBSET Request, NEW victims \in SUBSET Request,
         NEW rejects \in SUBSET Request, Scheduled(batch, victims, rejects), NEW r \in Request
  PROVE  /\ status'[r] = "preempted" => r \notin batch /\ (r \in victims \/ status[r] = "preempted")
         /\ status[r] = "preempted" /\ status'[r] = "live" => r \in batch
BY DEF Scheduled, TypeOK

LEMMA NextPreempt ==
  ASSUME MaxInFlight <= 2
  PROVE  PreemptInv /\ [Next]_vars => PreemptInv'
<1> SUFFICES ASSUME PreemptInv, [Next]_vars
             PROVE  /\ Len(batchQueue') < 2
                    /\ \A r \in Request : status'[r] = "preempted" =>
                         \A i \in 1 .. Len(batchQueue') : r \notin batchQueue'[i].reqs
  BY NextTypeOK DEF PreemptInv
<1> USE DEF schedVars, clientVars, workerVars, engineVars
<1>0. TypeOK /\ batchQueue \in Seq(Batch) /\ Len(batchQueue) \in {0, 1}
  <2>1. TypeOK /\ Len(batchQueue) < 2
    BY DEF PreemptInv
  <2>2. batchQueue \in Seq(Batch)
    BY <2>1 DEF TypeOK
  <2>3. Len(batchQueue) \in Nat
    BY <2>2
  <2>4. \A n \in Nat : n < 2 => n \in {0, 1}
    OBVIOUS
  <2> QED
    BY <2>1, <2>2, <2>3, <2>4
<1>1. CASE /\ UNCHANGED batchQueue
           /\ \A r \in Request : status'[r] = "preempted" => status[r] = "preempted"
  BY <1>1 DEF PreemptInv
<1>2. CASE batchQueue' = <<>>
  BY <1>2
<1>3. ASSUME NEW batch \in SUBSET Request, NEW victims \in SUBSET Request,
             NEW rejects \in SUBSET Request, Dispatch(batch, victims, rejects)
      PROVE  /\ Len(batchQueue') < 2
             /\ \A r \in Request : status'[r] = "preempted" =>
                  \A i \in 1 .. Len(batchQueue') : r \notin batchQueue'[i].reqs
  <2> DEFINE entry == [id |-> stepCounter + 1, reqs |-> batch]
             queue == Append(batchQueue, entry)
  <2>1. entry \in Batch /\ entry.reqs = batch
    BY <1>0 DEF TypeOK, Batch
  <2>2. /\ Scheduled(batch, victims, rejects) /\ Len(batchQueue) < MaxInFlight
        /\ IF PipelineFull(queue) THEN AwaitOldest(queue) ELSE batchQueue' = queue
    BY <1>0, <1>3 DEF Dispatch, PipelineFull
  <2> HIDE DEF entry
  <2>3. /\ queue \in Seq(Batch) /\ Len(queue) = Len(batchQueue) + 1 /\ queue[Len(queue)] = entry
        /\ Tail(queue) \in Seq(Batch) /\ Len(Tail(queue)) = Len(batchQueue)
        /\ Len(batchQueue) = 1 => Tail(queue)[1] = entry
    <3>1. queue \in Seq(Batch) /\ Len(queue) = Len(batchQueue) + 1 /\ queue[Len(batchQueue) + 1] = entry
      BY <1>0, <2>1
    <3> HIDE DEF queue
    <3>2. queue # <<>>
      BY <1>0, <3>1
    <3>3. /\ Tail(queue) \in Seq(Batch) /\ Len(Tail(queue)) = Len(queue) - 1
          /\ \A i \in 1 .. Len(queue) - 1 : Tail(queue)[i] = queue[i + 1]
      BY <3>1, <3>2
    <3> QED
      BY <1>0, <3>1, <3>3
  <2> HIDE DEF queue
  <2>4. /\ batchQueue' = queue \/ batchQueue' = Tail(queue)
        /\ Len(batchQueue') < 2
        /\ \A i \in 1 .. Len(batchQueue') : batchQueue'[i] = entry
    <3>1. CASE Len(batchQueue) = 0
      <4>1. Len(queue) = 1 /\ queue[1] = entry /\ Len(Tail(queue)) = 0
        BY <2>3, <3>1
      <4>2. CASE PipelineFull(queue)
        <5>1. batchQueue' = Tail(queue)
          BY <2>2, <4>2 DEF AwaitOldest
        <5>2. Len(batchQueue') = 0
          BY <4>1, <5>1
        <5> QED
          BY <5>1, <5>2
      <4>3. CASE ~PipelineFull(queue)
        <5>1. batchQueue' = queue
          BY <2>2, <4>3
        <5>2. Len(batchQueue') = 1 /\ batchQueue'[1] = entry
          BY <4>1, <5>1
        <5> QED
          BY <5>1, <5>2
      <4> QED
        BY <4>2, <4>3
    <3>2. CASE Len(batchQueue) = 1
      <4>1. PipelineFull(queue)
        BY <2>3, <3>2 DEF PipelineFull
      <4> QED
        BY <2>2, <2>3, <3>2, <4>1 DEF AwaitOldest
    <3> QED
      BY <1>0, <3>1, <3>2
  <2> QED
    BY <1>0, <2>1, <2>2, <2>4, ScheduledStatus
<1>4. ASSUME NEW victims \in SUBSET Request, NEW rejects \in SUBSET Request,
             NoDispatch(victims, rejects)
      PROVE  batchQueue' = <<>>
  <2>1. ASSUME batchQueue # <<>> PROVE Tail(batchQueue) = <<>>
    <3>1. Tail(batchQueue) \in Seq(Batch) /\ Len(Tail(batchQueue)) = Len(batchQueue) - 1
      BY <1>0, <2>1
    <3>2. Len(batchQueue) # 0
      BY <1>0, <2>1, EmptySeq
    <3>3. Len(Tail(batchQueue)) = 0
      BY <1>0, <3>1, <3>2
    <3> QED
      BY <3>1, <3>3, EmptySeq
  <2> QED
    BY <1>4, <2>1 DEF NoDispatch, AwaitOldest
<1>5. ASSUME ResultFails \/ StepTimeout PROVE batchQueue' = <<>>
  BY <1>5 DEF ResultFails, StepTimeout, HandleStepError
<1>6. ASSUME \/ \E r \in Request : AddRequest(r) \/ Consume(r) \/ Disconnect(r) \/ Abort(r)
             \/ WakeUp \/ Drain \/ FlushReply \/ WorkerStep \/ WorkerDies
             \/ \E eos \in SUBSET Request : ApplyResult(eos)
             \/ UNCHANGED vars
      PROVE  /\ UNCHANGED batchQueue
             /\ \A r \in Request : status'[r] = "preempted" => status[r] = "preempted"
  BY <1>0, <1>6 DEF AddRequest, Consume, Disconnect, Abort, WakeUp, Drain, FlushReply, WorkerStep,
                    WorkerDies, ApplyResult, TypeOK, vars
<1> QED
  BY <1>1, <1>2, <1>3, <1>4, <1>5, <1>6 DEF Next, EngineStep

\* With the one or two steps in flight that the engine allows, a preempted
\* request is restarted only when no step of its earlier life is in flight, for
\* any number of requests and every fault.
THEOREM RestartSafe ==
  ASSUME MaxInFlight <= 2
  PROVE  Spec => RestartAfterDrain
<1> DEFINE A == \A r \in Request : status[r] = "preempted" /\ status'[r] = "live" => InFlight(r) = 0
<1>1. Init => PreemptInv
  BY InitTypeOK DEF Init, PreemptInv
<1>2. PreemptInv /\ [Next]_vars => [A]_vars
  <2> SUFFICES ASSUME PreemptInv, Next, NEW r \in Request, status[r] = "preempted"
               PROVE  InFlight(r) = 0
    BY DEF A
  <2>1. batchQueue \in Seq(Batch)
    BY DEF PreemptInv, TypeOK
  <2>2. {i \in DOMAIN batchQueue : r \in batchQueue[i].reqs} = {}
    BY <2>1 DEF PreemptInv
  <2> QED
    BY <2>2, FS_EmptySet DEF InFlight
<1> QED
  BY <1>1, <1>2, NextPreempt, PTL DEF Spec, RestartAfterDrain
============================================================================
