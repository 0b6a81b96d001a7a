------------------------ MODULE ServingFront_proofs ------------------------
(***************************************************************************)
(* Proofs about the router of AsyncLLMEngine, for every number of replicas *)
(* and every set of requests, and about a profiling session, for every     *)
(* number of workers and of profile requests, as they run in               *)
(* MCServingFront.                                                         *)
(***************************************************************************)
EXTENDS MCServingFront, TLAPS

(***************************************************************************)
(* Starting and stopping the workers.                                      *)
(***************************************************************************)
LEMMA WorkersInit == RInit => WorkerInv
BY DEF RInit, WorkerInv, ShutdownThread

\* Every step of a core, of a shutdown thread or of the engine's start and
\* stop keeps WorkerInv.
LEMMA WorkersStep ==
  ASSUME WorkerInv, RNext
  PROVE  WorkerInv'
<1> USE DEF ShutdownThread
<1>1. ASSUME NEW c \in Replica, SpawnWorker(c) PROVE WorkerInv'
  BY <1>1 DEF WorkerInv, SpawnWorker
<1>2. ASSUME NEW c \in Replica, WorkerEntry(c) PROVE WorkerInv'
  BY <1>2 DEF WorkerInv, WorkerEntry
<1>3. ASSUME NEW c \in Replica, WorkerReady(c) PROVE WorkerInv'
  BY <1>3 DEF WorkerInv, WorkerReady
<1>4. ASSUME NEW c \in Replica, InitTimeout(c) PROVE WorkerInv'
  BY <1>4 DEF WorkerInv, InitTimeout, ShutdownBegins
<1>5. ASSUME NEW c \in Replica, NEW t \in ShutdownThread, ShutdownJoin(c, t) PROVE WorkerInv'
  <2>1. CASE t = "start"
    BY <1>5, <2>1 DEF WorkerInv, ShutdownJoin
  <2>2. CASE t = "stop"
    BY <1>5, <2>2 DEF WorkerInv, ShutdownJoin
  <2> QED
    BY <2>1, <2>2
<1>6. ASSUME NEW c \in Replica, NEW t \in ShutdownThread, ShutdownClear(c, t) PROVE WorkerInv'
  BY <1>6 DEF WorkerInv, ShutdownClear
<1>7. ASSUME StartReturns PROVE WorkerInv'
  BY <1>7 DEF WorkerInv, StartReturns
<1>8. ASSUME CancelStart PROVE WorkerInv'
  BY <1>8 DEF WorkerInv, CancelStart
<1>9. ASSUME StopAfterFailure PROVE WorkerInv'
  BY <1>9 DEF WorkerInv, StopAfterFailure
<1>10. ASSUME Stop PROVE WorkerInv'
  BY <1>10 DEF WorkerInv, Stop
<1>11. ASSUME StopReturns PROVE WorkerInv'
  BY <1>11 DEF WorkerInv, StopReturns
<1>12. ASSUME UNCHANGED lifecycle PROVE WorkerInv'
  BY <1>12 DEF WorkerInv, lifecycle
<1>13. ASSUME NEW r \in Request,
              AddRequest(r) \/ Serve(r) \/ Disconnect(r) \/ CloseInner(r) \/ Cancel(r) \/ AbortRequest(r)
       PROVE  UNCHANGED lifecycle
  BY <1>13 DEF AddRequest, Serve, StepOutput, WholeResponse, StreamResponse, Disconnect,
               CloseInner, Cancel, AbortRequest
<1> QED
  BY <1>1, <1>2, <1>3, <1>4, <1>5, <1>6, <1>7, <1>8, <1>9, <1>10, <1>11, <1>12, <1>13
  DEF RNext, CoreStart, Shutdown, StartFails, Interrupt

\* Whichever replica fails, times out or is cancelled, and however the
\* shutdowns overlap: no worker outlives the engine, and a start that returns
\* has a ready worker on every replica.
THEOREM WorkersAccountedCorrect == FrontSpec => []WorkersAccounted
<1>1. FrontInit => WorkerInv
  BY WorkersInit DEF FrontInit
<1>2. WorkerInv /\ [FrontNext]_allVars => WorkerInv'
  <2>1. WorkerInv /\ UNCHANGED rvars => WorkerInv'
    BY DEF WorkerInv, rvars, lifecycle
  <2> QED
    BY <2>1, WorkersStep DEF FrontNext, allVars
<1>3. WorkerInv => WorkersAccounted
  BY DEF WorkerInv, WorkersAccounted, NoOrphanWorkers, ServingWorkersAlive
<1> QED
  BY <1>1, <1>2, <1>3, PTL DEF FrontSpec

-----------------------------------------------------------------------------
(***************************************************************************)
(* Requests.  What a step does to one request at a time.                   *)
(***************************************************************************)
\* What With and Without make of the set of keys.
LEMMA KeysOf ==
  ASSUME NEW f, NEW k, NEW v
  PROVE  DOMAIN With(f, k, v) = DOMAIN f \cup {k} /\ DOMAIN Without(f, k) = DOMAIN f \ {k}
BY DEF With, Without, Restrict

LEMMA RouterInit == RInit => RouterInv
BY DEF RInit, RouterInv, Located, OffSchedulers

\* An added request is on the selected replica or, when it is turned away,
\* at most in that replica's contexts; no estimate stays behind.
LEMMA AddRequestKeeps ==
  ASSUME RouterInv, NEW r \in Request, AddRequest(r)
  PROVE  RouterInv'
<1> DEFINE c == SelectReplica
<1> HIDE DEF c
<1> DEFINE ex == [extra EXCEPT ![c] = @ + EstimateRequestLoad(r)]
<1>1. /\ client[r] = "new" /\ outputs' = outputs /\ aborted' = aborted
      /\ \/ PromptLen[r] = 0 /\ client' = [client EXCEPT ![r] = "failed"]
            /\ UNCHANGED <<extra, placement, contexts, left>>
         \/ /\ contexts' = [contexts EXCEPT ![c] = @ \cup {r}]
            /\ \/ client' = [client EXCEPT ![r] = "failed"] /\ UNCHANGED <<placement, left>>
               \/ /\ client' = [client EXCEPT ![r] = "consuming"]
                  /\ placement' = With(placement, r, c)
                  /\ left' = [left EXCEPT ![c] = With(@, r, PromptLen[r] + Capped(r))]
            /\ extra' = ClearRouteExtraLoad(ex, c, EstimateRequestLoad(r))
  BY DEF AddRequest, FinallyClears, c
<1>2. EstimateRequestLoad(r) \in Nat
  BY RequestsAssumption DEF EstimateRequestLoad
<1>3. extra' = [d \in Replica |-> 0]
  <2>1. extra = [d \in Replica |-> 0]
    BY DEF RouterInv
  <2>2. ClearRouteExtraLoad(ex, c, EstimateRequestLoad(r)) = [d \in Replica |-> 0]
    BY <1>2, <2>1 DEF ClearRouteExtraLoad
  <2> QED
    BY <1>1, <2>1, <2>2
<1>4. /\ contexts' \in [Replica -> SUBSET Request] /\ left' = [d \in Replica |-> left'[d]]
      /\ client' \in [Request -> {"new", "consuming", "closing", "done", "failed"}]
      /\ outputs' \in [Request -> Seq(BOOLEAN)] /\ aborted' \subseteq Request
  <2>1. left' = [d \in Replica |-> left'[d]]
    <3>1. left = [d \in Replica |-> left[d]]
      BY DEF RouterInv
    <3>2. CASE left' = left
      BY <3>1, <3>2
    <3>3. CASE left' = [left EXCEPT ![c] = With(@, r, PromptLen[r] + Capped(r))]
      <4>1. DOMAIN left' = Replica
        BY <3>1, <3>3
      <4> QED
        BY <3>1, <3>3, <4>1
    <3> QED
      BY <1>1, <3>2, <3>3
  <2>2. contexts' \in [Replica -> SUBSET Request]
    BY <1>1 DEF RouterInv
  <2> QED
    BY <1>1, <2>1, <2>2 DEF RouterInv
<1>5. \A q \in Request : q # r =>
        /\ \A d \in Replica : (q \in contexts'[d] <=> q \in contexts[d])
                              /\ (q \in DOMAIN left'[d] <=> q \in DOMAIN left[d])
        /\ q \in DOMAIN placement' <=> q \in DOMAIN placement
        /\ q \in DOMAIN placement => placement'[q] = placement[q]
        /\ client'[q] = client[q]
  <2> SUFFICES ASSUME NEW q \in Request, q # r
               PROVE  /\ \A d \in Replica : (q \in contexts'[d] <=> q \in contexts[d])
                                            /\ (q \in DOMAIN left'[d] <=> q \in DOMAIN left[d])
                      /\ q \in DOMAIN placement' <=> q \in DOMAIN placement
                      /\ q \in DOMAIN placement => placement'[q] = placement[q]
                      /\ client'[q] = client[q]
    OBVIOUS
  <2>1. ASSUME NEW d \in Replica
        PROVE  q \in contexts'[d] <=> q \in contexts[d]
    BY <1>1 DEF RouterInv
  <2>2. ASSUME NEW d \in Replica
        PROVE  q \in DOMAIN left'[d] <=> q \in DOMAIN left[d]
    <3>1. left = [e \in Replica |-> left[e]]
      BY DEF RouterInv
    <3>2. left'[d] \in {left[d], With(left[d], r, PromptLen[r] + Capped(r))}
      BY <1>1, <3>1
    <3>3. DOMAIN With(left[d], r, PromptLen[r] + Capped(r)) = DOMAIN left[d] \cup {r}
      BY KeysOf
    <3> QED
      BY <3>2, <3>3
  <2>3. /\ q \in DOMAIN placement' <=> q \in DOMAIN placement
        /\ q \in DOMAIN placement => placement'[q] = placement[q]
    BY <1>1 DEF With
  <2>4. client'[q] = client[q]
    BY <1>1 DEF RouterInv
  <2> QED
    BY <2>1, <2>2, <2>3, <2>4
<1>6. \A d \in Replica : /\ r \notin contexts[d] /\ r \notin DOMAIN left[d]
                         /\ r \in contexts'[d] => d = c
                         /\ r \in DOMAIN left'[d] =>
                              r \in contexts'[d] /\ client'[r] = "consuming"
                         /\ r \in DOMAIN left'[d] \/ client'[r] = "failed" \/ client'[r] = "consuming"
  BY <1>1, KeysOf DEF RouterInv, Located
<1>7. client'[r] \in {"failed", "consuming"} /\ outputs'[r] = <<>> /\ r \notin aborted'
  BY <1>1 DEF RouterInv, Located
<1>8. client'[r] = "consuming" => r \in DOMAIN placement' /\ placement'[r] = c
  BY <1>1, KeysOf DEF RouterInv, With
<1> QED
  BY <1>1, <1>3, <1>4, <1>5, <1>6, <1>7, <1>8 DEF RouterInv, Located, OffSchedulers

\* A step's output may end the request, and then it is off the scheduler; it
\* is the only output a whole response gets.
LEMMA StepOutputKeeps ==
  ASSUME RouterInv, NEW r \in Request, NEW c \in Replica, StepOutput(c, r)
  PROVE  RouterInv'
<1>1. PICK n \in 0 .. (left[c][r] - 1), last \in BOOLEAN :
        /\ left' = [left EXCEPT ![c] = IF last THEN Without(@, r) ELSE [@ EXCEPT ![r] = n]]
        /\ outputs' = IF r \in contexts[c] /\ n < Capped(r) /\ (last \/ r \in Streaming)
                      THEN [outputs EXCEPT ![r] = Append(@, last)] ELSE outputs
  BY DEF StepOutput
<1>2. /\ UNCHANGED <<extra, placement, client, contexts, aborted>>
      /\ r \in DOMAIN left[c]
  BY DEF StepOutput
<1>3. left = [d \in Replica |-> left[d]] /\ outputs \in [Request -> Seq(BOOLEAN)]
  BY DEF RouterInv
<1>4. left' = [d \in Replica |-> left'[d]] /\ outputs' \in [Request -> Seq(BOOLEAN)]
  <2>1. DOMAIN left' = Replica
    BY <1>1, <1>3
  <2>2. left' = [d \in Replica |-> left'[d]]
    BY <1>1, <1>3, <2>1
  <2>3. Append(outputs[r], last) \in Seq(BOOLEAN)
    BY <1>3
  <2> QED
    BY <1>1, <1>3, <2>2, <2>3
<1>5. \A d \in Replica : DOMAIN left'[d] = IF d = c /\ last THEN DOMAIN left[d] \ {r} ELSE DOMAIN left[d]
  <2> TAKE d \in Replica
  <2>1. DOMAIN Without(left[c], r) = DOMAIN left[c] \ {r}
    BY KeysOf
  <2>2. DOMAIN [left[c] EXCEPT ![r] = n] = DOMAIN left[c]
    OBVIOUS
  <2>3. left'[d] = IF d # c THEN left[d] ELSE
                   IF last THEN Without(left[c], r) ELSE [left[c] EXCEPT ![r] = n]
    BY <1>1, <1>3
  <2> QED
    BY <2>1, <2>2, <2>3
<1>6. \A q \in Request : q # r => outputs'[q] = outputs[q]
  BY <1>1, <1>3
<1>7. r \notin Streaming => last \/ outputs' = outputs
  BY <1>1
<1>8. client[r] # "new"
  BY <1>2 DEF RouterInv, Located
<1>9. \A q \in Request : Located(q)'
  <2>1. \A q \in Request : client'[q] = "new" => outputs'[q] = <<>>
    BY <1>2, <1>6, <1>8 DEF RouterInv, Located
  <2>2. \A d \in Replica : DOMAIN left'[d] \subseteq DOMAIN left[d]
    BY <1>5
  <2> QED
    BY <1>2, <2>1, <2>2 DEF RouterInv, Located
<1>10. ASSUME NEW q \in Request, OffSchedulers(q)' PROVE \A d \in Replica : q \notin DOMAIN left'[d]
  <2>1. CASE OffSchedulers(q)
    BY <1>5, <2>1 DEF RouterInv
  <2>2. CASE ~OffSchedulers(q)
    <3>1. q = r /\ last
      BY <1>2, <1>6, <1>7, <1>10, <2>2 DEF OffSchedulers
    <3>2. \A d \in Replica : r \in DOMAIN left[d] => d = c
      BY <1>2 DEF RouterInv, Located
    <3> QED
      BY <1>5, <3>1, <3>2
  <2> QED
    BY <2>1, <2>2
<1> QED
  BY <1>2, <1>4, <1>9, <1>10 DEF RouterInv

\* A step that only takes requests away from replicas keeps RouterInv when it
\* takes away those that it ends.
LEMMA ReleaseKeeps ==
  ASSUME RouterInv, UNCHANGED extra,
         contexts' \in [Replica -> SUBSET Request],
         left' = [c \in Replica |-> left'[c]],
         client' \in [Request -> {"new", "consuming", "closing", "done", "failed"}],
         outputs' \in [Request -> Seq(BOOLEAN)], aborted' \subseteq Request,
         \A c \in Replica : contexts'[c] \subseteq contexts[c] /\ DOMAIN left'[c] \subseteq DOMAIN left[c],
         \A c \in Replica : \A q \in Request : q \in DOMAIN left'[c] => q \in contexts'[c],
         \A q \in DOMAIN placement' : q \in DOMAIN placement /\ placement'[q] = placement[q],
         \A q \in Request : client'[q] = "new" =>
            client[q] = "new" /\ outputs'[q] = outputs[q] /\ (q \in aborted' => q \in aborted),
         \A q \in Request : OffSchedulers(q)' =>
            OffSchedulers(q) \/ \A c \in Replica : q \notin DOMAIN left'[c]
  PROVE  RouterInv'
<1>1. \A q \in Request : Located(q)'
  BY DEF RouterInv, Located
<1>2. \A q \in Request : OffSchedulers(q)' => \A c \in Replica : q \notin DOMAIN left'[c]
  BY DEF RouterInv
<1>3. extra' = [c \in Replica |-> 0]
  BY DEF RouterInv
<1> QED
  BY <1>1, <1>2, <1>3 DEF RouterInv

\* The end of a response and a disconnect touch no replica: a whole response
\* ends with the scheduler's part already done.
LEMMA ResponseKeeps ==
  ASSUME RouterInv, NEW r \in Request, WholeResponse(r) \/ StreamResponse(r) \/ Disconnect(r)
  PROVE  RouterInv'
<1>1. /\ UNCHANGED <<extra, contexts, left, aborted>> /\ client[r] = "consuming"
      /\ outputs' = outputs \/ (outputs[r] # <<>> /\ outputs' = [outputs EXCEPT ![r] = Tail(@)])
      /\ placement' = placement \/ placement' = Without(placement, r)
      /\ \/ client' = client /\ r \in Streaming
         \/ client' = [client EXCEPT ![r] = "closing"] /\ (outputs' = outputs \/ r \in Streaming)
         \/ client' = [client EXCEPT ![r] = "done"] /\ r \notin Streaming /\ outputs[r] # <<>>
  BY DEF WholeResponse, StreamResponse, Disconnect
<1>2. /\ outputs \in [Request -> Seq(BOOLEAN)] /\ left = [c \in Replica |-> left[c]]
      /\ client \in [Request -> {"new", "consuming", "closing", "done", "failed"}]
      /\ contexts \in [Replica -> SUBSET Request] /\ aborted \subseteq Request
  BY DEF RouterInv
<1>3. outputs' \in [Request -> Seq(BOOLEAN)]
  <2>1. outputs[r] # <<>> => Tail(outputs[r]) \in Seq(BOOLEAN)
    BY <1>2
  <2> QED
    BY <1>1, <1>2, <2>1
<1>4. client' \in [Request -> {"new", "consuming", "closing", "done", "failed"}]
  BY <1>1, <1>2
<1>5. \A q \in DOMAIN placement' : q \in DOMAIN placement /\ placement'[q] = placement[q]
  BY <1>1 DEF Without, Restrict
<1>6. \A q \in Request : client'[q] = "new" => client[q] = "new" /\ outputs'[q] = outputs[q]
  BY <1>1, <1>2
<1>7. \A q \in Request : OffSchedulers(q)' => OffSchedulers(q)
  <2> SUFFICES ASSUME NEW q \in Request, OffSchedulers(q)' PROVE OffSchedulers(q)
    OBVIOUS
  <2>1. CASE q # r
    <3>1. client'[q] = client[q] /\ outputs'[q] = outputs[q]
      BY <1>1, <1>2, <2>1
    <3> QED
      BY <1>1, <3>1 DEF OffSchedulers
  <2>2. CASE q = r
    BY <1>1, <1>2, <2>2 DEF OffSchedulers
  <2> QED
    BY <2>1, <2>2
<1>8. \A c \in Replica : \A q \in Request : q \in DOMAIN left'[c] => q \in contexts'[c]
  BY <1>1 DEF RouterInv, Located
<1> QED
  BY <1>1, <1>2, <1>3, <1>4, <1>5, <1>6, <1>7, <1>8, ReleaseKeeps

\* What CoreAbort leaves when the request is known to one core at most.
LEMMA CoreAbortReleases ==
  ASSUME RouterInv, NEW r \in Request,
         \/ \E c \in Replica : r \in contexts[c] /\ CoreAbort(c, r)
         \/ (\A c \in Replica : r \notin contexts[c]) /\ UNCHANGED <<contexts, left>>
  PROVE  /\ contexts' \in [Replica -> SUBSET Request] /\ left' = [c \in Replica |-> left'[c]]
         /\ \A c \in Replica :
              /\ contexts'[c] \subseteq contexts[c] /\ DOMAIN left'[c] \subseteq DOMAIN left[c]
              /\ r \notin DOMAIN left'[c]
              /\ \A q \in Request : q \in DOMAIN left'[c] => q \in contexts'[c]
<1>1. /\ left = [c \in Replica |-> left[c]] /\ contexts \in [Replica -> SUBSET Request]
      /\ \A c \in Replica : \A q \in Request : q \in DOMAIN left[c] => q \in contexts[c]
      /\ \A c, d \in Replica : r \in contexts[c] /\ r \in contexts[d] => c = d
  BY DEF RouterInv, Located
<1>2. CASE (\A c \in Replica : r \notin contexts[c]) /\ UNCHANGED <<contexts, left>>
  BY <1>1, <1>2
<1>3. ASSUME NEW c \in Replica, r \in contexts[c], CoreAbort(c, r)
      PROVE  /\ contexts' \in [Replica -> SUBSET Request] /\ left' = [d \in Replica |-> left'[d]]
             /\ \A d \in Replica :
                  /\ contexts'[d] \subseteq contexts[d] /\ DOMAIN left'[d] \subseteq DOMAIN left[d]
                  /\ r \notin DOMAIN left'[d]
                  /\ \A q \in Request : q \in DOMAIN left'[d] => q \in contexts'[d]
  <2>1. contexts' = [contexts EXCEPT ![c] = @ \ {r}] /\ left' = [left EXCEPT ![c] = Without(@, r)]
    BY <1>3 DEF CoreAbort
  <2>2. DOMAIN left' = Replica /\ left' = [d \in Replica |-> left'[d]]
    BY <1>1, <2>1
  <2>3. DOMAIN Without(left[c], r) = DOMAIN left[c] \ {r}
    BY KeysOf
  <2>4. \A d \in Replica : DOMAIN left'[d] = IF d = c THEN DOMAIN left[c] \ {r} ELSE DOMAIN left[d]
    BY <1>1, <2>1, <2>3
  <2>5. \A d \in Replica : contexts'[d] = IF d = c THEN contexts[c] \ {r} ELSE contexts[d]
    BY <1>1, <2>1
  <2>6. contexts' \in [Replica -> SUBSET Request]
    BY <1>1, <2>1
  <2> QED
    BY <1>1, <1>3, <2>2, <2>4, <2>5, <2>6
<1> QED
  BY <1>2, <1>3

\* Closing the core's generator, at a yield or by a cancellation, takes the
\* request off the replica that knows it.
LEMMA CloseKeeps ==
  ASSUME RouterInv, NEW r \in Request, CloseInner(r) \/ Cancel(r)
  PROVE  RouterInv'
<1>1. /\ UNCHANGED <<extra, outputs, aborted>>
      /\ client' = [client EXCEPT ![r] = "done"]
      /\ placement' = placement \/ placement' = Without(placement, r)
      /\ \/ \E c \in Replica : r \in contexts[c] /\ CoreAbort(c, r)
         \/ (\A c \in Replica : r \notin contexts[c]) /\ UNCHANGED <<contexts, left>>
  BY DEF CloseInner, Cancel
<1>2. /\ outputs \in [Request -> Seq(BOOLEAN)] /\ aborted \subseteq Request
      /\ client \in [Request -> {"new", "consuming", "closing", "done", "failed"}]
  BY DEF RouterInv
<1>3. \A q \in DOMAIN placement' : q \in DOMAIN placement /\ placement'[q] = placement[q]
  BY <1>1 DEF Without, Restrict
<1>4. /\ client' \in [Request -> {"new", "consuming", "closing", "done", "failed"}]
      /\ \A q \in Request : client'[q] = "new" => client[q] = "new"
  BY <1>1, <1>2
<1>5. \A q \in Request : OffSchedulers(q)' =>
         OffSchedulers(q) \/ \A c \in Replica : q \notin DOMAIN left'[c]
  <2> TAKE q \in Request
  <2>1. CASE q = r
    BY <1>1, <2>1, CoreAbortReleases
  <2>2. CASE q # r
    BY <1>1, <1>2, <2>2 DEF OffSchedulers
  <2> QED
    BY <2>1, <2>2
<1> QED
  BY <1>1, <1>2, <1>3, <1>4, <1>5, CoreAbortReleases, ReleaseKeeps

\* An abort reaches the replica that knows the request, placed or not.
LEMMA AbortKeeps ==
  ASSUME RouterInv, NEW r \in Request, AbortRequest(r)
  PROVE  RouterInv'
<1> DEFINE hit == {c \in AbortTargets(r) : r \in contexts[c]}
<1>1. /\ UNCHANGED <<extra, placement, client>> /\ client[r] # "new"
      /\ aborted' = aborted \cup {r}
      /\ contexts' = [c \in Replica |-> IF c \in hit THEN contexts[c] \ {r} ELSE contexts[c]]
      /\ left' = [c \in Replica |-> IF c \in hit THEN Without(left[c], r) ELSE left[c]]
      /\ outputs' = IF hit = {} THEN outputs ELSE [outputs EXCEPT ![r] = Append(@, TRUE)]
  BY DEF AbortRequest
<1>2. \A c \in Replica : r \in contexts[c] => c \in hit
  BY DEF RouterInv, Located, AbortTargets
<1> HIDE DEF hit
<1>3. /\ outputs \in [Request -> Seq(BOOLEAN)] /\ aborted \subseteq Request
      /\ contexts \in [Replica -> SUBSET Request]
      /\ client \in [Request -> {"new", "consuming", "closing", "done", "failed"}]
      /\ \A c \in Replica : \A q \in Request : q \in DOMAIN left[c] => q \in contexts[c]
  BY DEF RouterInv, Located
<1>4. outputs' \in [Request -> Seq(BOOLEAN)] /\ \A q \in Request : q # r => outputs'[q] = outputs[q]
  <2>1. Append(outputs[r], TRUE) \in Seq(BOOLEAN)
    BY <1>3
  <2> QED
    BY <1>1, <1>3, <2>1
<1>5. contexts' \in [Replica -> SUBSET Request] /\ left' = [c \in Replica |-> left'[c]]
  BY <1>1, <1>3
<1>6. \A c \in Replica : DOMAIN left'[c] = IF c \in hit THEN DOMAIN left[c] \ {r} ELSE DOMAIN left[c]
  <2> TAKE c \in Replica
  <2>1. DOMAIN Without(left[c], r) = DOMAIN left[c] \ {r}
    BY KeysOf
  <2>2. left'[c] = IF c \in hit THEN Without(left[c], r) ELSE left[c]
    BY <1>1
  <2> QED
    BY <2>1, <2>2
<1>7. \A c \in Replica : contexts'[c] \subseteq contexts[c] /\ DOMAIN left'[c] \subseteq DOMAIN left[c]
  BY <1>1, <1>6
<1>8. \A c \in Replica : /\ r \notin DOMAIN left'[c]
                         /\ \A q \in Request : q \in DOMAIN left'[c] => q \in contexts'[c]
  BY <1>1, <1>2, <1>3, <1>6
<1>9. \A q \in Request : OffSchedulers(q)' =>
         OffSchedulers(q) \/ \A c \in Replica : q \notin DOMAIN left'[c]
  BY <1>1, <1>4, <1>8, ZenonT(40) DEF OffSchedulers
<1>10. \A q \in Request : client'[q] = "new" =>
         client[q] = "new" /\ outputs'[q] = outputs[q] /\ (q \in aborted' => q \in aborted)
  BY <1>1, <1>4
<1> QED
  BY <1>1, <1>3, <1>4, <1>5, <1>7, <1>8, <1>9, <1>10, ReleaseKeeps

\* A request that ends, by its last output, a disconnect, a cancellation, a
\* rejection or an abort, at any await and on any number of replicas, leaves no
\* estimate in the router and no work in any scheduler.
THEOREM RequestsReleasedCorrect == FrontSpec => []RequestsReleased
<1>1. FrontInit => RouterInv
  BY RouterInit DEF FrontInit
<1>2. RouterInv /\ [FrontNext]_allVars => RouterInv'
  <2> SUFFICES ASSUME RouterInv, [FrontNext]_allVars PROVE RouterInv'
    OBVIOUS
  <2>1. CASE UNCHANGED routing
    BY <2>1 DEF RouterInv, Located, OffSchedulers, routing
  <2>2. ASSUME \/ \E c \in Replica : CoreStart(c) \/ Shutdown(c)
               \/ StartReturns \/ StartFails \/ Interrupt \/ StopAfterFailure \/ Stop \/ StopReturns
        PROVE  UNCHANGED routing
    BY <2>2 DEF CoreStart, SpawnWorker, WorkerEntry, WorkerReady, InitTimeout, Shutdown, ShutdownJoin,
                ShutdownClear, StartReturns, StartFails, Interrupt, CancelStart, StopAfterFailure,
                Stop, StopReturns
  <2>3. ASSUME NEW r \in Request,
               AddRequest(r) \/ Serve(r) \/ Disconnect(r) \/ CloseInner(r) \/ Cancel(r) \/ AbortRequest(r)
        PROVE  RouterInv'
    BY <2>3, AddRequestKeeps, StepOutputKeeps, ResponseKeeps, CloseKeeps, AbortKeeps DEF Serve
  <2>4. CASE RNext
    BY <2>1, <2>2, <2>3, <2>4 DEF RNext
  <2> QED
    BY <2>1, <2>4 DEF FrontNext, allVars, rvars
<1>3. RouterInv => RequestsReleased
  BY DEF RouterInv, OffSchedulers, RequestsReleased, ExtraLoadReturned, AbortedIsGone, GoneMeansReleased
<1> QED
  BY <1>1, <1>2, <1>3, PTL DEF FrontSpec

-----------------------------------------------------------------------------
(***************************************************************************)
(* Profiling.  What the three ways to touch a core's queues do to the      *)
(* commands it is still owed an answer to.                                 *)
(***************************************************************************)
LEMMA OutstandingAsked ==
  ASSUME NEW S, NEW a \in Seq(S), NEW b \in Seq(S), NEW x
  PROVE  a \o Append(b, x) = Append(a \o b, x)
<1>1. a \in Seq(S \cup {x}) /\ b \in Seq(S \cup {x})
  OBVIOUS
<1> QED
  BY <1>1

LEMMA OutstandingHandled ==
  ASSUME NEW S, NEW a \in Seq(S), NEW b \in Seq(S), b # <<>>
  PROVE  Append(a, Head(b)) \o Tail(b) = a \o b
OBVIOUS

LEMMA OutstandingAnswered ==
  ASSUME NEW S, NEW a \in Seq(S), NEW b \in Seq(S), a # <<>>
  PROVE  /\ a \o b # <<>>
         /\ Head(a \o b) = Head(a)
         /\ Tail(a) \o b = Tail(a \o b)
OBVIOUS

LEMMA OutstandingNone ==
  ASSUME NEW S, NEW a \in Seq(S), NEW b \in Seq(S), a \o b = <<>>
  PROVE  a = <<>> /\ b = <<>>
<1>1. Len(a \o b) = Len(a) + Len(b) /\ Len(a) \in Nat /\ Len(b) \in Nat
  OBVIOUS
<1>2. Len(a) = 0 /\ Len(b) = 0
  BY <1>1
<1> QED
  BY <1>2

LEMMA OutstandingLen ==
  ASSUME NEW S, NEW a \in Seq(S), NEW b \in Seq(S)
  PROVE  Len(a \o b) = Len(a) + Len(b) /\ Len(a) \in Nat /\ Len(b) \in Nat
OBVIOUS

LEMMA OutstandingOne ==
  ASSUME NEW S, NEW a \in Seq(S), NEW b \in Seq(S), Len(a \o b) = 1, b # <<>>
  PROVE  b = a \o b
<1>1. Len(a \o b) = Len(a) + Len(b) /\ Len(a) \in Nat /\ Len(b) \in Nat
  BY OutstandingLen
<1>2. Len(b) # 0
  OBVIOUS
<1>3. Len(a) = 0
  BY <1>1, <1>2
<1>4. a = <<>>
  BY <1>3
<1> QED
  BY <1>4

LEMMA QueueHead ==
  ASSUME NEW S, NEW a \in Seq(S), a # <<>>
  PROVE  Head(a) \in S /\ Tail(a) \in Seq(S)
OBVIOUS

LEMMA QueueNotEmpty ==
  ASSUME NEW S, NEW a \in Seq(S), NEW x \in S
  PROVE  Append(a, x) # <<>>
OBVIOUS

LEMMA QueueAppend ==
  ASSUME NEW S, NEW a \in Seq(S), NEW x \in S
  PROVE  Append(a, x) \in Seq(S)
OBVIOUS

LEMMA ProfileTypesInit == PInit => ProfileTypes
BY ProfileNoneAssumption DEF PInit, ProfileTypes, Idle, Gathered, OpState, Ack

LEMMA ProfileTypesStep ==
  ASSUME ProfileTypes, [PNext]_pvars
  PROVE  ProfileTypes'
<1> USE ProfileNoneAssumption, CoreAssumption DEF Starting, Stopping, Undoing, Gathered, Process, Active
<1>0. Main \in Process
  BY DEF Process
<1>1. CASE StartProfile
  <2>1. op' \in OpState /\ Starting'
    <3>1. \E m \in BOOLEAN :
            op' = [kind |-> "start", phase |-> "fan", failed |-> FALSE, mainStarted |-> m]
      BY <1>1 DEF StartProfile
    <3>2. PICK m \in BOOLEAN :
            op' = [kind |-> "start", phase |-> "fan", failed |-> FALSE, mainStarted |-> m]
      BY <3>1
    <3> QED
      BY <3>2 DEF OpState
  <2>2. wanted' \in [Core -> Ack] /\ commands' \in [Core -> Seq(BOOLEAN)]
    BY <1>1 DEF StartProfile, ProfileTypes, Ask, Ack
  <2>3. session' \in Nat /\ handle' \in [Process -> {None} \cup [session : Nat, linked : BOOLEAN]]
        /\ file' \in [Process -> Nat]
    <3>1. CASE Active(Main)
      BY <1>1, <3>1 DEF StartProfile, ProfileTypes
    <3>2. CASE ~Active(Main)
      <4>1. Unlinked(handle) \in [Process -> {None} \cup [session : Nat, linked : BOOLEAN]]
        BY DEF Unlinked, ProfileTypes
      <4>2. [session |-> session + 1, linked |-> TRUE] \in [session : Nat, linked : BOOLEAN]
        BY DEF ProfileTypes
      <4> QED
        <5>1. session' = session + 1 /\ handle' = Opened(Unlinked(handle), Main, session + 1)
              /\ file' = [p \in Process |-> 0]
          BY <1>1, <3>2 DEF StartProfile
        <5>2. handle' \in [Process -> {None} \cup [session : Nat, linked : BOOLEAN]]
          BY <5>1, <4>1, <4>2 DEF Opened
        <5> QED
          BY <5>1, <5>2 DEF ProfileTypes
    <3> QED
      BY <3>1, <3>2
  <2> QED
    BY <1>1, <2>1, <2>2, <2>3 DEF StartProfile, ProfileTypes, OpState
<1>2. CASE StopProfile
  BY <1>0, <1>2 DEF StopProfile, ProfileTypes, Ask, Ack, OpState
<1>3. CASE StartGathered
  <2>1. CASE op.failed
    <3>1. op' = [op EXCEPT !.phase = "undo"] /\ op.kind = "start"
      BY <1>3, <2>1 DEF StartGathered
    <3>2. op' \in OpState /\ op'.kind = "start" /\ op'.phase = "undo"
      BY <3>1 DEF ProfileTypes, OpState
    <3>3. wanted' \in [Core -> Ack] /\ commands' \in [Core -> Seq(BOOLEAN)]
      <4>1. wanted' = [c \in Core |-> FALSE] /\ commands' = [c \in Core |-> Append(commands[c], FALSE)]
        BY <1>3, <2>1 DEF StartGathered, Ask
      <4>2. commands \in [Core -> Seq(BOOLEAN)]
        BY DEF ProfileTypes
      <4> QED
        BY <4>1, <4>2, QueueAppend DEF Ack
    <3> QED
      BY <1>3, <2>1, <3>2, <3>3 DEF StartGathered, ProfileTypes, OpState
  <2>2. CASE ~op.failed
    <3>1. op' = Idle /\ answers' = [kind |-> "start", ok |-> TRUE]
          /\ UNCHANGED <<commands, wanted, acks, session, handle, file, late>> /\ Gathered
      BY <1>3, <2>2 DEF StartGathered
    <3>2. op' \in OpState /\ op'.phase = "idle" /\ answers' \in [kind : {None, "start", "stop"}, ok : BOOLEAN]
      BY <3>1 DEF Idle, OpState
    <3> QED
      BY <3>1, <3>2 DEF ProfileTypes
  <2> QED
    BY <2>1, <2>2
<1>4. CASE StartUndone
  BY <1>0, <1>4 DEF StartUndone, ProfileTypes, CloseMain, Flushed, Idle, OpState
<1>5. CASE StopGathered
  BY <1>0, <1>5 DEF StopGathered, ProfileTypes, CloseMain, Flushed, Idle, OpState
<1>6. ASSUME NEW c \in Core, ReceiveAck(c) PROVE ProfileTypes'
  <2>1. (op.failed \/ ~AckAccepted(c)) \in BOOLEAN
    BY Zenon
  <2>2. op' = [op EXCEPT !.failed = (op.failed \/ ~AckAccepted(c))]
    BY <1>6 DEF ReceiveAck
  <2>3. op' \in OpState /\ op'.kind = op.kind /\ op'.phase = op.phase
    BY <2>1, <2>2 DEF ProfileTypes, OpState
  <2>4. wanted' \in [Core -> Ack]
    BY <1>6 DEF ReceiveAck, ProfileTypes, Ack
  <2>5. acks' \in [Core -> Seq(Ack)]
    BY <1>6 DEF ReceiveAck, ProfileTypes
  <2>6. op.phase = "idle" => Gathered'
    BY <1>6 DEF ReceiveAck, ProfileTypes
  <2> QED
    BY <1>6, <2>3, <2>4, <2>5, <2>6 DEF ReceiveAck, ProfileTypes, OpState
<1>7. ASSUME NEW c \in Core, AckTimeout(c) PROVE ProfileTypes'
  <2>1. op' = [op EXCEPT !.failed = TRUE]
    BY <1>7 DEF AckTimeout
  <2>2. op' \in OpState /\ op'.kind = op.kind /\ op'.phase = op.phase
    BY <2>1 DEF ProfileTypes, OpState
  <2>3. wanted' \in [Core -> Ack]
    BY <1>7 DEF AckTimeout, ProfileTypes, Ack
  <2>4. op.phase = "idle" => Gathered'
    BY <1>7 DEF AckTimeout, ProfileTypes
  <2> QED
    BY <1>7, <2>2, <2>3, <2>4 DEF AckTimeout, ProfileTypes, OpState
<1>8. ASSUME NEW c \in Core, HandleProfileCommand(c) PROVE ProfileTypes'
  <2>1. commands[c] \in Seq(BOOLEAN) /\ acks[c] \in Seq(Ack) /\ c \in Process
    BY DEF ProfileTypes
  <2>2. Head(commands[c]) \in BOOLEAN /\ Tail(commands[c]) \in Seq(BOOLEAN)
    <3>1. commands[c] # <<>>
      BY <1>8 DEF HandleProfileCommand
    <3> QED
      BY <2>1, <3>1, QueueHead
  <2>3. commands' \in [Core -> Seq(BOOLEAN)]
    BY <1>8, <2>2 DEF HandleProfileCommand, ProfileTypes
  <2>4. Append(acks[c], Head(commands[c])) \in Seq(Ack) /\ Append(acks[c], None) \in Seq(Ack)
    <3>1. Head(commands[c]) \in Ack /\ None \in Ack
      BY <2>2 DEF Ack
    <3> QED
      BY <2>1, <3>1, QueueAppend
  <2>5. acks' \in [Core -> Seq(Ack)]
    BY <1>8, <2>4 DEF HandleProfileCommand, RecorderObeys, RecorderRaises, ProfileTypes
  <2>6. handle' \in [Process -> {None} \cup [session : Nat, linked : BOOLEAN]]
    <3>1. [session |-> session, linked |-> TRUE] \in [session : Nat, linked : BOOLEAN]
      BY DEF ProfileTypes
    <3> QED
      BY <1>8, <2>1, <3>1 DEF HandleProfileCommand, RecorderObeys, RecorderRaises, ProfileTypes, Opened
  <2>7. file' \in [Process -> Nat]
    <3>1. handle[c] # None => handle[c].session \in Nat
      BY <2>1 DEF ProfileTypes
    <3>2. Flushed(file, handle, c) \in [Process -> Nat]
      BY <2>1, <3>1 DEF ProfileTypes, Flushed
    <3> QED
      BY <1>8, <3>2 DEF HandleProfileCommand, RecorderObeys, RecorderRaises, ProfileTypes
  <2>8. UNCHANGED <<op, wanted, session, late, answers>>
    BY <1>8 DEF HandleProfileCommand
  <2> QED
    BY <2>3, <2>5, <2>6, <2>7, <2>8 DEF ProfileTypes
<1>9. CASE UNCHANGED pvars
  BY <1>9 DEF pvars, ProfileTypes
<1> QED
  BY <1>1, <1>2, <1>3, <1>4, <1>5, <1>6, <1>7, <1>8, <1>9 DEF PNext

LEMMA QueueEqual ==
  ASSUME NEW S, NEW s \in Seq(S), NEW t \in Seq(S), Len(s) = Len(t), \A i \in 1 .. Len(s) : s[i] = t[i]
  PROVE  s = t
OBVIOUS

LEMMA QueueForms ==
  ASSUME NEW S, NEW x \in S, NEW y \in S
  PROVE  /\ Append(<<>>, x) = <<x>> /\ Append(<<x>>, y) = <<x, y>>
         /\ Head(<<x>>) = x /\ Tail(<<x>>) = <<>>
         /\ Head(<<x, y>>) = x /\ Tail(<<x, y>>) = <<y>>
<1>1. Append(<<>>, x) = <<x>>
  <2>1. <<>> \in Seq(S) /\ Len(<<>>) = 0
    OBVIOUS
  <2> QED
    BY <2>1
<1>2. Append(<<x>>, y) = <<x, y>>
  <2> DEFINE s == Append(<<x>>, y)
             t == <<x, y>>
  <2>1. s \in Seq(S) /\ t \in Seq(S) /\ Len(s) = 2 /\ Len(t) = 2
    OBVIOUS
  <2>2. s[1] = t[1] /\ s[2] = t[2]
    OBVIOUS
  <2> HIDE DEF s, t
  <2>3. s = t
    BY <2>1, <2>2, QueueEqual
  <2> QED
    BY <2>3 DEF s, t
<1>3. Head(<<x>>) = x /\ Tail(<<x>>) = <<>>
  OBVIOUS
<1>4. Head(<<x, y>>) = x /\ Tail(<<x, y>>) = <<y>>
  OBVIOUS
<1> QED
  BY <1>1, <1>2, <1>3, <1>4

LEMMA QueueOfOne ==
  ASSUME NEW S, NEW s \in Seq(S), Len(s) = 1
  PROVE  s = <<s[1]>>
<1> DEFINE t == <<s[1]>>
<1>1. s[1] \in S
  OBVIOUS
<1>2. t \in Seq(S) /\ Len(t) = 1 /\ t[1] = s[1]
  BY <1>1
<1> HIDE DEF t
<1>3. s = t
  BY <1>2, QueueEqual
<1> QED
  BY <1>3 DEF t

LEMMA QueueOfTwo ==
  ASSUME NEW S, NEW s \in Seq(S), Len(s) = 2
  PROVE  s = <<s[1], s[2]>>
<1> DEFINE t == <<s[1], s[2]>>
<1>1. s[1] \in S /\ s[2] \in S
  <2>1. \A i \in 1 .. Len(s) : s[i] \in S
    OBVIOUS
  <2>2. 1 \in 1 .. Len(s) /\ 2 \in 1 .. Len(s)
    OBVIOUS
  <2> QED
    BY <2>1, <2>2
<1>2. t \in Seq(S) /\ Len(t) = 2 /\ t[1] = s[1] /\ t[2] = s[2]
  BY <1>1
<1> HIDE DEF t
<1>3. s = t
  BY <1>2, QueueEqual
<1> QED
  BY <1>3 DEF t

\* Handling a command puts an answer where the command was.
LEMMA QueueHandled ==
  ASSUME NEW S, NEW a \in Seq(S), NEW b \in Seq(S), b # <<>>, NEW v \in S
  PROVE  /\ Append(a, v) \o Tail(b) \in Seq(S)
         /\ Len(Append(a, v) \o Tail(b)) = Len(a \o b)
         /\ (a \o b)[Len(a) + 1] = Head(b)
         /\ \A i \in 1 .. Len(a \o b) :
              (Append(a, v) \o Tail(b))[i] = IF i = Len(a) + 1 THEN v ELSE (a \o b)[i]
<1>1. Append(a, v) \in Seq(S) /\ Tail(b) \in Seq(S) /\ Len(Append(a, v)) = Len(a) + 1
      /\ Len(Tail(b)) = Len(b) - 1 /\ Len(a) \in Nat /\ Len(b) \in Nat \ {0}
  OBVIOUS
<1>2. \A i \in 1 .. Len(a) + 1 : Append(a, v)[i] = IF i = Len(a) + 1 THEN v ELSE a[i]
  BY SMTT(30)
<1>3. \A i \in 1 .. Len(b) - 1 : Tail(b)[i] = b[i + 1]
  OBVIOUS
<1>4. Len(a \o b) = Len(a) + Len(b)
  OBVIOUS
<1>5. \A i \in 1 .. Len(a) + Len(b) : (a \o b)[i] = IF i <= Len(a) THEN a[i] ELSE b[i - Len(a)]
  OBVIOUS
<1> DEFINE p == Append(a, v)
           q == Tail(b)
<1>6. p \o q \in Seq(S) /\ Len(p \o q) = Len(p) + Len(q)
      /\ \A i \in 1 .. Len(p) + Len(q) : (p \o q)[i] = IF i <= Len(p) THEN p[i] ELSE q[i - Len(p)]
  <2>1. p \in Seq(S) /\ q \in Seq(S)
    BY <1>1
  <2> HIDE DEF p, q
  <2> QED
    BY <2>1
<1>7. ASSUME NEW i \in 1 .. Len(a \o b)
      PROVE  (p \o q)[i] = IF i = Len(a) + 1 THEN v ELSE (a \o b)[i]
  <2>1. i \in 1 .. Len(a) + Len(b) /\ i \in 1 .. Len(p) + Len(q)
    BY <1>1, <1>4
  <2>2. CASE i <= Len(a) + 1
    <3>1. (p \o q)[i] = p[i]
      BY <1>1, <1>6, <2>1, <2>2
    <3>2. p[i] = IF i = Len(a) + 1 THEN v ELSE a[i]
      BY <1>1, <1>2, <2>1, <2>2
    <3>3. i # Len(a) + 1 => (a \o b)[i] = a[i]
      BY <1>1, <1>5, <2>1, <2>2
    <3> QED
      BY <3>1, <3>2, <3>3
  <2>3. CASE i > Len(a) + 1
    <3>1. (p \o q)[i] = q[i - (Len(a) + 1)]
      BY <1>1, <1>6, <2>1, <2>3
    <3>2. q[i - (Len(a) + 1)] = b[i - Len(a)]
      <4>1. i - (Len(a) + 1) \in 1 .. Len(b) - 1 /\ (i - (Len(a) + 1)) + 1 = i - Len(a)
        BY <1>1, <2>1, <2>3
      <4> QED
        BY <1>3, <4>1
    <3>3. (a \o b)[i] = b[i - Len(a)]
      BY <1>1, <1>5, <2>1, <2>3
    <3> QED
      BY <1>1, <2>1, <2>3, <3>1, <3>2, <3>3
  <2> QED
    BY <1>1, <2>1, <2>2, <2>3
<1>8. Len(p \o q) = Len(a \o b)
  BY <1>1, <1>4, <1>6
<1>9. (a \o b)[Len(a) + 1] = Head(b)
  BY <1>1
<1> QED
  BY <1>6, <1>7, <1>8, <1>9

\* The commands are answers as well, and no answer but the command itself is
\* a state that was asked for.
LEMMA QueuesTyped ==
  ASSUME ProfileTypes, NEW c \in Core
  PROVE  /\ acks[c] \in Seq(Ack) /\ commands[c] \in Seq(BOOLEAN) /\ commands[c] \in Seq(Ack)
         /\ acks[c] \o commands[c] \in Seq(Ack)
BY DEF ProfileTypes, Ack

LEMMA AnswersOf ==
  ASSUME NEW x \in BOOLEAN
  PROVE  /\ x \in Answers(x) /\ Answers(x) \subseteq Ack
         /\ \A a \in Answers(x) : a \in BOOLEAN => a = x
BY ProfileNoneAssumption DEF Answers, Ack

\* What is outstanding after a round has begun, after a worker handled a
\* command and after a core took an answer.
LEMMA AskedOutstanding ==
  ASSUME ProfileTypes, NEW active \in BOOLEAN, Ask(active), UNCHANGED acks, NEW c \in Core
  PROVE  /\ Outstanding(c)' = Append(Outstanding(c), active)
         /\ wanted'[c] = active /\ commands'[c] # <<>> /\ acks'[c] = acks[c]
<1>1. acks[c] \in Seq(Ack) /\ commands[c] \in Seq(Ack) /\ active \in Ack
  BY QueuesTyped DEF Ack
<1>2. commands'[c] = Append(commands[c], active) /\ acks'[c] = acks[c] /\ wanted'[c] = active
  BY DEF Ask
<1>3. acks[c] \o Append(commands[c], active) = Append(acks[c] \o commands[c], active)
  <2>1. \A x : acks[c] \o Append(commands[c], x) = Append(acks[c] \o commands[c], x)
    BY <1>1, OutstandingAsked
  <2> QED
    BY <2>1, Zenon
<1>4. Append(commands[c], active) # <<>>
  BY <1>1, QueueNotEmpty
<1> QED
  BY <1>2, <1>3, <1>4 DEF Outstanding

LEMMA HandledQueues ==
  ASSUME ProfileTypes, FALSE \notin RecorderFailures, NEW w \in Core, HandleProfileCommand(w)
  PROVE  /\ Head(commands[w]) \in BOOLEAN
         /\ \E v \in Answers(Head(commands[w])) :
              /\ acks' = [acks EXCEPT ![w] = Append(@, v)]
              /\ \/ v = Head(commands[w]) /\ RecorderObeys(w)
                 \/ v = None /\ RecorderRaises(w)
         /\ commands' = [commands EXCEPT ![w] = Tail(@)]
<1>1. commands[w] # <<>> /\ commands' = [commands EXCEPT ![w] = Tail(@)]
  BY DEF HandleProfileCommand
<1>2. Head(commands[w]) \in BOOLEAN
  BY <1>1, QueueHead DEF ProfileTypes
<1>3. CASE RecorderObeys(w)
  <2>1. acks' = [acks EXCEPT ![w] = Append(@, Head(commands[w]))]
    BY <1>3 DEF RecorderObeys
  <2>2. Head(commands[w]) \in Answers(Head(commands[w]))
    BY <1>2, AnswersOf
  <2> QED
    BY <1>1, <1>2, <1>3, <2>1, <2>2, Zenon
<1>4. CASE RecorderRaises(w)
  <2>1. acks' = [acks EXCEPT ![w] = Append(@, None)] /\ Head(commands[w]) \in RecorderFailures
    BY <1>4 DEF RecorderRaises
  <2>2. Head(commands[w]) = TRUE
    BY <1>2, <2>1
  <2>3. None \in Answers(Head(commands[w]))
    BY <2>2 DEF Answers
  <2> QED
    BY <1>1, <1>2, <1>4, <2>1, <2>3, Zenon
<1> QED
  BY <1>3, <1>4 DEF HandleProfileCommand

LEMMA HandledOutstanding ==
  ASSUME ProfileTypes, FALSE \notin RecorderFailures, NEW w \in Core, HandleProfileCommand(w), NEW c \in Core,
         NEW x \in BOOLEAN, NEW y \in BOOLEAN
  PROVE  /\ Outstanding(c) = <<>> => Outstanding(c)' = <<>>
         /\ (\E a \in Answers(x) : Outstanding(c) = <<a>>)
              => \E a \in Answers(x) : Outstanding(c)' = <<a>>
         /\ (\E a \in Answers(x), b \in Answers(y) : Outstanding(c) = <<a, b>>)
              => \E a \in Answers(x), b \in Answers(y) : Outstanding(c)' = <<a, b>>
<1>1. PICK v \in Answers(Head(commands[w])) : acks' = [acks EXCEPT ![w] = Append(@, v)]
  BY HandledQueues
<1>2. /\ Head(commands[w]) \in BOOLEAN /\ commands[w] # <<>>
      /\ commands' = [commands EXCEPT ![w] = Tail(@)]
  BY HandledQueues DEF HandleProfileCommand
<1>3. CASE c # w
  <2>1. Outstanding(c)' = Outstanding(c)
    BY <1>1, <1>2, <1>3 DEF ProfileTypes, Outstanding
  <2> QED
    BY <2>1
<1>4. CASE c = w
  <2> DEFINE old == acks[c] \o commands[c]
             new == Append(acks[c], v) \o Tail(commands[c])
             k == Len(acks[c]) + 1
  <2>1. acks'[c] = Append(acks[c], v) /\ commands'[c] = Tail(commands[c])
    BY <1>1, <1>2, <1>4 DEF ProfileTypes
  <2>2. Outstanding(c)' = new /\ Outstanding(c) = old
    BY <2>1 DEF Outstanding
  <2>3. v \in Ack /\ acks[c] \in Seq(Ack) /\ commands[c] \in Seq(Ack) /\ old \in Seq(Ack)
    BY <1>1, <1>2, AnswersOf, QueuesTyped
  <2>4. /\ new \in Seq(Ack) /\ Len(new) = Len(old) /\ old[k] = Head(commands[c])
        /\ \A i \in 1 .. Len(old) : new[i] = IF i = k THEN v ELSE old[i]
    <3>1. commands[c] # <<>>
      BY <1>2, <1>4
    <3>2. \A a, b \in Seq(Ack) : b # <<>> =>
            /\ Append(a, v) \o Tail(b) \in Seq(Ack)
            /\ Len(Append(a, v) \o Tail(b)) = Len(a \o b)
            /\ (a \o b)[Len(a) + 1] = Head(b)
            /\ \A i \in 1 .. Len(a \o b) :
                 (Append(a, v) \o Tail(b))[i] = IF i = Len(a) + 1 THEN v ELSE (a \o b)[i]
      BY <2>3, QueueHandled
    <3> QED
      BY <2>3, <3>1, <3>2, Zenon
  <2> HIDE DEF old, new, k
  <2>5. ASSUME NEW i \in 1 .. Len(old), NEW z \in BOOLEAN, old[i] \in Answers(z)
        PROVE  new[i] \in Answers(z)
    <3>1. CASE i = k
      <4>1. old[i] = z
        BY <1>2, <1>4, <2>4, <2>5, <3>1, AnswersOf
      <4> QED
        BY <1>1, <1>4, <2>4, <3>1, <4>1
    <3>2. CASE i # k
      BY <2>4, <2>5, <3>2
    <3> QED
      BY <3>1, <3>2
  <2>6. old # <<>>
    BY <1>2, <1>4, <2>3, OutstandingNone DEF old
  <2>7. ASSUME NEW a \in Answers(x), old = <<a>>
        PROVE  \E d \in Answers(x) : new = <<d>>
    <3>1. Len(old) = 1 /\ old[1] = a
      BY <2>7
    <3>2. new[1] \in Answers(x)
      BY <2>5, <2>7, <3>1
    <3>3. new = <<new[1]>>
      BY <2>4, <3>1, QueueOfOne
    <3> QED
      BY <3>2, <3>3
  <2>8. ASSUME NEW a \in Answers(x), NEW b \in Answers(y), old = <<a, b>>
        PROVE  \E d \in Answers(x), e \in Answers(y) : new = <<d, e>>
    <3>1. Len(old) = 2 /\ old[1] = a /\ old[2] = b
      BY <2>8
    <3>2. new[1] \in Answers(x) /\ new[2] \in Answers(y)
      BY <2>5, <2>8, <3>1
    <3>3. new = <<new[1], new[2]>>
      BY <2>4, <3>1, QueueOfTwo
    <3> QED
      BY <3>2, <3>3
  <2> QED
    BY <2>2, <2>6, <2>7, <2>8
<1> QED
  BY <1>3, <1>4

LEMMA ReceivedOutstanding ==
  ASSUME ProfileTypes, NEW w \in Core, ReceiveAck(w), NEW c \in Core
  PROVE  /\ c = w => /\ Outstanding(c)' = Tail(Outstanding(c)) /\ wanted'[c] = None
                     /\ acks'[c] = Tail(acks[c])
                     /\ Outstanding(c) # <<>> /\ Head(acks[c]) = Head(Outstanding(c))
         /\ c # w => /\ Outstanding(c)' = Outstanding(c) /\ wanted'[c] = wanted[c]
                     /\ acks'[c] = acks[c]
<1>1. acks[w] \in Seq(Ack) /\ commands[w] \in Seq(Ack) /\ acks[w] # <<>>
  BY QueuesTyped DEF ReceiveAck
<1>2. acks' = [acks EXCEPT ![w] = Tail(@)] /\ commands' = commands
      /\ wanted' = [wanted EXCEPT ![w] = None]
  BY DEF ReceiveAck
<1>3. CASE c = w
  <2>1. acks'[c] = Tail(acks[c]) /\ commands'[c] = commands[c] /\ wanted'[c] = None
    BY <1>2, <1>3 DEF ProfileTypes
  <2> QED
    BY <1>1, <1>3, <2>1, OutstandingAnswered DEF Outstanding
<1>4. CASE c # w
  BY <1>2, <1>4 DEF ProfileTypes, Outstanding
<1> QED
  BY <1>3, <1>4

LEMMA OpenIsNotNone ==
  ASSUME NEW n \in Nat
  PROVE  [session |-> n, linked |-> TRUE] # None
<1>1. [session |-> n, linked |-> TRUE] \in [session : Nat, linked : BOOLEAN]
  OBVIOUS
<1> QED
  BY <1>1, ProfileNoneAssumption

\* A step while no acknowledgement was late keeps all in step, unless it is
\* the timeout that puts one core behind.
LEMMA InStepStep ==
  ASSUME ProfileTypes, ProfileTypes', FALSE \notin RecorderFailures, late = 0, InStep, PNext
  PROVE  (late' = 0 => InStep') /\ (late' = 1 => Behind')
<1> USE ProfileNoneAssumption, CoreAssumption
<1>0. Main \in Process /\ Core \subseteq Process
  BY DEF Process
\* A round that begins finds all queues empty, and leaves its command in each.
<1>1. ASSUME NEW active \in BOOLEAN, Gathered, Ask(active), UNCHANGED acks, NEW c \in Core
      PROVE  /\ wanted'[c] = active /\ wanted'[c] # None /\ commands'[c] # <<>> /\ acks'[c] = <<>>
             /\ \E a \in Answers(active) : Outstanding(c)' = <<a>>
  <2>1. wanted[c] = None
    BY <1>1 DEF Gathered
  <2>2. Outstanding(c) = <<>>
    BY <2>1 DEF InStep, QueuesInStep
  <2>3. Outstanding(c)' = Append(<<>>, active) /\ wanted'[c] = active /\ commands'[c] # <<>> /\ acks'[c] = acks[c]
    BY <1>1, <2>2, AskedOutstanding
  <2>4. Append(<<>>, active) = <<active>> /\ active \in Answers(active)
    BY QueueForms, AnswersOf
  <2>5. acks[c] = <<>>
    BY <2>2, QueuesTyped, OutstandingNone DEF Outstanding
  <2> QED
    BY <1>1, <2>3, <2>4, <2>5
<1>2. ASSUME NEW active \in BOOLEAN, Gathered, Ask(active), UNCHANGED acks, Starting' = active
      PROVE  QueuesInStep' /\ \A c \in Core : commands'[c] # <<>> /\ acks'[c] # <<None>>
  <2>1. ASSUME NEW c \in Core
        PROVE  /\ wanted'[c] # None /\ wanted'[c] = Starting' /\ commands'[c] # <<>> /\ acks'[c] # <<None>>
               /\ \E a \in Answers(Starting)' : Outstanding(c)' = <<a>>
    <3>1. /\ wanted'[c] = active /\ wanted'[c] # None /\ commands'[c] # <<>> /\ acks'[c] = <<>>
          /\ \E a \in Answers(active) : Outstanding(c)' = <<a>>
      BY <1>1, <1>2
    <3>2. Answers(Starting)' = Answers(active)
      BY <1>2 DEF Answers
    <3>3. <<>> # <<None>>
      OBVIOUS
    <3> QED
      BY <1>2, <3>1, <3>2, <3>3
  <2> QED
    BY <2>1 DEF QueuesInStep
\* A core that waits for nothing has handled everything.
<1>3. ASSUME NEW c \in Core, wanted[c] = None
      PROVE  Outstanding(c) = <<>> /\ commands[c] = <<>> /\ acks[c] = <<>> /\ acks[c] # <<None>>
  <2>1. Outstanding(c) = <<>>
    BY <1>3 DEF InStep, QueuesInStep
  <2>2. acks[c] = <<>> /\ commands[c] = <<>>
    BY <2>1, QueuesTyped, OutstandingNone DEF Outstanding
  <2>3. <<>> # <<None>>
    OBVIOUS
  <2> QED
    BY <2>1, <2>2, <2>3
\* One that waits does so in a round, for the one command that is
\* outstanding, or the answer to it.
<1>4. ASSUME NEW c \in Core, wanted[c] # None
      PROVE  /\ wanted[c] = Starting /\ wanted[c] \in BOOLEAN
             /\ \E a \in Answers(Starting) : Outstanding(c) = <<a>>
             /\ op.phase # "idle" /\ (Starting \/ Stopping \/ Undoing)
  BY <1>4 DEF InStep, QueuesInStep, ProfileTypes, Gathered, Ack
<1>5. Starting \in BOOLEAN /\ Undoing \in BOOLEAN
  BY Zenon DEF Starting, Undoing
<1>6. ASSUME StartProfile PROVE late' = 0 /\ InStep'
  <2>1. late' = 0 /\ op.phase = "idle" /\ UNCHANGED <<acks, answers>> /\ Ask(TRUE) /\ Gathered
    BY <1>6 DEF StartProfile, ProfileTypes
  <2>2. Starting' = TRUE /\ ~Stopping' /\ ~Undoing' /\ ~op'.failed /\ op'.phase = "fan"
        /\ (op'.mainStarted \/ Active(Main))
    BY <1>6 DEF StartProfile, Starting, Stopping, Undoing
  <2>3. QueuesInStep' /\ \A c \in Core : commands'[c] # <<>> /\ acks'[c] # <<None>>
    BY <1>2, <2>1, <2>2
  <2>4. \A p \in Process : handle[p] = handle[Main] /\ handle[p] \in {None, Recording}
    BY <2>1 DEF InStep, RecordersInStep, Process
  <2>5. /\ handle'[Main] = Recording' /\ \A p \in Process : handle'[p] \in {None, Recording'}
        /\ Active(Main) => \A p \in Process : handle'[p] = Recording'
    <3>1. CASE Active(Main)
      BY <1>0, <1>6, <2>4, <3>1 DEF StartProfile, Active, Recording
    <3>2. CASE ~Active(Main)
      <4>1. session' = session + 1 /\ handle' = Opened(Unlinked(handle), Main, session + 1)
        BY <1>6, <3>2 DEF StartProfile
      <4>2. Unlinked(handle) = [p \in Process |-> None]
        BY <2>4, <3>2 DEF Unlinked, Active
      <4> QED
        BY <1>0, <3>2, <4>1, <4>2 DEF Opened, Recording
    <3> QED
      BY <3>1, <3>2
  <2>6. Recording' # None
    BY OpenIsNotNone DEF Recording, ProfileTypes
  <2>7. RecordersInStep'
    BY <1>0, <2>2, <2>3, <2>5, <2>6 DEF RecordersInStep, Active
  <2>8. FailuresInStep'
    BY <2>2, <2>3 DEF FailuresInStep
  <2> QED
    BY <2>1, <2>3, <2>7, <2>8 DEF InStep
<1>7. ASSUME StopProfile PROVE late' = 0 /\ InStep'
  <2>1. late' = 0 /\ op.phase = "idle" /\ UNCHANGED <<acks, answers, session, handle, file>> /\ Ask(FALSE)
        /\ Gathered
    BY <1>7 DEF StopProfile, ProfileTypes
  <2>2. Starting' = FALSE /\ Stopping' /\ ~Undoing' /\ ~op'.failed /\ op'.phase = "fan"
    BY <1>7 DEF StopProfile, Starting, Stopping, Undoing
  <2>3. QueuesInStep' /\ \A c \in Core : commands'[c] # <<>> /\ acks'[c] # <<None>>
    BY <1>2, <2>1, <2>2
  <2>4. RecordersInStep'
    BY <2>1, <2>2, <2>3 DEF InStep, RecordersInStep, Active, AnsweredStart, Recording
  <2>5. FailuresInStep'
    BY <2>2, <2>3 DEF FailuresInStep
  <2> QED
    BY <2>1, <2>3, <2>4, <2>5 DEF InStep
<1>8. ASSUME StartGathered PROVE late' = 0 /\ InStep'
  <2>1. late' = 0 /\ Gathered /\ Starting /\ ~Undoing /\ ~Stopping
        /\ UNCHANGED <<acks, session, handle, file>>
    BY <1>8 DEF StartGathered, Starting, Stopping, Undoing
  <2>2. \A c \in Core : /\ wanted[c] = None /\ Outstanding(c) = <<>> /\ commands[c] = <<>>
                        /\ acks[c] # <<None>>
    BY <1>3, <2>1 DEF Gathered
  <2>3. CASE op.failed
    <3>1. op' = [op EXCEPT !.phase = "undo"] /\ Ask(FALSE) /\ UNCHANGED answers
      BY <1>8, <2>3 DEF StartGathered
    <3>2. op'.phase = "undo" /\ op'.failed /\ op'.kind = "start" /\ op'.mainStarted = op.mainStarted
      BY <2>1, <2>3, <3>1 DEF ProfileTypes, OpState, Starting
    <3>3. Starting' = FALSE /\ ~Stopping' /\ Undoing'
      BY <3>2 DEF Starting, Stopping, Undoing
    <3>4. QueuesInStep' /\ \A c \in Core : commands'[c] # <<>> /\ acks'[c] # <<None>>
      BY <1>2, <2>1, <3>1, <3>3
    <3>5. RecordersInStep'
      BY <2>1, <3>1, <3>2, <3>3, <3>4 DEF InStep, RecordersInStep, Active, AnsweredStart, Recording
    <3>6. FailuresInStep'
      BY <2>3, <3>2, <3>3, <3>4 DEF InStep, FailuresInStep
    <3> QED
      BY <2>1, <3>4, <3>5, <3>6 DEF InStep
  <2>4. CASE ~op.failed
    <3>1. op' = Idle /\ UNCHANGED <<commands, wanted>>
      BY <1>8, <2>4 DEF StartGathered
    <3>2. ~Starting' /\ ~Stopping' /\ ~Undoing' /\ ~op'.failed /\ op'.phase = "idle"
      BY <3>1 DEF Idle, Starting, Stopping, Undoing
    <3>3. QueuesInStep'
      BY <2>1, <2>2, <3>1 DEF QueuesInStep, Outstanding
    <3>4. \A c \in Core : Active(c)
      BY <2>1, <2>2, <2>4 DEF InStep, RecordersInStep
    <3>5. RecordersInStep'
      BY <1>0, <2>1, <3>2, <3>4 DEF InStep, RecordersInStep, Active, Recording
    <3>6. FailuresInStep'
      BY <2>1, <2>2, <3>2 DEF FailuresInStep
    <3> QED
      BY <2>1, <3>3, <3>5, <3>6 DEF InStep
  <2> QED
    BY <2>3, <2>4
\* At the end of the other rounds every recorder is closed.
<1>9. ASSUME Gathered, op' = Idle, ~AnsweredStart', UNCHANGED <<acks, commands, wanted, session>>,
             \A p \in Process : handle'[p] = None, late' = 0
      PROVE  InStep'
  <2>1. ~Starting' /\ ~Stopping' /\ ~Undoing' /\ ~op'.failed /\ op'.phase = "idle"
    BY <1>9 DEF Idle, Starting, Stopping, Undoing
  <2>2. \A c \in Core : wanted[c] = None /\ Outstanding(c) = <<>> /\ acks[c] # <<None>>
    BY <1>3, <1>9 DEF Gathered
  <2>3. QueuesInStep'
    BY <1>9, <2>2 DEF QueuesInStep, Outstanding
  <2>4. RecordersInStep'
    BY <1>0, <1>9, <2>1 DEF RecordersInStep
  <2>5. FailuresInStep'
    BY <1>9, <2>1, <2>2 DEF FailuresInStep
  <2> QED
    BY <2>3, <2>4, <2>5 DEF InStep
<1>10. ASSUME StartUndone PROVE late' = 0 /\ InStep'
  <2>1. late' = 0 /\ Gathered /\ op' = Idle /\ Undoing /\ ~AnsweredStart'
        /\ UNCHANGED <<acks, commands, wanted, session>>
    BY <1>10 DEF StartUndone, Undoing, AnsweredStart
  <2>2. handle' = CloseMain
    BY <1>10, <2>1 DEF StartUndone, InStep, FailuresInStep
  <2>3. \A c \in Core : ~Active(c)
    BY <1>3, <2>1 DEF InStep, RecordersInStep, Gathered
  <2>4. ASSUME NEW p \in Process PROVE handle'[p] = None
    BY <1>0, <2>2, <2>3 DEF CloseMain, Active, Process, ProfileTypes
  <2> QED
    BY <1>9, <2>1, <2>4
<1>11. ASSUME StopGathered PROVE late' = 0 /\ InStep'
  <2>1. late' = 0 /\ Gathered /\ op' = Idle /\ Stopping /\ ~AnsweredStart' /\ handle' = CloseMain
        /\ UNCHANGED <<acks, commands, wanted, session>>
    BY <1>11 DEF StopGathered, Stopping, AnsweredStart
  <2>2. \A c \in Core : ~Active(c)
    BY <1>3, <2>1 DEF InStep, RecordersInStep, Gathered
  <2>3. ASSUME NEW p \in Process PROVE handle'[p] = None
    BY <1>0, <2>1, <2>2 DEF CloseMain, Active, Process, ProfileTypes
  <2> QED
    BY <1>9, <2>1, <2>3
<1>12. ASSUME NEW w \in Core, ReceiveAck(w) PROVE late' = 0 /\ InStep'
  <2>1. late' = 0 /\ UNCHANGED <<commands, session, handle, file, answers>> /\ wanted[w] # None
        /\ op' = [op EXCEPT !.failed = (op.failed \/ ~AckAccepted(w))] /\ acks[w] # <<>>
    BY <1>12 DEF ReceiveAck
  <2>2. PICK a \in Answers(Starting) : Outstanding(w) = <<a>>
    BY <1>4, <2>1
  <2>3. wanted[w] = Starting /\ (Starting \/ Stopping \/ Undoing) /\ a \in Ack
    BY <1>4, <1>5, <2>1, AnswersOf
  <2>4. Head(<<a>>) = a /\ Tail(<<a>>) = <<>>
    BY <2>3, QueueForms
  <2>5. Head(acks[w]) = a /\ Outstanding(w)' = <<>> /\ wanted'[w] = None
    BY <1>12, <2>2, <2>4, ReceivedOutstanding
\* What is outstanding is the answer itself.
  <2>6. acks[w] = <<a>>
    <3>1. acks[w] \in Seq(Ack) /\ commands[w] \in Seq(Ack) /\ acks[w] \o commands[w] = <<a>>
      BY <2>2, QueuesTyped DEF Outstanding
    <3>2. Len(acks[w]) = 1
      <4>1. Len(acks[w] \o commands[w]) = Len(acks[w]) + Len(commands[w]) /\ Len(acks[w]) \in Nat
            /\ Len(commands[w]) \in Nat
        BY <3>1, OutstandingLen
      <4>2. Len(<<a>>) = 1
        OBVIOUS
      <4>3. Len(acks[w]) # 0
        BY <2>1, <3>1
      <4>4. Len(acks[w]) + Len(commands[w]) = 1
        BY <3>1, <4>1, <4>2
      <4>5. \A m, n \in Nat : m + n = 1 /\ m # 0 => m = 1
        OBVIOUS
      <4> QED
        BY <4>1, <4>3, <4>4, <4>5, Zenon
    <3>3. acks[w] = <<acks[w][1]>>
      BY <3>1, <3>2, QueueOfOne
    <3>4. Head(acks[w]) = acks[w][1]
      BY <3>1, <3>2
    <3> QED
      BY <2>5, <3>3, <3>4
  <2>7. op'.kind = op.kind /\ op'.phase = op.phase /\ op'.mainStarted = op.mainStarted
        /\ op'.failed = (op.failed \/ ~AckAccepted(w))
    <3>1. (op.failed \/ ~AckAccepted(w)) \in BOOLEAN
      BY Zenon
    <3> QED
      BY <2>1, <3>1 DEF ProfileTypes, OpState
  <2>8. Starting' = Starting /\ Stopping' = Stopping /\ Undoing' = Undoing
    BY <2>7 DEF Starting, Stopping, Undoing
  <2>9. AckAccepted(w) <=> a = Starting
    BY <2>3, <2>5 DEF AckAccepted
\* Only a start is answered with an error, and then the request began it.
  <2>10. ~AckAccepted(w) => a = None /\ Starting /\ op.mainStarted
    <3>1. a # Starting => a = None /\ Starting
      BY <1>5, <2>2 DEF Answers
    <3>2. a = None => op.mainStarted
      BY <2>6 DEF InStep, FailuresInStep
    <3> QED
      BY <2>9, <3>1, <3>2
  <2>11. ASSUME NEW c \in Core
         PROVE  acks'[c] = acks[c] \/ (c = w /\ acks'[c] # <<None>> /\ (acks[c] = <<None>> => op'.failed))
    <3>1. CASE c # w
      BY <1>12, <3>1, ReceivedOutstanding
    <3>2. CASE c = w
      <4>1. acks'[c] = Tail(acks[c])
        BY <1>12, <3>2, ReceivedOutstanding
      <4>2. acks'[c] = <<>> /\ <<>> # <<None>>
        BY <2>4, <2>6, <3>2, <4>1
      <4>3. acks[c] = <<None>> => a = None
        <5>1. Head(<<None>>) = None
          OBVIOUS
        <5> QED
          BY <2>5, <3>2, <5>1
      <4>4. a = None => ~AckAccepted(w)
        BY <1>5, <2>9
      <4> QED
        BY <2>7, <3>2, <4>2, <4>3, <4>4
    <3> QED
      BY <3>1, <3>2
  <2>12. QueuesInStep'
    <3> SUFFICES ASSUME NEW c \in Core
                 PROVE  (/\ wanted[c] = None => Outstanding(c) = <<>>
                         /\ wanted[c] # None =>
                              wanted[c] = Starting /\ \E b \in Answers(Starting) : Outstanding(c) = <<b>>)'
      BY DEF QueuesInStep
    <3>1. CASE c = w
      BY <2>5, <3>1
    <3>2. CASE c # w
      <4>1. Outstanding(c)' = Outstanding(c) /\ wanted'[c] = wanted[c]
        BY <1>12, <3>2, ReceivedOutstanding
      <4>2. /\ wanted[c] = None => Outstanding(c) = <<>>
            /\ wanted[c] # None =>
                 wanted[c] = Starting /\ \E b \in Answers(Starting) : Outstanding(c) = <<b>>
        BY DEF InStep, QueuesInStep
      <4>3. Answers(Starting)' = Answers(Starting)
        BY <2>8 DEF Answers
      <4> QED
        BY <2>8, <4>1, <4>2, <4>3
    <3> QED
      BY <3>1, <3>2
  <2>13. FailuresInStep'
    BY <2>7, <2>8, <2>10, <2>11 DEF InStep, FailuresInStep
  <2>14. RecordersInStep'
    <3> HIDE DEF Starting, Stopping, Undoing
    <3>1. Recording' = Recording /\ AnsweredStart' = AnsweredStart /\ \A p : Active(p)' = Active(p)
      BY <2>1 DEF Recording, AnsweredStart, Active
    <3> QED
      BY <2>1, <2>7, <2>8, <2>11, <3>1 DEF InStep, RecordersInStep
  <2> QED
    BY <2>1, <2>12, <2>13, <2>14 DEF InStep
<1>13. ASSUME NEW w \in Core, AckTimeout(w) PROVE late' = 1 /\ Behind'
  <2>1. late' = 1 /\ UNCHANGED <<commands, acks, answers>> /\ wanted[w] # None
        /\ op' = [op EXCEPT !.failed = TRUE] /\ wanted' = [wanted EXCEPT ![w] = None]
    BY <1>13 DEF AckTimeout
  <2>2. op'.kind = op.kind /\ op'.phase = op.phase /\ op'.failed
    BY <2>1 DEF ProfileTypes, OpState
  <2>3. op.phase # "idle" /\ \E a \in Answers(Starting) : Outstanding(w) = <<a>>
    BY <1>4, <2>1
  <2>4. Starting' = Starting /\ wanted'[w] = None
    BY <2>1, <2>2 DEF Starting, ProfileTypes
  <2>5. \E a \in Answers(Starting)' : Outstanding(w)' = <<a>>
    <3>1. Answers(Starting)' = Answers(Starting) /\ Outstanding(w)' = Outstanding(w)
      BY <2>1, <2>4 DEF Answers, Outstanding
    <3> QED
      BY <2>3, <3>1
  <2> QED
    BY <2>1, <2>2, <2>3, <2>4, <2>5 DEF Behind, AnsweredStart
<1>14. ASSUME NEW w \in Core, HandleProfileCommand(w) PROVE late' = 0 /\ InStep'
  <2>1. late' = 0 /\ UNCHANGED <<op, wanted, session, answers>> /\ commands[w] # <<>>
    BY <1>14 DEF HandleProfileCommand
  <2>2. wanted[w] # None
    BY <1>3, <2>1
  <2>3. wanted[w] = Starting /\ (Starting \/ Stopping \/ Undoing) /\ op.phase # "idle"
    BY <1>4, <2>2
\* The command that is handled is the one of this round, and the only one.
  <2>4. acks[w] = <<>> /\ Head(commands[w]) = Starting /\ Tail(commands[w]) = <<>>
    <3>1. PICK a \in Answers(Starting) : acks[w] \o commands[w] = <<a>>
      BY <1>4, <2>2 DEF Outstanding
    <3>2. acks[w] \in Seq(Ack) /\ commands[w] \in Seq(Ack) /\ a \in Ack
      BY <1>5, QueuesTyped, AnswersOf
    <3>3. Len(<<a>>) = 1 /\ Head(<<a>>) = a /\ Tail(<<a>>) = <<>>
      BY <3>2, QueueForms
    <3>4. commands[w] = <<a>>
      BY <2>1, <3>1, <3>2, <3>3, OutstandingOne, Zenon
    <3>5. acks[w] = <<>>
      <4>1. Len(acks[w] \o commands[w]) = Len(acks[w]) + Len(commands[w]) /\ Len(acks[w]) \in Nat
        BY <3>2, OutstandingLen
      <4>2. Len(acks[w]) = 0
        BY <3>1, <3>3, <3>4, <4>1
      <4> QED
        BY <3>2, <4>2
    <3>6. Head(commands[w]) \in BOOLEAN
      BY <1>14, HandledQueues
    <3>7. a = Starting
      BY <1>5, <3>1, <3>3, <3>4, <3>6, AnswersOf
    <3> QED
      BY <3>3, <3>4, <3>5, <3>7
  <2>5. commands' = [commands EXCEPT ![w] = <<>>]
    BY <1>14, <2>4 DEF HandleProfileCommand
  <2>6. Starting' = Starting /\ Stopping' = Stopping /\ Undoing' = Undoing
        /\ AnsweredStart' = AnsweredStart /\ Recording' = Recording
    BY <2>1 DEF Starting, Stopping, Undoing, AnsweredStart, Recording
  <2>7. QueuesInStep'
    <3> SUFFICES ASSUME NEW c \in Core
                 PROVE  (/\ wanted[c] = None => Outstanding(c) = <<>>
                         /\ wanted[c] # None =>
                              wanted[c] = Starting /\ \E b \in Answers(Starting) : Outstanding(c) = <<b>>)'
      BY DEF QueuesInStep
    <3>1. wanted'[c] = wanted[c] /\ Answers(Starting)' = Answers(Starting)
      BY <2>1, <2>6 DEF Answers
    <3>2. /\ Outstanding(c) = <<>> => Outstanding(c)' = <<>>
          /\ (\E a \in Answers(Starting) : Outstanding(c) = <<a>>)
               => \E a \in Answers(Starting) : Outstanding(c)' = <<a>>
      BY <1>5, <1>14, HandledOutstanding
    <3>3. /\ wanted[c] = None => Outstanding(c) = <<>>
          /\ wanted[c] # None =>
               wanted[c] = Starting /\ \E b \in Answers(Starting) : Outstanding(c) = <<b>>
      BY DEF InStep, QueuesInStep
    <3> QED
      BY <2>6, <3>1, <3>2, <3>3
  <2>8. w \in Process /\ w # Main /\ Recording # None
    BY <1>0, OpenIsNotNone DEF Recording, ProfileTypes
  <2>9. \A c \in Core : c # w => commands'[c] = commands[c]
    BY <2>5 DEF ProfileTypes
  <2>10. commands'[w] = <<>>
    BY <2>5 DEF ProfileTypes
  <2>11. PICK v \in Answers(Head(commands[w])) :
           /\ acks' = [acks EXCEPT ![w] = Append(@, v)]
           /\ \/ v = Head(commands[w]) /\ RecorderObeys(w)
              \/ v = None /\ RecorderRaises(w)
    BY <1>14, HandledQueues
  <2>12. acks'[w] = <<v>> /\ \A c \in Core : c # w => acks'[c] = acks[c]
    <3>1. acks'[w] = Append(<<>>, v) /\ \A c \in Core : c # w => acks'[c] = acks[c]
      BY <2>4, <2>11 DEF ProfileTypes
    <3>2. v \in Ack
      BY <1>5, <2>4, <2>11, AnswersOf
    <3> QED
      BY <3>1, <3>2, QueueForms
  <2> HIDE DEF Starting, Stopping, Undoing
  <2>13. CASE RecorderRaises(w)
    <3>1. Starting /\ ~Active(w) /\ UNCHANGED <<handle, file>>
      <4>1. Starting \in RecorderFailures /\ Starting # Active(w) /\ UNCHANGED <<handle, file>>
        BY <2>4, <2>13 DEF RecorderRaises
      <4>2. Starting = TRUE
        BY <1>5, <4>1
      <4> QED
        BY <4>1, <4>2
    <3>2. ~Stopping /\ ~Undoing
      BY <3>1 DEF Starting, Stopping, Undoing
    <3>3. op.mainStarted
      BY <3>1 DEF InStep, RecordersInStep
    <3>4. v = None \/ v = Starting
      BY <2>4, <2>11
    <3>5. v = None
      <4>1. v = TRUE => acks' # [acks EXCEPT ![w] = Append(@, None)]
        <5>1. ASSUME v = TRUE, acks' = [acks EXCEPT ![w] = Append(@, None)] PROVE FALSE
          <6>1. acks'[w] = Append(<<>>, None)
            BY <2>4, <5>1 DEF ProfileTypes
          <6>2. Append(<<>>, None) = <<None>>
            BY QueueForms
          <6>3. <<None>>[1] = None /\ <<v>>[1] = v
            OBVIOUS
          <6> QED
            BY <2>12, <5>1, <6>1, <6>2, <6>3
        <5> QED
          BY <5>1
      <4> QED
        BY <2>13, <3>1, <3>4, <4>1 DEF RecorderRaises
    <3>6. RecordersInStep'
      <4>1. \A p : Active(p)' = Active(p)
        BY <3>1 DEF Active
      <4> QED
        BY <2>1, <2>3, <2>6, <2>9, <2>12, <3>1, <3>2, <3>3, <3>5, <4>1 DEF InStep, RecordersInStep
    <3>7. FailuresInStep'
      BY <2>1, <2>6, <3>3 DEF InStep, FailuresInStep
    <3> QED
      BY <2>1, <2>7, <3>6, <3>7 DEF InStep
\* An answer without an error is the state that was asked for.
  <2>14. CASE RecorderObeys(w)
    <3>1. v \in BOOLEAN
      <4>1. acks' = [acks EXCEPT ![w] = Append(@, Starting)]
        BY <2>4, <2>14 DEF RecorderObeys
      <4>2. acks'[w] = Append(<<>>, Starting)
        BY <2>4, <4>1 DEF ProfileTypes
      <4>3. Append(<<>>, Starting) = <<Starting>>
        BY <1>5, QueueForms
      <4>4. <<Starting>>[1] = Starting /\ <<v>>[1] = v
        OBVIOUS
      <4> QED
        BY <1>5, <2>12, <4>2, <4>3, <4>4
    <3>2. acks'[w] # <<None>>
      <4>1. <<None>>[1] = None /\ <<v>>[1] = v
        OBVIOUS
      <4> QED
        BY <2>12, <3>1, <4>1
    <3>3. FailuresInStep'
      BY <2>1, <2>6, <2>12, <3>2 DEF InStep, FailuresInStep
    <3>4. CASE Starting
      <4>1. handle' = (IF Active(w) THEN handle ELSE Opened(handle, w, session))
        BY <2>4, <2>14, <3>4 DEF RecorderObeys
      <4>2. handle'[w] = Recording /\ \A p \in Process : p # w => handle'[p] = handle[p]
        BY <2>8, <4>1 DEF InStep, RecordersInStep, Active, Opened, Recording, ProfileTypes
      <4>3. ~Stopping /\ ~Undoing
        BY <3>4 DEF Starting, Stopping, Undoing
      <4>4. RecordersInStep'
        BY <1>0, <2>1, <2>3, <2>6, <2>8, <2>9, <2>12, <3>4, <4>2, <4>3 DEF InStep, RecordersInStep, Active
      <4> QED
        BY <2>1, <2>7, <3>3, <4>4 DEF InStep
    <3>5. CASE ~Starting
      <4>1. handle' = [handle EXCEPT ![w] = None] /\ file' = Flushed(file, handle, w)
        BY <2>4, <2>14, <3>5 DEF RecorderObeys
      <4>2. Stopping => handle[w] = handle[Main] /\ handle[w] \in {None, Recording}
        BY <2>1, <2>8 DEF InStep, RecordersInStep
      <4>3. Stopping /\ handle[w] # None => file'[w] = session
        BY <2>8, <4>1, <4>2 DEF Flushed, Recording, ProfileTypes
      <4>4. \A c \in Core : c # w => file'[c] = file[c]
        BY <4>1 DEF ProfileTypes, Flushed
      <4>5. handle'[w] = None /\ \A p \in Process : p # w => handle'[p] = handle[p]
        BY <2>8, <4>1 DEF ProfileTypes
      <4>6. ~(Stopping /\ Undoing)
        BY DEF Stopping, Undoing
      <4>7. RecordersInStep'
        BY <1>0, <2>1, <2>3, <2>6, <2>8, <2>9, <2>10, <3>5, <4>2, <4>3, <4>4, <4>5, <4>6
        DEF InStep, RecordersInStep, Active
      <4> QED
        BY <2>1, <2>7, <3>3, <4>7 DEF InStep
    <3> QED
      BY <3>4, <3>5
  <2> QED
    BY <2>11, <2>13, <2>14
<1> QED
  <2>1. (late' = 0 /\ InStep') \/ (late' = 1 /\ Behind')
    BY <1>6, <1>7, <1>8, <1>10, <1>11, <1>12, <1>13, <1>14, Zenon DEF PNext
  <2> QED
    BY <2>1

\* A step after one late acknowledgement keeps its core a command behind.
LEMMA BehindStep ==
  ASSUME ProfileTypes, ProfileTypes', FALSE \notin RecorderFailures, late = 1, Behind, PNext
  PROVE  late' # 0 /\ (late' = 1 => Behind')
<1> USE ProfileNoneAssumption, CoreAssumption
<1> DEFINE Lags(c) ==
      IF wanted[c] = None
      THEN (\E a \in Answers(Starting) : Outstanding(c) = <<a>>) /\ (Starting => op.failed)
      ELSE /\ wanted[c] = Starting
           /\ \E a \in Answers(Undoing), b \in Answers(Starting) : Outstanding(c) = <<a, b>>
<1>1. PICK c \in Core : Lags(c)
  BY DEF Behind
<1>2. Starting \in BOOLEAN /\ Undoing \in BOOLEAN
  BY Zenon DEF Starting, Undoing
\* It is enough to follow that core.
<1>3. ASSUME late' = 1, AnsweredStart' => op'.phase # "idle" /\ op'.failed,
             NEW undoing \in BOOLEAN, Undoing' = undoing, NEW starting \in BOOLEAN, Starting' = starting,
             \/ /\ wanted'[c] = None /\ \E a \in Answers(starting) : Outstanding(c)' = <<a>>
                /\ starting => op'.failed
             \/ /\ wanted'[c] = starting
                /\ \E a \in Answers(undoing), b \in Answers(starting) : Outstanding(c)' = <<a, b>>
      PROVE  late' # 0 /\ (late' = 1 => Behind')
  <2>1. Answers(Starting)' = Answers(starting) /\ Answers(Undoing)' = Answers(undoing)
    BY <1>3 DEF Answers
  <2>2. starting # None
    OBVIOUS
  <2>3. (IF wanted[c] = None
         THEN (\E a \in Answers(Starting) : Outstanding(c) = <<a>>) /\ (Starting => op.failed)
         ELSE /\ wanted[c] = Starting
              /\ \E a \in Answers(Undoing), b \in Answers(Starting) : Outstanding(c) = <<a, b>>)'
    BY <1>3, <2>1, <2>2
  <2> QED
    BY <1>3, <2>3 DEF Behind
\* A round begins with the answer to a command of the round before owed.
<1>4. ASSUME NEW older \in BOOLEAN, NEW active \in BOOLEAN, Ask(active), UNCHANGED acks,
             \E a \in Answers(older) : Outstanding(c) = <<a>>
      PROVE  /\ wanted'[c] = active
             /\ \E a \in Answers(older), b \in Answers(active) : Outstanding(c)' = <<a, b>>
  <2>1. PICK a \in Answers(older) : Outstanding(c) = <<a>>
    BY <1>4
  <2>2. Outstanding(c)' = Append(Outstanding(c), active) /\ wanted'[c] = active
    BY <1>4, AskedOutstanding
  <2>3. a \in Ack /\ active \in Ack /\ active \in Answers(active)
    BY AnswersOf DEF Ack
  <2>4. Append(<<a>>, active) = <<a, active>>
    BY <2>3, QueueForms
  <2> QED
    BY <2>1, <2>2, <2>3, <2>4
\* Between rounds the owed answer is one to a stop.
<1>5. ASSUME ~Starting, wanted[c] = None PROVE \E a \in Answers(FALSE) : Outstanding(c) = <<a>>
  <2>1. Starting = FALSE
    BY <1>2, <1>5
  <2> QED
    BY <1>1, <1>5, <2>1
<1>6. CASE StartProfile
  <2>1. late' = 1 /\ op.phase = "idle" /\ UNCHANGED <<acks, answers>> /\ Ask(TRUE)
    BY <1>6 DEF StartProfile
  <2>2. Starting' = TRUE /\ Undoing' = FALSE
    BY <1>6 DEF StartProfile, Starting, Undoing
  <2>3. ~Starting /\ wanted[c] = None
    BY <2>1 DEF Starting, ProfileTypes, Gathered
  <2>4. /\ wanted'[c] = TRUE
        /\ \E a \in Answers(FALSE), b \in Answers(TRUE) : Outstanding(c)' = <<a, b>>
    BY <1>4, <1>5, <2>1, <2>3
  <2>5. ~AnsweredStart'
    BY <2>1 DEF Behind, AnsweredStart
  <2> QED
    BY <1>3, <2>1, <2>2, <2>4, <2>5
<1>7. CASE StopProfile
  <2>1. late' = 1 /\ op.phase = "idle" /\ UNCHANGED <<acks, answers>> /\ Ask(FALSE)
    BY <1>7 DEF StopProfile
  <2>2. Starting' = FALSE /\ Undoing' = FALSE
    BY <1>7 DEF StopProfile, Starting, Undoing
  <2>3. ~Starting /\ wanted[c] = None
    BY <2>1 DEF Starting, ProfileTypes, Gathered
  <2>4. /\ wanted'[c] = FALSE
        /\ \E a \in Answers(FALSE), b \in Answers(FALSE) : Outstanding(c)' = <<a, b>>
    BY <1>4, <1>5, <2>1, <2>3
  <2>5. ~AnsweredStart'
    BY <2>1 DEF Behind, AnsweredStart
  <2> QED
    BY <1>3, <2>1, <2>2, <2>4, <2>5
<1>8. CASE StartGathered
  <2>1. late' = 1 /\ Starting = TRUE /\ wanted[c] = None /\ UNCHANGED acks
    BY <1>8 DEF StartGathered, Gathered, Starting
  <2>2. op.failed /\ \E a \in Answers(TRUE) : Outstanding(c) = <<a>>
    BY <1>1, <2>1
  <2>3. op' = [op EXCEPT !.phase = "undo"] /\ Ask(FALSE) /\ UNCHANGED answers
    BY <1>8, <2>2 DEF StartGathered
  <2>4. op'.phase = "undo" /\ op'.failed /\ op'.kind = "start"
    BY <1>8, <2>2, <2>3 DEF StartGathered, ProfileTypes, OpState
  <2>5. Starting' = FALSE /\ Undoing' = TRUE
    BY <2>4 DEF Starting, Undoing
  <2>6. /\ wanted'[c] = FALSE
        /\ \E a \in Answers(TRUE), b \in Answers(FALSE) : Outstanding(c)' = <<a, b>>
    BY <1>4, <2>1, <2>2, <2>3
  <2> QED
    BY <1>3, <2>1, <2>4, <2>5, <2>6
<1>9. ASSUME StartUndone \/ StopGathered PROVE late' # 0 /\ (late' = 1 => Behind')
  <2>1. late' = 1 /\ op' = Idle /\ ~Starting /\ wanted[c] = None
        /\ UNCHANGED <<acks, commands, wanted>>
    BY <1>9 DEF StartUndone, StopGathered, Gathered, Starting
  <2>2. ~AnsweredStart'
    BY <1>9 DEF StartUndone, StopGathered, AnsweredStart
  <2>3. Starting' = FALSE /\ Undoing' = FALSE
    BY <2>1 DEF Idle, Starting, Undoing
  <2>4. wanted'[c] = None /\ \E a \in Answers(FALSE) : Outstanding(c)' = <<a>>
    BY <1>5, <2>1 DEF Outstanding
  <2> QED
    BY <1>3, <2>1, <2>2, <2>3, <2>4
<1>10. ASSUME NEW w \in Core, ReceiveAck(w) PROVE late' # 0 /\ (late' = 1 => Behind')
  <2>1. late' = 1 /\ UNCHANGED <<commands, answers>> /\ wanted[w] # None
        /\ op' = [op EXCEPT !.failed = (op.failed \/ ~AckAccepted(w))]
    BY <1>10 DEF ReceiveAck
  <2>2. (op.failed \/ ~AckAccepted(w)) \in BOOLEAN
    BY Zenon
  <2>3. op'.kind = op.kind /\ op'.phase = op.phase /\ op'.failed = (op.failed \/ ~AckAccepted(w))
    BY <2>1, <2>2 DEF ProfileTypes, OpState
  <2>4. Starting' = Starting /\ Undoing' = Undoing
    BY <2>3 DEF Starting, Undoing
  <2>5. op.failed => op'.failed
    BY <2>3
  <2>6. AnsweredStart' => op'.phase # "idle" /\ op'.failed
    BY <2>1, <2>3, <2>5 DEF Behind, AnsweredStart
  <2>7. CASE c # w
    <3>1. Outstanding(c)' = Outstanding(c) /\ wanted'[c] = wanted[c]
      BY <1>10, <2>7, ReceivedOutstanding
    <3>2. CASE wanted[c] = None
      BY <1>1, <1>2, <1>3, <2>1, <2>4, <2>5, <2>6, <3>1, <3>2
    <3>3. CASE wanted[c] # None
      BY <1>1, <1>2, <1>3, <2>1, <2>4, <2>5, <2>6, <3>1, <3>3
    <3> QED
      BY <3>2, <3>3
  <2>8. CASE c = w
    <3>1. wanted[c] = Starting
      BY <1>1, <2>1, <2>8
    <3>2. PICK a \in Answers(Undoing), b \in Answers(Starting) : Outstanding(c) = <<a, b>>
      BY <1>1, <2>1, <2>8
    <3>3. a \in Ack /\ b \in Ack
      BY <1>2, AnswersOf
    <3>4. Head(<<a, b>>) = a /\ Tail(<<a, b>>) = <<b>>
      BY <3>3, QueueForms
    <3>5. Head(acks[c]) = a /\ Outstanding(c)' = <<b>> /\ wanted'[c] = None
      BY <1>10, <2>8, <3>2, <3>4, ReceivedOutstanding
    <3>6. Starting => op'.failed
      <4> SUFFICES ASSUME Starting PROVE op'.failed
        OBVIOUS
      <4>1. Undoing = FALSE /\ Starting = TRUE
        BY DEF Starting, Undoing
      <4>2. a = FALSE
        BY <3>2, <4>1 DEF Answers
      <4>3. ~AckAccepted(w)
        BY <2>8, <3>1, <3>5, <4>1, <4>2 DEF AckAccepted
      <4> QED
        BY <2>3, <4>3
    <3> QED
      BY <1>2, <1>3, <2>1, <2>4, <2>6, <3>2, <3>5, <3>6
  <2> QED
    BY <2>7, <2>8
<1>11. ASSUME NEW w \in Core, AckTimeout(w) PROVE late' # 0 /\ (late' = 1 => Behind')
  BY <1>11 DEF AckTimeout
<1>12. ASSUME NEW w \in Core, HandleProfileCommand(w) PROVE late' # 0 /\ (late' = 1 => Behind')
  <2>1. late' = 1 /\ UNCHANGED <<op, wanted, answers>>
    BY <1>12 DEF HandleProfileCommand
  <2>2. Starting' = Starting /\ Undoing' = Undoing /\ AnsweredStart' = AnsweredStart
    BY <2>1 DEF Starting, Undoing, AnsweredStart
  <2>3. /\ (\E a \in Answers(Starting) : Outstanding(c) = <<a>>)
             => \E a \in Answers(Starting) : Outstanding(c)' = <<a>>
        /\ (\E a \in Answers(Undoing), b \in Answers(Starting) : Outstanding(c) = <<a, b>>)
             => \E a \in Answers(Undoing), b \in Answers(Starting) : Outstanding(c)' = <<a, b>>
    <3>1. \A x, y \in BOOLEAN :
            /\ (\E a \in Answers(x) : Outstanding(c) = <<a>>)
                 => \E a \in Answers(x) : Outstanding(c)' = <<a>>
            /\ (\E a \in Answers(x), b \in Answers(y) : Outstanding(c) = <<a, b>>)
                 => \E a \in Answers(x), b \in Answers(y) : Outstanding(c)' = <<a, b>>
      BY <1>12, HandledOutstanding, ZenonT(40)
    <3> QED
      BY <1>2, <3>1, Zenon
  <2>4. AnsweredStart' => op'.phase # "idle" /\ op'.failed
    BY <2>1, <2>2 DEF Behind
  <2>5. CASE wanted[c] = None
    BY <1>1, <1>2, <1>3, <2>1, <2>2, <2>3, <2>4, <2>5
  <2>6. CASE wanted[c] # None
    BY <1>1, <1>2, <1>3, <2>1, <2>2, <2>3, <2>4, <2>6
  <2> QED
    BY <2>5, <2>6
<1> QED
  BY <1>6, <1>7, <1>8, <1>9, <1>10, <1>11, <1>12, Zenon DEF PNext

LEMMA ProfileInit == PInit => ProfileInv
<1> SUFFICES ASSUME PInit PROVE ProfileInv
  OBVIOUS
<1>1. ProfileTypes
  BY ProfileTypesInit
<1>2. QueuesInStep
  <2> SUFFICES ASSUME NEW c \in Core PROVE Outstanding(c) = <<>> /\ wanted[c] = None
    BY DEF QueuesInStep
  <2> QED
    BY DEF PInit, Outstanding
<1>3. RecordersInStep
  BY CoreAssumption, ProfileNoneAssumption
  DEF PInit, Idle, RecordersInStep, Starting, Stopping, Undoing, AnsweredStart, Process, Active
<1>4. FailuresInStep
  <2>1. <<>> # <<None>>
    OBVIOUS
  <2> QED
    BY <2>1 DEF PInit, Idle, FailuresInStep, Undoing
<1>5. InStep
  BY <1>2, <1>3, <1>4 DEF InStep
<1> QED
  BY <1>1, <1>5 DEF ProfileInv, PInit

LEMMA ProfileStep ==
  ASSUME ProfileInv, FALSE \notin RecorderFailures, [PNext]_pvars
  PROVE  ProfileInv'
<1>1. ProfileTypes'
  BY ProfileTypesStep DEF ProfileInv
<1>2. CASE PNext
  <2>1. CASE late = 0
    BY <1>1, <1>2, <2>1, InStepStep DEF ProfileInv
  <2>2. CASE late = 1
    BY <1>1, <1>2, <2>2, BehindStep DEF ProfileInv
  <2>3. CASE late \notin {0, 1}
    <3>1. late' = late \/ late' = late + 1
      BY <1>2 DEF PNext, StartProfile, StopProfile, StartGathered, StartUndone, StopGathered,
                  ReceiveAck, AckTimeout, HandleProfileCommand
    <3>2. late \in Nat
      BY DEF ProfileInv, ProfileTypes
    <3>3. late' \notin {0, 1}
      BY <2>3, <3>1, <3>2
    <3> QED
      BY <1>1, <3>3 DEF ProfileInv
  <2> QED
    BY <2>1, <2>2, <2>3
<1>3. CASE UNCHANGED pvars
  <2>1. UNCHANGED <<op, wanted, commands, acks, session, handle, file, late, answers>>
    BY <1>3 DEF pvars
  <2>2. FailuresInStep' = FailuresInStep
    BY <2>1 DEF FailuresInStep, Starting, Undoing
  <2>3. QueuesInStep' = QueuesInStep
    BY <2>1 DEF QueuesInStep, Outstanding, Starting, Answers
  <2>4. RecordersInStep' = RecordersInStep
    BY <2>1 DEF RecordersInStep, Recording, Active, AnsweredStart, Starting, Stopping, Undoing
  <2>5. Behind' = Behind
    BY <2>1 DEF Behind, Outstanding, AnsweredStart, Starting, Undoing, Answers
  <2> QED
    BY <1>1, <2>1, <2>2, <2>3, <2>4, <2>5 DEF ProfileInv, InStep
<1> QED
  BY <1>2, <1>3

LEMMA ProfileAlways ==
  ASSUME FALSE \notin RecorderFailures
  PROVE  FrontSpec => []ProfileInv
<1>1. FrontInit => ProfileInv
  BY ProfileInit DEF FrontInit
<1>2. ProfileInv /\ [FrontNext]_allVars => ProfileInv'
  BY ProfileStep DEF FrontNext, allVars
<1> QED
  BY <1>1, <1>2, PTL DEF FrontSpec

\* As long as at most one acknowledgement came after its timeout, and no worker
\* fails to stop its recorder, a start that was answered with 200 has the main process and every worker record into a
\* file that the merge will see, for any number of workers and requests: a
\* late acknowledgement makes every later start fail rather than pass for the
\* answer to it.
THEOREM StartedMeansRecordingCorrect ==
  ASSUME FALSE \notin RecorderFailures
  PROVE  FrontSpec => [](late <= 1 => StartedMeansRecording)
<1>1. ProfileInv => (late <= 1 => StartedMeansRecording)
  <2> SUFFICES ASSUME ProfileInv, late <= 1, AnsweredStart, op.phase = "idle", NEW p \in Process
               PROVE  Active(p) /\ handle[p].linked
    BY DEF StartedMeansRecording, AnsweredStart
  <2>1. late = 0
    BY DEF ProfileInv, ProfileTypes, Behind
  <2>2. Active(Main) /\ handle[p] = handle[Main] /\ handle[Main] \in {None, Recording}
    BY <2>1 DEF ProfileInv, InStep, RecordersInStep, Process
  <2> QED
    BY <2>2 DEF Active, Recording
<1> QED
  BY <1>1, ProfileAlways, PTL

\* Under the same conditions, a stop that is answered with
\* 200 right after such a start merged the events of every process, all of
\* the session that the start began.
THEOREM StopMergesSessionCorrect ==
  ASSUME FALSE \notin RecorderFailures
  PROVE  FrontSpec /\ [](late <= 1) => StopMergesSession
<1>1. ProfileInv /\ late <= 1 /\ [FrontNext]_allVars =>
        [answers' # answers /\ answers'.kind = "stop" /\ answers'.ok
           /\ answers.kind = "start" /\ answers.ok =>
         \A p \in Process : trace'[p] = session]_pvars
  <2> SUFFICES ASSUME ProfileInv, late <= 1, [FrontNext]_allVars, answers' # answers,
                      answers'.kind = "stop", answers'.ok, AnsweredStart, NEW p \in Process
               PROVE  trace'[p] = session
    BY DEF AnsweredStart
  <2>1. PNext
    BY DEF FrontNext, allVars, pvars
  <2>2. StopGathered
    <3>1. ~StartGathered
      <4>1. StartGathered => answers' = answers \/ answers' = [kind |-> "start", ok |-> TRUE]
        BY DEF StartGathered
      <4> QED
        BY <4>1
    <3>2. ~StartUndone
      BY DEF StartUndone
    <3>3. ~StartProfile /\ ~StopProfile
      BY DEF StartProfile, StopProfile
    <3>4. \A c \in Core : ~ReceiveAck(c) /\ ~AckTimeout(c) /\ ~HandleProfileCommand(c)
      BY DEF ReceiveAck, AckTimeout, HandleProfileCommand
    <3> QED
      BY <2>1, <3>1, <3>2, <3>3, <3>4 DEF PNext
  <2>3. ~op.failed /\ Gathered /\ Stopping /\ trace' = Flushed(file, handle, Main)
    BY <2>2 DEF StopGathered, Stopping, MergeFragments
  <2>4. late = 0
    BY <2>3 DEF ProfileInv, ProfileTypes, Behind
  <2>5. handle[Main] = Recording /\ Active(Main)
    BY <2>4 DEF ProfileInv, InStep, RecordersInStep, Active, Process
  <2>6. file \in [Process -> Nat] /\ Main \in Process
    BY DEF ProfileInv, ProfileTypes, Process
  <2>7. trace' = [file EXCEPT ![Main] = session]
    BY <2>3, <2>5 DEF Flushed, Active, Recording
  <2>8. CASE p = Main
    BY <2>6, <2>7, <2>8
  <2>9. CASE p # Main
    <3>1. p \in Core /\ wanted[p] = None
      BY <2>3, <2>9 DEF Process, Gathered
    <3>2. acks[p] \in Seq(Ack) /\ commands[p] \in Seq(Ack) /\ acks[p] \o commands[p] = <<>>
      BY <2>4, <3>1, QueuesTyped DEF ProfileInv, InStep, QueuesInStep, Outstanding
    <3>3. commands[p] = <<>>
      BY <3>2, OutstandingNone
    <3>4. file[p] = session
      BY <2>3, <2>4, <2>5, <3>1, <3>3 DEF ProfileInv, InStep, RecordersInStep
    <3> QED
      BY <2>6, <2>7, <2>9, <3>4
  <2> QED
    BY <2>8, <2>9
<1> QED
  BY <1>1, ProfileAlways, PTL DEF FrontSpec, StopMergesSession
=============================================================================
