---------------------------- MODULE WorkerLanes ----------------------------
(***************************************************************************)
(* The pipelined worker process of serving/server/serving_worker.py with   *)
(* the DeepSeek runner behind it.                                          *)
(*                                                                         *)
(* Three threads: the prepare lane reads commands, registers requests and  *)
(* stages the inputs of decode steps; the device lane applies lifecycle    *)
(* changes and runs or submits steps in order; the output lane waits for   *)
(* submitted steps and publishes results.  They share the request cache,   *)
(* the last tokens, two decode buffer slots (one semaphore each) and the   *)
(* speculative request states of the runner.  Python's dictionaries are    *)
(* atomic per operation; everything longer is several actions here.        *)
(*                                                                         *)
(* A mode selects between the runner with one speculative token (submitted *)
(* decode steps, device-resident state) and the autoregressive one (decode *)
(* steps run on the device lane).  The engine is the environment: what it  *)
(* may send follows module EngineCore, with single-chunk prompts.          *)
(***************************************************************************)
EXTENDS Integers, Sequences, FiniteSets, SequencesExt

CONSTANTS
  Request,
  Modes,        \* the configurations a run starts from, see Mode
  TailSlots,    \* layout.decode_batch: device state slots of the rank
  GenLimit,     \* where slot generations wrap (2^31)
  Depth,        \* steps the engine keeps in flight
  MaxSteps,     \* bound: steps sent in a run
  MaxProfiles,  \* bound: profile commands in a run
  Faults        \* subset of {"step_error", "timeout"}

\* fused: num_speculative_tokens is 1, else 0; preempts: bound on the
\* preemptions in a run.
Mode == [fused : BOOLEAN, preempts : Nat]

ASSUME LanesAssumption ==
  /\ IsFiniteSet(Request) /\ Modes \subseteq Mode
  /\ TailSlots \in Nat \ {0} /\ Depth \in Nat \ {0}
  /\ GenLimit \in Nat \ {0, 1}
  /\ MaxSteps \in Nat /\ MaxProfiles \in Nat
  /\ Faults \subseteq {"step_error", "timeout"}

VARIABLES
  mode,        \* the configuration, fixed for a run
  \* the engine
  sent,        \* _step_counter
  inFlight,    \* commands whose result it waits for, oldest first
  discard,     \* _discard_result_step_ids
  phase,       \* per request: "new", "prefill", "ready" or "gone"
  known,       \* _worker_known_req_ids
  pendingFree, \* _pending_free_ids
  preempts, profiles, stopped,
  \* the queues
  inQueue, workQueue, outWork, outQueue,
  \* the lanes
  prep,        \* prepare lane: pc, cmd, snap (release_cache_entries), work
  dev,         \* device lane: pc, cmd, snap, work, doomed
  out,         \* output lane: the item it holds
  \* what they share
  cache,       \* _req_cache: the step that registered the request (0: absent)
  lastTok,     \* requests with an entry in _last_tokens
  owned,       \* slot_ownership: slots whose semaphore is taken
  staged,      \* per buffer slot, the step whose inputs it holds
  \* the runner and the device
  mtp,         \* _mtp_request_states
  freeTail,    \* _mtp_free_tail_slots, used from its end
  gens,        \* _mtp_slot_generations
  meta,        \* device: the generation in the slot's state row
  tracked,     \* _pending_mtp_dispatches: per buffer slot a step (0: none)
  submitted    \* steps submitted to the device and not complete, oldest first

engineVars == <<mode, sent, inFlight, discard, phase, known, pendingFree, preempts,
                profiles, stopped>>
sharedVars == <<cache, lastTok, owned, staged>>
runnerVars == <<mtp, freeTail, gens, meta, tracked, submitted>>
vars == <<engineVars, inQueue, workQueue, outWork, outQueue, prep, dev, out,
          sharedVars, runnerVars>>

Fused == mode.fused
BufferSlots == 2     \* _DECODE_PIPELINE_SLOTS
Buffer == 0 .. BufferSlots - 1
Tail_ == 1 .. TailSlots

NoCmd == [kind |-> "none", id |-> 0, reqs |-> {}, fresh |-> {}, finished |-> {},
          blind |-> {}]
NoState == [slot |-> 0, gen |-> 0, ready |-> FALSE]
NoWork == [error |-> FALSE, desc |-> [r \in Request |-> <<0, 0>>]]
NoSnap == [r \in Request |-> 0]
NoItem == [kind |-> "none", cmd |-> NoCmd, error |-> FALSE, desc |-> NoWork.desc]

Init ==
  /\ mode \in Modes
  /\ sent = 0 /\ inFlight = <<>> /\ discard = {}
  /\ phase = [r \in Request |-> "new"] /\ known = {} /\ pendingFree = {}
  /\ preempts = 0 /\ profiles = 0 /\ stopped = FALSE
  /\ inQueue = <<>> /\ workQueue = <<>> /\ outWork = <<>> /\ outQueue = <<>>
  /\ prep = [pc |-> "get", cmd |-> NoCmd, snap |-> NoSnap, work |-> NoWork]
  /\ dev = [pc |-> "get", cmd |-> NoCmd, snap |-> NoSnap, work |-> NoWork, doomed |-> {}]
  /\ out = [pc |-> "get", item |-> NoItem]
  /\ cache = [r \in Request |-> 0] /\ lastTok = {}
  /\ owned = {} /\ staged = [s \in Buffer |-> 0]
  /\ mtp = [r \in Request |-> NoState]
  /\ freeTail = [i \in Tail_ |-> TailSlots + 1 - i]
  /\ gens = [s \in Tail_ |-> 0] /\ meta = [s \in Tail_ |-> 0]
  /\ tracked = [s \in Buffer |-> 0] /\ submitted = <<>>

-----------------------------------------------------------------------------
(***************************************************************************)
(* The engine.                                                             *)
(***************************************************************************)
BusyWith(r) == \E i \in DOMAIN inFlight : r \in inFlight[i].reqs

\* terminal_prefill_in_flight holds decode steps back only with speculation;
\* otherwise a decode step may follow a prefill in flight, with a placeholder
\* for its input token.
Decodable(r) == phase[r] = "ready" \/ (~Fused /\ phase[r] = "prefill" /\ BusyWith(r))

\* A command with its frees and registrations (_build_step_command); blind are
\* the requests whose input token is a placeholder.
Send(kind, batch, victims) ==
  LET freed == pendingFree \cup victims
      fresh == batch \ (known \ freed)
      cmd   == [kind |-> kind, id |-> sent + 1, reqs |-> batch, fresh |-> fresh,
                finished |-> freed,
                blind |-> IF kind = "decode" THEN {r \in batch : BusyWith(r)} ELSE {}]
  IN  /\ ~stopped /\ Len(inFlight) < Depth /\ sent < MaxSteps
      /\ victims \subseteq {r \in Request : phase[r] \in {"prefill", "ready"}} \ batch
      /\ preempts + Cardinality(victims) <= mode.preempts
      /\ preempts' = preempts + Cardinality(victims)
      /\ sent' = sent + 1 /\ pendingFree' = {} /\ known' = (known \ freed) \cup fresh
      /\ inFlight' = Append(inFlight, cmd) /\ inQueue' = Append(inQueue, cmd)
      /\ phase' = [r \in Request |-> IF r \in victims THEN "new"
                                     ELSE IF r \in batch /\ kind = "prefill" THEN "prefill"
                                     ELSE phase[r]]
      /\ UNCHANGED <<mode, discard, profiles, stopped, workQueue, outWork, outQueue,
                     prep, dev, out, sharedVars, runnerVars>>

\* A preempted request is not restarted before its old step was drained
\* (EngineCore!RestartAfterDrain).  The tail slots bound the running batch.
SendPrefill(batch, victims) ==
  /\ batch # {} /\ \A r \in batch : phase[r] = "new" /\ ~BusyWith(r)
  /\ Cardinality({r \in Request \ victims : phase[r] \in {"prefill", "ready"}} \cup batch)
       <= TailSlots
  /\ Send("prefill", batch, victims)

SendDecode(batch, victims) ==
  /\ batch # {} /\ \A r \in batch : Decodable(r)
  /\ Send("decode", batch, victims)

\* _flush_pending_frees.
SendCleanup ==
  /\ inFlight = <<>> /\ pendingFree # {}
  /\ Send("cleanup", {}, {})

SendControl(kind) ==
  /\ ~stopped
  /\ inQueue' = Append(inQueue, [NoCmd EXCEPT !.kind = kind])
  /\ UNCHANGED <<mode, sent, inFlight, discard, phase, known, pendingFree, preempts, workQueue,
                 outWork, outQueue, prep, dev, out, sharedVars, runnerVars>>

\* _set_profile_active and _shutdown_worker.
SendProfile ==
  /\ profiles < MaxProfiles
  /\ SendControl("profile")
  /\ profiles' = profiles + 1 /\ UNCHANGED stopped

SendShutdown ==
  /\ SendControl("shutdown")
  /\ stopped' = TRUE /\ UNCHANGED profiles

\* A client aborts its request, or the request finishes.
Abort(r) ==
  /\ phase[r] # "gone" /\ ~stopped
  /\ phase' = [phase EXCEPT ![r] = "gone"]
  /\ pendingFree' = pendingFree \cup {r}
  /\ UNCHANGED <<mode, sent, inFlight, discard, known, preempts, profiles, stopped, inQueue,
                 workQueue, outWork, outQueue, prep, dev, out, sharedVars, runnerVars>>

\* _handle_step_error: everything in flight is dropped.
DropPipeline(ids) ==
  LET failed == UNION {inFlight[i].reqs : i \in DOMAIN inFlight}
  IN  /\ discard' = discard \cup ids
      /\ inFlight' = <<>>
      /\ phase' = [r \in Request |-> IF r \in failed THEN "gone" ELSE phase[r]]
      /\ pendingFree' = pendingFree \cup failed

InFlightIds == {inFlight[i].id : i \in DOMAIN inFlight}

\* A result comes in: drained, applied or an error.
Receive ==
  /\ outQueue # <<>> /\ outQueue' = Tail(outQueue)
  /\ LET res == Head(outQueue)
     IN  \/ /\ res.id \in discard
            /\ discard' = discard \ {res.id}
            /\ UNCHANGED <<inFlight, phase, pendingFree>>
         \/ /\ res.id \notin discard /\ ~res.error
            /\ inFlight' = Tail(inFlight)
            /\ phase' = [r \in Request |->
                           IF r \in Head(inFlight).reqs /\ phase[r] = "prefill"
                           THEN "ready" ELSE phase[r]]
            /\ UNCHANGED <<discard, pendingFree>>
         \/ /\ res.id \notin discard /\ res.error
            /\ DropPipeline(InFlightIds \ {res.id})
  /\ UNCHANGED <<mode, sent, known, preempts, profiles, stopped, inQueue, workQueue, outWork,
                 prep, dev, out, sharedVars, runnerVars>>

Timeout ==
  /\ "timeout" \in Faults
  /\ inFlight # <<>> /\ outQueue = <<>>
  /\ DropPipeline(InFlightIds)
  /\ UNCHANGED <<mode, sent, known, preempts, profiles, stopped, inQueue, workQueue, outWork,
                 outQueue, prep, dev, out, sharedVars, runnerVars>>

-----------------------------------------------------------------------------
(***************************************************************************)
(* Prepare lane (_pipelined_busy_loop).                                    *)
(***************************************************************************)
SlotOf(cmd) == cmd.id % BufferSlots

\* The command is read and the entries it releases are remembered.
PrepareGet ==
  /\ prep.pc = "get" /\ inQueue # <<>>
  /\ LET cmd == Head(inQueue)
     IN  prep' = [pc |-> "register", cmd |-> cmd, work |-> NoWork,
                  snap |-> [r \in Request |-> IF r \in cmd.finished THEN cache[r] ELSE 0]]
  /\ inQueue' = Tail(inQueue)
  /\ UNCHANGED <<engineVars, workQueue, outWork, outQueue, dev, out, sharedVars, runnerVars>>

\* Requests are registered early: a following decode step is prepared before
\* the device lane comes to this command.
PrepareRegister ==
  /\ prep.pc = "register"
  /\ cache' = [r \in Request |-> IF r \in prep.cmd.fresh THEN prep.cmd.id ELSE cache[r]]
  /\ prep' = [prep EXCEPT !.pc = IF prep.cmd.kind = "decode" THEN "acquire" ELSE "put"]
  /\ UNCHANGED <<engineVars, inQueue, workQueue, outWork, outQueue, dev, out, lastTok,
                 owned, staged, runnerVars>>

\* Mutant of PrepareAcquire: the slot's last step is not waited for.
PrepareUnowned ==
  /\ prep.pc = "acquire"
  /\ owned' = owned \cup {SlotOf(prep.cmd)}
  /\ prep' = [prep EXCEPT !.pc = "prepare"]
  /\ UNCHANGED <<engineVars, inQueue, workQueue, outWork, outQueue, dev, out, cache, lastTok,
                 staged, runnerVars>>

\* The lane waits for the buffer slot of the step.
PrepareAcquire ==
  /\ prep.pc = "acquire"
  /\ SlotOf(prep.cmd) \notin owned
  /\ owned' = owned \cup {SlotOf(prep.cmd)}
  /\ prep' = [prep EXCEPT !.pc = "prepare"]
  /\ UNCHANGED <<engineVars, inQueue, workQueue, outWork, outQueue, dev, out, cache, lastTok,
                 staged, runnerVars>>

\* _reserve_mtp_state_slot: the generation a slot gets with its next owner.
NextGen(gen) == IF gen + 1 >= GenLimit THEN 1 ELSE gen + 1

\* _reserve_mtp_request_state for the requests of a batch, in a fixed order: a
\* request without a slot takes the one freed last, under a new generation, as
\* long as there is one.
Reserved(batch) ==
  LET order    == SetToSeq({r \in batch : mtp[r].slot = 0})
      n        == IF Len(order) <= Len(freeTail) THEN Len(order) ELSE Len(freeTail)
      Taken(i) == freeTail[Len(freeTail) + 1 - i]
      Turn(r)  == {i \in 1 .. n : order[i] = r}
      State(s) == [slot |-> s, gen |-> NextGen(gens[s]), ready |-> FALSE]
  IN  [mtp  |-> [r \in Request |-> IF Turn(r) = {} THEN mtp[r]
                                   ELSE State(Taken(CHOOSE i \in Turn(r) : TRUE))],
       free |-> SubSeq(freeTail, 1, Len(freeTail) - n),
       gens |-> [s \in Tail_ |-> IF \E i \in 1 .. n : Taken(i) = s THEN NextGen(gens[s])
                                 ELSE gens[s]]]

\* _prepare_mtp_device_state_descriptors: the slot and generation of each row.
Descriptors(states, batch) ==
  [r \in Request |-> IF r \in batch /\ Fused THEN <<states[r].slot, states[r].gen>> ELSE <<0, 0>>]

\* prepare_decode of the runner: the states it reserves.
PrepareInputs(batch) ==
  IF Fused THEN Reserved(batch) ELSE [mtp |-> mtp, free |-> freeTail, gens |-> gens]

\* _prepare_step_command: needs the registration of every request, reserves
\* state slots that do not exist yet, and stages inputs and slot descriptors
\* in the buffer slot.  A failure travels with the work item.
PrepareDecode ==
  /\ prep.pc = "prepare"
  /\ LET cmd == prep.cmd
         ok  == \A r \in cmd.reqs : cache[r] # 0
         R   == PrepareInputs(IF ok THEN cmd.reqs ELSE {})
         short == Fused /\ \E r \in cmd.reqs : R.mtp[r].slot = 0
     IN  /\ mtp' = R.mtp /\ freeTail' = R.free /\ gens' = R.gens
         /\ staged' = IF ok /\ ~short THEN [staged EXCEPT ![SlotOf(cmd)] = cmd.id] ELSE staged
         /\ prep' = [prep EXCEPT !.pc = "put",
                       !.work = [error |-> ~ok \/ short, desc |-> Descriptors(R.mtp, cmd.reqs)]]
  /\ UNCHANGED <<engineVars, inQueue, workQueue, outWork, outQueue, dev, out, cache, lastTok,
                 owned, meta, tracked, submitted>>

\* Mutant of PreparePut: the work queue has no bound.
PreparePutUnbounded ==
  /\ prep.pc = "put"
  /\ workQueue' = Append(workQueue, [cmd |-> prep.cmd, snap |-> prep.snap, work |-> prep.work])
  /\ prep' = [pc |-> IF prep.cmd.kind = "shutdown" THEN "exit" ELSE "get",
              cmd |-> NoCmd, snap |-> NoSnap, work |-> NoWork]
  /\ UNCHANGED <<engineVars, inQueue, outWork, outQueue, dev, out, sharedVars, runnerVars>>

\* work_queue.put, which waits for room.
PreparePut ==
  /\ prep.pc = "put"
  /\ Len(workQueue) < BufferSlots
  /\ workQueue' = Append(workQueue, [cmd |-> prep.cmd, snap |-> prep.snap, work |-> prep.work])
  /\ prep' = [pc |-> IF prep.cmd.kind = "shutdown" THEN "exit" ELSE "get",
              cmd |-> NoCmd, snap |-> NoSnap, work |-> NoWork]
  /\ UNCHANGED <<engineVars, inQueue, outWork, outQueue, dev, out, sharedVars, runnerVars>>

-----------------------------------------------------------------------------
(***************************************************************************)
(* Device lane (_device_execution_loop).                                   *)
(***************************************************************************)
DeviceIdle == [pc |-> "get", cmd |-> NoCmd, snap |-> NoSnap, work |-> NoWork, doomed |-> {}]

DeviceGet ==
  /\ dev.pc = "get" /\ workQueue # <<>>
  /\ LET item == Head(workQueue)
     IN  dev' = [pc |-> IF item.cmd.kind \in {"profile", "shutdown"} THEN "control" ELSE "release",
                 cmd |-> item.cmd, snap |-> item.snap, work |-> item.work, doomed |-> {}]
  /\ workQueue' = Tail(workQueue)
  /\ UNCHANGED <<engineVars, inQueue, outWork, outQueue, prep, out, sharedVars, runnerVars>>

\* Shutdown is forwarded and ends the lane; a profile command becomes a barrier
\* that the lane waits for.
DeviceControl ==
  /\ dev.pc = "control"
  /\ outWork' = Append(outWork, [NoItem EXCEPT !.kind = dev.cmd.kind, !.cmd = dev.cmd])
  /\ dev' = [DeviceIdle EXCEPT !.pc = IF dev.cmd.kind = "shutdown" THEN "exit" ELSE "barrier"]
  /\ UNCHANGED <<engineVars, inQueue, workQueue, outQueue, prep, out, sharedVars, runnerVars>>

\* Mutants of ReleasedStates: the slots are not given back; nothing is released
\* while a step is submitted.
ReleasedStatesOnly(freed) ==
  [mtp |-> [r \in Request |-> IF r \in freed THEN NoState ELSE mtp[r]], free |-> freeTail]

ReleasedStatesIdle(freed) ==
  LET order == SetToSeq({r \in freed : mtp[r].slot # 0})
  IN  IF submitted # <<>> THEN [mtp |-> mtp, free |-> freeTail]
      ELSE [mtp  |-> [r \in Request |-> IF r \in freed THEN NoState ELSE mtp[r]],
            free |-> freeTail \o [i \in DOMAIN order |-> mtp[order[i]].slot]]

\* release_finished_requests of the runner: the states are dropped and their
\* slots appended to the free list.
ReleasedStates(freed) ==
  LET order == SetToSeq({r \in freed : mtp[r].slot # 0})
  IN  [mtp  |-> [r \in Request |-> IF r \in freed THEN NoState ELSE mtp[r]],
       free |-> freeTail \o [i \in DOMAIN order |-> mtp[order[i]].slot]]

\* _release_finished_request_state, first half: the runner's states, and which
\* cache entries are still the ones the command means.
DeviceRelease ==
  /\ dev.pc = "release"
  /\ LET R == ReleasedStates(dev.cmd.finished)
     IN  mtp' = R.mtp /\ freeTail' = R.free
  /\ dev' = [dev EXCEPT !.pc = "drop",
               !.doomed = {r \in dev.cmd.finished : cache[r] = dev.snap[r]}]
  /\ UNCHANGED <<engineVars, inQueue, workQueue, outWork, outQueue, prep, out, sharedVars,
                 gens, meta, tracked, submitted>>

\* Second half: those entries are dropped, whatever they are by now; then the
\* command's own registrations are entered.
DeviceDrop ==
  /\ dev.pc = "drop"
  /\ cache' = [r \in Request |-> IF r \in dev.cmd.fresh THEN dev.cmd.id
                                 ELSE IF r \in dev.doomed THEN 0 ELSE cache[r]]
  /\ lastTok' = lastTok \ dev.doomed
  /\ dev' = [dev EXCEPT !.pc = "run"]
  /\ UNCHANGED <<engineVars, inQueue, workQueue, outWork, outQueue, prep, out, owned, staged,
                 runnerVars>>

\* Mutant of Hand: an error is published at once.
HandErrorAtOnce(kind, error) ==
  /\ IF error
     THEN outQueue' = Append(outQueue, [id |-> dev.cmd.id, error |-> TRUE])
          /\ UNCHANGED outWork
     ELSE outWork' = Append(outWork, [kind |-> kind, cmd |-> dev.cmd, error |-> error,
                                      desc |-> dev.work.desc])
          /\ UNCHANGED outQueue
  /\ dev' = DeviceIdle

\* The step goes to the output lane, completed or submitted.
Hand(kind, error) ==
  /\ outWork' = Append(outWork, [kind |-> kind, cmd |-> dev.cmd, error |-> error,
                                 desc |-> dev.work.desc])
  /\ dev' = DeviceIdle
  /\ UNCHANGED outQueue

Registered == \A r \in dev.cmd.reqs : cache[r] # 0

\* An executor failure (Faults); a cleanup command cannot fail.
DeviceFails ==
  /\ "step_error" \in Faults
  /\ dev.pc = "run" /\ dev.cmd.kind # "cleanup"
  /\ Hand("done", TRUE)
  /\ UNCHANGED <<engineVars, inQueue, workQueue, prep, out, sharedVars, runnerVars>>

DeviceCleanup ==
  /\ dev.pc = "run" /\ dev.cmd.kind = "cleanup"
  /\ Hand("done", FALSE)
  /\ UNCHANGED <<engineVars, inQueue, workQueue, prep, out, sharedVars, runnerVars>>

\* Mutant of PrefillFence: prefill does not wait for submitted decode steps.
PrefillUnfenced == TRUE

\* _wait_for_pending_mtp_dispatches.
PrefillFence == \A s \in Buffer : \A i \in DOMAIN submitted : tracked[s] # submitted[i].id

\* _initialize_mtp_draft: the state of each request has a slot.
Drafted(reqs) ==
  IF Fused THEN Reserved(reqs) ELSE [mtp |-> mtp, free |-> freeTail, gens |-> gens]

\* _initialize_mtp_device_state: the row of the slot is written under the
\* state's generation, once.
Seeded(states, reqs) ==
  [s \in Tail_ |-> IF \E r \in reqs : states[r].slot = s /\ ~states[r].ready
                   THEN (CHOOSE st \in {states[r] : r \in reqs} : st.slot = s).gen
                   ELSE meta[s]]

\* _batch_prefill on a terminal chunk: behind the fence, each request gets its
\* slot (kept when the step fails later), its device state is seeded, and its
\* first token is remembered.
DevicePrefill ==
  /\ dev.pc = "run" /\ dev.cmd.kind = "prefill"
  /\ Fused => PrefillFence
  /\ \E failed \in {FALSE, "step_error" \in Faults} :
     LET reqs   == dev.cmd.reqs
         R      == Drafted(reqs)
         ok     == ~failed /\ Registered /\ (Fused => \A r \in reqs : R.mtp[r].slot # 0)
         seeded == IF ok /\ Fused THEN reqs ELSE {}
     IN  /\ freeTail' = R.free /\ gens' = R.gens
         /\ meta' = Seeded(R.mtp, seeded)
         /\ mtp' = [r \in Request |-> IF r \in seeded THEN [R.mtp[r] EXCEPT !.ready = TRUE]
                                      ELSE R.mtp[r]]
         /\ lastTok' = IF ok THEN lastTok \cup reqs ELSE lastTok
         /\ Hand("done", ~ok)
  /\ tracked' = IF Fused THEN [s \in Buffer |-> 0] ELSE tracked
  /\ UNCHANGED <<engineVars, inQueue, workQueue, prep, out, cache, owned, staged, submitted>>

\* _launch_prepared_mtp_decode.
Launched(cmd) == Append(submitted, [id |-> cmd.id, cmd |-> cmd, desc |-> dev.work.desc])

\* _track_pending_mtp_dispatch, where the slot is not tracked.
Track(cmd) == [tracked EXCEPT ![SlotOf(cmd)] = cmd.id]

\* _forget_pending_mtp_dispatch: a newer owner of the slot stays.
Forget(cmd) ==
  IF tracked[SlotOf(cmd)] = cmd.id THEN [tracked EXCEPT ![SlotOf(cmd)] = 0] ELSE tracked

\* dispatch_prepared_decode: the step is submitted and tracked; it fails when
\* preparation failed or a state is missing or not seeded, and, once submitted,
\* when the buffer slot is still tracked.
DeviceDispatch ==
  /\ dev.pc = "run" /\ dev.cmd.kind = "decode" /\ Fused
  /\ LET cmd == dev.cmd
         launched == ~dev.work.error /\ \A r \in cmd.reqs : mtp[r].ready
         ok  == launched /\ tracked[SlotOf(cmd)] = 0
     IN  /\ submitted' = IF launched THEN Launched(cmd) ELSE submitted
         /\ tracked' = IF ok THEN Track(cmd) ELSE tracked
         /\ Hand(IF ok THEN "pending" ELSE "done", ~ok)
  /\ UNCHANGED <<engineVars, inQueue, workQueue, prep, out, sharedVars, mtp, freeTail, gens, meta>>

\* _batch_decode: the placeholder tokens are resolved and the prepared step
\* is run to its end.
DeviceDecode ==
  /\ dev.pc = "run" /\ dev.cmd.kind = "decode" /\ ~Fused
  /\ LET ok == Registered /\ ~dev.work.error /\ dev.cmd.blind \subseteq lastTok
     IN  /\ lastTok' = IF ok THEN lastTok \cup dev.cmd.reqs ELSE lastTok
         /\ Hand("done", ~ok)
  /\ UNCHANGED <<engineVars, inQueue, workQueue, prep, out, cache, owned, staged, runnerVars>>

\* The device completes its oldest step.
KernelCompletes ==
  /\ submitted # <<>>
  /\ submitted' = Tail(submitted)
  /\ UNCHANGED <<engineVars, inQueue, workQueue, outWork, outQueue, prep, dev, out, sharedVars,
                 mtp, freeTail, gens, meta, tracked>>

-----------------------------------------------------------------------------
(***************************************************************************)
(* Output lane (_output_reclaim_loop).                                     *)
(***************************************************************************)
OutputGet ==
  /\ out.pc = "get" /\ outWork # <<>>
  /\ LET item == Head(outWork)
     IN  out' = [pc |-> IF item.kind = "pending" THEN "reclaim"
                        ELSE IF item.kind = "done" THEN "publish"
                        ELSE item.kind,
                 item |-> item]
  /\ outWork' = Tail(outWork)
  /\ UNCHANGED <<engineVars, inQueue, workQueue, outQueue, prep, dev, sharedVars, runnerVars>>

Wait == \A i \in DOMAIN submitted : submitted[i].id # out.item.cmd.id

\* Mutant of OutputReclaim: the completed step stays tracked.
OutputReclaimTracked ==
  /\ out.pc = "reclaim" /\ Wait
  /\ lastTok' = lastTok \cup out.item.cmd.reqs
  /\ out' = [out EXCEPT !.pc = "publish"]
  /\ UNCHANGED <<engineVars, inQueue, workQueue, outWork, outQueue, prep, dev, cache, owned,
                 staged, runnerVars>>

\* _reclaim_pending_decode: waits for the step, reads its outputs from the
\* buffer slot and remembers the last tokens.
OutputReclaim ==
  /\ out.pc = "reclaim" /\ Wait
  /\ tracked' = Forget(out.item.cmd)
  /\ lastTok' = lastTok \cup out.item.cmd.reqs
  /\ out' = [out EXCEPT !.pc = "publish"]
  /\ UNCHANGED <<engineVars, inQueue, workQueue, outWork, outQueue, prep, dev, cache, owned,
                 staged, mtp, freeTail, gens, meta, submitted>>

\* The step failed on the device: it is forgotten and an error reported.
OutputReclaimFails ==
  /\ "step_error" \in Faults
  /\ out.pc = "reclaim" /\ Wait
  /\ tracked' = Forget(out.item.cmd)
  /\ out' = [out EXCEPT !.pc = "publish", !.item.error = TRUE]
  /\ UNCHANGED <<engineVars, inQueue, workQueue, outWork, outQueue, prep, dev, sharedVars,
                 mtp, freeTail, gens, meta, submitted>>

\* The buffer slot is released and the result sent.
OutputPublish ==
  /\ out.pc = "publish"
  /\ LET cmd == out.item.cmd
     IN  /\ owned' = IF cmd.kind = "decode" THEN owned \ {SlotOf(cmd)} ELSE owned
         /\ outQueue' = Append(outQueue, [id |-> cmd.id, error |-> out.item.error])
  /\ out' = [pc |-> "get", item |-> NoItem]
  /\ UNCHANGED <<engineVars, inQueue, workQueue, outWork, prep, dev, cache, lastTok, staged,
                 runnerVars>>

\* The profile command is handled and the device lane goes on.
OutputProfile ==
  /\ out.pc = "profile"
  /\ out' = [pc |-> "get", item |-> NoItem]
  /\ dev' = DeviceIdle
  /\ UNCHANGED <<engineVars, inQueue, workQueue, outWork, outQueue, prep, sharedVars, runnerVars>>

\* The lane ends; the worker process then exits.
OutputShutdown ==
  /\ out.pc = "shutdown"
  /\ out' = [pc |-> "exit", item |-> NoItem]
  /\ UNCHANGED <<engineVars, inQueue, workQueue, outWork, outQueue, prep, dev, sharedVars,
                 runnerVars>>

-----------------------------------------------------------------------------
Engine ==
  \/ \E batch, victims \in SUBSET Request : SendPrefill(batch, victims) \/ SendDecode(batch, victims)
  \/ SendCleanup \/ SendProfile \/ SendShutdown
  \/ \E r \in Request : Abort(r)
  \/ Receive \/ Timeout

PrepareLane == PrepareGet \/ PrepareRegister \/ PrepareAcquire \/ PrepareDecode \/ PreparePut
DeviceLane  == DeviceGet \/ DeviceControl \/ DeviceRelease \/ DeviceDrop \/ DeviceFails
               \/ DeviceCleanup \/ DevicePrefill \/ DeviceDispatch \/ DeviceDecode
OutputLane  == OutputGet \/ OutputReclaim \/ OutputReclaimFails \/ OutputPublish \/ OutputProfile \/ OutputShutdown

\* All lanes have ended.
Exited ==
  /\ prep.pc = "exit" /\ dev.pc = "exit" /\ out.pc = "exit"
  /\ UNCHANGED vars

Next == Engine \/ PrepareLane \/ DeviceLane \/ OutputLane \/ KernelCompletes \/ Exited

\* The threads and the device are scheduled.
Fairness ==
  WF_vars(PrepareLane) /\ WF_vars(DeviceLane) /\ WF_vars(OutputLane) /\ WF_vars(KernelCompletes)

Spec == Init /\ [][Next]_vars /\ Fairness

-----------------------------------------------------------------------------
(***************************************************************************)
(* Properties.                                                             *)
(***************************************************************************)
TypeOK ==
  /\ sent \in 0 .. MaxSteps /\ Len(inFlight) <= Depth
  /\ phase \in [Request -> {"new", "prefill", "ready", "gone"}]
  /\ prep.pc \in {"get", "register", "acquire", "prepare", "put", "exit"}
  /\ dev.pc \in {"get", "control", "barrier", "release", "drop", "run", "exit"}
  /\ out.pc \in {"get", "reclaim", "publish", "profile", "shutdown", "exit"}
  /\ Len(workQueue) <= BufferSlots
  /\ cache \in [Request -> 0 .. MaxSteps] /\ lastTok \subseteq Request
  /\ owned \subseteq Buffer /\ staged \in [Buffer -> 0 .. MaxSteps]
  /\ \A r \in Request : mtp[r].slot \in 0 .. TailSlots

\* The commands on their way to a lane, from there on back to the engine's end.
InCmds      == {inQueue[i] : i \in DOMAIN inQueue}
WorkCmds    == {workQueue[i].cmd : i \in DOMAIN workQueue}
OutCmds     == {outWork[i].cmd : i \in DOMAIN outWork}
FromPrep    == {prep.cmd} \cup InCmds
FromWork    == WorkCmds \cup FromPrep
FromDev     == {dev.cmd} \cup FromWork
FromOutWork == OutCmds \cup FromDev
FromOut     == {out.item.cmd} \cup FromOutWork

\* The steps in the worker, and a set of ids in ascending order: ids are given
\* in the order of sending, so the steps held are listed oldest first.
StepIds == {c.id : c \in FromOut} \ {0}

Older(S, n) == {m \in S : m < n}

Ascending(S) ==
  [i \in 1 .. Cardinality(S) |-> CHOOSE n \in S : Cardinality(Older(S, n)) = i - 1]

Held == Ascending(StepIds)

\* The three lanes together are the worker the engine relies on: one result
\* for each step, in the order of the steps, each of them eventually, through
\* failed steps, profile barriers and slots that are waited for.
Fifo == INSTANCE FifoWorker WITH
          pending <- Held, replies <- [i \in DOMAIN outQueue |-> outQueue[i].id]

ImplementsFifo == Fifo!Spec

\* The steps that still use what was staged for them: submitted, or handed to
\* the output lane as submitted.
UsingBuffers ==
  {submitted[i].cmd : i \in DOMAIN submitted}
    \cup {outWork[i].cmd : i \in {j \in DOMAIN outWork : outWork[j].kind = "pending"}}
    \cup (IF out.pc = "reclaim" THEN {out.item.cmd} ELSE {})
    \cup (IF dev.pc \notin {"get", "exit"} /\ dev.cmd.kind = "decode" /\ ~dev.work.error
          THEN {dev.cmd} ELSE {})

\* A buffer slot keeps the inputs of a step until the step is complete and its
\* outputs were read: preparation of a later step never overtakes it.
BuffersIntact == \A c \in UsingBuffers : staged[SlotOf(c)] = c.id

\* A submitted step finds its own request in the device state slot it was
\* bound to at preparation, also after requests were released and their slots
\* recycled meanwhile (the generation check of the kernel never fails).
DescriptorsCurrent ==
  \A i \in DOMAIN submitted :
    \A r \in submitted[i].cmd.reqs :
      meta[submitted[i].desc[r][1]] = submitted[i].desc[r][2]

\* What the prepare lane laid out for a step is what the device reads: its
\* buffer slot is not prepared again before its outputs were read, nor its
\* device state slot given to another request while it is submitted.
LanesConsistent == TypeOK /\ BuffersIntact /\ DescriptorsCurrent

\* Every state slot is free or belongs to one request, in spite of two lanes
\* that reserve and one that releases.
TailSlotsExact ==
  /\ \A i, j \in DOMAIN freeTail : freeTail[i] = freeTail[j] => i = j
  /\ \A s \in Tail_ :
       Cardinality({r \in Request : mtp[r].slot = s})
         = (IF \E i \in DOMAIN freeTail : freeTail[i] = s THEN 0 ELSE 1)

\* A step fails only because the executor failed: no lane misses a registration,
\* a state, a slot or a buffer that another lane provides or takes away.
NoLaneFails ==
  "step_error" \notin Faults =>
    /\ \A i \in DOMAIN outQueue : ~outQueue[i].error
    /\ ~prep.work.error

\* The worker has nothing to do and nothing is on its way.
Quiet == (\A c \in FromOut : c.id = 0) /\ outQueue = <<>> /\ submitted = <<>>

\* Once everything sent was served, the runner keeps state for the requests the
\* engine believes the worker knows, and for no other.
StatesReleased ==
  Quiet => \A r \in Request : mtp[r].slot # 0 => r \in known

\* Device state slots are free or owned by one request state, and none is
\* left with a request that the worker has released.
SlotsExact == TailSlotsExact /\ StatesReleased

-----------------------------------------------------------------------------
(***************************************************************************)
(* Inductive invariants (WorkerLanes_proofs).                              *)
(***************************************************************************)
Step == [kind : {"prefill", "decode", "cleanup"}, id : 1 .. MaxSteps, reqs : SUBSET Request,
         fresh : SUBSET Request, finished : SUBSET Request, blind : SUBSET Request]
Control == {[NoCmd EXCEPT !.kind = k] : k \in {"profile", "shutdown"}}
Command == Step \cup Control
Snap  == [Request -> 0 .. MaxSteps]
Desc  == [Request -> (0 .. TailSlots) \X Nat]
Work  == [error : BOOLEAN, desc : Desc]
Item  == [kind : {"pending", "done"}, cmd : Step, error : BOOLEAN, desc : Desc]
           \cup {[NoItem EXCEPT !.kind = c.kind, !.cmd = c] : c \in Control}

LaneTypes ==
  /\ prep \in [pc : {"get", "register", "acquire", "prepare", "put", "exit"},
               cmd : Command \cup {NoCmd}, snap : Snap, work : Work]
  /\ dev \in [pc : {"get", "control", "barrier", "release", "drop", "run", "exit"},
              cmd : Command \cup {NoCmd}, snap : Snap, work : Work, doomed : SUBSET Request]
  /\ out \in [pc : {"get", "reclaim", "publish", "profile", "shutdown", "exit"},
              item : Item \cup {NoItem}]
  /\ inQueue \in Seq(Command) /\ outWork \in Seq(Item)
  /\ workQueue \in Seq([cmd : Command, snap : Snap, work : Work]) /\ Len(workQueue) <= BufferSlots
  /\ outQueue \in Seq([id : 1 .. MaxSteps, error : BOOLEAN])

\* What a lane holds where it is.
LaneHolds ==
  /\ IF prep.pc \in {"get", "exit"} THEN prep.cmd = NoCmd ELSE prep.cmd \in Command
  /\ prep.pc \in {"acquire", "prepare"} => prep.cmd.kind = "decode"
  /\ dev.pc \in {"get", "barrier", "exit"} => dev.cmd = NoCmd
  /\ dev.pc = "control" => dev.cmd \in Control
  /\ dev.pc \in {"release", "drop", "run"} => dev.cmd \in Step
  /\ out.pc \in {"get", "exit"} => out.item = NoItem
  /\ out.pc \in {"reclaim", "publish"} => out.item.cmd \in Step
  /\ out.pc = "reclaim" => out.item.cmd.kind = "decode"
  /\ out.pc \in {"profile", "shutdown"} => out.item.cmd \in Control
  /\ \A i \in DOMAIN outWork : outWork[i].kind = "pending" => outWork[i].cmd.kind = "decode"

\* The device lane stands at the barrier while a profile command passes.
AtBarrier ==
  /\ \A i \in DOMAIN outWork : outWork[i].kind = "profile" => dev.pc = "barrier" /\ i = Len(outWork)
  /\ out.pc = "profile" => dev.pc = "barrier" /\ outWork = <<>>

EngineTypes ==
  /\ mode \in Modes /\ sent \in 0 .. MaxSteps
  /\ inFlight \in Seq(Step) /\ Len(inFlight) <= Depth /\ discard \subseteq Nat
  /\ phase \in [Request -> {"new", "prefill", "ready", "gone"}]
  /\ known \subseteq Request /\ pendingFree \subseteq Request

SharedTypes ==
  /\ cache \in Snap /\ lastTok \subseteq Request
  /\ owned \subseteq Buffer /\ staged \in [Buffer -> 0 .. MaxSteps]

RunnerTypes ==
  /\ mtp \in [Request -> [slot : 0 .. TailSlots, gen : Nat, ready : BOOLEAN]]
  /\ freeTail \in Seq(Tail_) /\ gens \in [Tail_ -> Nat] /\ meta \in [Tail_ -> Nat]
  /\ tracked \in [Buffer -> 0 .. MaxSteps]
  /\ submitted \in Seq([id : 1 .. MaxSteps, cmd : Step, desc : Desc])

TypeInv == LaneTypes /\ LaneHolds /\ EngineTypes /\ SharedTypes /\ RunnerTypes

\* Slots: each is free once, or has one owner.
OneOwner(states, free) ==
  /\ \A i, j \in DOMAIN free : free[i] = free[j] => i = j
  /\ \A r \in Request : \A i \in DOMAIN free : states[r].slot # free[i]
  /\ \A r, q \in Request : states[r].slot = states[q].slot /\ states[r].slot # 0 => r = q
  /\ \A s \in Tail_ : \/ \E i \in DOMAIN free : free[i] = s
                      \/ \E r \in Request : states[r].slot = s

SlotsInv == OneOwner(mtp, freeTail)

\* Steps pass the lanes in the order of their ids, and the engine waits for or
\* discards exactly those that are on their way.
Precedes(A, B) == \A a \in A : \A b \in B : a.id # 0 /\ b.id # 0 => a.id < b.id

Sorted(q) == \A i, j \in DOMAIN q : i < j /\ q[i].id # 0 /\ q[j].id # 0 => q[i].id < q[j].id

ItemsSorted(q) ==
  \A i, j \in DOMAIN q : i < j /\ q[i].cmd.id # 0 /\ q[j].cmd.id # 0 => q[i].cmd.id < q[j].cmd.id

OrderInv ==
  /\ Sorted(inQueue) /\ ItemsSorted(workQueue) /\ ItemsSorted(outWork) /\ Sorted(outQueue)
  /\ Precedes({prep.cmd}, InCmds) /\ Precedes(WorkCmds, FromPrep)
  /\ Precedes({dev.cmd}, FromWork) /\ Precedes(OutCmds, FromDev)
  /\ Precedes({out.item.cmd}, FromOutWork)
  /\ Precedes({outQueue[i] : i \in DOMAIN outQueue}, FromOut)
  /\ \A c \in FromOut : c.id <= sent

InTransit == {c.id : c \in FromOut} \cup {outQueue[i].id : i \in DOMAIN outQueue}

AccountInv ==
  /\ \A i \in DOMAIN outQueue : outQueue[i].id <= sent
  /\ InTransit \ {0} = discard \cup InFlightIds
  /\ Sorted(inFlight)
  /\ \A n \in discard : \A i \in DOMAIN inFlight : n < inFlight[i].id

\* Buffers: a decode step has its slot from its acquisition to its publication,
\* and the runner tracks it from its submission until it was waited for.
HolderIds ==
  {c.id : c \in {c \in {out.item.cmd, dev.cmd} \cup OutCmds \cup WorkCmds : c.kind = "decode"}}
    \cup (IF prep.pc \in {"prepare", "put"} /\ prep.cmd.kind = "decode" THEN {prep.cmd.id} ELSE {})

PendingIds ==
  {outWork[i].cmd.id : i \in {j \in DOMAIN outWork : outWork[j].kind = "pending"}}
    \cup (IF out.pc = "reclaim" THEN {out.item.cmd.id} ELSE {})

StagedIds ==
  PendingIds
    \cup (IF dev.cmd.kind = "decode" /\ ~dev.work.error THEN {dev.cmd.id} ELSE {})
    \cup {workQueue[i].cmd.id : i \in {j \in DOMAIN workQueue : /\ workQueue[j].cmd.kind = "decode"
                                                                /\ ~workQueue[j].work.error}}
    \cup (IF prep.pc = "put" /\ prep.cmd.kind = "decode" /\ ~prep.work.error
          THEN {prep.cmd.id} ELSE {})

BuffersInv ==
  /\ \A n \in HolderIds : n % BufferSlots \in owned
  /\ \A m, n \in HolderIds : m % BufferSlots = n % BufferSlots => m = n
  /\ \A n \in StagedIds : staged[n % BufferSlots] = n
  /\ \A i \in DOMAIN submitted :
       /\ submitted[i].id = submitted[i].cmd.id /\ submitted[i].id \in PendingIds
       /\ tracked[submitted[i].id % BufferSlots] = submitted[i].id
  /\ \A s \in Buffer : tracked[s] # 0 => tracked[s] % BufferSlots = s /\ tracked[s] \in PendingIds

\* Releases: no step in the worker releases a request that a decode step behind
\* it, or the engine, counts on.
ReleaseInv ==
  /\ \A r \in pendingFree : phase[r] = "gone"
  /\ Fused => \A r \in Request :
       /\ phase[r] = "ready" => \A c \in FromDev : r \notin c.finished
       /\ phase[r] = "prefill" =>
            \A i \in DOMAIN inFlight : r \in inFlight[i].reqs =>
              \A c \in FromDev : c.id > inFlight[i].id => r \notin c.finished
       /\ \A d \in FromDev : d.kind = "decode" /\ r \in d.reqs =>
            \A c \in FromDev : c.id <= d.id => r \notin c.finished

\* States: the descriptors of a prepared step are those of its requests' states.
BoundTo(cmd, work) ==
  cmd.kind = "decode" /\ ~work.error =>
    \A r \in cmd.reqs : mtp[r].slot # 0 /\ work.desc[r] = <<mtp[r].slot, mtp[r].gen>>

StatesInv ==
  /\ \A r \in Request : mtp[r].ready => mtp[r].slot # 0 /\ meta[mtp[r].slot] = mtp[r].gen
  /\ Fused => /\ prep.pc = "put" => BoundTo(prep.cmd, prep.work)
              /\ \A i \in DOMAIN workQueue : BoundTo(workQueue[i].cmd, workQueue[i].work)
              /\ BoundTo(dev.cmd, dev.work)
  /\ DescriptorsCurrent

\* A state that the engine does not count on will be released.
KnownInv ==
  /\ \A r \in Request \ known : mtp[r].slot # 0 =>
       \E c \in FromDev : r \in c.finished /\ (c = dev.cmd => dev.pc = "release")
  /\ \A r \in Request \ known : \A d \in FromDev : r \in d.reqs =>
       \E c \in FromWork : c.id > d.id /\ r \in c.finished

LanesInv ==
  TypeInv /\ AtBarrier /\ SlotsInv /\ OrderInv /\ AccountInv /\ BuffersInv /\ ReleaseInv /\ StatesInv /\ KnownInv
=============================================================================
