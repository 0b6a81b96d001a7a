----------------------------- MODULE Scheduler -----------------------------
(***************************************************************************)
(* Scheduler of serving/sched/scheduler.py on the generic block pool,      *)
(* driven by the dispatch/await loop of ReplicaEngineCore and a device     *)
(* that executes the dispatched steps in order.                            *)
(*                                                                         *)
(* A schedule() pass is a function from a working record S to the record   *)
(* it leaves: the two loops over running and waiting are left folds whose  *)
(* body is the loop's body.                                                *)
(*                                                                         *)
(* The device holds, for every KV row, the token prefix the row was        *)
(* computed from, so that a row written at the wrong place, from a wrong   *)
(* token, or over a missing context is told apart from a good one.         *)
(***************************************************************************)
EXTENDS Integers, SequencesExt

CONSTANTS
  NumBlocks, BlockSize,   \* the generic pool of KvCacheManager
  None,                   \* Python's None
  Prompt,                 \* Prompt[r]: the prompt of request r, a sequence of tokens
  MaxNew,                 \* MaxNew[r]: its max_new_tokens
  Sampled,                \* the requests with temperature > 0
  Vocab, Eos,             \* tokens are 0 .. Vocab - 1; the eos token (or None)
  MaxSeqLen,              \* SchedulerConfig.max_seq_len
  MaxRunning,             \* max_num_running_reqs
  TokenBudget,            \* max_num_scheduled_tokens
  LongPrefill,            \* long_prefill_token_threshold
  PrefixCache,            \* enable_prefix_cache
  NumSpec,                \* num_speculative_tokens
  SpecChunkPrefill,       \* supports_chunked_prefill_with_speculation
  Homogeneous,            \* requires_homogeneous_prefill_decode
  Modes,                  \* the modes a run starts in, see Mode
  Aborts,                 \* the requests a client may abort
  Stops,                  \* the requests whose text may end in a stop string
  Timeouts                \* whether the engine may give up waiting for a step

\* async: async_scheduling; chunk: enable_chunk_prefill; maxPrefill:
\* max_prefill_tokens_per_request, or None.
Mode == [async : BOOLEAN, chunk : BOOLEAN, maxPrefill : (Nat \ {0}) \cup {None}]

Request == DOMAIN Prompt
Token == 0 .. Vocab - 1
Junk == Vocab             \* what sampling over a broken context yields

\* A prefix hash identifies the tokens it covers (hash_block_tokens chains
\* the parent's hash; collisions are left out).
NumPrompt(r) == Len(Prompt[r])
BlockHashes(r) == [k \in 1 .. NumPrompt(r) \div BlockSize |->
                     SubSeq(Prompt[r], 1, k * BlockSize)]
BlockHash == UNION {Range(BlockHashes(r)) : r \in Request}

INSTANCE KvPoolOps WITH Hash <- BlockHash

ASSUME ConfigAssumption ==
  /\ NumBlocks \in Nat \ {0} /\ BlockSize \in Nat \ {0}
  /\ MaxSeqLen \in Nat /\ MaxRunning \in Nat \ {0}
  /\ NumSpec \in Nat /\ NumSpec + 1 <= TokenBudget
  /\ LongPrefill \in Nat
  /\ {PrefixCache, SpecChunkPrefill, Homogeneous} \subseteq BOOLEAN
  /\ Modes \subseteq Mode
  /\ Sampled \cup Aborts \cup Stops \subseteq Request /\ Timeouts \in BOOLEAN

VARIABLES
  mode,       \* the mode, fixed for a run
  req,        \* the Request objects
  waiting,    \* Scheduler.waiting
  running,    \* Scheduler.running
  nextPhase,  \* Scheduler._next_grouped_cache_phase
  pool,       \* KvCacheManager's generic pool
  inflight,   \* the steps sent, oldest first: their result once the device has
              \* run them, and whether they are still in _batch_queue
  loop,       \* where the engine loop stands: "run", "await" or "sleep"
  kv,         \* device: the prefix each KV row was computed from
  sampled,    \* device: tokens sampled since the request's last full prefill
  resumed     \* history: requests preempted after their first output token

vars == <<mode, req, waiting, running, nextPhase, pool, inflight, loop, kv,
          sampled, resumed>>

Async == mode.async
ChunkPrefill == mode.chunk
MaxPrefill == mode.maxPrefill
Depth == IF Async THEN 2 ELSE 1   \* _max_in_flight

NewRequest == [st |-> "new", comp |-> 0, ph |-> 0, out |-> <<>>,
               blocks |-> <<>>, pub |-> 0, term |-> FALSE]

Finished == {"finished", "aborted"}

Init ==
  /\ mode \in Modes
  /\ req = [r \in Request |-> NewRequest]
  /\ waiting = <<>> /\ running = <<>>
  /\ nextPhase = "decode"
  /\ pool = InitPool
  /\ inflight = <<>> /\ loop = "sleep"
  /\ kv = [b \in Block |-> [i \in 0 .. BlockSize - 1 |-> <<>>]]
  /\ sampled = [r \in Request |-> <<>>]
  /\ resumed = {}

-----------------------------------------------------------------------------
(***************************************************************************)
(* Request's properties and the limits of a step.                          *)
(***************************************************************************)
NumTokens(q, r) == NumPrompt(r) + Len(q[r].out) + q[r].ph
NumNewNeeded(q, r) == NumTokens(q, r) - q[r].comp
IsPrefill(q, r) == q[r].comp < NumPrompt(r)

\* add_request caps generation to what max_seq_len leaves.
MaxOut(r) == Min({MaxNew[r], MaxSeqLen - NumPrompt(r)})

PrefillLimits == (IF MaxPrefill = None THEN {} ELSE {MaxPrefill})
                 \cup (IF ChunkPrefill /\ LongPrefill > 0 THEN {LongPrefill} ELSE {})

SingleDispatchLimit == Min(PrefillLimits \cup {TokenBudget})

RequiresSinglePrefill == ~ChunkPrefill \/ (NumSpec > 0 /\ ~SpecChunkPrefill)

SinglePrefillRejected(q, r) ==
  /\ RequiresSinglePrefill
  /\ Max({1, NumPrompt(r) - q[r].comp}) > SingleDispatchLimit

LimitScheduledTokens(q, r, budget) ==
  LET needed == NumNewNeeded(q, r)
      limit  == IF IsPrefill(q, r) THEN Min(PrefillLimits \cup {budget}) ELSE budget
  IN  IF IsPrefill(q, r) /\ RequiresSinglePrefill /\ needed > limit
      THEN 0
      ELSE Min({needed, limit})

SpeculativeTokens(r, prefill) == IF prefill \/ r \in Sampled THEN 0 ELSE NumSpec

\* _check_finish, on the output a request would have.
CheckFinish(r, out) ==
  /\ out # <<>>
  /\ Last(out) = Eos \/ Len(out) >= MaxOut(r)

-----------------------------------------------------------------------------
(***************************************************************************)
(* Blocks.  S is the working record of a pass: req, pool, running,         *)
(* waiting, and for schedule() also budget, steps, preempted and stop.     *)
(***************************************************************************)
FreeRequestBlocks(S, r) ==
  [S EXCEPT !.pool = FoldLeft(Release, @, S.req[r].blocks),
            !.req[r].blocks = <<>>]

\* Mutant of BlocksNeeded: the last, partly filled block is not counted.
BlocksNeededFloor(q, r, n) ==
  Max({0, (q[r].comp + n) \div BlockSize - Len(q[r].blocks)})

BlocksNeeded(q, r, n) ==
  Max({0, (q[r].comp + n + BlockSize - 1) \div BlockSize - Len(q[r].blocks)})

CanGrow(S, r, n) == CanAllocate(S.pool, BlocksNeeded(S.req, r, n))

Grow(S, r, n) ==
  LET k == BlocksNeeded(S.req, r, n)
  IN  [S EXCEPT !.pool = AllocateBlocks(@, k),
                !.req[r].blocks = @ \o SubSeq(S.pool.free, 1, k)]

\* Mutant of LookupPrefix: the hit may cover the whole prompt.
LookupWholePrompt(S, r) ==
  LET hashes == BlockHashes(r)
      n      == Max({k \in 0 .. Len(hashes) : \A i \in 1 .. k : S.pool.map[hashes[i]] # None})
  IN  [S EXCEPT !.pool = FoldLeft(GetCachedBlock, @, SubSeq(hashes, 1, n)),
                !.req[r].blocks = [i \in 1 .. n |-> S.pool.map[hashes[i]]],
                !.req[r].comp = n * BlockSize,
                !.req[r].pub = n]

\* get_computed_blocks: the longest published prefix, short of the last
\* prompt token; and what schedule() records of the hit.
LookupPrefix(S, r) ==
  LET limit  == (NumPrompt(r) - 1) \div BlockSize
      hashes == BlockHashes(r)
      n      == Max({k \in 0 .. limit : \A i \in 1 .. k : S.pool.map[hashes[i]] # None})
      hit    == SubSeq(hashes, 1, n)
  IN  IF ~PrefixCache \/ n = 0
      THEN S
      ELSE [S EXCEPT !.pool = FoldLeft(GetCachedBlock, @, hit),
                     !.req[r].blocks = [i \in 1 .. n |-> S.pool.map[hashes[i]]],
                     !.req[r].comp = n * BlockSize,
                     !.req[r].pub = n]

\* Mutant of ReleaseWaitingPrefix: a deferred request keeps its prefix hit.
ForgetWaitingPrefix(S, r) == [S EXCEPT !.req[r].comp = 0, !.req[r].pub = 0]

ReleaseWaitingPrefix(S, r) ==
  [FreeRequestBlocks(S, r) EXCEPT !.req[r].comp = 0, !.req[r].pub = 0]

\* _cache_completed_blocks: publishes the prompt blocks that the first
\* `tokens` tokens complete and that were not published yet.
CacheCompletedBlocks(S, r, tokens) ==
  LET total == Min({tokens \div BlockSize, Len(BlockHashes(r))})
      first == S.req[r].pub
      last  == Min({total, Len(S.req[r].blocks)})
      new   == [i \in 1 .. last - first |-> first + i]
      publish(p, i) == CacheBlock(p, S.req[r].blocks[i], BlockHashes(r)[i])
  IN  IF ~PrefixCache \/ total <= first
      THEN S
      ELSE [S EXCEPT !.pool = FoldLeft(publish, @, new), !.req[r].pub = total]

-----------------------------------------------------------------------------
(***************************************************************************)
(* schedule(), phase 1: the running requests.                              *)
(***************************************************************************)
Emit(S, r, n, prefill) ==
  LET total == n + SpeculativeTokens(r, prefill)
  IN  [S EXCEPT !.steps = Append(@, [r |-> r, n |-> n, prefill |-> prefill,
                                     comp |-> S.req[r].comp, total |-> total,
                                     blocks |-> S.req[r].blocks]),
                !.budget = @ - total]

Victims(S, r) == ToSet(S.running) \ {r}

\* _preempt_lowest_priority: the latest arrival; requests arrive in the order
\* of their numbers.  A step already scheduled for it is taken back.
PreemptLowestPriority(S, r) ==
  LET v == Max(Victims(S, r))
      IsMine(e) == e.r = v
      Others(e) == e.r # v
      back == SelectSeq(S.steps, IsMine)
      F == FreeRequestBlocks(S, v)
  IN  [F EXCEPT !.req[v] = [@ EXCEPT !.st = "preempted", !.comp = 0, !.ph = 0,
                                     !.pub = 0, !.term = FALSE],
                !.running = Remove(@, v),
                !.waiting = <<v>> \o @,
                !.preempted = @ \cup {v},
                !.steps = SelectSeq(@, Others),
                !.budget = @ + (IF back = <<>> THEN 0 ELSE back[1].total)]

ScheduleRunning(S, r) ==
  LET prefill == IsPrefill(S.req, r)
      n       == LimitScheduledTokens(S.req, r, S.budget)
      total   == n + SpeculativeTokens(r, prefill)
      ready   == /\ S.req[r].st # "preempted"
                 /\ ~S.req[r].term
                 /\ S.phase = None \/ prefill = (S.phase = "prefill")
                 /\ n > 0
                 /\ total <= S.budget
      short   == ~CanGrow(S, r, total)
      P       == IF short /\ Victims(S, r) # {} THEN PreemptLowestPriority(S, r) ELSE S
  IN  IF ~ready
      THEN S
      ELSE IF CanGrow(P, r, total)
           THEN Emit(Grow(P, r, total), r, n, prefill)
           ELSE P

-----------------------------------------------------------------------------
(***************************************************************************)
(* schedule(), phase 2: the waiting requests.  S.waiting collects the      *)
(* requests that stay; S.stop is the loop's break.                         *)
(***************************************************************************)
Defer(S, r) == [S EXCEPT !.waiting = Append(@, r)]

ScheduleWaiting(S, r) ==
  LET H    == LookupPrefix(S, r)
      n0   == LimitScheduledTokens(H.req, r, S.budget)
      full == n0 <= 0 /\ H.req[r].comp >= NumPrompt(r)
      n    == IF full THEN 1 ELSE n0
      A    == IF full THEN [H EXCEPT !.req[r].comp = Max({0, NumPrompt(r) - 1})] ELSE H
  IN  IF \/ S.stop \/ S.budget <= 0 \/ Len(S.running) >= MaxRunning
         \/ r \in S.preempted
      THEN Defer(S, r)
      ELSE IF SinglePrefillRejected(H.req, r)
      THEN [ReleaseWaitingPrefix(H, r) EXCEPT !.req[r].st = "aborted"]
      ELSE IF n <= 0
      THEN Defer(ReleaseWaitingPrefix(H, r), r)
      ELSE IF ~CanGrow(A, r, n)
      THEN [Defer(ReleaseWaitingPrefix(A, r), r) EXCEPT !.stop = TRUE]
      ELSE [Emit(Grow(A, r, n), r, n, TRUE) EXCEPT !.req[r].st = "running",
                                                   !.running = Append(@, r)]

-----------------------------------------------------------------------------
\* _grouped_cache_phase: the phase of this pass, or None for a mixed one.
HasReady(prefill) == \E r \in ToSet(running) :
                        /\ req[r].st # "preempted" /\ ~req[r].term
                        /\ IsPrefill(req, r) = prefill
                        /\ NumNewNeeded(req, r) > 0

\* Mutant of GroupedPhase: every pass is mixed.
GroupedPhaseMixed == None

GroupedPhase ==
  LET hasPrefill == HasReady(TRUE) \/ (waiting # <<>> /\ Len(running) < MaxRunning)
      hasDecode  == HasReady(FALSE)
  IN  IF ~Homogeneous \/ ~(hasPrefill \/ hasDecode) THEN None
      ELSE IF hasPrefill /\ hasDecode THEN nextPhase
      ELSE IF hasPrefill THEN "prefill" ELSE "decode"

\* Mutant of RotatedPhase: a mixed pass forgets the phase to go on with.
RotateLost(phase) == IF phase = "prefill" THEN "decode"
                     ELSE IF phase = "decode" THEN "prefill" ELSE None

RotatedPhase(phase) ==
  IF phase = None THEN nextPhase
  ELSE IF phase = "prefill" THEN "decode" ELSE "prefill"

Schedule(phase) ==
  LET S0 == [req |-> req, pool |-> pool, running |-> running, waiting |-> waiting,
             budget |-> TokenBudget, steps |-> <<>>, preempted |-> {},
             phase |-> phase, stop |-> FALSE]
      S1 == FoldLeft(ScheduleRunning, S0, running)
  IN  IF phase = "decode"
      THEN S1
      ELSE FoldLeft(ScheduleWaiting, [S1 EXCEPT !.waiting = <<>>], S1.waiting)

-----------------------------------------------------------------------------
(***************************************************************************)
(* What follows a pass: the command for the worker and, in async mode, the *)
(* optimistic advance.                                                     *)
(***************************************************************************)

\* Mutant of LastToken: the token of the step in flight is not waited for.
LastTokenStale(q, r) == IF q[r].out # <<>> THEN Last(q[r].out) ELSE Last(Prompt[r])

\* _build_step_command: a decode whose input token is still in flight carries
\* PLACEHOLDER_TOKEN (None here).
LastToken(q, r) == IF q[r].ph > 0 THEN None
                   ELSE IF q[r].out # <<>> THEN Last(q[r].out) ELSE Last(Prompt[r])

BuildStepCommand(S) ==
  [i \in DOMAIN S.steps |->
     LET e == S.steps[i]
     IN  [r |-> e.r, n |-> e.n, prefill |-> e.prefill, comp |-> e.comp,
          blocks |-> e.blocks, total |-> e.total,
          last |-> IF e.prefill THEN None ELSE LastToken(S.req, e.r)]]

\* Mutant of AdvanceRequest: every chunk of a prompt reserves a token.
AdvanceEveryChunk(q, e) ==
  [q EXCEPT ![e.r] = [@ EXCEPT !.comp = @ + e.n, !.ph = @ + 1]]

AdvanceRequest(q, e) ==
  LET done     == q[e.r].comp + e.n >= NumPrompt(e.r)
      reserved == IF ~e.prefill \/ done THEN 1 + SpeculativeTokens(e.r, e.prefill) ELSE 0
  IN  [q EXCEPT ![e.r] = [@ EXCEPT !.comp = @ + e.n + Max({0, reserved - 1}),
                                   !.ph = @ + reserved,
                                   !.term = @ \/ (e.prefill /\ done /\ NumSpec > 0)]]

AdvanceAfterSchedule(q, steps) ==
  IF Async THEN FoldLeft(AdvanceRequest, q, steps) ELSE q

-----------------------------------------------------------------------------
(***************************************************************************)
(* update_from_output.                                                     *)
(***************************************************************************)

\* Mutant of Retained: tokens after the end are kept.
RetainedAll(r, out, tokens) == tokens

\* Tokens are appended up to the one that finishes the request.
Retained(r, out, tokens) ==
  LET ends == {i \in DOMAIN tokens : CheckFinish(r, out \o SubSeq(tokens, 1, i))}
  IN  IF ends = {} THEN tokens ELSE SubSeq(tokens, 1, Min(ends))

\* Mutant of ReconcileAsync: rejected speculative positions stay computed.
ReconcileOptimistic(S, e, tokens) ==
  LET r        == e.r
      reserved == IF ~e.prefill \/ S.req[r].comp >= NumPrompt(r)
                  THEN 1 + SpeculativeTokens(r, e.prefill) ELSE 0
  IN  [CacheCompletedBlocks(S, r, e.comp + e.n) EXCEPT
         !.req[r].out = @ \o Retained(r, @, tokens),
         !.req[r].ph = Max({0, @ - reserved})]

\* Mutant of ReconcileAsync: what is published follows the optimistic count.
ReconcileEager(S, e, tokens) ==
  LET r == e.r
  IN  [CacheCompletedBlocks(S, r, S.req[r].comp) EXCEPT
         !.req[r].out = @ \o Retained(r, @, tokens),
         !.req[r].ph = Max({0, @ - (IF S.req[r].comp >= NumPrompt(r) THEN 1 ELSE 0)})]

ReconcileAsync(S, e, tokens) ==
  LET r        == e.r
      reserved == IF ~e.prefill \/ S.req[r].comp >= NumPrompt(r)
                  THEN 1 + SpeculativeTokens(r, e.prefill) ELSE 0
      kept     == Retained(r, S.req[r].out, tokens)
      unused   == Max({0, reserved - 1 - Max({0, Len(kept) - 1})})
  IN  [CacheCompletedBlocks(S, r, e.comp + e.n) EXCEPT
         !.req[r].out = @ \o kept,
         !.req[r].ph = Max({0, @ - reserved}),
         !.req[r].comp = Max({0, @ - unused})]

UpdateSync(S, e, tokens) ==
  LET r    == e.r
      comp == S.req[r].comp + e.n
      kept == Retained(r, S.req[r].out, tokens)
      P    == CacheCompletedBlocks([S EXCEPT !.req[r].comp = comp], r, comp)
      D    == [S EXCEPT !.req[r].out = @ \o kept, !.req[r].comp = @ + Len(kept)]
  IN  IF ~e.prefill THEN CacheCompletedBlocks(D, r, D.req[r].comp)
      ELSE IF comp < NumPrompt(r) THEN P
      ELSE [P EXCEPT !.req[r].out = @ \o kept]

\* Mutant of ApplyScheduled: the barrier of a terminal prefill is never lifted.
ApplyBehindBarrier(S, e, tokens) ==
  IF S.req[e.r].st \in Finished \cup {"preempted"} THEN S
  ELSE IF Async THEN ReconcileAsync(S, e, tokens) ELSE UpdateSync(S, e, tokens)

\* A result for a request that finished, was aborted or was preempted after
\* the step's dispatch is stale and is dropped.
ApplyScheduled(S, e, tokens) ==
  LET ends == e.prefill /\ e.comp + e.n >= NumPrompt(e.r)
      T    == [S EXCEPT !.req[e.r].term = @ /\ ~ends]
  IN  IF S.req[e.r].st \in Finished \cup {"preempted"} THEN S
      ELSE IF Async THEN ReconcileAsync(T, e, tokens) ELSE UpdateSync(T, e, tokens)

\* Mutant of FinishRequest: the request stays in running.
FinishInPlace(S, r) ==
  IF CheckFinish(r, S.req[r].out)
  THEN [FreeRequestBlocks(S, r) EXCEPT !.req[r].st = "finished"]
  ELSE S

FinishRequest(S, r) ==
  IF CheckFinish(r, S.req[r].out)
  THEN [FreeRequestBlocks(S, r) EXCEPT !.req[r].st = "finished",
                                       !.running = Remove(@, r)]
  ELSE S

UpdateFromOutput(S, step) ==
  LET apply(T, e) == ApplyScheduled(T, e, step.tokens[e.r])
      U == FoldLeft(apply, S, step.steps)
  IN  FoldLeft(FinishRequest, U, U.running)

-----------------------------------------------------------------------------
(***************************************************************************)
(* The device (external: the executors and their kernels), as the worker   *)
(* drives it.                                                              *)
(***************************************************************************)

\* The model's greedy next token.
LM(s) == IF s = <<>> THEN Junk
         ELSE FoldLeft(LAMBDA a, t : (2 * a + t + 1) % 7, 0, s) % Vocab

Row(k, blocks, pos) == k[blocks[pos \div BlockSize + 1]][pos % BlockSize]

InTable(blocks, pos) == pos \div BlockSize + 1 <= Len(blocks)

\* What attention yields at pos for an input token: a good prefix only over
\* a complete and consistent context.
Attend(k, blocks, pos, tok) ==
  IF pos = 0 THEN <<tok>>
  ELSE LET s == Row(k, blocks, pos - 1)
       IN  IF /\ tok # Junk /\ Len(s) = pos
              /\ \A i \in 0 .. pos - 1 : Row(k, blocks, i) = SubSeq(s, 1, i + 1)
           THEN Append(s, tok) ELSE <<>>

WriteRow(k, blocks, pos, row) ==
  [k EXCEPT ![blocks[pos \div BlockSize + 1]][pos % BlockSize] = row]

\* D is the device's state: kv, sampled, and the step's result so far.
Feed(D, e, pos, tok) ==
  LET row == Attend(D.kv, e.blocks, pos, tok)
  IN  [D EXCEPT !.kv = WriteRow(@, e.blocks, pos, row), !.next = LM(row)]

\* _batch_prefill: the chunk is a slice of the prompt; a token is sampled when
\* it reaches the prompt's end.
ExecutePrefill(D, e) ==
  LET stop  == Min({e.comp + e.n, NumPrompt(e.r)})
      chunk == [i \in 1 .. stop - e.comp |-> e.comp + i]
      feed(E, i) == Feed(E, e, i - 1, Prompt[e.r][i])
      F == FoldLeft(feed, D, chunk)
  IN  IF stop >= NumPrompt(e.r)
      THEN [F EXCEPT !.tokens[e.r] = <<F.next>>, !.sampled[e.r] = <<F.next>>]
      ELSE F

\* _batch_decode: the input token is the one sent or, for a placeholder, the
\* last one sampled.  With speculation the runner's committed count, not the
\* scheduler's optimistic one, places the step; it proposes as many drafts as
\* the context leaves room for, accepts up to `accept` of the emitted tokens
\* and leaves rejected drafts' rows behind.
ExecuteDecode(D, e, accept) ==
  LET r      == e.r
      pos    == IF NumSpec = 0 THEN e.comp + e.n - 1
                               ELSE NumPrompt(r) + Len(D.sampled[r]) - 1
      first  == IF e.last = None \/ NumSpec > 0 THEN Last(D.sampled[r]) ELSE e.last
      drafts == Min({SpeculativeTokens(r, FALSE), Max({0, MaxSeqLen - pos - 1})})
      k      == Min({accept, drafts + 1})
      step(E, i) == LET F == Feed(E, e, pos + i - 1, IF i = 1 THEN first ELSE E.next)
                    IN  [F EXCEPT !.tokens[r] = Append(@, F.next)]
      wipe(E, i) == [E EXCEPT !.kv = WriteRow(@, e.blocks, pos + i - 1, <<>>)]
      A == FoldLeft(step, D, [i \in 1 .. k |-> i])
      B == FoldLeft(wipe, A, [i \in 1 .. drafts + 1 - k |-> k + i])
  IN  [B EXCEPT !.sampled[r] = @ \o B.tokens[r]]

ExecuteStep(steps, accept) ==
  LET D0 == [kv |-> kv, sampled |-> sampled, next |-> Junk,
             tokens |-> [r \in Request |-> <<>>]]
      prefill(D, e) == IF e.prefill THEN ExecutePrefill(D, e) ELSE D
      decode(D, e)  == IF e.prefill THEN D ELSE ExecuteDecode(D, e, accept[e.r])
  IN  FoldLeft(decode, FoldLeft(prefill, D0, steps), steps)

-----------------------------------------------------------------------------
(***************************************************************************)
(* Actions.  Clients run while the engine loop is suspended.               *)
(***************************************************************************)
Suspended == loop \in {"await", "sleep"}

Admissible(r) ==
  /\ NumPrompt(r) < MaxSeqLen
  /\ PrefixCache \/ ~SinglePrefillRejected(req, r)

\* add_request: the next request arrives, and is queued or refused.
AddRequest(r) ==
  /\ Suspended
  /\ req[r].st = "new"
  /\ \A s \in Request : s < r => req[s].st # "new"
  /\ req' = [req EXCEPT ![r].st = IF Admissible(r) THEN "waiting" ELSE "aborted"]
  /\ waiting' = IF Admissible(r) THEN Append(waiting, r) ELSE waiting
  /\ UNCHANGED <<mode, running, nextPhase, pool, inflight, loop, kv, sampled, resumed>>

\* Scheduler.abort_request: a finished request is still in self.requests.
Abort(S, r) ==
  IF S.req[r].st \in {"new", "aborted"} THEN S
  ELSE [FreeRequestBlocks(S, r) EXCEPT !.req[r].st = "aborted",
                                       !.running = Remove(@, r),
                                       !.waiting = Remove(@, r)]

SchedulerState == [req |-> req, pool |-> pool, running |-> running, waiting |-> waiting]

SchedulerBecomes(S) ==
  /\ req' = S.req /\ pool' = S.pool /\ running' = S.running /\ waiting' = S.waiting

AbortRequest(r) ==
  /\ Suspended
  /\ r \in Aborts /\ req[r].st \notin {"new", "aborted"}
  /\ SchedulerBecomes(Abort(SchedulerState, r))
  /\ UNCHANGED <<mode, nextPhase, inflight, loop, kv, sampled, resumed>>

\* _batch_queue.
BatchQueue == SelectSeq(inflight, LAMBDA b : b.live)

HasWork == running # <<>> \/ waiting # <<>>

\* _try_dispatch_step, and where the loop goes next.
Dispatch ==
  /\ loop = "run"
  /\ Len(BatchQueue) < Depth /\ HasWork
  /\ LET phase == GroupedPhase
         S     == Schedule(phase)
         cmd   == BuildStepCommand(S)
     IN  /\ nextPhase' = RotatedPhase(phase)
         /\ SchedulerBecomes([S EXCEPT !.req = AdvanceAfterSchedule(@, S.steps)])
         /\ resumed' = resumed \cup {r \in S.preempted : S.req[r].out # <<>>}
         /\ inflight' = IF cmd = <<>> THEN inflight
                        ELSE Append(inflight, [steps |-> cmd, tokens |-> None, live |-> TRUE])
         /\ loop' = IF cmd # <<>> /\ Len(BatchQueue) + 1 < Depth THEN "run"
                    ELSE IF cmd = <<>> /\ BatchQueue = <<>> THEN "sleep" ELSE "await"
  /\ UNCHANGED <<mode, kv, sampled>>

\* Nothing to schedule: wait for the oldest step, or for a client.
NoDispatch ==
  /\ loop = "run"
  /\ ~HasWork \/ Len(BatchQueue) >= Depth
  /\ loop' = IF BatchQueue = <<>> THEN "sleep" ELSE "await"
  /\ UNCHANGED <<mode, req, waiting, running, nextPhase, pool, inflight, kv, sampled, resumed>>

\* The poll interval is over.
WakeUp ==
  /\ loop = "sleep"
  /\ loop' = "run"
  /\ UNCHANGED <<mode, req, waiting, running, nextPhase, pool, inflight, kv, sampled, resumed>>

\* The device executes the oldest step it has not executed.  The result of a
\* step the engine gave up on is drained when it comes (_get_live_result).
Execute ==
  \E i \in DOMAIN inflight, accept \in [Request -> 1 .. NumSpec + 1] :
    /\ inflight[i].tokens = None
    /\ \A j \in 1 .. i - 1 : inflight[j].tokens # None
    /\ LET D == ExecuteStep(inflight[i].steps, accept)
       IN  /\ inflight' = IF inflight[i].live
                          THEN [inflight EXCEPT ![i].tokens = D.tokens]
                          ELSE RemoveAt(inflight, i)
           /\ kv' = D.kv /\ sampled' = D.sampled
    /\ UNCHANGED <<mode, req, waiting, running, nextPhase, pool, loop, resumed>>

\* finish_request, on a stop string.
StopRequest(S, r) ==
  [FreeRequestBlocks(S, r) EXCEPT !.req[r].st = "finished", !.running = Remove(@, r)]

\* _await_and_apply_oldest on a result: _process_step_output updates the
\* scheduler and finishes the requests whose new text ends in a stop string.
ApplyOldest ==
  /\ loop = "await"
  /\ Head(inflight).live /\ Head(inflight).tokens # None
  /\ LET S == UpdateFromOutput(SchedulerState, Head(inflight))
         grown == {r \in Stops \cap ToSet(S.running) : Len(S.req[r].out) > Len(req[r].out)}
     IN  \E stop \in SUBSET grown :
           SchedulerBecomes(FoldLeft(StopRequest, S, SetToSeq(stop)))
  /\ inflight' = Tail(inflight)
  /\ loop' = "run"
  /\ UNCHANGED <<mode, nextPhase, kv, sampled, resumed>>

\* The wait for the oldest step times out: _handle_step_error drops every step
\* in flight and aborts their requests, while the device goes on with them.
StepTimeout ==
  /\ Timeouts
  /\ loop = "await"
  /\ Head(BatchQueue).tokens = None
  /\ LET lost == FlattenSeq([i \in DOMAIN BatchQueue |-> BatchQueue[i].steps])
     IN  SchedulerBecomes(FoldLeft(LAMBDA S, e : Abort(S, e.r), SchedulerState, lost))
  /\ inflight' = [i \in DOMAIN inflight |-> [inflight[i] EXCEPT !.live = FALSE]]
  /\ loop' = "run"
  /\ UNCHANGED <<mode, nextPhase, kv, sampled, resumed>>

EngineStep == Dispatch \/ NoDispatch \/ WakeUp \/ ApplyOldest \/ StepTimeout

Next ==
  \/ \E r \in Request : AddRequest(r) \/ AbortRequest(r)
  \/ EngineStep \/ Execute

\* The engine's task, when it can go on, comes to its next position (at most
\* Depth dispatches later); the worker executes what it has been sent.  The
\* second line is WF_vars(Execute) with the condition under which Execute is
\* enabled written out.
EngineReady == loop = "await" => Head(BatchQueue).tokens # None
EngineGoesOn == EngineReady /\ loop' \in {"run", "await", "sleep"}
DeviceReady == \E i \in DOMAIN inflight : inflight[i].tokens = None

Fairness ==
  /\ WF_loop(EngineGoesOn)
  /\ <>[]DeviceReady => []<><<Execute>>_vars

Spec == Init /\ [][Next]_vars /\ Fairness

-----------------------------------------------------------------------------
(***************************************************************************)
(* Properties.                                                             *)
(***************************************************************************)
TypeOK ==
  /\ \A r \in Request :
       /\ req[r].st \in {"new", "waiting", "running", "preempted"} \cup Finished
       /\ req[r].comp \in 0 .. MaxSeqLen + 3 * (NumSpec + 1) /\ req[r].ph \in Nat
       /\ req[r].out \in Seq(Token \cup {Junk}) /\ req[r].blocks \in Seq(Block)
       /\ req[r].pub \in Nat /\ req[r].term \in BOOLEAN
  /\ ToSet(waiting) \cup ToSet(running) \subseteq Request
  /\ nextPhase \in {"prefill", "decode"}
  /\ pool \in Pool
  /\ Len(BatchQueue) <= Depth
  /\ loop \in {"run", "await", "sleep"}
  /\ resumed \subseteq Request

InFlight(r) == {i \in DOMAIN inflight : \E j \in DOMAIN inflight[i].steps :
                                           inflight[i].steps[j].r = r}

\* Scheduler.requests, running and waiting agree: a request is in exactly the
\* queue its status names, once, through preemption, re-admission, finish and
\* abort.
QueuesExact ==
  /\ \A r \in Request :
       /\ Cardinality({i \in DOMAIN running : running[i] = r})
            = (IF req[r].st = "running" THEN 1 ELSE 0)
       /\ Cardinality({i \in DOMAIN waiting : waiting[i] = r})
            = (IF req[r].st \in {"waiting", "preempted"} THEN 1 ELSE 0)

\* The reference counts of the pool are the block tables of the requests: a
\* block is free exactly when no request's table names it, whatever was
\* rolled back, preempted or aborted on the way.
TablesOwnBlocks ==
  \A b \in Block :
    /\ pool.ref[b] = Cardinality({r \in Request : b \in ToSet(req[r].blocks)})
    /\ (pool.ref[b] = 0) = (b \in ToSet(pool.free))

\* A published prefix hash names a block whose rows the device has computed
\* from exactly that prefix, and no step in flight will write to it.
PublishedSound ==
  \A h \in BlockHash : pool.map[h] # None =>
    LET b == pool.map[h]
        base == Len(h) - BlockSize
    IN  /\ \A i \in 0 .. BlockSize - 1 : kv[b][i] = SubSeq(h, 1, base + i + 1)
        /\ \A i \in DOMAIN inflight : inflight[i].tokens = None =>
             \A j \in DOMAIN inflight[i].steps :
               LET e == inflight[i].steps[j]
               IN  \A m \in DOMAIN e.blocks : e.blocks[m] = b => m * BlockSize <= e.comp

Greedy(r) ==
  LET g[n \in 0 .. MaxOut(r)] ==
        IF n = 0 THEN <<>> ELSE Append(g[n - 1], LM(Prompt[r] \o g[n - 1]))
  IN  g

IsGreedy(r) ==
  LET out == req[r].out
  IN  /\ Len(out) <= MaxOut(r)
      /\ out = Greedy(r)[Len(out)]
      /\ \A i \in 1 .. Len(out) - 1 : out[i] # Eos

\* What a client receives is what the model generates from its prompt alone,
\* cut at the first eos and at max_new_tokens: batching, chunking, prefix
\* hits, pipelining, speculation and the preemption of others change nothing.
OutputGreedy == \A r \in Request \ resumed : IsGreedy(r)

\* With no step of a running request in flight the optimistic accounting has
\* settled to the synchronous one: no placeholder is left, the barrier is
\* down, and the computed tokens are all but the last output token.
Settled ==
  \A r \in ToSet(running) \ resumed : InFlight(r) = {} =>
    /\ req[r].ph = 0 /\ ~req[r].term
    /\ \/ req[r].out = <<>> /\ req[r].comp < NumPrompt(r)
       \/ req[r].out # <<>> /\ req[r].comp = NumPrompt(r) + Len(req[r].out) - 1

\* A dispatched step is one the kernels accept: it stays within the token
\* budget, names a request once, keeps to one phase and takes a prompt whole
\* where the kernels need it, fits the context, and its block table reaches
\* every row it writes.
StepsWellFormed ==
  \A i \in DOMAIN inflight :
    LET steps == inflight[i].steps
    IN  /\ MapThenSumSet(LAMBDA j : steps[j].total, DOMAIN steps) <= TokenBudget
        /\ \A j, k \in DOMAIN steps : steps[j].r = steps[k].r => j = k
        /\ Homogeneous => \A j, k \in DOMAIN steps : steps[j].prefill = steps[k].prefill
        /\ \A j \in DOMAIN steps :
             /\ InTable(steps[j].blocks, steps[j].comp + steps[j].total - 1)
             /\ RequiresSinglePrefill /\ steps[j].prefill
                  => steps[j].comp + steps[j].n >= NumPrompt(steps[j].r)
             /\ NumSpec = 0 => steps[j].comp + steps[j].n <= MaxSeqLen

\* advance_after_schedule and update_from_output cancel out: what is
\* dispatched lies in the request's table and in its phase, and once nothing
\* is in flight the optimistic accounting is the synchronous one.
StepsSound == Settled /\ StepsWellFormed

\* Two requests share a block only as a published full prefix: the rows a
\* request still has to write, in a step of its own in flight or in a later
\* one, are in blocks nobody else holds.
WritableBlocksPrivate ==
  \A r, s \in Request : r # s =>
    \A i \in DOMAIN req[r].blocks :
      req[r].blocks[i] \in ToSet(req[s].blocks) =>
        /\ i <= req[r].pub /\ i * BlockSize <= req[r].comp
        /\ \A k \in InFlight(r) : inflight[k].tokens = None =>
             \A j \in DOMAIN inflight[k].steps :
               LET e == inflight[k].steps[j]
               IN  e.r = r /\ i \in DOMAIN e.blocks /\ e.blocks[i] = req[r].blocks[i]
                     => i * BlockSize <= e.comp

\* The scheduler and its pool agree after any preemption, deferred admission,
\* abort or late result: a request is in one queue, its table owns its blocks,
\* a published block holds its prefix, and a block a request still writes is
\* nobody else's.
Consistent ==
  /\ TypeOK
  /\ QueuesExact
  /\ TablesOwnBlocks
  /\ PublishedSound
  /\ WritableBlocksPrivate

\* Every request that is admitted is answered in full or aborted.
EveryRequestFinishes ==
  \A r \in Request : (req[r].st = "waiting") ~> (req[r].st \in Finished)
=============================================================================
