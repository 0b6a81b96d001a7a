--------------------------- MODULE GroupedKvCache ---------------------------
(***************************************************************************)
(* The grouped pools of KvCacheManager (serving/memory/kv_cache.py): every *)
(* cache group of the model has a pool of its own in every partition, and  *)
(* a request holds a table of blocks in each group, all in one partition.  *)
(* A full-history group's table grows; a rolling group's table is a ring   *)
(* whose slots are given new blocks when they come round again.            *)
(*                                                                         *)
(* The manager is driven by the grouped branches of Scheduler: prefill in  *)
(* chunks, with one or two steps in flight.  Prompts are what is served    *)
(* (max_new_tokens is 1, and a speculative model holds decode steps back   *)
(* until the terminal prefill is known), and the token budget is ample.    *)
(*                                                                         *)
(* The device keeps, per row of a page, the token prefix the main layers'  *)
(* entry (main) and the MTP layer's entry (mtp, of an EAGLE group) were    *)
(* computed from.                                                          *)
(***************************************************************************)
EXTENDS Integers, SequencesExt

CONSTANTS
  Specs,        \* per group, its KVCacheGroupSpec, see GroupSpec
  NumParts,     \* num_partitions
  None,
  Prompt,       \* Prompt[r]: the prompt of request r
  Chunk,        \* the most tokens of a prompt in one step
  Tile,         \* layout.prefill_seq: rows of one MTP prefill
  MaxRunning,   \* max_num_running_reqs
  Modes,        \* values of async_scheduling a run starts with
  Aborts,       \* the requests a client may abort
  Timeouts      \* whether the engine may give up waiting for a step

\* cap: token_capacity of a page; max: max_blocks_per_seq; window:
\* sliding_window (0: None); eagle: is_eagle_group; blocks: the pool's size in
\* a partition.
GroupSpec == [cap : Nat \ {0}, max : Nat \ {0}, window : Nat, eagle : BOOLEAN,
              blocks : Nat \ {0}]

Group == DOMAIN Specs
Part == 0 .. NumParts - 1
Request == DOMAIN Prompt
NumPrompt(r) == Len(Prompt[r])
Cap(g) == Specs[g].cap
MaxBlocks(g) == Specs[g].max
Rolling(g) == Specs[g].window # 0
Block(g) == 0 .. Specs[g].blocks - 1
CeilDiv(a, b) == (a + b - 1) \div b

\* What KVCacheGroupSpec checks, and a table for the longest prompt.
ASSUME GroupAssumption ==
  /\ Specs \in Seq(GroupSpec) /\ Specs # <<>>
  /\ \A g \in Group :
       /\ Specs[g].blocks >= MaxBlocks(g)
       /\ IF Rolling(g)
          THEN Specs[g].window % Cap(g) = 0 /\ Specs[g].window \div Cap(g) <= MaxBlocks(g)
          ELSE \A r \in Request : MaxBlocks(g) >= CeilDiv(NumPrompt(r), Cap(g))
  /\ NumParts \in Nat \ {0} /\ Chunk \in Nat \ {0} /\ Tile \in Nat \ {0}
  /\ Modes \subseteq BOOLEAN /\ Aborts \subseteq Request /\ Timeouts \in BOOLEAN

\* compute_group_block_hashes: a hash stands for the tokens it chains, which
\* for a page of an EAGLE group include the one that follows the page.
GroupHashes(g, r) ==
  IF Specs[g].eagle
  THEN [k \in 1 .. (NumPrompt(r) - 1) \div Cap(g) |-> SubSeq(Prompt[r], 1, k * Cap(g) + 1)]
  ELSE [k \in 1 .. NumPrompt(r) \div Cap(g) |-> SubSeq(Prompt[r], 1, k * Cap(g))]

GroupHash(g) == UNION {ToSet(GroupHashes(g, r)) : r \in Request}

VARIABLES
  async,      \* async_scheduling, fixed for a run
  cells,      \* cells[g][p]: the blocks, free queue and hash index of group g in
              \* partition p (_GroupBlockPool)
  tab,        \* request_blocks: tab[g][r] (None: a slot without a block)
  log,        \* request_logical_blocks
  part,       \* _group_request_partitions and Request.cache_partition
  nextPart,   \* _next_group_partition
  fault,      \* a RuntimeError of the manager was raised
  req,        \* per request: status, num_computed_tokens, num_group_blocks_cached
  waiting, running,
  inflight,   \* steps sent, oldest first, as in module Scheduler
  loop,       \* where the engine loop stands: "run", "await" or "sleep"
  rows,       \* device: rows[g][p][b][i], row i of a page
  pending     \* runner: prefill_context, the row whose next token is not known

manager == <<cells, tab, log, part, nextPart, fault>>
vars == <<async, manager, req, waiting, running, inflight, loop, rows, pending>>

Depth == IF async THEN 2 ELSE 1

NoneCached == [g \in Group |-> 0]
Finished == {"finished", "aborted"}

Init ==
  /\ async \in Modes
  /\ cells = [g \in Group |-> [p \in Part |->
                [ref  |-> [b \in Block(g) |-> 0],
                 hash |-> [b \in Block(g) |-> None],
                 map  |-> [h \in GroupHash(g) |-> None],
                 free |-> [i \in 1 .. Specs[g].blocks |-> i - 1]]]]
  /\ tab = [g \in Group |-> [r \in Request |-> <<>>]]
  /\ log = [g \in Group |-> [r \in Request |-> 0]]
  /\ part = [r \in Request |-> None]
  /\ nextPart = 0 /\ fault = FALSE
  /\ req = [r \in Request |-> [st |-> "new", comp |-> 0, cached |-> NoneCached, term |-> FALSE]]
  /\ waiting = <<>> /\ running = <<>> /\ inflight = <<>> /\ loop = "sleep"
  /\ rows = [g \in Group |-> [p \in Part |-> [b \in Block(g) |->
                [i \in 0 .. Cap(g) - 1 |-> [main |-> <<>>, mtp |-> <<>>]]]]]
  /\ pending = [r \in Request |-> None]

-----------------------------------------------------------------------------
(***************************************************************************)
(* One cell.                                                               *)
(***************************************************************************)

\* _invalidate_group_block: the block's entry goes, if it is still its own.
Invalidate(c, b) ==
  [c EXCEPT !.map = [h \in DOMAIN @ |-> IF h = c.hash[b] /\ @[h] = b THEN None ELSE @[h]],
            !.hash[b] = None]

\* Mutant of TakeGroupBlock: the page stays in the index.
TakeUninvalidated(c) == [c EXCEPT !.ref[Head(c.free)] = 1, !.free = Tail(@)]

TakeGroupBlock(c) ==
  LET b == Head(c.free)
  IN  [Invalidate(c, b) EXCEPT !.ref[b] = 1, !.free = Tail(@)]

\* One reference is returned; the last one queues the block.
ReturnBlock(c, b) ==
  [c EXCEPT !.ref[b] = @ - 1, !.free = IF c.ref[b] = 1 THEN Append(@, b) ELSE @]

\* Mutant of ShareBlock: the hit is not counted.
ShareUncounted(c, b) == [c EXCEPT !.free = IF c.ref[b] = 0 THEN Remove(@, b) ELSE @]

\* A prefix hit: an evictable block leaves the queue.
ShareBlock(c, b) ==
  [c EXCEPT !.ref[b] = @ + 1, !.free = IF c.ref[b] = 0 THEN Remove(@, b) ELSE @]

\* _cache_group_block: a live duplicate is not replaced.
CacheGroupBlock(c, b, h) ==
  IF c.map[h] = b THEN c
  ELSE IF c.map[h] # None THEN Invalidate(c, b)
  ELSE [Invalidate(c, b) EXCEPT !.hash[b] = h, !.map[h] = b]

-----------------------------------------------------------------------------
(***************************************************************************)
(* Growth.  S is a working record with the manager's fields.               *)
(***************************************************************************)
LogicalBlocks(g, tokens) == CeilDiv(tokens, Cap(g))
SlotOf(g, i) == IF Rolling(g) THEN i % MaxBlocks(g) ELSE i
TableSize(g, tokens) ==
  IF Rolling(g) THEN Min({LogicalBlocks(g, tokens), MaxBlocks(g)}) ELSE LogicalBlocks(g, tokens)

\* Mutant of AdditionalGroupBlocks: pages to be detached are not counted.
AdditionalUnshared(S, g, r, tokens) ==
  LET owned == S.tab[g][r]
      empty == {i \in 1 .. TableSize(g, tokens) : i > Len(owned) \/ owned[i] = None}
  IN  Cardinality(empty)

\* The new pages a request needs: missing slots, and ring slots that come
\* round again while somebody else refers to their page.
AdditionalGroupBlocks(S, g, r, tokens) ==
  LET owned  == S.tab[g][r]
      target == LogicalBlocks(g, tokens)
      empty  == {i \in 1 .. TableSize(g, tokens) : i > Len(owned) \/ owned[i] = None}
      again  == {SlotOf(g, i) + 1 : i \in S.log[g][r] .. target - 1}
      shared == {i \in again \cap DOMAIN owned :
                   owned[i] # None /\ S.cells[g][S.part[r]].ref[owned[i]] > 1}
  IN  IF Rolling(g) THEN Cardinality(empty) + Cardinality(shared)
      ELSE IF target > MaxBlocks(g) THEN Specs[g].blocks + 1
      ELSE Max({0, target - Len(owned)})

CandidateGroupPartitions(S, r, tokens) ==
  {p \in (IF S.part[r] = None THEN Part ELSE {S.part[r]}) :
     \A g \in Group : AdditionalGroupBlocks(S, g, r, tokens) <= Len(S.cells[g][p].free)}

CanEnsure(S, r, tokens) == CandidateGroupPartitions(S, r, tokens) # {}

Load(S, p) == Cardinality({r \in Request : S.part[r] = p})

\* The least loaded candidate, in turn from nextPart.
SelectGroupPartition(S, r, tokens) ==
  LET cands == CandidateGroupPartitions(S, r, tokens)
      least == {p \in cands : \A q \in cands : Load(S, p) <= Load(S, q)}
      turn  == Min({k \in 0 .. NumParts - 1 : (S.nextPart + k) % NumParts \in least})
  IN  IF S.part[r] # None THEN S.part[r] ELSE (S.nextPart + turn) % NumParts

\* Mutant of AssignPartition: the turn does not wrap.
AssignUnwrapped(S, r, p) ==
  IF S.part[r] # None THEN S ELSE [S EXCEPT !.part[r] = p, !.nextPart = p + 1]

AssignPartition(S, r, p) ==
  IF S.part[r] # None THEN S
  ELSE [S EXCEPT !.part[r] = p, !.nextPart = (p + 1) % NumParts]

\* A slot of the table is given a block of the free queue.
PlaceBlock(S, g, r, slot) ==
  LET p == S.part[r]
      c == S.cells[g][p]
  IN  IF c.free = <<>> \/ c.ref[Head(c.free)] # 0 THEN [S EXCEPT !.fault = TRUE]
      ELSE [S EXCEPT !.tab[g][r][slot] = Head(c.free),
                     !.cells[g][p] = TakeGroupBlock(@)]

\* A ring slot comes round again: its page stays with its other owners, or
\* goes through the eviction queue.
RotateSlot(S, g, r, slot) ==
  PlaceBlock([S EXCEPT !.cells[g][S.part[r]] = ReturnBlock(@, S.tab[g][r][slot])], g, r, slot)

GrowGroup(S, g, r, tokens) ==
  LET target == LogicalBlocks(g, tokens)
      size   == TableSize(g, tokens)
      prev   == S.log[g][r]
      padded == S.tab[g][r] \o [i \in 1 .. Max({0, size - Len(S.tab[g][r])}) |-> None]
      fill(T, i) == IF T.tab[g][r][i] = None THEN PlaceBlock(T, g, r, i) ELSE T
      turn(T, i) == IF i >= MaxBlocks(g) THEN RotateSlot(T, g, r, SlotOf(g, i) + 1) ELSE T
      F == FoldLeft(fill, [S EXCEPT !.tab[g][r] = padded], [i \in 1 .. size |-> i])
      R == IF Rolling(g)
           THEN FoldLeft(turn, F, [k \in 1 .. Max({0, target - prev}) |-> prev + k - 1])
           ELSE F
  IN  [R EXCEPT !.log[g][r] = Max({prev, target})]

\* ensure_group_blocks, where CanEnsure holds.
EnsureGroupBlocks(S, r, tokens) ==
  LET A == AssignPartition(S, r, SelectGroupPartition(S, r, tokens))
      E == FoldLeft(LAMBDA T, g : GrowGroup(T, g, r, tokens), A, [g \in Group |-> g])
  IN  [E EXCEPT !.fault = @ \/ \E g \in Group : None \in ToSet(E.tab[g][r])]

ReleaseAllGroupRequests(S, r) ==
  LET p == S.part[r]
      give(c, b) == IF b = None THEN c ELSE ReturnBlock(c, b)
      free(g) == [S.cells[g] EXCEPT ![p] = FoldLeft(give, @, S.tab[g][r])]
  IN  IF p = None THEN S
      ELSE [S EXCEPT !.cells = [g \in Group |-> free(g)],
                     !.tab = [g \in Group |-> [@[g] EXCEPT ![r] = <<>>]],
                     !.log = [g \in Group |-> [@[g] EXCEPT ![r] = 0]],
                     !.part[r] = None]

-----------------------------------------------------------------------------
(***************************************************************************)
(* Prefix hits.                                                            *)
(***************************************************************************)
\* group_prefix_cache_alignment: the least common multiple of the pages.
Alignment ==
  Min({k \in 1 .. FoldLeft(LAMBDA a, s : a * s.cap, 1, Specs) : \A g \in Group : k % Cap(g) = 0})

\* The pages (from 0) a hit of `tokens` tokens needs: all of them, or those of
\* the window before its end.
PagesOfHit(g, tokens) ==
  LET end  == tokens \div Cap(g)
      tail == IF Rolling(g) THEN Min({end, Specs[g].window \div Cap(g)}) ELSE end
  IN  end - tail .. end - 1

IsHit(S, r, p, tokens) ==
  \A g \in Group :
    /\ tokens \div Cap(g) <= Len(GroupHashes(g, r))
    /\ Rolling(g) \/ tokens \div Cap(g) <= MaxBlocks(g)
    /\ \A i \in PagesOfHit(g, tokens) : S.cells[g][p].map[GroupHashes(g, r)[i + 1]] # None

LongestHit(S, r, p) ==
  Max({0} \cup {t \in 1 .. NumPrompt(r) - 1 : t % Alignment = 0 /\ IsHit(S, r, p, t)})

\* acquire_group_prefix_blocks, and what schedule() records of it.  Of equal
\* hits the first partition's is taken.
AcquireGroupPrefix(S, r) ==
  LET best == Max({LongestHit(S, r, p) : p \in Part})
      p    == Min({q \in Part : LongestHit(S, r, q) = best})
      block(g, i) == S.cells[g][p].map[GroupHashes(g, r)[i + 1]]
      pages(g) == PagesOfHit(g, best)
      page(g, slot) == {i \in pages(g) : SlotOf(g, i) + 1 = slot}
      table(g) == [slot \in 1 .. TableSize(g, best) |->
                     IF page(g, slot) = {} THEN None
                     ELSE block(g, CHOOSE i \in page(g, slot) : TRUE)]
      shared(g) == FoldLeft(ShareBlock, S.cells[g][p],
                            SetToSeq({block(g, i) : i \in pages(g)}))
      safe(g) == IF Specs[g].eagle THEN Max({0, best - 1}) ELSE best
  IN  IF best = 0 THEN S
      ELSE [S EXCEPT !.part[r] = p,
                     !.tab = [g \in Group |-> [@[g] EXCEPT ![r] = table(g)]],
                     !.log = [g \in Group |-> [@[g] EXCEPT ![r] = best \div Cap(g)]],
                     !.cells = [g \in Group |-> [@[g] EXCEPT ![p] = shared(g)]],
                     !.req[r].comp = best,
                     !.req[r].cached = [g \in Group |-> safe(g) \div Cap(g)]]

-----------------------------------------------------------------------------
(***************************************************************************)
(* Snapshots of the tables of steps in flight.  A step is a record: r, n,  *)
(* comp, ids (the table of every group), p (the partition), first (whether *)
(* it starts the request), pinned (group_blocks_retained).                 *)
(***************************************************************************)
RetainSnapshot(S, e) ==
  LET pin(c, b) == [c EXCEPT !.ref[b] = @ + 1]
  IN  [S EXCEPT !.cells = [g \in Group |-> [@[g] EXCEPT ![e.p] = FoldLeft(pin, @, e.ids[g])]],
                !.fault = @ \/ \E g \in Group :
                                 \/ ~IsInjective(e.ids[g])
                                 \/ \E i \in DOMAIN e.ids[g] :
                                      S.cells[g][e.p].ref[e.ids[g][i]] <= 0]

\* Mutant of ReleaseSnapshot: the pins of a dropped step stay.
ReleaseNothing(S, e) == S

ReleaseSnapshot(S, e) ==
  IF ~e.pinned THEN S
  ELSE [S EXCEPT !.cells = [g \in Group |->
                              [@[g] EXCEPT ![e.p] = FoldLeft(ReturnBlock, @, e.ids[g])]]]

\* Mutant of SafeTokens: the newest row of an EAGLE group is not held back.
SafeTokensAll(g, tokens) == tokens

\* An EAGLE group's newest row waits for the next token.
SafeTokens(g, tokens) == IF Specs[g].eagle THEN Max({0, tokens - 1}) ELSE tokens

Completed(g, r, tokens) == Min({SafeTokens(g, tokens) \div Cap(g), Len(GroupHashes(g, r))})

\* Publishes pages first .. last - 1 (from 0) of a table.
PublishPages(S, g, r, p, table, first, last) ==
  LET publish(c, i) == CacheGroupBlock(c, table[SlotOf(g, i) + 1], GroupHashes(g, r)[i + 1])
      new == [k \in 1 .. Max({0, last - first}) |-> first + k - 1]
  IN  IF \E i \in first .. last - 1 : SlotOf(g, i) + 1 \notin DOMAIN table
      THEN [S EXCEPT !.fault = TRUE]
      ELSE [S EXCEPT !.cells[g][p] = FoldLeft(publish, @, new), !.req[r].cached[g] = last]

\* cache_group_blocks: through the request's table.
CacheGroupBlocks(S, r, tokens) ==
  LET first(T, g) == Max({Min({T.req[r].cached[g], Completed(g, r, tokens)}),
                          IF Rolling(g) THEN T.log[g][r] - Len(T.tab[g][r]) ELSE 0})
      cache(T, g) == PublishPages(T, g, r, T.part[r], T.tab[g][r], first(T, g),
                                  Completed(g, r, tokens))
  IN  FoldLeft(cache, S, [g \in Group |-> g])

\* cache_group_blocks_from_snapshot: through the table of the step.
CacheFromSnapshot(S, r, e) ==
  LET done(g) == Completed(g, r, e.comp + e.n)
      first(T, g) == Max({Min({T.req[r].cached[g], done(g)}),
                          IF Rolling(g) THEN done(g) - Len(e.ids[g]) ELSE 0})
      cache(T, g) == PublishPages(T, g, r, e.p, e.ids[g], first(T, g), done(g))
  IN  FoldLeft(cache, S, [g \in Group |-> g])

-----------------------------------------------------------------------------
(***************************************************************************)
(* The scheduler.                                                          *)
(***************************************************************************)
Free(S, r) == [ReleaseAllGroupRequests(S, r) EXCEPT !.req[r].cached = NoneCached]

ReleaseWaitingPrefix(S, r) == [Free(S, r) EXCEPT !.req[r].comp = 0]

NumNew(S, r) == Min({Chunk, NumPrompt(r) - S.req[r].comp})

Emit(S, r, n, first) ==
  [S EXCEPT !.steps = Append(@, [r |-> r, n |-> n, comp |-> S.req[r].comp, first |-> first,
                                 p |-> S.part[r], ids |-> [g \in Group |-> S.tab[g][r]],
                                 pinned |-> FALSE])]

\* _preempt_lowest_priority: the latest arrival, of the same partition if it
\* holds another request.
Victims(S, r) ==
  LET others == ToSet(S.running) \ {r}
      near   == {v \in others : S.part[v] = S.part[r]}
  IN  IF near # {} THEN near ELSE others

PreemptLowestPriority(S, r) ==
  LET v == Max(Victims(S, r))
      Others(e) == e.r # v
  IN  [Free(S, v) EXCEPT !.req[v] = [@ EXCEPT !.st = "preempted", !.comp = 0, !.term = FALSE],
                         !.running = Remove(@, v), !.waiting = <<v>> \o @,
                         !.preempted = @ \cup {v}, !.steps = SelectSeq(@, Others)]

ScheduleRunning(S, r) ==
  LET n == NumNew(S, r)
      t == S.req[r].comp + n
      P == IF ~CanEnsure(S, r, t) /\ Victims(S, r) # {} THEN PreemptLowestPriority(S, r) ELSE S
  IN  IF S.req[r].st = "preempted" \/ S.req[r].term \/ n <= 0 THEN S
      ELSE IF CanEnsure(P, r, t) THEN Emit(EnsureGroupBlocks(P, r, t), r, n, FALSE)
      ELSE P

\* A hit whose partition cannot hold the rest of the prompt is given up for a
\* cold start in any partition.
KeepHit(S, r) ==
  IF CanEnsure(S, r, S.req[r].comp + NumNew(S, r)) THEN S ELSE ReleaseWaitingPrefix(S, r)

Defer(S, r) == [S EXCEPT !.waiting = Append(@, r)]

\* The first chunk after the hit, or an end of admission for this pass.
Admit(S, r) ==
  LET n == NumNew(S, r)
      t == S.req[r].comp + n
  IN  IF ~CanEnsure(S, r, t) THEN [Defer(S, r) EXCEPT !.stop = TRUE]
      ELSE [Emit(EnsureGroupBlocks(S, r, t), r, n, TRUE) EXCEPT
              !.req[r].st = "running", !.running = Append(@, r)]

ScheduleWaiting(S, r) ==
  IF S.stop \/ Len(S.running) >= MaxRunning \/ r \in S.preempted THEN Defer(S, r)
  ELSE Admit(KeepHit(AcquireGroupPrefix(S, r), r), r)

State == [cells |-> cells, tab |-> tab, log |-> log, part |-> part, nextPart |-> nextPart,
          fault |-> fault, req |-> req, running |-> running, waiting |-> waiting,
          steps |-> <<>>, preempted |-> {}, stop |-> FALSE]

Schedule ==
  LET S == FoldLeft(ScheduleRunning, State, running)
  IN  FoldLeft(ScheduleWaiting, [S EXCEPT !.waiting = <<>>], S.waiting)

\* advance_after_schedule: in async mode the tables are pinned and the
\* requests advance; after a terminal chunk they wait for its result.
Advance(S, e) ==
  [RetainSnapshot(S, e) EXCEPT
     !.req[e.r] = [@ EXCEPT !.comp = @ + e.n, !.term = e.comp + e.n >= NumPrompt(e.r)]]

AdvanceAfterSchedule(S) == IF async THEN FoldLeft(Advance, S, S.steps) ELSE S

\* update_from_output for one request of a step: a stale one only returns its
\* pins.
ApplyScheduled(S, e) ==
  LET A == ReleaseSnapshot(CacheFromSnapshot(S, e.r, e), e)
      Y == CacheGroupBlocks([S EXCEPT !.req[e.r].comp = @ + e.n], e.r, e.comp + e.n)
  IN  IF S.req[e.r].st \in Finished \cup {"preempted"} THEN ReleaseSnapshot(S, e)
      ELSE IF async THEN A ELSE Y

Finish(S, r) == [Free(S, r) EXCEPT !.req[r].st = "finished", !.running = Remove(@, r)]

\* The token of a terminal chunk finishes its request, once the whole step has
\* been applied.
UpdateFromOutput(S, steps) ==
  LET U    == FoldLeft(ApplyScheduled, S, steps)
      ends == {steps[i].r : i \in {j \in DOMAIN steps :
                                     steps[j].comp + steps[j].n >= NumPrompt(steps[j].r)}}
  IN  FoldLeft(Finish, U, SelectSeq(U.running, LAMBDA r : r \in ends))

\* abort_request; a finished request has nothing left to release.
Abort(S, r) ==
  IF S.req[r].st \in {"new"} \cup Finished THEN S
  ELSE [Free(S, r) EXCEPT !.req[r].st = "aborted", !.running = Remove(@, r),
                          !.waiting = Remove(@, r)]

-----------------------------------------------------------------------------
(***************************************************************************)
(* The device, as the runner drives it.  D is its state: rows, pending and *)
(* fault.                                                                  *)
(***************************************************************************)
Prefix(r, n) == SubSeq(Prompt[r], 1, n)

\* What row t of the MTP layer is computed from: one token more.
Shifted(r, t) == IF t + 2 <= NumPrompt(r) THEN Prefix(r, t + 2) ELSE Append(Prompt[r], None)

\* The page of position t in a table (paged_decode_slot_mapping_from_ids).
PageOf(e, g, t) == e.ids[g][((t \div Cap(g)) % Len(e.ids[g])) + 1]
Row(D, e, g, t) == D.rows[g][e.p][PageOf(e, g, t)][t % Cap(g)]

\* The rows before t that position t attends to.
Attended(g, t) == (IF Rolling(g) THEN Max({0, t - Specs[g].window + 1}) ELSE 0) .. t - 1

MainContext(D, e, t) ==
  \A g \in Group : \A u \in Attended(g, t) : Row(D, e, g, u).main = Prefix(e.r, u + 1)

\* The main layers at position t.
MainRow(D, e, t) ==
  LET row == IF MainContext(D, e, t) THEN Prefix(e.r, t + 1) ELSE <<>>
  IN  [D EXCEPT !.rows = [g \in Group |->
                            [@[g] EXCEPT ![e.p][PageOf(e, g, t)][t % Cap(g)].main = row]],
                !.hidden = [@ EXCEPT ![t] = row]]

\* The MTP layer at position t, from the main layers' hidden state there, into
\* the pages `at`.
MtpRow(D, e, t, hidden, at) ==
  LET good(g) == /\ hidden = Prefix(e.r, t + 1)
                 /\ \A u \in Attended(g, t) : Row(D, e, g, u).mtp = Shifted(e.r, u)
      row(g)  == IF good(g) THEN Shifted(e.r, t) ELSE <<>>
      write(g, cell) == IF Specs[g].eagle
                        THEN [cell EXCEPT ![e.p][at[g]][t % Cap(g)].mtp = row(g)] ELSE cell
  IN  [D EXCEPT !.rows = [g \in Group |-> write(g, @[g])]]

Pages(e, t) == [g \in Group |-> PageOf(e, g, t)]

\* Main prefill of a chunk, then _capture_mtp_prefill_context: the row left
\* over from the chunk before, if this chunk does not fill the tile, and the
\* rows of the tile but the last, which waits for its next token: the next
\* chunk's, or the sampled one (finalize_prefill).
ExecutePrefill(D, e) ==
  LET last == e.comp + e.n - 1
      from == last + 1 - Min({e.n, Tile})
      ends == last + 1 >= NumPrompt(e.r)
      M    == FoldLeft(LAMBDA F, t : MainRow(F, e, t), [D EXCEPT !.hidden = [t \in e.comp .. last |-> <<>>]],
                       [i \in 1 .. e.n |-> e.comp + i - 1])
      old  == IF e.first THEN None ELSE D.pending[e.r]
      C    == IF old # None /\ e.n < Tile THEN MtpRow(M, e, old.pos, old.hidden, old.at) ELSE M
      T    == FoldLeft(LAMBDA F, t : MtpRow(F, e, t, F.hidden[t], Pages(e, t)), C,
                       [i \in 1 .. last - from |-> from + i - 1])
      new  == [pos |-> last, hidden |-> T.hidden[last], at |-> Pages(e, last), p |-> e.p]
      Z    == IF ends THEN MtpRow(T, e, last, new.hidden, new.at) ELSE T
  IN  [Z EXCEPT !.pending[e.r] = IF ends THEN None ELSE new,
                !.fault = @ \/ (old # None /\ (old.p # e.p \/ old.pos + 1 # e.comp))]

-----------------------------------------------------------------------------
(***************************************************************************)
(* Actions: the engine's loop, its clients and the worker, as in module    *)
(* Scheduler.                                                              *)
(***************************************************************************)
SchedulerBecomes(S) ==
  /\ cells' = S.cells /\ tab' = S.tab /\ log' = S.log /\ part' = S.part
  /\ nextPart' = S.nextPart /\ fault' = S.fault
  /\ req' = S.req /\ running' = S.running /\ waiting' = S.waiting

device == <<rows, pending>>
scheduler == <<manager, req, waiting, running>>

Suspended == loop \in {"await", "sleep"}

\* Requests arrive in the order of their numbers.
AddRequest(r) ==
  /\ Suspended
  /\ req[r].st = "new" /\ \A s \in Request : s < r => req[s].st # "new"
  /\ req' = [req EXCEPT ![r].st = "waiting"]
  /\ waiting' = Append(waiting, r)
  /\ UNCHANGED <<async, manager, running, inflight, loop, device>>

AbortRequest(r) ==
  /\ Suspended
  /\ r \in Aborts /\ req[r].st \notin {"new"} \cup Finished
  /\ SchedulerBecomes(Abort(State, r))
  /\ UNCHANGED <<async, inflight, loop, device>>

BatchQueue == SelectSeq(inflight, LAMBDA b : b.live)
HasWork == running # <<>> \/ waiting # <<>>

\* The command is queued, if it has steps; then the loop's next position.
Send(S, cmd) ==
  /\ SchedulerBecomes(S)
  /\ inflight' = IF cmd = <<>> THEN inflight
                 ELSE Append(inflight, [steps |-> cmd, done |-> FALSE, live |-> TRUE])
  /\ loop' = IF cmd # <<>> /\ Len(BatchQueue) + 1 < Depth THEN "run"
             ELSE IF cmd = <<>> /\ BatchQueue = <<>> THEN "sleep" ELSE "await"

\* The steps of a pass, pinned in async mode.
SendPinned(S) == Send(S, [i \in DOMAIN S.steps |-> [S.steps[i] EXCEPT !.pinned = async]])

Dispatch ==
  /\ loop = "run"
  /\ Len(BatchQueue) < Depth /\ HasWork
  /\ SendPinned(AdvanceAfterSchedule(Schedule))
  /\ UNCHANGED <<async, device>>

NoDispatch ==
  /\ loop = "run"
  /\ ~HasWork \/ Len(BatchQueue) >= Depth
  /\ loop' = IF BatchQueue = <<>> THEN "sleep" ELSE "await"
  /\ UNCHANGED <<async, scheduler, inflight, device>>

WakeUp ==
  /\ loop = "sleep"
  /\ loop' = "run"
  /\ UNCHANGED <<async, scheduler, inflight, device>>

\* The device executes the oldest step it has not executed; nobody waits for
\* the result of a step that was given up.
Execute ==
  \E i \in DOMAIN inflight :
    /\ ~inflight[i].done /\ \A j \in 1 .. i - 1 : inflight[j].done
    /\ LET D == FoldLeft(ExecutePrefill,
                         [rows |-> rows, pending |-> pending, fault |-> fault, hidden |-> <<>>],
                         inflight[i].steps)
       IN  rows' = D.rows /\ pending' = D.pending /\ fault' = D.fault
    /\ inflight' = IF inflight[i].live THEN [inflight EXCEPT ![i].done = TRUE]
                   ELSE RemoveAt(inflight, i)
    /\ UNCHANGED <<async, cells, tab, log, part, nextPart, req, waiting, running, loop>>

ApplyOldest ==
  /\ loop = "await"
  /\ Head(inflight).live /\ Head(inflight).done
  /\ SchedulerBecomes(UpdateFromOutput(State, Head(inflight).steps))
  /\ inflight' = Tail(inflight)
  /\ loop' = "run"
  /\ UNCHANGED <<async, device>>

\* _handle_step_error after a timeout: the pins of every step in flight are
\* returned and their requests aborted, while the device goes on.
StepTimeout ==
  /\ Timeouts
  /\ loop = "await"
  /\ ~Head(BatchQueue).done
  /\ LET lost == FlattenSeq([i \in DOMAIN BatchQueue |-> BatchQueue[i].steps])
     IN  SchedulerBecomes(FoldLeft(LAMBDA S, e : Abort(ReleaseSnapshot(S, e), e.r), State, lost))
  /\ inflight' = [i \in DOMAIN inflight |-> [inflight[i] EXCEPT !.live = FALSE]]
  /\ loop' = "run"
  /\ UNCHANGED <<async, device>>

Next ==
  \/ \E r \in Request : AddRequest(r) \/ AbortRequest(r)
  \/ Dispatch \/ NoDispatch \/ WakeUp \/ ApplyOldest \/ StepTimeout
  \/ Execute

\* As in module Scheduler: the engine's task goes on when it can, and the
\* worker executes what it was sent.
EngineGoesOn == (loop = "await" => Head(BatchQueue).done) /\ loop' \in {"run", "await", "sleep"}
DeviceReady == \E i \in DOMAIN inflight : ~inflight[i].done

Fairness ==
  /\ WF_loop(EngineGoesOn)
  /\ <>[]DeviceReady => []<><<Execute>>_vars

Spec == Init /\ [][Next]_vars /\ Fairness

-----------------------------------------------------------------------------
(***************************************************************************)
(* Properties.                                                             *)
(***************************************************************************)
TypeOK ==
  /\ \A r \in Request :
       /\ req[r].st \in {"new", "waiting", "running", "preempted"} \cup Finished
       /\ req[r].comp \in 0 .. NumPrompt(r)
       /\ part[r] \in Part \cup {None}
       /\ \A g \in Group : ToSet(tab[g][r]) \subseteq Block(g) \cup {None}
  /\ nextPart \in Part
  /\ Len(BatchQueue) <= Depth
  /\ loop \in {"run", "await", "sleep"}

\* The steps in flight that hold pins.
Pins == {<<i, j>> \in (1 .. Len(inflight)) \X (1 .. MaxRunning) :
           /\ inflight[i].live /\ j \in DOMAIN inflight[i].steps
           /\ inflight[i].steps[j].pinned}

\* The manager never raises: no page is taken from an empty queue after
\* can_ensure said it would fit, no snapshot names a free page, no slot of a
\* table is left empty, and the runner gets the chunks of a prompt one after
\* the other, in one partition.
NoInternalError == ~fault

\* A page's reference count is the number of tables and of pinned snapshots
\* that name it, through hits, detached ring slots, preemption, aborts and
\* timeouts; and the free queue holds the pages without references, once.
RefExact ==
  \A g \in Group, p \in Part :
    LET c == cells[g][p]
    IN  /\ IsInjective(c.free)
        /\ \A b \in Block(g) :
             /\ c.ref[b] =
                  Cardinality({r \in Request : part[r] = p /\ b \in ToSet(tab[g][r])})
                  + Cardinality({k \in Pins :
                       LET e == inflight[k[1]].steps[k[2]]
                       IN  e.p = p /\ b \in ToSet(e.ids[g])})
             /\ (c.ref[b] = 0) = (b \in ToSet(c.free))

\* Pages are counted once for every table and every step in flight that names
\* them, in every group and partition, so that an allocation the manager has
\* promised never runs dry half way through the groups.
PoolsConsistent == TypeOK /\ NoInternalError /\ RefExact

\* A published page holds what its hash names: every row of the main layers
\* and, in an EAGLE group, of the MTP layer is the prefix's; and no step the
\* device has yet to run writes to it.
IndexSound ==
  \A g \in Group, p \in Part : \A h \in GroupHash(g) :
    LET b    == cells[g][p].map[h]
        base == Len(h) - (IF Specs[g].eagle THEN 1 ELSE 0) - Cap(g)
    IN  b # None =>
          /\ \A i \in 0 .. Cap(g) - 1 :
               /\ rows[g][p][b][i].main = SubSeq(h, 1, base + i + 1)
               /\ Specs[g].eagle => rows[g][p][b][i].mtp = SubSeq(h, 1, base + i + 2)
          /\ \A i \in DOMAIN inflight : ~inflight[i].done =>
               \A j \in DOMAIN inflight[i].steps :
                 LET e == inflight[i].steps[j]
                 IN  e.p = p => \A t \in e.comp .. e.comp + e.n - 1 : PageOf(e, g, t) # b

\* The step the device runs next finds, through the tables it was sent, the
\* rows its first position attends to: nothing that was scheduled after it or
\* freed before it has taken them away.
ContextIntact ==
  \A i \in DOMAIN inflight :
    ~inflight[i].done /\ (\A j \in 1 .. i - 1 : inflight[j].done) =>
      \A j \in DOMAIN inflight[i].steps :
        MainContext([rows |-> rows], inflight[i].steps[j], inflight[i].steps[j].comp)

\* Every prompt that is accepted is served, or given up by its client or the
\* engine.
EveryPromptServed ==
  \A r \in Request : (req[r].st = "waiting") ~> (req[r].st \in Finished)
=============================================================================
