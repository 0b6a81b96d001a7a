# A TLA+ model of pypto-serving

pypto-serving serves large language models on Ascend NPUs. A front process
schedules requests over a paged KV cache and sends *steps* (batches of prefill
chunks or decode tokens) to a worker process that runs them on the device.
This directory models the part of the program in which its own logic lives: the
scheduler, the KV block pools, the engine loop that keeps two steps in flight,
the worker with its three threads, the runners that lay batches out for fixed-size
kernels, the way weights come from a checkpoint to the device, the front that routes
requests and profiles workers, and the C++ platform's channels and engines. The
modules are translated from the sources; `PROJECT.json` maps every definition to
the lines it models.

## 1. Inventory

| Component (source) | State it keeps | Operations | Interacts with | Hard because |
|---|---|---|---|---|
| `Scheduler` (`serving/sched/scheduler.py`) | request table, `waiting`, `running`, per request: computed tokens, placeholders, output, block table, published blocks | `add_request`, `schedule`, `advance_after_schedule`, `update_from_output`, `abort_request` | block pool (calls), engine (called by it) | results are applied after the state was advanced for the next step; preemption; shared token budget; prefix hits |
| `KvCacheManager`, generic pool (`serving/memory/kv_cache.py`) | reference counts, hashes, free queue, prefix index | allocate, hit, publish, release | scheduler | sharing, eviction and revival of blocks in any order |
| `KvCacheManager`, grouped pools | one pool per group and partition, snapshots of blocks in flight | the same, per group | scheduler | several pools that succeed or fail together |
| `ReplicaEngineCore` (`serving/engine/async_engine.py`) | contexts of requests, `_batch_queue`, ids to discard, what the worker knows, pending frees | engine loop, dispatch, results, errors, cleanup, request generators | scheduler, worker (queues), clients (callbacks) | timeouts with late answers, two steps in flight, cancellation at every await |
| `AsyncLLMEngine` (replica router) and the HTTP handlers | placement and extra load per replica, engine cores, worker processes | start and stop of all replicas, choose a replica, stream or collect, abort | engine cores, clients | load given back and requests released on every path; nested generators; a start that fails half way |
| Profiling (`tools/profile`, `/start_profile`, `/stop_profile`) | one recorder and one file per process, command and acknowledgement queues | start, stop, merge | server, cores, workers | acknowledgements that arrive after their timeout |
| Worker, serial loop (`serving/server/serving_worker.py`) | request cache, last tokens | one command at a time | engine, executor | what the engine believes the worker knows |
| Worker, pipelined loop | the same, two decode buffer slots, three queues | prepare, device and output lanes | engine, DeepSeek runner | three threads share dictionaries, buffers and device state |
| DeepSeek runner (`model/deepseek/npu_runner.py`), states | request states, tail slots and generations, tracked dispatches | prepare, prefill, dispatch, reclaim, release | worker lanes, device | slots recycled while steps that name them are in flight |
| DeepSeek runner, batches | device caches of three kinds, MTP cache, draft and target state of requests | prefill chunks, the decode tile, autoregressive and speculative decode | scheduler's pages, kernels | kernels run a fixed tile, so rows nobody asked for are written somewhere; rejected drafts stay in the cache |
| Qwen runner (`model/qwen/npu_runner.py`), batches | persistent decode buffers, rows of a block table written only when they change | prefill, decode | scheduler's pages, kernels | what a row still holds of the request that had it before |
| Cache pools (`init_kv_cache` of both runners) | device tensors, their common size | size, allocate, free, try again with half | device memory, KV manager (which trusts the report) | an allocation refused after some tensors and ranks have theirs |
| Weight pipeline (`model/common/weights`, `weight_spec.py`, `weight_loader.py`) | whole-model slabs, a thread pool, torch's thread count | contract check, template, staging of a layer, loading of a sidecar | checkpoint files | layers written concurrently at positions that depend on their groups |
| Conversion and prepacking (`scripts/convert_deepseek_v4_to_w8a8.py`, `tools/prepack_deepseek_v4.py`) | files: marker, shards, config, index, sidecar | convert, resume, pack, map | operator, server | crashes between any two effects; files replaced while they are read |
| Platform runtime (`platform/include`) | two channels per edge, a lock, the lifecycle of modules on every instance | push, pop, register types, start, stop, await | HiCR | several threads push, one pops, and a message lives in two channels |
| Executors, sampler, task arguments, tokenizer, compiler, CLI, device worker | see `PROJECT.json` | | | numeric, I/O or third-party |

What makes each of them correct:

* pool: a block is referenced as often as tables hold it, is free or
  referenced, and a prefix hit returns the very prefix;
* scheduler: a greedy request's output is the model's greedy continuation,
  whatever was preempted, chunked, speculated or aborted; every block a step
  writes belongs to its request; with room enough every request finishes;
* engine: a result is applied to the step it belongs to, engine and worker agree
  on the registered requests, and a client always gets an answer;
* worker: steps are answered once and in order; no lane takes away what another
  one uses;
* grouped pools: a page is referenced as often as tables and steps in flight name
  it, an indexed page holds the prefix of its hash in every layer, and a chunk finds
  all rows that it attends to;
* runners: a request's tokens are the model's own, whatever shares its batch, and a
  kernel writes only rows of requests that asked for it or rows nobody reads;
* cache pools: the pages reported are allocated on every rank, and nothing is left of
  a refused attempt;
* weights: what is served comes from one checkpoint, converted completely, each row
  at its place;
* router and profiling: no worker, load or request is left behind; a recording that was
  reported as started is being made, and a merge is of one recording;
* platform: messages arrive whole, once and in order, and every instance goes through
  its lifecycle to the end.

`PROJECT.json` lists the hazards, each at the line where it bites.

## 2. Modules

| Module | Models | Checked by | Proofs |
|---|---|---|---|
| `KvPoolOps` | the operations of the generic pool as operators on a record (`ref`, `hash`, `free`, `map`) | through the two modules below | |
| `KvBlockPool` | the pool with requests that allocate, hit, write, publish and free in any order | `MCMemory` | `KvBlockPool_proofs` |
| `EngineCore` | `ReplicaEngineCore` with an abstract scheduler and the serial worker | `MCEngineCore*` | `EngineCore_proofs` |
| `Scheduler` | the scheduler on the generic pool, driven by the engine's dispatch/await loop, with a device that executes steps on KV rows | `MCScheduler*` | |
| `GroupedKvCache` | the grouped pools of `KvCacheManager`, the scheduler's grouped branches that drive them, and a device with main and MTP rows | `MCGroupedKvCache*` | |
| `FifoWorker` | the worker the engine relies on: abstract specification | as a property of `WorkerLanes` | its safety part: `WorkerLanes_proofs` |
| `WorkerLanes` | the pipelined worker and the DeepSeek runner's request states, with the engine as environment | `MCWorkerLanes*` | `WorkerLanes_proofs` |
| `ChunkedMtp` | the DeepSeek runner from a scheduled batch to the rows kernels write | `MCRunners` | |
| `QwenBatches` | the Qwen runner's prefill and decode batches | `MCRunners` | `Runners_proofs` |
| `CachePools` | `init_kv_cache` of both runners | `MCWeights`, `MCMemory` | `CachePools_proofs` |
| `WeightStaging` | the weight rules, packing and stacking of both models | `MCWeights`, `MCMemory` | `Weights_proofs` |
| `ConvertCheckpoint` | the checkpoint converter, its crashes and `--resume` | `MCWeights`, `MCMemory` | `Weights_proofs` |
| `PackedSidecar` | the prepack command and the loader of its sidecar | `MCWeights`, `MCMemory` | `Weights_proofs` |
| `ReplicaRouter` | `AsyncLLMEngine` and the completion handlers of the server | `MCServingFront` | `ServingFront_proofs` |
| `ProfileSession` | profile requests, commands, acknowledgements and recorders | `MCServingFront` | `ServingFront_proofs` |
| `PlatformChannel` | an edge of the C++ platform between threads of one instance and another | `MCPlatform` | `Platform_proofs` |
| `PlatformEngine` | the lifecycle of modules on all instances | `MCPlatform` | `Platform_proofs` |

`Scheduler` uses `KvPoolOps` (the pool the proofs are about) by `INSTANCE`.
`WorkerLanes` implements `FifoWorker`; in `EngineCore` the worker is one action
on two queues, which is `FifoWorker` with the request cache added.
The environment of `WorkerLanes` may send what `EngineCore` may send: in
particular a preempted request is restarted only after its last step was
drained, which `EngineCore` checks as `RestartAfterDrain`. `ChunkedMtp` and
`QwenBatches` are given pages as `GroupedKvCache` and `Scheduler` give them (a request's
own, enough for the positions it writes), and `CachePools` says how many there are.

An MC module that holds several components (`MCRunners`, `MCWeights`, `MCMemory`,
`MCServingFront`, `MCPlatform`) runs them one at a time: they share no state, the
component is chosen in the initial state, and its behaviours are its own. `MCMemory`
adds `KvBlockPool` to the components and instances of `MCWeights`.

### KvPoolOps, KvBlockPool

A pool is a record of functions over block ids. The doubly linked
`FreeKVCacheBlockQueue` is a sequence. `hash_block_tokens` chains the parent's
hash, so a hash stands for a token prefix; collisions are left out.
`AllocateBlocks` evicts: it takes the head of the queue and removes its hash and
the index entry of that hash, whichever block the entry leads to. `GetCachedBlock` raises
the reference count and takes an unreferenced block off the queue. `Release`
lowers the count, returns silently at 0, and queues the block at 0.
`KvBlockPool` adds what the properties are about: the page content of every block
(written by `Compute`, the device) and what each request believes its pages hold.

### EngineCore

`pc` is the engine loop's position: `loop`, awaiting the oldest step (`await`),
awaiting a cleanup reply (`flush`), `idle`. Python's asyncio runs one task at a
time, so clients (`AddRequest`, `Consume`, `Disconnect`, `Abort`) act only while
the loop is suspended. The scheduler is abstract: it may return any batch,
victims and rejects that `MayReturn` allows. Four failures can be switched on:
a step's timeout, a cleanup timeout, an error result, and the worker's death.

### Scheduler

`Schedule` is a function from a working record to the record a pass leaves; the
two loops over `running` and `waiting` are left folds. The device holds, per KV
row, the token prefix from which the row was computed, and the language model
`LM` is a fixed function of that prefix: a row written at the wrong place, from a
wrong token or over a missing context changes later samples and shows up in
`OutputGreedy`. Speculative steps write all their rows, and the acceptance is a
nondeterministic choice. Stop strings are a nondeterministic end of a request.
`mode` (asynchronous or not, chunked prefill or not, the prefill cap) is chosen in
`Init` and never changes.

### GroupedKvCache

Every group has a cell (reference counts, hashes, free queue, index) in every
partition. A request's tables (`tab`, `log`) lie in one partition, chosen when it
first gets blocks. A full-history table grows; a rolling one is a ring, and a slot
that comes round again is given a new block, while the old one stays alive if a step
in flight or another request names it. `RetainSnapshot` and `ReleaseSnapshot` are the
references a step in flight holds. The manager's operators take and return a working
record, so one scheduler pass is a fold over `running` and then `waiting`, as in
`Scheduler`; the actions are `AddRequest`, `AbortRequest`, `Dispatch`,
`NoDispatch`, `WakeUp`, `Execute`, `ApplyOldest` and `StepTimeout`.

A row of a page holds the token prefix from which the main layers' entry was
computed and, in an EAGLE group, the prefix of the MTP layer's entry. The latter is
one token ahead, so the last row of a chunk is pending until the next chunk.
Requests have `max_new_tokens` 1: the module is about prompts, their chunks and
the pages they share (decoding is in `Scheduler`). A speculative model lets no
decode step start before the terminal prefill is known, so this leaves out no
interleaving with prefills of the same request. The token budget is ample.

### WorkerLanes

One action for every stretch of a lane that touches shared state once:
reading a command, registering, acquiring a buffer slot, preparing, queueing;
releasing, dropping and registering, running or submitting; fetching,
reclaiming, publishing. `_release_finished_request_state` looks an entry up and
pops it later, so it is two actions (`DeviceRelease`, `DeviceDrop`). The mode,
chosen in `Init`, selects the runner with one speculative token (decode steps are submitted and
reclaimed by the output lane, request state lives in device slots) or the
autoregressive one. One rank is modelled. Batches are sets; slots are handed out
and given back in a fixed order of the batch, so no symmetry is used. `Reserved` says what a batch
ends up with at once: the i-th of its requests without a slot takes the i-th free one from the end, as far as
they go. The slot generation wraps
at `GenLimit` (2^31 in the code, 3 in the runs, so that it does wrap).

### ChunkedMtp

A cache row records whose token it holds and at which position; a compressed row also
what it was computed from. The model that kernels evaluate is a parity of everything
they read, so one wrong row shows in the next token. Seven cache groups are
represented by one of each kind: the ring of the sliding window, the ring of the
compressor's inputs, and the full history of compressed rows.
`PrefillStep` packs one chunk per rank and pads it to the kernel's length.
`AutoDecodeStep` is decode without drafts. With K drafts, `BeginDecodeStep`
corrects the optimistic lengths, `ProposeStep` runs the MTP layer K times (drafts are
arbitrary), `VerifyRound` splits the pending requests into chunks of the tile and into
waves when two partial chunks would share a rank, `Wave` runs the whole tile, filler
rows on scratch pages included, and `Advance` applies the results. The checks of the
code that raise are values of `failure`. K = 1 has a path of its own, which
`WorkerLanes` models.

### QwenBatches

The decode kernel runs all rows of persistent buffers. Tokens, lengths and slots
are written in every call; a row of the block table only when its pages differ from the
ones remembered; rows behind the batch repeat row 0. `QAbort` takes a request away
between any two calls, so that rows and pages get other owners. The scheduler is the environment: it hands
out any free page and puts a batch in any order. Pages are private to a request.

### CachePools

`Size` computes slots or pages from the free memory of the poorest device;
`AllocateShard` allocates one shard of one tensor on one rank; `Refuse` is an
allocation that fails, either because memory is really short or because the runtime
refuses (at most `MaxRefusals` times), and frees what the code frees before it tries
again with half. `ManagerBlocks` is what the KV manager will hand out for the report.

### WeightStaging, ConvertCheckpoint, PackedSidecar

A row of a slab is the cell of the checkpoint it was copied from, so `SlabsExact`
compares every row with a definition that does not mention groups or
positions. DeepSeek's layers are staged one after another, Qwen's by a pool whose
workers interleave rule by rule. The rule tables are represented by one rule of
each kind and group.

In `ConvertCheckpoint` the file system is the state, one action per
effect that a crash can separate, and `Start` is the command with its three options. Shards
are numbered by the order of their names, and the converter always visits the least one still to do.
Tensors are their types and shapes, so quantization is what it does to these. In
`PackedSidecar` a file's bytes are known by their stamp, and a fingerprint is a record
of stamps: it stands for modification time and size, which are assumed to
change with the bytes.

### ReplicaRouter, ProfileSession

Between two awaits asyncio runs one task, so that is one action. A request's two
nested generators are positions of `client`; an abandoned inner generator is closed
later (`CloseInner`). Load is counted in tokens, as `pending_token_load` does. In
`ProfileSession` a file that is removed while it is open remains for its writer only, and a worker's
recorder may raise (`RecorderRaises`), which is acknowledged with an error and leaves it as it was; on which
commands it may is the constant `RecorderFailures`.

### PlatformChannel, PlatformEngine

One edge has a payload channel and a metadata channel, each a ring of its own; a push
checks both for room, then writes one after the other under the lock, and the consumer
pops them one after the other. Byte positions are counters that never wrap, and a
position in the ring is the counter modulo the buffer's size, as in HiCR. A message id packs type, group
and sequence number into one number, of `TypeIds`, `GroupIds` and `SequenceIds` values each (2^16, 2^14 and
2^34 in the code; 2, 2 and 4 in the run). Message types are registered on both sides under any
hash function, collisions included. In `PlatformEngine` the deployer starts and stops
the others by remote calls, which an instance executes where it listens; `terminate`
is called by the main thread or by a thread of a module. HiCR is external.

## 3. Runs

| Run | Question | Bounds |
|---|---|---|
| `engine_core` | are results matched with their steps, and is the worker's cache what the engine believes, with late and failed steps? | 2 requests, 2 in flight, 2 tokens, 1 preemption |
| `engine_core_live` | is a client answered, and does the worker forget, under every failure? | 1 request |
| `engine_desync` (violated) | is a cleanup reply that comes late dropped, as the code says? | 2 requests of 1 token, 2 in flight, cleanup timeouts only |
| `scheduler` | are outputs, tables, queues and steps right on a pool that two requests overflow? | 3 requests, 4 blocks of 2, shared prefixes; at pipeline depth 2 with chunks of 2, and synchronously with whole prompts of which one is longer than a dispatch |
| `scheduler_spec` | the same with speculation and homogeneous phases; does every request finish? | 1 draft token, one sampled request, 8 blocks (room for every running request) |
| `worker_lanes` | does a lane take away what another one uses? | 2 requests, 2 state slots, 4 steps, late results; fused with 1 preemption (see the remark on re-registration below), autoregressive without |
| `worker_lanes_fifo` | do the lanes implement `FifoWorker`? | 1 request, 5 steps, failing steps, a profile barrier, shutdown |
| `grouped_kv_cache` | do rings, sharing, snapshots and publication ever lose or mix up a page a prompt needs, and is every prompt served? | 3 prompts of 11, 6 and 11 tokens with common prefixes, 2 partitions, a ring of 4 pages and a history of 3, chunks of 2, one and two steps in flight, aborts and timeouts |
| `model_runners` | are a request's tokens the model's, and do rows that nobody asked for stay out of its caches? | DeepSeek: 3 requests (prompts of 4, 1, 2, up to 3 new tokens), 2 ranks of 2 capacity slots, tiles 2 x 1 without drafts and 2 x 2 and 2 x 4 with two drafts, the last with sampling parameters, pages of 2, window 3, chunks of 2; Qwen: prompts of 3, 1, 2, three kernel rows, 4 pages of 2, aborts at any time |
| `memory` | is what is served of one checkpoint, complete and at its place, are the pages reported there, and does sharing and eviction ever give a request a page that is not its own? | 7 sources (one and two DSpark targets, a shard of scales only, two that are refused), 2 crashes, 1 change by the operator; 2 prepack commands and a server on 2 shards, 1 redeployment; 9 deployments to stage; 13 to allocate caches on, with 2 refusals; a pool of 3 blocks for 2 requests and 2 prefixes: two copies of a prefix, a shared block and an evicted one at once |
| `serving_front` | is anything left behind when replicas fail, clients leave, or acknowledgements are late? | 2 replicas, 4 requests (one streamed, one too long, one empty); 2 workers, 4 profile requests, 1 late acknowledgement, recorders that may fail to start |
| `platform` | do messages arrive and instances finish? | 2 threads, 5 messages on a ring of 2 messages and 4 bytes; 3 instances with 2 modules |

Where several invariants speak of one thing they are the named parts of one property,
which is what the run checks:

| Property | Parts |
|---|---|
| `BlocksAccounted`, `PagesSound` (`KvBlockPool`) | `RefCountExact`, `FreeQueueExact`; `PrefixHitSound`, `TableSound` |
| `WorkerCacheExact` (`EngineCore`) | `KnownMirrorsWorker`, `WorkerKnowsScheduled` |
| `Consistent`, `StepsSound` (`Scheduler`) | `TypeOK`, `QueuesExact`, `TablesOwnBlocks`, `PublishedSound`, `WritableBlocksPrivate`; `Settled`, `StepsWellFormed` |
| `LanesConsistent`, `SlotsExact` (`WorkerLanes`) | `TypeOK`, `BuffersIntact`, `DescriptorsCurrent`; `TailSlotsExact`, `StatesReleased` |
| `PoolsConsistent` (`GroupedKvCache`) | `TypeOK`, `NoInternalError`, `RefExact` |
| `MessagesIntact`, `PlatformFinishes` (platform) | `TypeOK`, `NoBug`, `DeliveredIntact`, `DeliveredInOrder`, `IdsDistinct`, `PayloadsKept`; `EdgeDelivers`, `EnginesFinish` |
| `RequestsReleased`, `WorkersAccounted`, `FrontAnswers` (front) | `ExtraLoadReturned`, `AbortedIsGone`, `GoneMeansReleased`; `NoOrphanWorkers`, `ServingWorkersAlive`; `EngineStartSettles`, `ProfileRequestAnswered` |
| `ConversionSound`, `StagingSound`, `PoolsSound`, `WeightsArrive` (weights) | `ShardsOfOneSource`, `IndexMatchesShards`, `CompleteMeansConverted`; `SlabsExact`, `StagingLeavesNothing`, `ContractCoversStaging`; `PoolsMatchReport`, `NothingOrphaned`, `WithinBudget`; `ResumeCompletes`, `LoadEnds`, `PoolInitEnds` |
| `RunnerExact`, `RowsStayHome` (runners) | `TypeOK`, `OutputExact`, `VerificationExact`, `HistoryExact`, `TileContractKept`; `WritesStayHome`, `QwenWritesStayHome` |

`PROJECT.json` lists a mutant for each of these parts: a plausible bug in a mapped definition
that breaks it.

Three steps are the least that wraps around the two buffer slots, and two requests on
two slots the least in which a slot is recycled under a step in flight. Three
requests with two running are the least in which admission, preemption and a
prefix hit meet. Bounds are constants named `Max...`. In `grouped_kv_cache` the ring
holds the window and two chunks, which is what `build_deepseek_v4_cache_group_specs`
computes for its 128-token in-flight assumption; 11 tokens go round it once, two long
prompts do not fit one partition (preemption, and the fallback of a hit to another
partition), and hits of 4 and of 8 tokens occur. `Tile` is above `Chunk`; see below
for what happens otherwise.

In `model_runners` the prompt of 4 takes two chunks, one rank gets two requests and the
other one, so a tile has a filler row and a verification needs two waves; 2 x 2 is
a tile narrower than the K + 1 positions of a request, 2 x 4 one that is wider. In `memory` two crashes
are the least in which a resumed conversion crashes too. In `platform` five
messages go round both rings twice, and a payload that wraps at the end of the ring occurs.

Deadlock is checked except in `platform`, `serving_front` and `memory`, whose systems
really stop (everything delivered, stopped, loaded). In `model_runners` the check
says that no request is ever left without a step: the only end is that all have ended.

### Disagreements with the code's own comments

TLC finds the first four with the constants given here. The first is the run `engine_desync` and the finding
of `PROJECT.json`; the others need constants of their own, and their modes are left out of the passing runs.

* `EngineCore` with 2 requests of 1 token, 2 steps in flight and `Faults = {"flush_timeout"}`
  violates `LiveResultMatches`: a cleanup command that times out is not added to the ids
  to discard (`async_engine.py:755-757`); its late reply is taken for the next step's result, which the
  comment in `_await_and_apply_oldest` (579) says should never happen. The other runs of `EngineCore` that check
  `LiveResultMatches`, and the proof of `NoDesync`, assume that cleanup does not time out.
* `Scheduler` with 4 blocks of 2 and prompts of 3, 4 and 5 tokens: a request preempted after its
  first output token keeps that output, recomputes the prompt only, and continues over
  missing KV rows (`scheduler.py:975`: "restarts from a clean prefill state"). `OutputGreedy`
  without the exception for `resumed` requests is violated.
* `Scheduler` with 4 blocks of 2, two 6-token prompts without a common prefix, 2 new tokens each and no
  prefix cache violates `EveryRequestFinishes`: two requests that each fit the pool preempt
  each other forever, since the requester is never its own victim (940, against 213).
* `GroupedKvCache` without EAGLE, one partition, a history of 6 pages, one 24-token prompt, `Chunk = 16`, `Tile = 17`
  violates `ContextIntact`: `build_deepseek_v4_cache_group_specs` sizes a ring for its window
  and two steps of 128 tokens (`npu_runner.py:91`), while a prefill chunk has 1024 or more (`config/types.py`). A
  chunk longer than the ring is given new blocks for every slot before it runs, so
  the rows just before it, which its first tokens attend to, are in no page of its table.

`OutputGreedy` therefore excludes requests that were preempted after output, and
`scheduler_spec` uses a pool on which no preemption is needed.

Further ones were met while modelling. Three change
no later behaviour. A request that finished and whose client
then leaves is released on the worker twice (`_schedule_worker_free` promises
once; the second release finds nothing). A non-final chunk reconciled after the
final chunk was dispatched releases a placeholder it never reserved
(`_reconcile_async_output`; `Settled` shows that the count is right again once
nothing is in flight). The output lane records last tokens after the device lane
released the request, and nothing clears the entry.

Three others do matter, in narrower settings than the runs use:

* `_release_finished_request_state` compares the cache entry and pops it in two
  steps. A registration that the prepare lane makes in between is popped, against the
  comment where the lane registers. With the autoregressive runner and a
  preemption, a decode step prepared before the device lane registers the request
  again fails; the autoregressive mode of `worker_lanes` therefore has no preemption.
* `cache_group_blocks_from_snapshot` takes `completed - len(block_ids)` for the
  first page a ring still holds, where `cache_group_blocks` takes the allocated count
  less the ring. They differ when a chunk longer than the ring ends inside a page, and
  then a page is published under another page's hash (the instance above with a
  prompt of 15 tokens violates `IndexSound`).
* A chunk of at least `prefill_seq` tokens gives some rows no MTP entry, and the pages are
  published all the same (`Tile = Chunk` violates `IndexSound`). Only drafts depend on it.

In the runners, both reported by the model as a failed call, which
`TileContractKept` allows by name:

* `_select_decode_batch_rows` selects the rows of a wave but keeps all sampling
  parameters, so `_stage_sampling_inputs` raises whenever a wave is smaller than the
  batch, against `docs/user-guide/deepseek-v4.md` (failure `sampling_rows`).
* Pipelined autoregressive decode refuses a second request on a rank, against the
  documented tile of eight (failure `one_per_rank`).

In the conversion: a crash between the creation of the output directory and the
first marker makes every `--resume` refuse, against "If the process is interrupted, rerun with
`--resume`" (`docs/cli-reference/deepseek-v4-conversion.md`); `ResumeCompletes` is therefore stated from the
marker on. A shard that holds nothing but scales of weights in other shards is published without tensors and has no
entry in `_expected_output_specs`, so `--resume` fails on the converter's own shard (line 838, a `KeyError`), against
the same sentence; `ResumeCompletes` names this exception (`EveryShardKeepsTensors`), and a source of `memory` has such a
shard. With a single DSpark target, which `_mtp_layer_count` and
`tests/test_deepseek_v4_conversion.py` accept, `_quantization_ignore` (line 390, `if mtp_layer_count > 1`) does not
list `mtp.0.main_proj` although it is written in BF16; `CompleteMeansConverted` says which modules are listed exactly,
with this one as `LeftOutOfIgnore`, and a source of `memory` is such a model. A resume of a complete output truncates
its config and index while the marker goes on saying complete. Auxiliary files are covered by no digest.

In the front: a context in `_request_contexts` is never removed when a request completes
normally, and one profile acknowledgement that comes late shifts all later ones
(`MaxTimeouts = 2` violates `StartedMeansRecording`). A worker whose recorder fails to flush when it is stopped
keeps its file open: the next start removes that file, finds the recorder active, and is acknowledged without an
error, while the worker's events go into the removed file (`RecorderFailures = {TRUE, FALSE}` violates
`StartedMeansRecording` even with `MaxTimeouts = 0`; the run has `{TRUE}`). In the platform: a message larger
than the payload buffer makes `pushMessageLocking` try forever (`SizesAssumption`).

### Fairness

* `EngineCore`: the loop and the worker are weakly fair (a task that is ready
  runs; a process that has a command handles it unless it died). Each client's
  `Consume` is strongly fair: the generator is resumed when the event loop is
  suspended again and again and its queue is not empty.
* `Scheduler`: the loop, when it can go on, comes to its next position
  (`WF_loop`), and the device runs what it was sent (weak fairness of `Execute`,
  with its enabling condition written out because `ENABLED` of a whole step is
  expensive to evaluate).
* `GroupedKvCache`: as `Scheduler`.
* `WorkerLanes`: the three threads and the device are weakly fair.
* `PlatformChannel`: a free mutex goes to some waiting thread, and not to any particular one
  (weak fairness of the disjunction); threads that hold it and the consumer run.
  `PlatformEngine`: every thread is weakly fair.
* `ReplicaRouter`, `ProfileSession`: tasks, shutdown threads and workers are weakly fair;
  the acknowledgement's timeout is not assumed.
* `MCWeights`, and with it `MCMemory`: the converter's steps, the operator who resumes an interrupted conversion, the loader and
  `init_kv_cache` are weakly fair; crashes, redeployments and refusals are bounded.
* `MCRunners` needs none: its behaviours are finite, and deadlock is checked instead.
* Clients and timeouts are never assumed to happen.

## 4. Proofs

For every value of the constants (any number of requests, blocks, replicas, threads, shards, any
pipeline depth), from the assumptions named below:

| Theorem | States | Inductive invariant |
|---|---|---|
| `Invariance`, `TypeCorrect`, `AccountingCorrect`, `PagesCorrect`, `WritesExclusive` (`KvBlockPool_proofs`) | `TypeOK`, `BlocksAccounted`, `PagesSound`, `WritesAreExclusive` | `IInv` |
| `TypeCorrect`, `PipelineInvariant`, `NoDesync` (`EngineCore_proofs`) | `TypeOK`, `LiveResultMatches` | `PipelineInv` |
| `WorkerCacheCorrect` | `WorkerCacheExact` | `CacheInv` |
| `RestartSafe` | `RestartAfterDrain` | `PreemptInv` |
| `WorkersAccountedCorrect`, `RequestsReleasedCorrect` (`ServingFront_proofs`) | `WorkersAccounted`, `RequestsReleased` | `WorkerInv`, `RouterInv` |
| `StartedMeansRecordingCorrect`, `StopMergesSessionCorrect` | `StartedMeansRecording`, `StopMergesSession` | `ProfileInv` |
| `SidecarFresh` (`Weights_proofs`) | `SidecarIsFresh` | `SidecarInv` |
| `ConversionCorrect` | `ConversionSound` | `ConversionInv` |
| `StagingCorrect` | `StagingSound` | `StagingInv` |
| `PoolsCorrect` (`CachePools_proofs`) | `PoolsSound` | `PoolsInv` |
| `QwenOutputsCorrect`, `QwenWritesHome` (`Runners_proofs`) | `QwenOutputExact`, `QwenWritesStayHome` | `QwenInv` |
| `LanesInvariant`, `LanesCorrect`, `SlotsCorrect` (`WorkerLanes_proofs`) | `LanesConsistent`, `SlotsExact` | `LanesInv` |
| `LanesAnswerInOrder` | initial states and steps of `FifoWorker` (`ImplementsFifo` without its fairness) | `LanesInv` |
| `LifecycleOrdered`, `MessagesArriveIntact` (`Platform_proofs`) | `LifecycleOrder`, `MessagesIntact` | `EngineInv`, `EdgeInv` |

Along which arguments:

* `KvBlockPool_proofs`: none of the four parts is inductive alone. `IInv` adds three facts: a request
  knows nothing of blocks it does not hold
  (`KnownHeld`); a block's hash is right even when the index no longer leads to it
  (`HashSound`: eviction and a second copy of a prefix leave such blocks); and a
  block still to be written is private and carries no hash (`UnwrittenPrivate`).
  One lemma per action; lemmas about taking from, removing from and appending to
  the free queue; cardinality facts for the reference counts.
* `EngineCore_proofs`, the pipeline: ids in the two queues grow from the reply end to the command end
  (`Fifo`) and every id in transit is awaited, queued or to be discarded, and conversely
  (`Accounted`). `NoDesync` assumes that cleanup does not time out, and is false without (section 3).
* `EngineCore_proofs`, the worker's cache: what the worker will know after the commands still queued is
  what the engine believes, so the invariant follows the cache through the whole queue of commands, with the
  frees that wait for the next command. It needs no assumption on faults: late replies do not change what was
  sent. `RestartSafe` needs a pipeline of at most two steps (`BATCH_QUEUE_SIZE`): with three, a
  preempted request could be scheduled again behind a step that is neither the oldest nor the last.
* `ServingFront_proofs`: for the workers, which shutdown thread stops which core and that a core's process
  is stopped by exactly one; for the requests, which replica's load a client's position stands for, and that
  a scheduler holds a request only while some generator or pending abort will release it.
* `ServingFront_proofs`, profiling: while no acknowledgement was late, all processes record into the same session
  or none does, and a process's acknowledgement is of the command it was sent last (`InStep`). After the first late
  one its core is a command behind for good (`Behind`), so every later start fails rather than be taken for
  successful. A second late one, of another core or of the same, can break this: the theorems assume at most one,
  `late <= 1`, and are false without (section 3). An acknowledgement with an error fails the start it belongs to, or
  is dropped with the round that undoes it (`FailuresInStep`); so any recorder may fail to start. That none fails
  to stop, `FALSE \notin RecorderFailures`, is assumed, and the theorems are false without it too (section 3).
* `Weights_proofs`, sidecars: a sidecar's fingerprint and data are of the same stamps, stamps never return
  (the least unused one is taken), and the loader's two looks at the files enclose its reading.
* `Weights_proofs`, conversion: what is on disk is a prefix of what a run for the marker's source writes;
  a run in progress carries what it has validated; and the configuration names the modules that stay
  unquantized. `FormatAssumption` says which modules a hybrid checkpoint stores quantized, for any number of draft
  layers, one included. `CompleteMeansConverted` then holds with the exception of section 3: without
  `LeftOutOfIgnore` it is false of a model with a single DSpark target.
* `Weights_proofs`, staging: a rule's layers are enumerated by the number of smaller ones, so two layers of a group
  have different places and the slices they write are disjoint; every rule a layer has evaluated is in its slice
  (`SlicesWritten`), whatever other layers write; a result is taken only when the layer has evaluated all. A layer
  fails only for a missing tensor or a shape (`FailuresFounded`), which is what the contract is compared with.
* `CachePools_proofs`: what is resident is a part of the attempt's shards, the published stacks are complete, and
  they are of the attempt's size (`StacksBuilt`); so freeing the stack under construction and the published one frees
  everything. The size fits the smallest rank when it is computed, and halving keeps this (`SizeFits`). What a
  rank holds in the end is what the size was computed from: a sum over tensors on one side, over groups and pages on the
  other. Sums over sets (`SumFunctionOnSet`) are folds; the proofs show that the fold unfolds, and the laws of
  sums, by least counterexample instead of induction.
* `Runners_proofs`: pages have one owner, so slots of different requests or positions differ (a slot is a page and
  an offset); every kernel write is of a request's own token at its place, whatever row it comes from; so the rows of
  computed positions hold the request's tokens, and attention through a row's table sees the same as the model. The
  table is right because a row whose remembered pages are the request's was written with them.
* `WorkerLanes_proofs`: the invariant has layers, each resting on those before it. Types, and what a lane holds
  at each position; the profile barrier (`AtBarrier`), which shows that the device lane holds nothing when the
  output lane lets it go on. Ids grow from the engine's end to the output lane (`OrderInv`), and the ids on
  their way are those the engine awaits or discards (`AccountInv`), so a result it applies is that of its oldest
  step. A decode step is the only one with its buffer slot from acquisition to publication, and is tracked while
  submitted (`BuffersInv`); so a slot is never still tracked when a step is submitted, and behind the prefill fence
  nothing is. No step in front of a decode step releases one of its requests (`ReleaseInv`, from what the engine
  may send once a prefill was answered), so the slot and generation prepared for it stay those of its requests
  (`StatesInv`), whether or not generations wrap. A state the engine does not count on has a release still
  ahead of it in the queues (`KnownInv`). One lemma per action and layer; lemmas on how commands move between lanes.
* `WorkerLanes_proofs`, the refinement: the steps in the worker, listed by their ids, are the queue of `FifoWorker`.
  A set of naturals has one ascending list (`ListsUnique`); adding a larger element appends to it, removing the
  least takes its head. `OrderInv` says that a step sent has the largest id in the worker and a step
  published the least, so every other step of a lane leaves the queue as it was, profile barriers included.
* `Platform_proofs`, engines: every instance's modules are where its main thread's loop has brought them, start
  is requested once, before stop, and each remote call is pending, executed or not yet made.
* `Platform_proofs`, edges: the lock's holder is the only thread between the two pushes; the metadata ring is
  the payload ring less the message in between, at both ends; payload intervals in the ring do not overlap because
  the counters differ by at most the buffer's size; a sender's messages carry increasing numbers. Ids are
  distinct by arithmetic on their three digits, given that types are (a registration whose hash collides fails).

Assumed: finite sets of requests, at least one block, `None` outside the other sets, a pipeline depth of
at least 1 (`KvBlockPool`, `EngineCore`); at least one replica (`ReplicaRouter`); finitely many workers
and, where a theorem says so, recorders that do not fail to stop (`ProfileSession`); at least one shard (`PackedSidecar`); well-formed checkpoints and deployments (`CasesAssumption`
of `WeightStaging`, `DeploymentsAssumption` of `CachePools`: positive page sizes and rows, a group for every tensor, Qwen
on one device); `SourcesAssumption`, `MarkerAssumption`, `FormatAssumption` (`ConvertCheckpoint`); prompts that are not
empty and positive sizes (`QwenBatches`); finite requests, at least one state slot and a depth of at least 1
(`LanesAssumption` of `WorkerLanes`); messages that
are not empty, fit the buffer and do not outnumber the sequence ids, and distinct type names (`PlatformChannel`).
TLC evaluates these `ASSUME`s in the runs.

Only model-checked, and why:

* all liveness, with it the fairness conjunct of `FifoWorker`: that every step is answered eventually is left to
  `worker_lanes_fifo`, that answers are of the oldest step and nothing else happens is proved;
* `Scheduler`, `GroupedKvCache` and `ChunkedMtp`: their steps are folds over queues and batches of whole
  working records, and what such a fold computes for every input needs induction over data, for which there is no
  prover here;
* `NoLaneFails`: it needs the request cache followed through two lanes, and holds only in the modes the run has
  (section 3, the remark on re-registration).

## 5. Not modelled

* Decode steps on the grouped pools, the token budget there, and the compressor state
  groups beyond what their block tables are.
* A command the worker cannot decode: both ends share one message schema.
* Exceptions of the main process's own recorder; those of the workers' recorders are modelled.
* Profile commands among the worker's lanes are only the barrier that they are there;
  what they do is in `ProfileSession`.
* Prompts of several chunks in `WorkerLanes` (`Scheduler` and `ChunkedMtp` have them), several
  ranks there.
* K = 1 speculative packing beyond `WorkerLanes`; pages shared between requests in
  `QwenBatches` and `ChunkedMtp`.
* The upload of weights and static tensors, the tables of kernel arguments (`task_args.py`): no control
  of their own.
* Sampling and quantization arithmetic, detokenisation, HTTP formats and validation.
* Model and tokenizer loading, the kernel compiler, the device worker, the command line:
  third-party calls, file formats and start-up; reasons in `PROJECT.json`.

## 6. Plan

1. Done: `KvPoolOps`, `KvBlockPool` with proofs; `EngineCore` with proofs;
   `Scheduler`; `FifoWorker` and `WorkerLanes`; `GroupedKvCache`; the platform, the front, the weights
   and the two runners.
2. Done: proofs about the pool, the engine, the worker's lanes and their refinement of `FifoWorker`, the router, the
   profile session, the weights, the cache pools, the Qwen runner and the platform (section 4).
3. A proof still worth having: `NoLaneFails` without speculation.
4. The free queue as a linked list, refining the sequence of `KvPoolOps`.
