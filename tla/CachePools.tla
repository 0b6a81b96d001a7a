----------------------------- MODULE CachePools -----------------------------
(***************************************************************************)
(* init_kv_cache of the two runners: how many cache pages fit the device   *)
(* memory that is left after the weights, and their allocation, tensor by  *)
(* tensor and rank by rank, which starts again with half as many when an   *)
(* allocation is refused.                                                  *)
(*                                                                         *)
(* DeepSeek counts capacity slots (one request of maximum length in every  *)
(* cache group) and allocates a stack of tensors on every rank, then the   *)
(* cache of the MTP layer.  Qwen counts pages of one key and one value     *)
(* tensor on one device, after a warm-up with a scratch page.              *)
(***************************************************************************)
EXTENDS Integers, Sequences, FiniteSets, SequencesExt

CONSTANTS
  Deployments,   \* model and device, see DeploymentsAssumption
  MaxRefusals    \* bound: allocations refused although they would fit

VARIABLES
  deploy,     \* the deployment, fixed
  stage,      \* "warmup", "size", "alloc", "ready", "failed"
  size,       \* slots or pages of the attempt
  resident,       \* shards on the devices: [tensor, rank, bytes]
  stack,      \* _decode_device_cache / _kv_caches: size it was built for, or 0
  mtpStack,   \* _mtp_device_kv_cache: likewise
  report,     \* what init_kv_cache returned
  refusals

kvars == <<deploy, stage, size, resident, stack, mtpStack, report, refusals>>

IsDeepSeek == deploy.family = "deepseek"
RankIds == 0 .. deploy.ranks - 1

(***************************************************************************)
(* Deployments.  tensors is the order of allocation; of[t] is the group    *)
(* whose pages t stores, row[t] the bytes of t in a page of its group;     *)
(* perSeq[g] is max_blocks_per_seq.                                        *)
(***************************************************************************)
ASSUME DeploymentsAssumption ==
  /\ MaxRefusals \in Nat
  /\ \A d \in Deployments :
       /\ d.family \in {"deepseek", "qwen"} /\ d.ranks \in Nat \ {0} /\ d.spec \in Nat
       /\ d.family = "qwen" => d.ranks = 1
       /\ d.perSeq \in [DOMAIN d.perSeq -> Nat \ {0}] /\ "ori" \in DOMAIN d.perSeq
       /\ IsFiniteSet(DOMAIN d.perSeq)
       /\ d.tensors \in Seq(Range(d.tensors)) /\ d.tensors # <<>> /\ "mtp" \notin Range(d.tensors)
       /\ \A t \in Range(d.tensors) : d.of[t] \in DOMAIN d.perSeq /\ d.row[t] \in Nat \ {0}
       /\ d.mtpRow \in Nat /\ d.committed \in Nat
       /\ d.total \in Nat /\ d.free \in [0 .. d.ranks - 1 -> 0 .. d.total]
       /\ d.util \in 0 .. 100 /\ d.pages \in Nat /\ d.floor \in Nat \ {0}

Tensors == Range(deploy.tensors)
Groups == DOMAIN deploy.perSeq

\* A page of the MTP layer's cache: one layer of "ori".
MtpRow == deploy.mtpRow
HasMtp == IsDeepSeek /\ deploy.spec > 0

\* build_deepseek_v4_cache_group_specs: page_size_bytes of a group counts all of
\* its tensors; with one draft the MTP layer is one more layer of "ori".
PageBytes(g) ==
  SumFunctionOnSet(deploy.row, {t \in Tensors : deploy.of[t] = g})
    + (IF g = "ori" /\ deploy.spec = 1 THEN MtpRow ELSE 0)

\* With more drafts the MTP cache is a pool of its own.
MultiMtpPageBytes == IF deploy.spec > 1 THEN MtpRow ELSE 0

\* deepseek_v4_decode_layout: the rows of the compiled tile, each with a scratch
\* page behind the pool.
TileTokens(spec) == IF spec = 0 THEN 8 ELSE 16
TileWidth(spec) == IF spec = 0 THEN 1 ELSE IF spec = 1 THEN 2 ELSE IF spec <= 3 THEN 4 ELSE 8
ScratchPages == TileTokens(deploy.spec) \div TileWidth(deploy.spec)

\* deepseek_v4_cache_blocks_for_slots, _physical_cache_num_blocks.
GroupBlocks(g, slots) == slots * deploy.perSeq[g]
PhysicalBlocks(g, slots) == GroupBlocks(g, slots) + ScratchPages

\* Bytes of a tensor's shard on one rank, for an attempt of n slots or pages.
TensorBytes(t, n) ==
  IF IsDeepSeek THEN PhysicalBlocks(deploy.of[t], n) * deploy.row[t] ELSE n * deploy.row[t]
MtpBytes(n) == PhysicalBlocks("ori", n) * MtpRow

(***************************************************************************)
(* The devices (external).                                                 *)
(***************************************************************************)
Used(k) == SumFunctionOnSet([s \in resident |-> s.bytes], {s \in resident : s.rank = k})
FreeBytes(k) == deploy.free[k] - Used(k)
Shard(t, k, b) == [tensor |-> t, rank |-> k, bytes |-> b]

(* Mutant: only the first rank is asked. *)
FirstBudget(budgets) == budgets[0]

\* The rank with the least room limits them all.
KvBudget(budgets) == Min(Range(budgets))

\* What the utilization leaves after everything that is already resident.
Budget(k) == (deploy.total * deploy.util) \div 100 - (deploy.total - FreeBytes(k))

(***************************************************************************)
(* Sizing.                                                                 *)
(***************************************************************************)
SlotBytes == SumFunctionOnSet([g \in Groups |-> deploy.perSeq[g] * PageBytes(g)], Groups)
               + deploy.perSeq["ori"] * MultiMtpPageBytes
ScratchBytes == ScratchPages *
  (SumFunctionOnSet([g \in Groups |-> PageBytes(g)], Groups) + MultiMtpPageBytes)

\* _compute_kv_cache_capacity_slots; 0 where it raises.
CapacitySlots ==
  LET budget == KvBudget([k \in RankIds |-> Budget(k)])
  IN  IF deploy.pages > 0 THEN deploy.pages \div deploy.perSeq["ori"]
      ELSE IF budget < ScratchBytes + SlotBytes THEN 0
      ELSE (budget - ScratchBytes) \div SlotBytes

\* _compute_kv_cache_pages, and the floor of _alloc_kv_cache_with_retry: the
\* larger of two views of what is resident, and never less than one page for
\* every request of a batch.
QwenBudget ==
  (deploy.total * deploy.util) \div 100 - Max({deploy.total - FreeBytes(0), deploy.committed})
QwenPageBytes == SumFunctionOnSet(deploy.row, Tensors)
QwenPages == Max({QwenBudget \div QwenPageBytes, 1, deploy.floor})

Smallest == IF IsDeepSeek THEN 1 ELSE deploy.floor

(* Mutant: the smallest attempt is repeated. *)
HalvedToSmallest(n) == Max({n \div 2, Smallest})

\* The next attempt after n, 0 for none.
Halved(n) == IF n <= Smallest THEN 0 ELSE Max({n \div 2, Smallest})

(***************************************************************************)
(* Actions.                                                                *)
(***************************************************************************)
KInit ==
  /\ deploy \in Deployments
  /\ stage = IF IsDeepSeek THEN "size" ELSE "warmup"
  /\ size = 0 /\ resident = {} /\ stack = 0 /\ mtpStack = 0 /\ report = 0 /\ refusals = 0

\* Qwen's warm-up dispatch on a scratch page: key and value are allocated, and
\* closed again whether the dispatch succeeds or not.
WarmUp ==
  /\ stage = "warmup"
  /\ stage' \in {IF \A k \in RankIds : QwenPageBytes <= FreeBytes(k) THEN "size" ELSE "failed",
                 "failed"}
  /\ UNCHANGED <<deploy, size, resident, stack, mtpStack, report, refusals>>

Size ==
  /\ stage = "size"
  /\ size' = IF IsDeepSeek THEN CapacitySlots ELSE QwenPages
  /\ stage' = IF size' = 0 THEN "failed" ELSE "alloc"
  /\ UNCHANGED <<deploy, resident, stack, mtpStack, report, refusals>>

\* The shards of the attempt, in the order of _materialize_decode_device_cache
\* (each tensor on every rank), then of _materialize_mtp_device_kv_cache.
MainShards == [i \in 1 .. Len(deploy.tensors) * deploy.ranks |->
  LET t == deploy.tensors[((i - 1) \div deploy.ranks) + 1]
  IN  Shard(t, (i - 1) % deploy.ranks, TensorBytes(t, size))]
MtpShards == IF HasMtp THEN [i \in 1 .. deploy.ranks |-> Shard("mtp", i - 1, MtpBytes(size))] ELSE <<>>

\* A cache that the runner still refers to is not built again.
ToBuild == IF stack = 0 THEN MainShards ELSE IF mtpStack = 0 THEN MtpShards ELSE <<>>
Missing == {i \in DOMAIN ToBuild : ToBuild[i] \notin resident}
Wanted == ToBuild[Min(Missing)]

Fits(s) == s.bytes <= FreeBytes(s.rank)

\* One allocation; the last one of a stack publishes it.
AllocateShard ==
  /\ stage = "alloc" /\ Missing # {} /\ Fits(Wanted)
  /\ resident' = resident \cup {Wanted}
  /\ LET complete == Range(ToBuild) \subseteq resident'
     IN  /\ stack' = IF stack = 0 /\ complete THEN size ELSE stack
         /\ mtpStack' = IF stack # 0 /\ complete THEN size ELSE mtpStack
  /\ UNCHANGED <<deploy, stage, size, report, refusals>>

\* Shards freed when the stack under construction fails.
PartialShards == Range(ToBuild) \cap resident

(* Mutant: the MTP cache's failure leaves the reference to the freed stack. *)
StackKept == stack

\* _free_device_caches clears the references with the tensors.
StackAfterFree == 0

(* Mutant: only the tensors of the failed stack are freed. *)
OnlyPartial == PartialShards

\* _alloc_empty_stacked_tensor and the caller free what the failed stack got,
\* _free_device_caches the stacks that were complete.
FreedOnFailure == PartialShards \cup {s \in resident : stack # 0}

\* An allocation is refused: everything is freed, and half as much is tried.
Refuse ==
  /\ stage = "alloc" /\ Missing # {}
  /\ \/ ~Fits(Wanted) /\ UNCHANGED refusals
     \/ Fits(Wanted) /\ refusals < MaxRefusals /\ refusals' = refusals + 1
  /\ resident' = resident \ FreedOnFailure
  /\ stack' = StackAfterFree /\ mtpStack' = 0
  /\ size' = Halved(size)
  /\ stage' = IF size' = 0 THEN "failed" ELSE "alloc"
  /\ UNCHANGED <<deploy, report>>

\* DeepSeek reports "ori" blocks of a rank, Qwen pages.
Ready ==
  /\ stage = "alloc" /\ Missing = {}
  /\ stage' = "ready"
  /\ report' = IF IsDeepSeek THEN GroupBlocks("ori", size) ELSE size
  /\ UNCHANGED <<deploy, size, resident, stack, mtpStack, refusals>>

KNext == WarmUp \/ Size \/ AllocateShard \/ Refuse \/ Ready

(***************************************************************************)
(* Properties.                                                             *)
(***************************************************************************)
\* KvCacheManager scales every group to the slots of the reported "ori" blocks.
ManagerBlocks(g) == (report \div deploy.perSeq["ori"]) * deploy.perSeq[g]

\* When the runner reports its pages, every tensor is resident on every rank
\* with room for all the pages the cache manager will hand out from that report
\* and for the scratch pages behind them.
PoolsMatchReport ==
  stage = "ready" =>
    /\ \A t \in Tensors, k \in RankIds :
         \E s \in resident :
           /\ s.tensor = t /\ s.rank = k
           /\ s.bytes = deploy.row[t] *
                (IF IsDeepSeek THEN ManagerBlocks(deploy.of[t]) + ScratchPages ELSE report)
    /\ HasMtp => \A k \in RankIds :
         Shard("mtp", k, MtpRow * (ManagerBlocks("ori") + ScratchPages)) \in resident

\* An attempt starts, and a failed start-up ends, with nothing on the devices; a
\* successful one leaves one shard of each tensor on each rank.
NothingOrphaned ==
  /\ stage \in {"warmup", "size", "failed"} => resident = {}
  /\ \A s, u \in resident : s.tensor = u.tensor /\ s.rank = u.rank => s = u

\* What is allocated stays within the share of memory the operator allowed, on
\* every rank. An explicit number of pages, and Qwen's floor, come first.
WithinBudget ==
  stage = "ready" /\ deploy.pages = 0 =>
    \A k \in RankIds :
      \/ deploy.total - deploy.free[k] + Used(k) <= (deploy.total * deploy.util) \div 100
      \/ ~IsDeepSeek /\ size = deploy.floor

(* After any number of refused allocations init_kv_cache reports the pages *)
(* that every rank has, nothing of a refused attempt is left, and what is  *)
(* allocated is within the share of memory the operator allowed.           *)
PoolsSound == PoolsMatchReport /\ NothingOrphaned /\ WithinBudget

\* Allocation ends with caches or with an error, however often it is refused.
PoolInitEnds == (stage = "alloc") ~> (stage \in {"ready", "failed"})

(***************************************************************************)
(* The inductive invariant of the allocation.                              *)
(***************************************************************************)
\* What an attempt allocates, and what is resident at each point of it.
MainSet == {Shard(t, k, TensorBytes(t, size)) : t \in Tensors, k \in RankIds}
MtpSet == IF HasMtp THEN {Shard("mtp", k, MtpBytes(size)) : k \in RankIds} ELSE {}
StacksBuilt ==
  \/ /\ stack = 0 /\ mtpStack = 0
     /\ resident \subseteq MainSet /\ ~(MainSet \subseteq resident)
  \/ /\ stack = size /\ mtpStack = 0
     /\ MainSet \subseteq resident /\ resident \subseteq MainSet \cup MtpSet
     /\ HasMtp => ~(MtpSet \subseteq resident)
  \/ /\ stack = size /\ mtpStack = size /\ HasMtp
     /\ resident = MainSet \cup MtpSet

\* What there is to spend on a rank before anything is allocated.
Room(k) == (deploy.total * deploy.util) \div 100 - (deploy.total - deploy.free[k])
SizeFits ==
  deploy.pages = 0 =>
    IF IsDeepSeek
    THEN \A k \in RankIds : size * SlotBytes + ScratchBytes <= Room(k)
    ELSE size = deploy.floor \/ \A k \in RankIds : size * QwenPageBytes <= Room(k)

PoolsInv ==
  /\ deploy \in Deployments
  /\ stage \in {"warmup", "size", "alloc", "ready", "failed"}
  /\ size \in Nat
  /\ stage \in {"warmup", "size", "failed"} => resident = {} /\ stack = 0 /\ mtpStack = 0
  /\ stage \in {"alloc", "ready"} => size >= Smallest /\ SizeFits
  /\ stage = "alloc" => StacksBuilt
  /\ stage = "ready" => /\ resident = MainSet \cup MtpSet
                        /\ report = IF IsDeepSeek THEN GroupBlocks("ori", size) ELSE size
=============================================================================
