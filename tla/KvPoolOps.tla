----------------------------- MODULE KvPoolOps -----------------------------
(***************************************************************************)
(* The operations of KvCacheManager on its generic block pool              *)
(* (serving/memory/kv_cache.py), each as a function from a pool to the     *)
(* pool it leaves behind.                                                  *)
(*                                                                         *)
(* A pool is a record of the manager's fields:                             *)
(*   ref   KVCacheBlock.ref_cnt of every block                             *)
(*   hash  KVCacheBlock.block_hash of every block (None: not published)    *)
(*   map   hash_to_block, the prefix-cache index (None: no entry)          *)
(*   free  free_queue, in eviction order, head first                       *)
(* The doubly linked list of FreeKVCacheBlockQueue is the sequence of the  *)
(* blocks reached from its head.                                           *)
(***************************************************************************)
EXTENDS Naturals, Sequences

CONSTANTS
  NumBlocks,  \* number of physical blocks of the pool
  Hash,       \* chained prefix hashes (hash_block_tokens)
  None        \* Python's None

ASSUME NumBlocksAssumption == NumBlocks \in Nat
ASSUME NoneAssumption == None \notin Hash /\ None \notin Nat

Block == 0 .. NumBlocks - 1

Pool == [ref  : [Block -> Nat],
         hash : [Block -> Hash \cup {None}],
         map  : [Hash -> Block \cup {None}],
         free : Seq(Block)]

\* _init_blocks: every block is free, in the order of its identifier.
InitPool == [ref  |-> [b \in Block |-> 0],
             hash |-> [b \in Block |-> None],
             map  |-> [h \in Hash |-> None],
             free |-> [i \in 1 .. NumBlocks |-> i - 1]]

NumFreeBlocks(p) == Len(p.free)

-----------------------------------------------------------------------------
(***************************************************************************)
(* FreeKVCacheBlockQueue.                                                  *)
(***************************************************************************)
Queued(q, b) == \E i \in 1 .. Len(q) : q[i] = b

QueueAppend(q, b) == Append(q, b)

\* popleft, n times.
QueuePopN(q, n) == [i \in 1 .. Len(q) - n |-> q[i + n]]

\* remove: unlinks the block wherever it stands, and does nothing to a block
\* that is not linked.
QueueRemove(q, b) ==
  IF Queued(q, b)
  THEN LET k == CHOOSE i \in 1 .. Len(q) : q[i] = b
       IN  [i \in 1 .. Len(q) - 1 |-> IF i < k THEN q[i] ELSE q[i + 1]]
  ELSE q

-----------------------------------------------------------------------------
(***************************************************************************)
(* The manager's operations.                                               *)
(***************************************************************************)

\* The blocks allocate_blocks(n) would take: the head of the eviction order.
HeadBlocks(p, n) == {p.free[i] : i \in 1 .. n}

\* Mutant of AllocateBlocks: a reused block keeps its entry in the index.
AllocateUnevicted(p, n) ==
  LET taken == HeadBlocks(p, n)
  IN  [p EXCEPT !.ref = [b \in Block |-> IF b \in taken THEN 1 ELSE @[b]],
                !.hash = [b \in Block |-> IF b \in taken THEN None ELSE @[b]],
                !.free = QueuePopN(@, n)]

\* allocate_blocks: refuses without side effect when the pool is short, else
\* pops n blocks, evicts what they had published and hands them out with one
\* reference each.
CanAllocate(p, n) == n <= NumFreeBlocks(p)

AllocateBlocks(p, n) ==
  LET taken == HeadBlocks(p, n)
  IN  [ref  |-> [b \in Block |-> IF b \in taken THEN 1 ELSE p.ref[b]],
       hash |-> [b \in Block |-> IF b \in taken THEN None ELSE p.hash[b]],
       map  |-> [h \in Hash |-> IF \E b \in taken : p.hash[b] = h
                                THEN None ELSE p.map[h]],
       free |-> QueuePopN(p.free, n)]

\* Mutants of GetCachedBlock: the hit is not counted; the block stays queued.
HitUncounted(p, h) ==
  [p EXCEPT !.free = IF p.ref[p.map[h]] = 0 THEN QueueRemove(@, p.map[h]) ELSE @]

HitStillQueued(p, h) == [p EXCEPT !.ref[p.map[h]] = @ + 1]

\* get_cached_block on an index entry: a block nobody references leaves the
\* free queue, and the caller gains a reference.
GetCachedBlock(p, h) ==
  LET b == p.map[h]
  IN  [ref  |-> [p.ref EXCEPT ![b] = @ + 1],
       hash |-> p.hash,
       map  |-> p.map,
       free |-> IF p.ref[b] = 0 THEN QueueRemove(p.free, b) ELSE p.free]

\* cache_block: drops the entry of the block's previous hash, then publishes
\* the block, replacing the block that held the entry of this hash.
CacheBlock(p, b, h) ==
  LET old == p.hash[b]
  IN  [ref  |-> p.ref,
       hash |-> [p.hash EXCEPT ![b] = h],
       map  |-> [g \in Hash |-> IF g = h THEN b
                                ELSE IF g = old THEN None ELSE p.map[g]],
       free |-> p.free]

\* Mutant of Release: the queue is given the block's hash for its identifier.
ReleaseHash(p, b) ==
  [p EXCEPT !.ref[b] = @ - 1,
            !.free = IF p.ref[b] = 1 THEN QueueAppend(@, p.hash[b]) ELSE @]

\* release: one reference is returned; the last one queues the block for
\* eviction with its published hash intact.
Release(p, b) ==
  IF p.ref[b] = 0
  THEN p
  ELSE [ref  |-> [p.ref EXCEPT ![b] = @ - 1],
        hash |-> p.hash,
        map  |-> p.map,
        free |-> IF p.ref[b] = 1 THEN QueueAppend(p.free, b) ELSE p.free]
=============================================================================
