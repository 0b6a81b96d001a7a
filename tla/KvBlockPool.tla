---------------------------- MODULE KvBlockPool ----------------------------
(***************************************************************************)
(* The generic KV block pool driven by the requests that hold blocks.      *)
(*                                                                         *)
(* Each action is one call of a KvCacheManager method made on behalf of a  *)
(* request, or the device writing a page.  The manager never sees a page:  *)
(* content is what the device holds, known is what each request believes   *)
(* of the blocks in its table.  A request writes a block of its table only *)
(* when it did not get it from the prefix cache, and publishes it only     *)
(* after it was written (module Scheduler models the caller that does so). *)
(* That nobody else can then be reading or writing the page is not         *)
(* assumed: it is what the properties below are about.                     *)
(***************************************************************************)
EXTENDS KvPoolOps, FiniteSets

CONSTANT Request

ASSUME RequestAssumption == IsFiniteSet(Request)

VARIABLES
  pool,     \* KvCacheManager's generic pool
  held,     \* per request, the blocks of its block table
  known,    \* per request and held block, the prefix it relies on (None: not written)
  content   \* per block, the prefix its device page holds (None: never written)

vars == <<pool, held, known, content>>

Init ==
  /\ pool = InitPool
  /\ held = [r \in Request |-> {}]
  /\ known = [r \in Request |-> [b \in Block |-> None]]
  /\ content = [b \in Block |-> None]

\* allocate_block_ids: an evicted page is handed over as it is; its old
\* content means nothing to its new owner.
Allocate(r, n) ==
  /\ CanAllocate(pool, n)
  /\ pool' = AllocateBlocks(pool, n)
  /\ held' = [held EXCEPT ![r] = @ \cup HeadBlocks(pool, n)]
  /\ UNCHANGED <<known, content>>

\* get_cached_block, as get_computed_blocks calls it for one prefix hash.
Hit(r, h) ==
  /\ pool.map[h] # None
  /\ pool.map[h] \notin held[r]
  /\ pool' = GetCachedBlock(pool, h)
  /\ held' = [held EXCEPT ![r] = @ \cup {pool.map[h]}]
  /\ known' = [known EXCEPT ![r] = [@ EXCEPT ![pool.map[h]] = h]]
  /\ UNCHANGED content

\* The device writes the page of a block that r allocated.
Compute(r, b, h) ==
  /\ b \in held[r]
  /\ known[r][b] = None
  /\ content' = [content EXCEPT ![b] = h]
  /\ known' = [known EXCEPT ![r] = [@ EXCEPT ![b] = h]]
  /\ UNCHANGED <<pool, held>>

\* cache_block, after the worker confirmed the step that wrote the block.
Publish(r, b) ==
  /\ b \in held[r]
  /\ known[r][b] # None
  /\ pool' = CacheBlock(pool, b, known[r][b])
  /\ UNCHANGED <<held, known, content>>

\* release, as release_blocks_by_ids calls it for one block of the table.
Free(r, b) ==
  /\ b \in held[r]
  /\ pool' = Release(pool, b)
  /\ held' = [held EXCEPT ![r] = @ \ {b}]
  /\ known' = [known EXCEPT ![r] = [@ EXCEPT ![b] = None]]
  /\ UNCHANGED content

Next ==
  \E r \in Request :
    \/ \E n \in 1 .. NumBlocks : Allocate(r, n)
    \/ \E h \in Hash : Hit(r, h)
    \/ \E b \in Block, h \in Hash : Compute(r, b, h)
    \/ \E b \in Block : Publish(r, b)
    \/ \E b \in Block : Free(r, b)

Spec == Init /\ [][Next]_vars

-----------------------------------------------------------------------------
(***************************************************************************)
(* Properties.                                                             *)
(***************************************************************************)

\* Type invariant of the pool, the block tables and the device pages.
TypeOK ==
  /\ pool \in Pool
  /\ held \in [Request -> SUBSET Block]
  /\ known \in [Request -> [Block -> Hash \cup {None}]]
  /\ content \in [Block -> Hash \cup {None}]

\* ref_cnt counts the requests whose table holds the block, across sharing by
\* prefix hits, eviction and releases in any order: no reference leaks and
\* none is returned twice (the early return of release would hide it).
RefCountExact ==
  \A b \in Block : pool.ref[b] = Cardinality({r \in Request : b \in held[r]})

\* The free queue holds exactly the blocks nobody references, each once: a
\* queued block that is referenced could be handed to a second request, one
\* that is neither is lost to the pool.
FreeQueueExact ==
  /\ \A b \in Block : Queued(pool.free, b) <=> pool.ref[b] = 0
  /\ \A i, j \in 1 .. Len(pool.free) : pool.free[i] = pool.free[j] => i = j

\* allocate_blocks, get_cached_block and release keep the books: a block is
\* counted once for every request that holds it, and is in the free queue,
\* once, exactly when nobody does.
BlocksAccounted == RefCountExact /\ FreeQueueExact

\* A prefix-cache hit returns a block that holds that very prefix: no entry
\* of hash_to_block survives the eviction or the rewriting of its block, also
\* when two requests computed and published the same prefix.
PrefixHitSound ==
  \A h \in Hash : pool.map[h] # None =>
    /\ pool.hash[pool.map[h]] = h
    /\ content[pool.map[h]] = h

\* Every page a request attends over still holds what the request computed or
\* was given by the prefix cache, whatever the other requests did meanwhile.
TableSound ==
  \A r \in Request : \A b \in held[r] :
    known[r][b] # None => content[b] = known[r][b]

\* Through sharing, eviction and revival every page holds what is expected of
\* it: by the next request that finds its hash in hash_to_block, and by the
\* requests that have it in their tables.
PagesSound == PrefixHitSound /\ TableSound

\* A page is written only while one request holds it and no entry of the
\* prefix index leads to it.
WritesAreExclusive ==
  [][\A b \in Block : content'[b] # content[b] =>
       /\ \A q, r \in Request : b \in held[q] /\ b \in held[r] => q = r
       /\ \A h \in Hash : pool.map[h] # b]_vars

-----------------------------------------------------------------------------
(***************************************************************************)
(* The inductive invariant behind these properties (KvBlockPool_proofs).   *)
(***************************************************************************)

\* known is a field of the block table: nothing is known of other blocks.
KnownHeld == \A r \in Request : \A b \in Block : b \notin held[r] => known[r][b] = None

\* A block carries a hash only if its page holds that prefix, indexed or not
\* (an entry may have been taken over by a second copy of the prefix).
HashSound == \A b \in Block : pool.hash[b] # None => content[b] = pool.hash[b]

\* A block that a request has still to write is that request's alone, and
\* carries no hash through which another request could find it.
UnwrittenPrivate ==
  \A r \in Request : \A b \in held[r] :
    known[r][b] = None => /\ pool.hash[b] = None
                          /\ \A q \in Request : b \in held[q] => q = r

IInv ==
  /\ TypeOK
  /\ RefCountExact
  /\ FreeQueueExact
  /\ PrefixHitSound
  /\ TableSound
  /\ KnownHeld
  /\ HashSound
  /\ UnwrittenPrivate
=============================================================================
