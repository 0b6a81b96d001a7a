------------------------- MODULE KvBlockPool_proofs -------------------------
(***************************************************************************)
(* The properties of KvBlockPool hold for every number of blocks, prefixes *)
(* and requests.                                                           *)
(***************************************************************************)
EXTENDS KvBlockPool, FiniteSetTheorems, TLAPS

USE NumBlocksAssumption, NoneAssumption, RequestAssumption

-----------------------------------------------------------------------------
(***************************************************************************)
(* What the operations of the free queue return.                           *)
(***************************************************************************)

NoDup(q) == \A i, j \in 1 .. Len(q) : q[i] = q[j] => i = j

\* None is no block, so "no entry" cannot be mistaken for one.
LEMMA NoneNotBlock == None \notin Block
BY DEF Block

\* popleft, n times: the blocks behind the first n, in the same order.
LEMMA PopNFacts ==
  ASSUME NEW q \in Seq(Block), NEW n \in Nat, n <= Len(q), NoDup(q)
  PROVE  LET p == QueuePopN(q, n)
         IN  /\ p \in Seq(Block)
             /\ NoDup(p)
             /\ \A b : Queued(p, b) <=> Queued(q, b) /\ \A i \in 1 .. n : q[i] # b
<1> DEFINE p == QueuePopN(q, n)
<1>1. Len(q) - n \in Nat
  OBVIOUS
<1>2. /\ p = [i \in 1 .. Len(q) - n |-> q[i + n]]
      /\ \A i \in 1 .. Len(q) - n : q[i + n] \in Block
  BY DEF QueuePopN
<1>3. /\ p \in Seq(Block)
      /\ Len(p) = Len(q) - n
      /\ \A i \in 1 .. Len(q) - n : p[i] = q[i + n]
  BY <1>1, <1>2
<1>4. NoDup(p)
  BY <1>1, <1>3 DEF NoDup
<1>5. ASSUME NEW b
      PROVE  Queued(p, b) <=> Queued(q, b) /\ \A i \in 1 .. n : q[i] # b
  <2>1. ASSUME Queued(p, b)
        PROVE  Queued(q, b) /\ \A i \in 1 .. n : q[i] # b
    <3>1. PICK i \in 1 .. Len(q) - n : q[i + n] = b
      BY <2>1, <1>3 DEF Queued
    <3>2. i + n \in 1 .. Len(q) /\ \A j \in 1 .. n : j \in 1 .. Len(q) /\ j # i + n
      BY <3>1
    <3> QED
      BY <3>1, <3>2 DEF Queued, NoDup
  <2>2. ASSUME Queued(q, b), \A i \in 1 .. n : q[i] # b
        PROVE  Queued(p, b)
    <3>1. PICK k \in 1 .. Len(q) : q[k] = b
      BY <2>2 DEF Queued
    <3>2. k - n \in 1 .. Len(q) - n /\ (k - n) + n = k
      BY <2>2, <3>1
    <3> QED
      BY <1>3, <3>1, <3>2 DEF Queued
  <2> QED
    BY <2>1, <2>2
<1> QED
  BY <1>3, <1>4, <1>5

\* remove: every other block stays queued, once.
LEMMA RemoveFacts ==
  ASSUME NEW q \in Seq(Block), NEW b, Queued(q, b), NoDup(q)
  PROVE  LET p == QueueRemove(q, b)
         IN  /\ p \in Seq(Block)
             /\ NoDup(p)
             /\ \A c : Queued(p, c) <=> Queued(q, c) /\ c # b
<1> DEFINE k == CHOOSE i \in 1 .. Len(q) : q[i] = b
           p == QueueRemove(q, b)
<1>1. k \in 1 .. Len(q) /\ q[k] = b
  BY DEF Queued
<1> HIDE DEF k
<1>2. p = [i \in 1 .. Len(q) - 1 |-> IF i < k THEN q[i] ELSE q[i + 1]]
  BY DEF QueueRemove, k
<1> HIDE DEF p
<1>3. Len(q) - 1 \in Nat
  BY <1>1
<1>4. /\ p \in Seq(Block)
      /\ Len(p) = Len(q) - 1
      /\ \A i \in 1 .. Len(q) - 1 : p[i] = IF i < k THEN q[i] ELSE q[i + 1]
  <2>1. \A i \in 1 .. Len(q) - 1 : (IF i < k THEN q[i] ELSE q[i + 1]) \in Block
    BY <1>1
  <2> QED
    BY <1>2, <1>3, <2>1
<1>5. NoDup(p)
  BY <1>1, <1>4, SMTT(40) DEF NoDup
<1>6. ASSUME NEW c
      PROVE  Queued(p, c) <=> Queued(q, c) /\ c # b
  <2>1. ASSUME Queued(p, c)
        PROVE  Queued(q, c) /\ c # b
    <3>1. PICK i \in 1 .. Len(q) - 1 : (IF i < k THEN q[i] ELSE q[i + 1]) = c
      BY <2>1, <1>4 DEF Queued
    <3>2. CASE i < k
      BY <3>1, <3>2, <1>1 DEF Queued, NoDup
    <3>3. CASE ~(i < k)
      BY <3>1, <3>3, <1>1 DEF Queued, NoDup
    <3> QED
      BY <3>2, <3>3
  <2>2. ASSUME Queued(q, c), c # b
        PROVE  Queued(p, c)
    <3>1. PICK i \in 1 .. Len(q) : q[i] = c
      BY <2>2 DEF Queued
    <3>2. CASE i < k
      <4>1. i \in 1 .. Len(q) - 1
        BY <3>2, <1>1
      <4> QED
        BY <4>1, <3>1, <3>2, <1>4 DEF Queued
    <3>3. CASE i > k
      <4>1. i - 1 \in 1 .. Len(q) - 1 /\ ~(i - 1 < k) /\ (i - 1) + 1 = i
        BY <3>3, <1>1
      <4> QED
        BY <4>1, <3>1, <1>4 DEF Queued
    <3>4. i # k
      BY <3>1, <2>2, <1>1
    <3> QED
      BY <1>1, <3>2, <3>3, <3>4
  <2> QED
    BY <2>1, <2>2
<1> QED
  BY <1>4, <1>5, <1>6 DEF p

\* append: the block is queued behind the others.
LEMMA AppendFacts ==
  ASSUME NEW q \in Seq(Block), NEW b \in Block, ~Queued(q, b), NoDup(q)
  PROVE  LET p == QueueAppend(q, b)
         IN  /\ p \in Seq(Block)
             /\ NoDup(p)
             /\ \A c : Queued(p, c) <=> Queued(q, c) \/ c = b
<1> DEFINE p == QueueAppend(q, b)
<1>1. /\ p \in Seq(Block)
      /\ Len(p) = Len(q) + 1
      /\ \A i \in 1 .. Len(q) : p[i] = q[i]
      /\ p[Len(q) + 1] = b
  BY DEF QueueAppend
<1>2. NoDup(p)
  BY <1>1 DEF NoDup, Queued
<1>3. ASSUME NEW c
      PROVE  Queued(p, c) <=> Queued(q, c) \/ c = b
  BY <1>1 DEF Queued
<1> QED
  BY <1>1, <1>2, <1>3

-----------------------------------------------------------------------------
(***************************************************************************)
(* Init and each action establish the inductive invariant.                 *)
(***************************************************************************)

\* The free queue in the form the lemmas above use.
LEMMA FreeQueueNoDup == IInv => NoDup(pool.free)
BY DEF IInv, FreeQueueExact, NoDup

LEMMA InitIInv == Init => IInv
<1> SUFFICES ASSUME Init PROVE IInv
  OBVIOUS
<1> USE DEF Init, InitPool
<1>1. /\ pool.free \in Seq(Block)
      /\ Len(pool.free) = NumBlocks
      /\ \A i \in 1 .. NumBlocks : pool.free[i] = i - 1
  <2>1. \A i \in 1 .. NumBlocks : i - 1 \in Block
    BY DEF Block
  <2> QED
    BY <2>1
<1>2. TypeOK
  BY <1>1 DEF TypeOK, Pool
<1>3. RefCountExact
  <2>1. \A b \in Block : {r \in Request : b \in held[r]} = {}
    OBVIOUS
  <2> QED
    BY <2>1, FS_EmptySet DEF RefCountExact
<1>4. FreeQueueExact
  <2>1. \A b \in Block : b + 1 \in 1 .. NumBlocks /\ (b + 1) - 1 = b
    BY DEF Block
  <2> QED
    BY <1>1, <2>1 DEF FreeQueueExact, Queued
<1>5. PrefixHitSound /\ TableSound /\ KnownHeld /\ HashSound /\ UnwrittenPrivate
  BY DEF PrefixHitSound, TableSound, KnownHeld, HashSound, UnwrittenPrivate
<1> QED
  BY <1>2, <1>3, <1>4, <1>5 DEF IInv

\* A block is referenced if and only if some request holds it.
LEMMA RefZeroUnheld ==
  ASSUME IInv, NEW b \in Block
  PROVE  pool.ref[b] = 0 <=> \A r \in Request : b \notin held[r]
<1> DEFINE H == {r \in Request : b \in held[r]}
<1>1. IsFiniteSet(H)
  BY FS_Subset
<1>2. Cardinality(H) = 0 <=> H = {}
  BY <1>1, FS_EmptySet
<1> QED
  BY <1>2 DEF IInv, RefCountExact

LEMMA AllocateIInv ==
  ASSUME IInv, NEW r \in Request, NEW n \in 1 .. NumBlocks, Allocate(r, n)
  PROVE  IInv'
<1> DEFINE taken == HeadBlocks(pool, n)
<1> USE DEF IInv, Allocate
<1>1. /\ TypeOK
      /\ n \in Nat
      /\ n <= Len(pool.free)
      /\ pool.free \in Seq(Block)
      /\ pool' = [ref  |-> [b \in Block |-> IF b \in taken THEN 1 ELSE pool.ref[b]],
                  hash |-> [b \in Block |-> IF b \in taken THEN None ELSE pool.hash[b]],
                  map  |-> [h \in Hash |-> IF \E b \in taken : pool.hash[b] = h
                                           THEN None ELSE pool.map[h]],
                  free |-> QueuePopN(pool.free, n)]
  BY DEF TypeOK, Pool, CanAllocate, NumFreeBlocks, AllocateBlocks
<1>2. /\ pool'.free \in Seq(Block)
      /\ NoDup(pool'.free)
      /\ \A b : Queued(pool'.free, b) <=> Queued(pool.free, b) /\ b \notin taken
  <2>1. \A b : b \in taken <=> ~ \A i \in 1 .. n : pool.free[i] # b
    BY DEF HeadBlocks
  <2>2. pool'.free = QueuePopN(pool.free, n)
    BY <1>1
  <2>3. /\ QueuePopN(pool.free, n) \in Seq(Block)
        /\ NoDup(QueuePopN(pool.free, n))
        /\ \A b : Queued(QueuePopN(pool.free, n), b)
               <=> Queued(pool.free, b) /\ \A i \in 1 .. n : pool.free[i] # b
    <3>1. NoDup(pool.free)
      BY FreeQueueNoDup
    <3> HIDE DEF IInv, Allocate
    <3> QED
      BY <1>1, <3>1, PopNFacts
  <2> QED
    BY <2>1, <2>2, <2>3
<1>3. /\ taken \subseteq Block
      /\ \A b \in taken : pool.ref[b] = 0 /\ \A q \in Request : b \notin held[q]
  <2>1. \A b \in taken : b \in Block /\ Queued(pool.free, b)
    <3> SUFFICES ASSUME NEW i \in 1 .. n
                 PROVE  pool.free[i] \in Block /\ Queued(pool.free, pool.free[i])
      BY DEF HeadBlocks
    <3>1. i \in 1 .. Len(pool.free)
      BY <1>1
    <3> QED
      BY <1>1, <3>1 DEF Queued
  <2>2. \A b \in taken : pool.ref[b] = 0
    BY <2>1 DEF FreeQueueExact
  <2> QED
    BY <2>1, <2>2, RefZeroUnheld, Zenon
<1> HIDE DEF taken
<1>4. held' = [q \in Request |-> IF q = r THEN held[r] \cup taken ELSE held[q]]
  BY <1>1 DEF taken, TypeOK
<1>5. TypeOK'
  BY <1>1, <1>2, <1>3, <1>4 DEF TypeOK, Pool
<1>6. RefCountExact'
  <2> SUFFICES ASSUME NEW b \in Block
               PROVE  pool'.ref[b] = Cardinality({q \in Request : b \in held'[q]})
    BY DEF RefCountExact
  <2>1. CASE b \in taken
    <3>1. {q \in Request : b \in held'[q]} = {r}
      BY <2>1, <1>3, <1>4
    <3>2. Cardinality({r}) = 1
      BY FS_Singleton
    <3>3. pool'.ref[b] = 1
      BY <2>1, <1>1
    <3> QED
      BY <3>1, <3>2, <3>3, Zenon
  <2>2. CASE b \notin taken
    <3>1. {q \in Request : b \in held'[q]} = {q \in Request : b \in held[q]}
      BY <2>2, <1>4
    <3> QED
      BY <2>2, <3>1, <1>1 DEF RefCountExact
  <2> QED
    BY <2>1, <2>2
<1>7. FreeQueueExact'
  <2>1. \A b \in Block : Queued(pool'.free, b) <=> pool'.ref[b] = 0
    BY <1>1, <1>2 DEF FreeQueueExact
  <2> QED
    BY <2>1, <1>2 DEF FreeQueueExact, NoDup
<1>8. PrefixHitSound'
  BY <1>1, <1>3, NoneNotBlock DEF PrefixHitSound, TypeOK, Pool
<1>9. TableSound' /\ KnownHeld'
  BY <1>1, <1>3, <1>4 DEF TableSound, KnownHeld, TypeOK
<1>10. HashSound'
  BY <1>1 DEF HashSound
<1>11. UnwrittenPrivate'
  <2> SUFFICES ASSUME NEW p \in Request, NEW b \in held'[p], known[p][b] = None
               PROVE  /\ pool'.hash[b] = None
                      /\ \A q \in Request : b \in held'[q] => q = p
    BY DEF UnwrittenPrivate
  <2>1. b \in Block
    BY <1>1, <1>3, <1>4 DEF TypeOK
  <2> QED
    BY <1>1, <1>3, <1>4, <2>1 DEF UnwrittenPrivate, TypeOK
<1> QED
  BY <1>5, <1>6, <1>7, <1>8, <1>9, <1>10, <1>11

LEMMA HitIInv ==
  ASSUME IInv, NEW r \in Request, NEW h \in Hash, Hit(r, h)
  PROVE  IInv'
<1> DEFINE b == pool.map[h]
<1> USE DEF IInv, Hit
<1>1. /\ TypeOK
      /\ b \in Block
      /\ b \notin held[r]
      /\ pool.ref \in [Block -> Nat]
      /\ pool.free \in Seq(Block)
      /\ pool.hash[b] = h
      /\ content[b] = h
  BY DEF TypeOK, Pool, PrefixHitSound
<1>2. pool' = [ref  |-> [pool.ref EXCEPT ![b] = pool.ref[b] + 1],
               hash |-> pool.hash,
               map  |-> pool.map,
               free |-> IF pool.ref[b] = 0 THEN QueueRemove(pool.free, b) ELSE pool.free]
  BY DEF GetCachedBlock
<1>3. /\ held' = [q \in Request |-> IF q = r THEN held[r] \cup {b} ELSE held[q]]
      /\ known' = [known EXCEPT ![r] = [known[r] EXCEPT ![b] = h]]
      /\ content' = content
  BY <1>1 DEF TypeOK
<1>4. /\ pool'.free \in Seq(Block)
      /\ NoDup(pool'.free)
      /\ \A c \in Block : Queued(pool'.free, c) <=> Queued(pool.free, c) /\ c # b
  <2>1. CASE pool.ref[b] = 0
    <3>1. Queued(pool.free, b)
      BY <2>1, <1>1 DEF FreeQueueExact
    <3> QED
      BY <1>1, <1>2, <2>1, <3>1, RemoveFacts, FreeQueueNoDup
  <2>2. CASE pool.ref[b] # 0
    <3>1. ~Queued(pool.free, b)
      BY <2>2, <1>1 DEF FreeQueueExact
    <3> QED
      BY <1>1, <1>2, <2>2, <3>1, FreeQueueNoDup
  <2> QED
    BY <2>1, <2>2
<1> HIDE DEF b
<1>5. TypeOK'
  BY <1>1, <1>2, <1>3, <1>4 DEF TypeOK, Pool
<1>6. RefCountExact'
  <2> SUFFICES ASSUME NEW c \in Block
               PROVE  pool'.ref[c] = Cardinality({q \in Request : c \in held'[q]})
    BY DEF RefCountExact
  <2> DEFINE H == {q \in Request : c \in held[q]}
  <2>1. CASE c = b
    <3>1. {q \in Request : c \in held'[q]} = H \cup {r} /\ r \notin H
      BY <2>1, <1>1, <1>3
    <3>2. IsFiniteSet(H)
      BY FS_Subset
    <3>3. Cardinality(H \cup {r}) = Cardinality(H) + 1
      BY <3>1, <3>2, FS_AddElement
    <3>4. pool.ref[c] = Cardinality(H)
      BY DEF RefCountExact
    <3>5. pool'.ref[c] = pool.ref[c] + 1
      BY <2>1, <1>1, <1>2
    <3> QED
      BY <3>1, <3>3, <3>4, <3>5
  <2>2. CASE c # b
    <3>1. {q \in Request : c \in held'[q]} = H
      BY <2>2, <1>3
    <3> QED
      BY <2>2, <3>1, <1>1, <1>2 DEF RefCountExact
  <2> QED
    BY <2>1, <2>2
<1>7. FreeQueueExact'
  <2>1. \A c \in Block : Queued(pool'.free, c) <=> pool'.ref[c] = 0
    BY <1>1, <1>2, <1>4 DEF FreeQueueExact
  <2> QED
    BY <2>1, <1>4 DEF FreeQueueExact, NoDup
<1>8. PrefixHitSound' /\ HashSound'
  BY <1>2, <1>3 DEF PrefixHitSound, HashSound
<1>9. TableSound' /\ KnownHeld'
  BY <1>1, <1>3 DEF TableSound, KnownHeld, TypeOK
<1>10. UnwrittenPrivate'
  <2> SUFFICES ASSUME NEW p \in Request, NEW c \in held'[p], known'[p][c] = None
               PROVE  /\ pool'.hash[c] = None
                      /\ \A q \in Request : c \in held'[q] => q = p
    BY DEF UnwrittenPrivate
  <2>1. c \in Block /\ (c = b => p # r)
    BY <1>1, <1>3, NoneAssumption DEF TypeOK
  <2>2. c \in held[p] /\ known[p][c] = None
    BY <1>1, <1>3, <2>1 DEF TypeOK
  <2>3. pool.hash[c] = None
    BY <2>2 DEF UnwrittenPrivate
  <2>4. c # b
    BY <2>3, <1>1
  <2> QED
    BY <1>2, <1>3, <2>2, <2>3, <2>4 DEF UnwrittenPrivate
<1> QED
  BY <1>5, <1>6, <1>7, <1>8, <1>9, <1>10

LEMMA ComputeIInv ==
  ASSUME IInv, NEW r \in Request, NEW b \in Block, NEW h \in Hash, Compute(r, b, h)
  PROVE  IInv'
<1> USE DEF IInv, Compute
<1>1. TypeOK' /\ RefCountExact' /\ FreeQueueExact'
  BY DEF TypeOK, RefCountExact, FreeQueueExact
<1>2. /\ pool.hash[b] = None
      /\ \A q \in Request : b \in held[q] => q = r
  BY DEF UnwrittenPrivate
<1>3. PrefixHitSound' /\ HashSound'
  BY <1>2 DEF PrefixHitSound, HashSound, TypeOK
<1>4. TableSound' /\ KnownHeld' /\ UnwrittenPrivate'
  BY <1>2 DEF TableSound, KnownHeld, UnwrittenPrivate, TypeOK
<1> QED
  BY <1>1, <1>3, <1>4

LEMMA PublishIInv ==
  ASSUME IInv, NEW r \in Request, NEW b \in Block, Publish(r, b)
  PROVE  IInv'
<1> DEFINE h == known[r][b]
<1> USE DEF IInv, Publish
<1>1. /\ h \in Hash
      /\ content[b] = h
      /\ pool.hash \in [Block -> Hash \cup {None}]
      /\ pool.map \in [Hash -> Block \cup {None}]
  BY DEF TypeOK, Pool, TableSound
<1>2. pool' = [ref  |-> pool.ref,
               hash |-> [pool.hash EXCEPT ![b] = h],
               map  |-> [g \in Hash |-> IF g = h THEN b
                                        ELSE IF g = pool.hash[b] THEN None
                                        ELSE pool.map[g]],
               free |-> pool.free]
  BY DEF CacheBlock
<1> HIDE DEF h
<1>3. TypeOK'
  BY <1>1, <1>2 DEF TypeOK, Pool
<1>4. RefCountExact' /\ FreeQueueExact'
  BY <1>2 DEF RefCountExact, FreeQueueExact
<1>5. PrefixHitSound' /\ HashSound'
  BY <1>1, <1>2, NoneNotBlock DEF PrefixHitSound, HashSound
<1>6. TableSound' /\ KnownHeld'
  BY DEF TableSound, KnownHeld
<1>7. UnwrittenPrivate'
  <2> SUFFICES ASSUME NEW p \in Request, NEW c \in held[p], known[p][c] = None
               PROVE  /\ pool'.hash[c] = None
                      /\ \A q \in Request : c \in held[q] => q = p
    BY DEF UnwrittenPrivate
  <2>1. /\ pool.hash[c] = None
        /\ \A q \in Request : c \in held[q] => q = p
        /\ c \in Block
    BY DEF UnwrittenPrivate, TypeOK
  <2>2. c # b
    BY <2>1
  <2> QED
    BY <1>1, <1>2, <2>1, <2>2
<1> QED
  BY <1>3, <1>4, <1>5, <1>6, <1>7

LEMMA FreeIInv ==
  ASSUME IInv, NEW r \in Request, NEW b \in Block, Free(r, b)
  PROVE  IInv'
<1> USE DEF IInv, Free
<1>1. /\ TypeOK
      /\ b \in held[r]
      /\ pool.ref \in [Block -> Nat]
      /\ pool.free \in Seq(Block)
      /\ pool.ref[b] # 0
      /\ pool.ref[b] - 1 \in Nat
  BY RefZeroUnheld DEF TypeOK, Pool
<1>2. pool' = [ref  |-> [pool.ref EXCEPT ![b] = pool.ref[b] - 1],
               hash |-> pool.hash,
               map  |-> pool.map,
               free |-> IF pool.ref[b] = 1 THEN QueueAppend(pool.free, b) ELSE pool.free]
  BY <1>1 DEF Release
<1>3. /\ held' = [q \in Request |-> IF q = r THEN held[r] \ {b} ELSE held[q]]
      /\ known' = [known EXCEPT ![r] = [known[r] EXCEPT ![b] = None]]
      /\ content' = content
  BY <1>1 DEF TypeOK
<1>4. ~Queued(pool.free, b)
  BY <1>1 DEF FreeQueueExact
<1>5. /\ pool'.free \in Seq(Block)
      /\ NoDup(pool'.free)
      /\ \A c \in Block : Queued(pool'.free, c)
            <=> Queued(pool.free, c) \/ (c = b /\ pool.ref[b] = 1)
  <2>1. CASE pool.ref[b] = 1
    BY <1>1, <1>2, <1>4, <2>1, AppendFacts, FreeQueueNoDup
  <2>2. CASE pool.ref[b] # 1
    BY <1>1, <1>2, <1>4, <2>2, FreeQueueNoDup
  <2> QED
    BY <2>1, <2>2
<1>6. TypeOK'
  BY <1>1, <1>2, <1>3, <1>5 DEF TypeOK, Pool
<1>7. RefCountExact'
  <2> SUFFICES ASSUME NEW c \in Block
               PROVE  pool'.ref[c] = Cardinality({q \in Request : c \in held'[q]})
    BY DEF RefCountExact
  <2> DEFINE H == {q \in Request : c \in held[q]}
  <2>1. CASE c = b
    <3>1. {q \in Request : c \in held'[q]} = H \ {r} /\ r \in H
      BY <2>1, <1>1, <1>3
    <3>2. IsFiniteSet(H)
      BY FS_Subset
    <3>3. Cardinality(H \ {r}) = Cardinality(H) - 1
      BY <3>1, <3>2, FS_RemoveElement
    <3>4. pool.ref[c] = Cardinality(H)
      BY DEF RefCountExact
    <3>5. pool'.ref[c] = pool.ref[c] - 1
      BY <2>1, <1>1, <1>2
    <3> QED
      BY <3>1, <3>3, <3>4, <3>5
  <2>2. CASE c # b
    <3>1. {q \in Request : c \in held'[q]} = H
      BY <2>2, <1>3
    <3> QED
      BY <2>2, <3>1, <1>1, <1>2 DEF RefCountExact
  <2> QED
    BY <2>1, <2>2
<1>8. FreeQueueExact'
  <2>1. \A c \in Block : Queued(pool'.free, c) <=> pool'.ref[c] = 0
    BY <1>1, <1>2, <1>4, <1>5 DEF FreeQueueExact
  <2> QED
    BY <2>1, <1>5 DEF FreeQueueExact, NoDup
<1>9. PrefixHitSound' /\ HashSound'
  BY <1>2, <1>3 DEF PrefixHitSound, HashSound
<1>10. TableSound' /\ KnownHeld'
  BY <1>1, <1>3 DEF TableSound, KnownHeld, TypeOK
<1>11. UnwrittenPrivate'
  BY <1>1, <1>2, <1>3 DEF UnwrittenPrivate, TypeOK
<1> QED
  BY <1>6, <1>7, <1>8, <1>9, <1>10, <1>11

-----------------------------------------------------------------------------
(***************************************************************************)
(* Theorems.                                                               *)
(***************************************************************************)

\* The inductive invariant holds in every reachable state.
THEOREM Invariance == Spec => []IInv
<1>1. IInv /\ [Next]_vars => IInv'
  <2> SUFFICES ASSUME IInv, [Next]_vars PROVE IInv'
    OBVIOUS
  <2>1. CASE UNCHANGED vars
    BY <2>1 DEF vars, IInv, TypeOK, RefCountExact, FreeQueueExact, PrefixHitSound,
                TableSound, KnownHeld, HashSound, UnwrittenPrivate
  <2>2. CASE Next
    BY <2>2, AllocateIInv, HitIInv, ComputeIInv, PublishIInv, FreeIInv DEF Next
  <2> QED
    BY <2>1, <2>2
<1> QED
  BY InitIInv, <1>1, PTL DEF Spec

\* The pool, the block tables and the pages keep their types.
THEOREM TypeCorrect == Spec => []TypeOK
BY Invariance, PTL DEF IInv

\* ref_cnt is the number of requests holding the block, and the free queue is
\* exactly the unreferenced blocks, each queued once, always.
THEOREM AccountingCorrect == Spec => []BlocksAccounted
BY Invariance, PTL DEF IInv, BlocksAccounted

\* A prefix-cache hit never returns a block with another prefix's keys, and a
\* request's pages are never changed under it by another request.
THEOREM PagesCorrect == Spec => []PagesSound
BY Invariance, PTL DEF IInv, PagesSound

\* The device writes a page only while a single request can reach it.
THEOREM WritesExclusive == Spec => WritesAreExclusive
<1> DEFINE A == \A b \in Block : content'[b] # content[b] =>
                  /\ \A q, r \in Request : b \in held[q] /\ b \in held[r] => q = r
                  /\ \A h \in Hash : pool.map[h] # b
<1>1. IInv /\ [Next]_vars => [A]_vars
  <2> SUFFICES ASSUME IInv, Next PROVE A
    BY DEF vars
  <2>1. ASSUME NEW r \in Request, NEW b \in Block, NEW h \in Hash, Compute(r, b, h)
        PROVE  A
    <3>1. /\ pool.hash[b] = None
          /\ \A q \in Request : b \in held[q] => q = r
      BY <2>1 DEF IInv, UnwrittenPrivate, Compute
    <3>2. \A g \in Hash : pool.map[g] # b
      BY <3>1, NoneNotBlock DEF IInv, PrefixHitSound
    <3>3. \A c \in Block : content'[c] # content[c] => c = b
      BY <2>1 DEF IInv, TypeOK, Compute
    <3> QED
      BY <3>1, <3>2, <3>3
  <2>2. ASSUME UNCHANGED content
        PROVE  A
    BY <2>2
  <2> HIDE DEF A
  <2> QED
    BY <2>1, <2>2 DEF Next, Allocate, Hit, Publish, Free
<1> QED
  BY Invariance, <1>1, PTL DEF Spec, WritesAreExclusive
=============================================================================
