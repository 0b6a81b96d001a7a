--------------------------- MODULE Weights_proofs ---------------------------
(***************************************************************************)
(* Proofs about what happens to a checkpoint before it is served, for any  *)
(* number of shards, prepack commands, rank counts and bounds.             *)
(***************************************************************************)
EXTENDS MCWeights, FiniteSetTheorems, WellFoundedInduction, TLAPS

(***************************************************************************)
(* The prepacked sidecar.                                                  *)
(***************************************************************************)
\* A set of naturals that is not empty and has a bound has a greatest element.
LEMMA GreatestExists ==
  ASSUME NEW S \in SUBSET Nat, S # {}, NEW b \in Nat, \A x \in S : x <= b
  PROVE  Max(S) \in S /\ \A y \in S : y <= Max(S)
<1> DEFINE T == {b - x : x \in S}
<1>1. T \subseteq Nat /\ T # {}
  <2>1. \A x \in S : x \in Nat /\ x <= b /\ b - x \in Nat
    OBVIOUS
  <2> QED
    BY <2>1
<1>2. \E m \in T : \A y \in T : ~(<<y, m>> \in OpToRel(<, Nat))
  BY <1>1, NatLessThanWellFounded, WFMin, Zenon
<1>3. \E m \in T : \A y \in T : ~(y < m)
  BY <1>1, <1>2 DEF OpToRel
<1>4. \E m \in S : \A y \in S : m >= y
  <2>1. PICK m \in T : \A y \in T : ~(y < m)
    BY <1>3
  <2>2. PICK x \in S : m = b - x
    BY <2>1
  <2>3. \A y \in S : x >= y
    BY <2>1, <2>2
  <2> QED
    BY <2>3
<1> QED
  BY <1>4 DEF Max

\* Walk writes the shard's stamp into the one field and goes on to the next
\* shard, or to the next phase after the last one.
NextShard(s) == IF s = NumShards THEN 1 ELSE s + 1
Stamped(stats, s) == [stats EXCEPT ![s] = stamp[s]]

LEMMA WalkPacker ==
  ASSUME NEW pc, NEW s, NEW ranks, NEW output, NEW stats, NEW read, NEW after, NEW rec,
         rec = [pc |-> pc, s |-> s, ranks |-> ranks, output |-> output, stats |-> stats, read |-> read]
  PROVE  LET to == IF s = NumShards THEN after ELSE pc
         IN  /\ Walk(rec, "stats", after) = [pc |-> to, s |-> NextShard(s), ranks |-> ranks,
                   output |-> output, stats |-> Stamped(stats, s), read |-> read]
             /\ Walk(rec, "read", after) = [pc |-> to, s |-> NextShard(s), ranks |-> ranks,
                   output |-> output, stats |-> stats, read |-> Stamped(read, s)]
<1> DEFINE to == IF s = NumShards THEN after ELSE pc
<1>1. Walk(rec, "stats", after) = [rec EXCEPT !.stats = Stamped(rec.stats, rec.s),
                                              !.s = NextShard(rec.s),
                                              !.pc = IF rec.s = NumShards THEN after ELSE rec.pc]
  BY Zenon DEF Walk, NextShard, Stamped
<1>2. Walk(rec, "read", after) = [rec EXCEPT !.read = Stamped(rec.read, rec.s),
                                             !.s = NextShard(rec.s),
                                             !.pc = IF rec.s = NumShards THEN after ELSE rec.pc]
  BY Zenon DEF Walk, NextShard, Stamped
<1>3. ASSUME NEW next, next = [rec EXCEPT !.stats = Stamped(rec.stats, rec.s), !.s = NextShard(rec.s),
                                         !.pc = IF rec.s = NumShards THEN after ELSE rec.pc]
      PROVE  next = [pc |-> to, s |-> NextShard(s), ranks |-> ranks, output |-> output,
                     stats |-> Stamped(stats, s), read |-> read]
  BY <1>3
<1>4. ASSUME NEW next, next = [rec EXCEPT !.read = Stamped(rec.read, rec.s), !.s = NextShard(rec.s),
                                         !.pc = IF rec.s = NumShards THEN after ELSE rec.pc]
      PROVE  next = [pc |-> to, s |-> NextShard(s), ranks |-> ranks, output |-> output,
                     stats |-> stats, read |-> Stamped(read, s)]
  BY <1>4
<1> QED
  BY <1>1, <1>2, <1>3, <1>4

LEMMA WalkLoader ==
  ASSUME NEW pc, NEW s, NEW ranks, NEW fd, NEW from, NEW stats, NEW read, NEW after, NEW rec,
         rec = [pc |-> pc, s |-> s, ranks |-> ranks, fd |-> fd, from |-> from, stats |-> stats, read |-> read]
  PROVE  LET to == IF s = NumShards THEN after ELSE pc
         IN  /\ Walk(rec, "stats", after) = [pc |-> to, s |-> NextShard(s), ranks |-> ranks,
                   fd |-> fd, from |-> from, stats |-> Stamped(stats, s), read |-> read]
             /\ Walk(rec, "read", after) = [pc |-> to, s |-> NextShard(s), ranks |-> ranks,
                   fd |-> fd, from |-> from, stats |-> stats, read |-> Stamped(read, s)]
<1> DEFINE to == IF s = NumShards THEN after ELSE pc
<1>1. Walk(rec, "stats", after) = [rec EXCEPT !.stats = Stamped(rec.stats, rec.s),
                                              !.s = NextShard(rec.s),
                                              !.pc = IF rec.s = NumShards THEN after ELSE rec.pc]
  BY Zenon DEF Walk, NextShard, Stamped
<1>2. Walk(rec, "read", after) = [rec EXCEPT !.read = Stamped(rec.read, rec.s),
                                             !.s = NextShard(rec.s),
                                             !.pc = IF rec.s = NumShards THEN after ELSE rec.pc]
  BY Zenon DEF Walk, NextShard, Stamped
<1>3. ASSUME NEW next, next = [rec EXCEPT !.stats = Stamped(rec.stats, rec.s), !.s = NextShard(rec.s),
                                         !.pc = IF rec.s = NumShards THEN after ELSE rec.pc]
      PROVE  next = [pc |-> to, s |-> NextShard(s), ranks |-> ranks, fd |-> fd, from |-> from,
                     stats |-> Stamped(stats, s), read |-> read]
  BY <1>3
<1>4. ASSUME NEW next, next = [rec EXCEPT !.read = Stamped(rec.read, rec.s), !.s = NextShard(rec.s),
                                         !.pc = IF rec.s = NumShards THEN after ELSE rec.pc]
      PROVE  next = [pc |-> to, s |-> NextShard(s), ranks |-> ranks, fd |-> fd, from |-> from,
                     stats |-> stats, read |-> Stamped(read, s)]
  BY <1>4
<1> QED
  BY <1>1, <1>2, <1>3, <1>4

\* An operator's new file only moves the stamps on.
LEMMA RedeployKeeps ==
  ASSUME SidecarInv, NEW s \in 0 .. NumShards, Redeploy(s)
  PROVE  SidecarInv'
<1> DEFINE latest == Max({stamp[t] : t \in DOMAIN stamp})
<1>1. stamp' = [stamp EXCEPT ![s] = latest + 1] /\ latest <= MaxRedeploys
      /\ UNCHANGED <<sidecar, packer, loader>>
  BY DEF Redeploy
<1>2. latest \in Nat /\ \A t \in 0 .. NumShards : stamp[t] <= latest
  <2> DEFINE S == {stamp[t] : t \in DOMAIN stamp}
  <2>1. stamp \in [0 .. NumShards -> Nat] /\ \A t \in 0 .. NumShards : stamp[t] <= MaxRedeploys + 1
    BY DEF SidecarInv, Stats
  <2>2. S \in SUBSET Nat /\ S # {} /\ \A x \in S : x <= MaxRedeploys + 1
    BY <2>1
  <2>3. MaxRedeploys + 1 \in Nat
    BY ShardsAssumption
  <2> HIDE DEF S
  <2>4. Max(S) \in S /\ \A y \in S : y <= Max(S)
    BY <2>2, <2>3, GreatestExists
  <2>5. \A t \in 0 .. NumShards : stamp[t] \in S
    BY <2>1 DEF S
  <2> QED
    BY <2>2, <2>4, <2>5 DEF S
<1> HIDE DEF latest
<1>3. stamp \in [0 .. NumShards -> Nat] /\ \A t \in 0 .. NumShards : stamp[t] <= MaxRedeploys + 1
  BY DEF SidecarInv, Stats
<1>4. /\ stamp' \in Stats /\ \A t \in 0 .. NumShards : stamp[t] <= stamp'[t]
      /\ \A t \in 0 .. NumShards : stamp'[t] <= MaxRedeploys + 1
  BY <1>1, <1>2, <1>3, ShardsAssumption DEF Stats
<1>5. ASSUME NEW a \in Stats, AllWithin(a, stamp) PROVE AllWithin(a, stamp')
  BY <1>3, <1>4, <1>5 DEF Stats, AllWithin
<1>6. ASSUME NEW f, Published(f) PROVE Published(f)'
  BY <1>5, <1>6 DEF Published
<1>7. ASSUME NEW p \in Packers PROVE PackerInv(packer[p])'
  <2>1. PackerInv(packer[p]) /\ packer'[p] = packer[p]
    BY <1>1 DEF SidecarInv
  <2> QED
    BY <1>1, <1>5, <2>1 DEF PackerInv
<1>8. LoaderInv(loader)'
  <2>1. LoaderInv(loader)
    BY DEF SidecarInv
  <2> QED
    BY <1>1, <1>6, <2>1 DEF LoaderInv
<1>9. \A r \in RankCounts : sidecar'[r] # NoFile => Published(sidecar[r])'
  BY <1>1, <1>6 DEF SidecarInv
<1> QED
  BY <1>1, <1>4, <1>7, <1>8, <1>9 DEF SidecarInv

\* A packer's step keeps SidecarInv when the packer's new record is sound.
LEMMA PackerKeeps ==
  ASSUME SidecarInv, NEW p \in Packers, NEW rec, packer' = [packer EXCEPT ![p] = rec],
         PackerInv(rec), UNCHANGED <<stamp, sidecar, loader>>
  PROVE  SidecarInv'
<1>1. packer = [q \in Packers |-> packer[q]] /\ \A q \in Packers : PackerInv(packer[q])
  BY DEF SidecarInv
<1>2. DOMAIN packer' = Packers /\ \A q \in Packers : packer'[q] = IF q = p THEN rec ELSE packer[q]
  BY <1>1
<1>3. packer' = [q \in Packers |-> packer'[q]]
  BY <1>1, <1>2
<1>4. ASSUME NEW f, Published(f) PROVE Published(f)'
  BY <1>4 DEF Published
<1>5. ASSUME NEW q, PackerInv(q) PROVE PackerInv(q)'
  BY <1>5 DEF PackerInv
<1>6. \A q \in Packers : PackerInv(packer[q])'
  <2> TAKE q \in Packers
  <2>1. PackerInv(packer'[q])
    BY <1>1, <1>2
  <2> QED
    BY <2>1, <1>5 DEF PackerInv
<1>7. LoaderInv(loader)'
  BY <1>4 DEF SidecarInv, LoaderInv
<1> QED
  BY <1>3, <1>4, <1>6, <1>7 DEF SidecarInv

LEMMA PackBeginKeeps ==
  ASSUME SidecarInv, NEW p \in Packers, NEW ranks, NEW output, NEW force, PackBegin(p, ranks, output, force)
  PROVE  SidecarInv'
<1> DEFINE fresh == [pc |-> "stat", s |-> 1, ranks |-> ranks, output |-> output,
                     stats |-> [NoStats EXCEPT ![0] = stamp[0]],
                     read  |-> [NoStats EXCEPT ![0] = stamp[0]]]
<1>1. stamp \in [0 .. NumShards -> Nat] /\ 0 \in 0 .. NumShards /\ 1 \in 1 .. NumShards
  BY ShardsAssumption DEF SidecarInv, Stats
<1>2. PackerInv(Gone)
  BY DEF PackerInv, Gone
<1>3. PackerInv(fresh)
  <2>1. [NoStats EXCEPT ![0] = stamp[0]] \in Stats
    BY <1>1 DEF Stats, NoStats
  <2>2. AllWithin([NoStats EXCEPT ![0] = stamp[0]], stamp)
    BY <1>1 DEF AllWithin, NoStats
  <2>3. [NoStats EXCEPT ![0] = stamp[0]][0] = stamp[0]
    BY <1>1 DEF NoStats
  <2> QED
    BY <1>1, <2>1, <2>2, <2>3 DEF PackerInv, Shards
<1>4. \E rec \in {Gone, fresh} : packer' = [packer EXCEPT ![p] = rec]
  BY DEF PackBegin
<1>5. UNCHANGED <<stamp, sidecar, loader>>
  BY DEF PackBegin
<1> QED
  BY <1>2, <1>3, <1>4, <1>5, PackerKeeps

\* A shard is stat'ed, or read after it was stat'ed; only the shards before it
\* were read so far.
LEMMA PackShardKeeps ==
  ASSUME SidecarInv, NEW p \in Packers, PackShard(p)
  PROVE  SidecarInv'
<1> DEFINE rec == packer[p]
<1>1. /\ stamp \in Stats /\ PackerInv(rec) /\ rec.pc \in {"stat", "read"}
      /\ UNCHANGED <<stamp, sidecar, loader>>
      /\ \/ rec.pc = "stat" /\ packer' = [packer EXCEPT ![p] = Walk(rec, "stats", "read")]
         \/ rec.pc = "read" /\ packer' = [packer EXCEPT ![p] = Walk(rec, "read", "save")]
  BY DEF SidecarInv, PackShard, StatThenRead
<1> HIDE DEF rec
<1>2. /\ rec.s \in Shards /\ rec.stats \in Stats /\ rec.read \in Stats
      /\ AllWithin(rec.stats, stamp) /\ AllWithin(rec.read, stamp)
      /\ rec.stats[0] <= rec.read[0]
      /\ rec.pc = "read" => Within(rec.stats, rec.read, rec.s)
      /\ rec = [pc |-> rec.pc, s |-> rec.s, ranks |-> rec.ranks, output |-> rec.output,
                stats |-> rec.stats, read |-> rec.read]
  BY <1>1 DEF PackerInv
<1>3. NextShard(rec.s) \in Shards /\ 0 \in 0 .. NumShards /\ rec.s \in 1 .. NumShards
  BY <1>2, ShardsAssumption DEF NextShard, Shards
<1>4. CASE rec.pc = "stat"
  <2> DEFINE to == IF rec.s = NumShards THEN "read" ELSE "stat"
             stats == Stamped(rec.stats, rec.s)
             next == [pc |-> to, s |-> NextShard(rec.s), ranks |-> rec.ranks, output |-> rec.output,
                      stats |-> stats, read |-> rec.read]
  <2>1. Walk(rec, "stats", "read") = next
    BY <1>2, <1>4, WalkPacker
  <2>2. stats \in Stats /\ AllWithin(stats, stamp) /\ stats[0] <= rec.read[0]
    BY <1>1, <1>2, <1>3 DEF Stats, AllWithin, Stamped
  <2> HIDE DEF stats
  <2>3. to = "read" => Within(stats, rec.read, NextShard(rec.s))
    BY <1>2, <2>2, ShardsAssumption DEF Within, NextShard
  <2>4. PackerInv(next)
    BY <1>2, <1>3, <2>2, <2>3 DEF PackerInv
  <2> QED
    BY <1>1, <1>4, <2>1, <2>4, PackerKeeps
<1>5. CASE rec.pc = "read"
  <2> DEFINE to == IF rec.s = NumShards THEN "save" ELSE "read"
             read == Stamped(rec.read, rec.s)
             next == [pc |-> to, s |-> NextShard(rec.s), ranks |-> rec.ranks, output |-> rec.output,
                      stats |-> rec.stats, read |-> read]
  <2>1. Walk(rec, "read", "save") = next
    BY <1>2, <1>5, WalkPacker
  <2>2. /\ read \in Stats /\ AllWithin(read, stamp) /\ rec.stats[0] <= read[0]
        /\ \A t \in 0 .. NumShards : t <= rec.s => rec.stats[t] <= read[t]
    <3>1. read = [t \in 0 .. NumShards |-> IF t = rec.s THEN stamp[t] ELSE rec.read[t]]
      BY <1>1, <1>2, <1>3 DEF Stats, Stamped
    <3> HIDE DEF read
    <3>2. \A t \in 0 .. NumShards : t < rec.s => rec.stats[t] <= rec.read[t]
      BY <1>2, <1>5 DEF Within
    <3>3. \A t \in 0 .. NumShards : rec.stats[t] <= stamp[t] /\ rec.read[t] <= stamp[t]
      BY <1>2 DEF AllWithin
    <3>4. \A t \in 0 .. NumShards : stamp[t] \in Nat /\ rec.read[t] \in Nat
      BY <1>1, <1>2 DEF Stats
    <3> QED
      BY <1>2, <1>3, <3>1, <3>2, <3>3, <3>4, ShardsAssumption DEF Stats, AllWithin
  <2> HIDE DEF read
  <2>3. /\ to = "read" => Within(rec.stats, read, NextShard(rec.s))
        /\ to = "save" => AllWithin(rec.stats, read)
    BY <1>3, <2>2, ShardsAssumption DEF Within, AllWithin, NextShard
  <2>4. PackerInv(next)
    BY <1>2, <1>3, <2>2, <2>3 DEF PackerInv
  <2> QED
    BY <1>1, <1>5, <2>1, <2>4, PackerKeeps
<1> QED
  BY <1>1, <1>4, <1>5

LEMMA PackPublishKeeps ==
  ASSUME SidecarInv, NEW p \in Packers, PackPublish(p)
  PROVE  SidecarInv'
<1> DEFINE f == [fingerprint |-> Fingerprint(packer[p].ranks, packer[p].stats),
                 content     |-> Fingerprint(packer[p].ranks, packer[p].read)]
<1>1. /\ packer[p].pc = "save" /\ packer' = [packer EXCEPT ![p] = Gone] /\ UNCHANGED <<stamp, loader>>
      /\ sidecar' = [sidecar EXCEPT ![packer[p].output] = f]
  BY DEF PackPublish
<1>2. PackerInv(packer[p]) /\ packer = [q \in Packers |-> packer[q]]
      /\ sidecar = [r \in RankCounts |-> sidecar[r]]
  BY DEF SidecarInv
<1>3. Published(f)
  BY <1>1, <1>2 DEF PackerInv, Published, Fingerprint
<1> HIDE DEF f
<1>4. ASSUME NEW g, Published(g) PROVE Published(g)'
  BY <1>1, <1>4 DEF Published
<1>5. DOMAIN sidecar' = RankCounts /\ \A r \in RankCounts : sidecar'[r] \in {f, sidecar[r]}
  BY <1>1, <1>2
<1>6. sidecar' = [r \in RankCounts |-> sidecar'[r]]
  BY <1>1, <1>2, <1>5
<1>7. \A r \in RankCounts : sidecar'[r] # NoFile => Published(sidecar[r])'
  <2> SUFFICES ASSUME NEW r \in RankCounts, sidecar'[r] # NoFile PROVE Published(sidecar[r])'
    OBVIOUS
  <2>1. Published(sidecar'[r])
    BY <1>3, <1>5 DEF SidecarInv
  <2> QED
    BY <1>1, <2>1 DEF Published
<1>8. LoaderInv(loader)'
  BY <1>1, <1>4 DEF SidecarInv, LoaderInv
<1>9. packer' = [q \in Packers |-> packer'[q]] /\ \A q \in Packers : PackerInv(packer[q])'
  <2>1. DOMAIN packer' = Packers /\ \A q \in Packers : packer'[q] \in {Gone, packer[q]}
    BY <1>1, <1>2
  <2>2. packer' = [q \in Packers |-> packer'[q]]
    BY <1>1, <1>2, <2>1
  <2>3. PackerInv(Gone)
    BY DEF PackerInv, Gone
  <2>4. \A q \in Packers : PackerInv(packer'[q])
    BY <2>1, <2>3 DEF SidecarInv
  <2> QED
    BY <1>1, <2>2, <2>4 DEF PackerInv
<1> QED
  BY <1>1, <1>6, <1>7, <1>8, <1>9 DEF SidecarInv

\* The server's step keeps SidecarInv when its new record is sound.
LEMMA LoaderKeeps ==
  ASSUME SidecarInv, LoaderInv(loader'), UNCHANGED <<stamp, sidecar, packer>>
  PROVE  SidecarInv'
<1>1. ASSUME NEW f, Published(f) PROVE Published(f)'
  BY <1>1 DEF Published
<1>2. \A r \in RankCounts : sidecar'[r] # NoFile => Published(sidecar[r])'
  BY <1>1 DEF SidecarInv
<1>3. \A p \in Packers : PackerInv(packer[p])'
  BY DEF SidecarInv, PackerInv
<1>4. LoaderInv(loader)'
  BY <1>1 DEF LoaderInv
<1> QED
  BY <1>2, <1>3, <1>4 DEF SidecarInv

\* The fields of a loader that has begun.
LEMMA LoaderRecord ==
  ASSUME SidecarInv, loader.pc # "new"
  PROVE  /\ loader = [pc |-> loader.pc, s |-> loader.s, ranks |-> loader.ranks, fd |-> loader.fd,
                      from |-> loader.from, stats |-> loader.stats, read |-> loader.read]
         /\ loader.s \in Shards /\ loader.stats \in Stats /\ loader.read \in Stats
         /\ LoaderInv(loader) /\ stamp \in Stats
         /\ NextShard(loader.s) \in Shards
BY ShardsAssumption DEF SidecarInv, LoaderInv, NextShard, Shards

LEMMA LoadOpenKeeps ==
  ASSUME SidecarInv, NEW ranks \in RankCounts, LoadOpen(ranks)
  PROVE  SidecarInv'
<1> DEFINE stats == [NoStats EXCEPT ![0] = stamp[0]]
<1>1. /\ loader' = [pc |-> IF sidecar[ranks] = NoFile THEN "pack" ELSE "resident",
                    s |-> 1, ranks |-> ranks, fd |-> sidecar[ranks], from |-> "shards",
                    stats |-> stats, read |-> stats]
      /\ UNCHANGED <<stamp, sidecar, packer>>
  BY DEF LoadOpen
<1>2. stamp \in [0 .. NumShards -> Nat] /\ 0 \in 0 .. NumShards /\ 1 \in 1 .. NumShards
  BY ShardsAssumption DEF SidecarInv, Stats
<1>3. stats \in Stats /\ stats[0] = stamp[0]
  BY <1>2 DEF Stats, NoStats
<1> HIDE DEF stats
<1>4. sidecar[ranks] # NoFile =>
        Published(sidecar[ranks]) /\ Within(sidecar[ranks].content.stats, stats, 1)
  <2> SUFFICES ASSUME sidecar[ranks] # NoFile
               PROVE  Published(sidecar[ranks]) /\ Within(sidecar[ranks].content.stats, stats, 1)
    OBVIOUS
  <2>1. Published(sidecar[ranks])
    BY DEF SidecarInv
  <2>2. sidecar[ranks].content.stats[0] <= stats[0]
    BY <1>2, <1>3, <2>1 DEF Published, AllWithin
  <2>3. \A t \in 0 .. NumShards : t < 1 => t = 0
    BY ShardsAssumption
  <2> QED
    BY <2>1, <2>2, <2>3 DEF Within
<1>5. LoaderInv(loader')
  BY <1>1, <1>2, <1>3, <1>4 DEF LoaderInv, Shards
<1> QED
  BY <1>1, <1>5, LoaderKeeps

\* The server stats a shard after it opened the sidecar, whose content was read
\* before.
LEMMA LoadStatKeeps ==
  ASSUME SidecarInv, LoadStat
  PROVE  SidecarInv'
<1> DEFINE rec == loader
           to == IF rec.s = NumShards THEN "check" ELSE "stat"
           stats == Stamped(rec.stats, rec.s)
           content == rec.fd.content.stats
<1>1. rec.pc = "stat" /\ loader' = Walk(rec, "stats", "check") /\ UNCHANGED <<stamp, sidecar, packer>>
  BY DEF LoadStat
<1>2. /\ loader' = [pc |-> to, s |-> NextShard(rec.s), ranks |-> rec.ranks, fd |-> rec.fd,
                    from |-> rec.from, stats |-> stats, read |-> rec.read]
  BY <1>1, LoaderRecord, WalkLoader
<1>3. Published(rec.fd) /\ Within(content, rec.stats, rec.s) /\ rec.from = "shards"
  BY <1>1, LoaderRecord DEF LoaderInv
<1>4. /\ stats \in Stats
      /\ \A t \in 0 .. NumShards : t <= rec.s => content[t] <= stats[t]
  <2>1. stats = [t \in 0 .. NumShards |-> IF t = rec.s THEN stamp[t] ELSE rec.stats[t]]
    BY <1>1, LoaderRecord, ShardsAssumption DEF Stats, Stamped, Shards
  <2>2. /\ \A t \in 0 .. NumShards : content[t] <= stamp[t] /\ content[t] \in Nat
        /\ \A t \in 0 .. NumShards : t < rec.s => content[t] <= rec.stats[t]
    BY <1>3 DEF Published, AllWithin, Within, Stats
  <2>3. /\ \A t \in 0 .. NumShards : stamp[t] \in Nat /\ rec.stats[t] \in Nat
        /\ rec.s \in 1 .. NumShards
    BY <1>1, LoaderRecord DEF Stats, Shards
  <2> HIDE DEF stats, content, rec
  <2> QED
    BY <2>1, <2>2, <2>3, ShardsAssumption DEF Stats
<1>5. rec.s \in 1 .. NumShards /\ NextShard(rec.s) \in Shards /\ rec.read \in Stats
  BY <1>1, LoaderRecord DEF Shards
<1> HIDE DEF rec, stats
<1>6. /\ to = "stat" => Within(content, stats, NextShard(rec.s))
      /\ to = "check" => AllWithin(content, stats)
  BY <1>4, <1>5, ShardsAssumption DEF Within, AllWithin, NextShard
<1>7. LoaderInv(loader')
  BY <1>2, <1>3, <1>4, <1>5, <1>6 DEF LoaderInv
<1> QED
  BY <1>1, <1>7, LoaderKeeps

\* Stats are functions: they are equal when they agree on every shard.
LEMMA SameStats ==
  ASSUME NEW a \in Stats, NEW b \in Stats, \A t \in 0 .. NumShards : a[t] = b[t]
  PROVE  a = b
<1>1. a = [t \in 0 .. NumShards |-> a[t]] /\ b = [t \in 0 .. NumShards |-> b[t]]
  BY Zenon DEF Stats
<1>2. [t \in 0 .. NumShards |-> a[t]] = [t \in 0 .. NumShards |-> b[t]]
  BY Zenon
<1> QED
  BY <1>1, <1>2, Zenon

\* Stats that agree before the shards were read and after the sidecar was
\* opened leave no room for other bytes in between.
LEMMA LoadMapKeeps ==
  ASSUME SidecarInv, LoadMap
  PROVE  SidecarInv'
<1> DEFINE rec == loader
<1>1. /\ rec.pc = "map" /\ UNCHANGED <<stamp, sidecar, packer>>
      /\ loader' = [rec EXCEPT !.from = "sidecar", !.fd = rec.fd.content,
                      !.pc = IF rec.fd.content.ranks = rec.ranks THEN "done" ELSE "failed"]
  BY DEF LoadMap
<1>2. /\ rec = [pc |-> rec.pc, s |-> rec.s, ranks |-> rec.ranks, fd |-> rec.fd,
                from |-> rec.from, stats |-> rec.stats, read |-> rec.read]
      /\ rec.s \in Shards /\ rec.stats \in Stats /\ rec.read \in Stats
      /\ Published(rec.fd) /\ AllWithin(rec.fd.content.stats, rec.stats)
      /\ rec.fd.fingerprint = Fingerprint(rec.ranks, rec.stats)
  BY <1>1, LoaderRecord DEF LoaderInv
<1> HIDE DEF rec
<1>3. rec.fd.fingerprint.stats = rec.stats
  BY <1>2 DEF Fingerprint
<1>4. rec.fd.content.stats = rec.stats
  <2>1. /\ rec.fd.content.stats \in Stats
        /\ AllWithin(rec.stats, rec.fd.content.stats) /\ AllWithin(rec.fd.content.stats, rec.stats)
    BY <1>2, <1>3 DEF Published
  <2>2. ASSUME NEW a \in Stats, NEW b \in Stats, AllWithin(a, b), AllWithin(b, a) PROVE a = b
    <3>1. \A t \in 0 .. NumShards : a[t] = b[t]
      BY <2>2 DEF AllWithin, Stats
    <3> QED
      BY <3>1, SameStats
  <2> QED
    BY <1>2, <2>1, <2>2
<1>5. rec.fd.content = Fingerprint(rec.fd.content.ranks, rec.stats)
  BY <1>2, <1>4 DEF Published
<1>6. loader' = [pc |-> IF rec.fd.content.ranks = rec.ranks THEN "done" ELSE "failed",
                 s |-> rec.s, ranks |-> rec.ranks, fd |-> rec.fd.content,
                 from |-> "sidecar", stats |-> rec.stats, read |-> rec.read]
  BY <1>1, <1>2
<1>7. LoaderInv(loader')
  BY <1>2, <1>5, <1>6 DEF LoaderInv
<1> QED
  BY <1>1, <1>7, LoaderKeeps

LEMMA LoadStepKeeps ==
  ASSUME SidecarInv, LoadStep
  PROVE  SidecarInv'
<1>1. ASSUME NEW warm \in BOOLEAN, LoadResidency(warm) PROVE SidecarInv'
  <2>1. /\ loader.pc = "resident" /\ UNCHANGED <<stamp, sidecar, packer>>
        /\ loader' = [loader EXCEPT !.pc = IF warm THEN "stat" ELSE "pack"]
    BY <1>1 DEF LoadResidency
  <2>2. loader' = [pc |-> IF warm THEN "stat" ELSE "pack", s |-> loader.s, ranks |-> loader.ranks,
                   fd |-> loader.fd, from |-> loader.from, stats |-> loader.stats, read |-> loader.read]
    BY <2>1, LoaderRecord
  <2>3. LoaderInv(loader')
    BY <2>1, <2>2, LoaderRecord DEF LoaderInv
  <2> QED
    BY <2>1, <2>3, LoaderKeeps
<1>2. ASSUME LoadCheck PROVE SidecarInv'
  <2>1. /\ loader.pc = "check" /\ UNCHANGED <<stamp, sidecar, packer>>
        /\ loader' = [loader EXCEPT !.pc = IF FingerprintMatches THEN "map" ELSE "pack"]
    BY <1>2 DEF LoadCheck
  <2>2. loader' = [pc |-> IF FingerprintMatches THEN "map" ELSE "pack", s |-> loader.s,
                   ranks |-> loader.ranks, fd |-> loader.fd, from |-> loader.from,
                   stats |-> loader.stats, read |-> loader.read]
    BY <2>1, LoaderRecord
  <2>3. LoaderInv(loader')
    BY <2>1, <2>2, LoaderRecord DEF LoaderInv, FingerprintMatches
  <2> QED
    BY <2>1, <2>3, LoaderKeeps
<1>3. ASSUME LoadFromShards PROVE SidecarInv'
  <2> DEFINE to == IF loader.s = NumShards THEN "done" ELSE "pack"
             read == Stamped(loader.read, loader.s)
  <2>1. /\ loader.pc = "pack" /\ UNCHANGED <<stamp, sidecar, packer>>
        /\ loader' = Walk(loader, "read", "done")
    BY <1>3 DEF LoadFromShards
  <2>2. loader' = [pc |-> to, s |-> NextShard(loader.s), ranks |-> loader.ranks, fd |-> loader.fd,
                   from |-> loader.from, stats |-> loader.stats, read |-> read]
    BY <2>1, LoaderRecord, WalkLoader
  <2>3. read \in Stats
    BY <2>1, LoaderRecord, ShardsAssumption DEF Stats, Stamped, Shards
  <2> HIDE DEF read
  <2>4. LoaderInv(loader')
    BY <2>1, <2>2, <2>3, LoaderRecord DEF LoaderInv
  <2> QED
    BY <2>1, <2>4, LoaderKeeps
<1> QED
  BY <1>1, <1>2, <1>3, LoadStatKeeps, LoadMapKeeps DEF LoadStep

\* Weights mapped from a sidecar are those that packing the files the server
\* looked at would give, whatever is redeployed and whoever prepacks meanwhile,
\* for any number of shards, commands and rank counts.
THEOREM SidecarFresh == WeightsSpec => []SidecarIsFresh
<1>1. WeightsInit => SidecarInv
  <2> SUFFICES ASSUME PInit PROVE SidecarInv
    BY DEF WeightsInit
  <2>1. stamp \in Stats /\ \A t \in 0 .. NumShards : stamp[t] <= MaxRedeploys + 1
    BY ShardsAssumption DEF PInit, Stats
  <2> QED
    BY <2>1 DEF PInit, SidecarInv, PackerInv, LoaderInv
<1>2. SidecarInv /\ [WeightsNext]_allVars => SidecarInv'
  <2> SUFFICES ASSUME SidecarInv, [PNext]_pvars PROVE SidecarInv'
    BY DEF WeightsNext, allVars
  <2>1. CASE UNCHANGED pvars
    BY <2>1, LoaderKeeps DEF pvars, SidecarInv
  <2>2. ASSUME NEW p \in Packers, PackDies(p) PROVE SidecarInv'
    <3>1. PackerInv(Gone)
      BY DEF PackerInv, Gone
    <3> QED
      BY <2>2, <3>1, PackerKeeps DEF PackDies
  <2> QED
    BY <2>1, <2>2, RedeployKeeps, PackBeginKeeps, PackShardKeeps, PackPublishKeeps, LoadOpenKeeps,
       LoadStepKeeps DEF PNext
<1>3. SidecarInv => SidecarIsFresh
  BY DEF SidecarInv, LoaderInv, SidecarIsFresh
<1> QED
  BY <1>1, <1>2, <1>3, PTL DEF WeightsSpec

-----------------------------------------------------------------------------
(***************************************************************************)
(* The conversion of a checkpoint: first the names and the tensors that a  *)
(* conversion of one source writes.                                        *)
(***************************************************************************)
\* The tensors that keep their name, and those of them that become INT8.
Kept(src) == {n \in DOMAIN src.map : ~DropsScale(n, src)}
Int8(src) == {n \in Kept(src) : HasScale(n, src) /\ IsServingQuantized(n.mod, src.config)}

LEMMA NameParts ==
  ASSUME NEW src \in Sources, NEW n \in DOMAIN src.map
  PROVE  /\ n.part \in {"weight", "scale"}
         /\ n.part = "weight" => n = Weight(n.mod)
         /\ n.part = "scale" => n = Scale(n.mod)
<1>1. n \in [mod : [class : ModuleClass, layer : Nat], part : {"weight", "scale"}]
  BY SourcesAssumption
<1> QED
  BY <1>1 DEF Weight, Scale

LEMMA PartNames ==
  ASSUME NEW m
  PROVE  /\ Weight(m).mod = m /\ Weight(m).part = "weight"
         /\ Scale(m).mod = m /\ Scale(m).part = "scale"
BY DEF Weight, Scale

\* A weight keeps its name; a scale that is made again had none of its own.
LEMMA KeptNames ==
  ASSUME NEW src \in Sources
  PROVE  /\ \A w \in DOMAIN src.map : w.part = "weight" => w \in Kept(src)
         /\ \A w \in Int8(src) : /\ w \in DOMAIN src.map /\ w.part = "weight" /\ w = Weight(w.mod)
                                  /\ Scale(w.mod) \notin Kept(src)
<1>1. ASSUME NEW w \in Int8(src)
      PROVE  /\ w \in DOMAIN src.map /\ w.part = "weight" /\ w = Weight(w.mod)
             /\ Scale(w.mod) \notin Kept(src)
  <2>1. w \in DOMAIN src.map /\ w.part = "weight"
    BY DEF Int8, Kept, HasScale
  <2>2. w = Weight(w.mod)
    BY <2>1, NameParts
  <2>3. DropsScale(Scale(w.mod), src)
    BY <2>1, <2>2, PartNames DEF DropsScale
  <2> QED
    BY <2>1, <2>2, <2>3 DEF Kept
<1> QED
  BY <1>1 DEF Kept, DropsScale

LEMMA IndexEntries ==
  ASSUME NEW src \in Sources
  PROVE  /\ DOMAIN BuildOutputWeightMap(src) = Kept(src) \cup {Scale(w.mod) : w \in Int8(src)}
         /\ \A n \in Kept(src) : BuildOutputWeightMap(src)[n] = src.map[n]
         /\ \A w \in Int8(src) : BuildOutputWeightMap(src)[Scale(w.mod)] = src.map[w]
<1> DEFINE made == {Scale(w.mod) : w \in Int8(src)}
<1>1. BuildOutputWeightMap(src)
      = [n \in Kept(src) \cup made |-> IF n \in made THEN src.map[Weight(n.mod)] ELSE src.map[n]]
  BY DEF BuildOutputWeightMap, Kept, Int8
<1>2. ASSUME NEW n \in Kept(src) PROVE n \notin made
  BY KeptNames
<1>3. ASSUME NEW w \in Int8(src) PROVE Scale(w.mod) \in made /\ Weight(Scale(w.mod).mod) = w
  BY KeptNames, PartNames
<1> HIDE DEF made
<1>4. \A n \in Kept(src) : BuildOutputWeightMap(src)[n] = src.map[n]
  BY <1>1, <1>2
<1>5. \A w \in Int8(src) : BuildOutputWeightMap(src)[Scale(w.mod)] = src.map[w]
  BY <1>1, <1>3
<1> QED
  BY <1>1, <1>4, <1>5 DEF made

\* What is saved in a shard is what the index says is there.
LEMMA SavedNames ==
  ASSUME NEW src \in Convertible, NEW s \in ShardNames(src)
  PROVE  DOMAIN ConvertShard(src, s)
         = {n \in DOMAIN BuildOutputWeightMap(src) : BuildOutputWeightMap(src)[n] = s}
<1> DEFINE loaded == {n \in DOMAIN src.files[s] : ~DropsScale(n, src)}
           int8 == {n \in loaded : HasScale(n, src) /\ IsServingQuantized(n.mod, src.config)}
           index == BuildOutputWeightMap(src)
<1>1. DOMAIN src.files[s] = {n \in DOMAIN src.map : src.map[n] = s} /\ src \in Sources
  BY DEF Convertible, SpecsValid
<1>2. loaded = {n \in Kept(src) : src.map[n] = s} /\ int8 = {n \in Int8(src) : src.map[n] = s}
  BY <1>1 DEF Kept, Int8
<1>3. DOMAIN ConvertShard(src, s) = loaded \cup {Scale(n.mod) : n \in int8}
  BY DEF ConvertShard
<1> HIDE DEF loaded, int8
<1>4. /\ DOMAIN index = Kept(src) \cup {Scale(w.mod) : w \in Int8(src)}
      /\ \A n \in Kept(src) : index[n] = src.map[n]
      /\ \A w \in Int8(src) : index[Scale(w.mod)] = src.map[w]
  BY <1>1, IndexEntries
<1> HIDE DEF index
<1>5. loaded \cup {Scale(n.mod) : n \in int8} = {n \in DOMAIN index : index[n] = s}
  BY <1>2, <1>4
<1> QED
  BY <1>3, <1>5 DEF index

\* The index leads to shards of the source, and to all its modules.
LEMMA IndexComplete ==
  ASSUME NEW src \in Convertible
  PROVE  /\ Range(BuildOutputWeightMap(src)) \subseteq ShardNames(src)
         /\ {n.mod : n \in DOMAIN BuildOutputWeightMap(src)} = {n.mod : n \in DOMAIN src.map}
<1> DEFINE index == BuildOutputWeightMap(src)
<1>1. /\ DOMAIN index = Kept(src) \cup {Scale(w.mod) : w \in Int8(src)}
      /\ \A n \in Kept(src) : index[n] = src.map[n]
      /\ \A w \in Int8(src) : index[Scale(w.mod)] = src.map[w]
      /\ src \in Sources
  BY IndexEntries DEF Convertible
<1> HIDE DEF index
<1>2. Kept(src) \subseteq DOMAIN src.map /\ Int8(src) \subseteq DOMAIN src.map
  BY DEF Kept, Int8
<1>3. \A w : Scale(w.mod).mod = w.mod
  BY PartNames
<1>4. ASSUME NEW n \in DOMAIN src.map PROVE \E k \in DOMAIN index : k.mod = n.mod
  <2>1. CASE n \in Kept(src)
    BY <1>1, <2>1
  <2>2. CASE n \notin Kept(src)
    <3>1. Weight(n.mod) \in DOMAIN src.map
      BY <2>2 DEF Kept, DropsScale
    <3>2. Weight(n.mod) \in Kept(src) /\ Weight(n.mod).mod = n.mod
      BY <1>1, <3>1, KeptNames, PartNames
    <3> QED
      BY <1>1, <3>2
  <2> QED
    BY <2>1, <2>2
<1>5. \A n \in DOMAIN index : \E k \in DOMAIN src.map : k.mod = n.mod
  BY <1>1, <1>2, <1>3
<1>6. \A n \in DOMAIN index : index[n] \in ShardNames(src)
  BY <1>1, <1>2 DEF ShardNames, Range
<1> QED
  BY <1>4, <1>5, <1>6 DEF Range, index

\* A dequantized weight is BF16 exactly when the config does not call it INT8,
\* or when it is what _quantization_ignore leaves out.
LEMMA IgnoredWeights ==
  ASSUME NEW src \in Convertible, NEW s \in ShardNames(src),
         NEW n \in DOMAIN ConvertShard(src, s), HasScale(n, src)
  PROVE  n.mod \in QuantizationIgnore(src.config) \cup LeftOutOfIgnore(src.config)
           <=> ConvertShard(src, s)[n].dtype = "BF16"
<1> DEFINE loaded == {k \in DOMAIN src.files[s] : ~DropsScale(k, src)}
           int8 == {k \in loaded : HasScale(k, src) /\ IsServingQuantized(k.mod, src.config)}
           m == n.mod
           mtp == MtpLayerCount(src.config)
           named == QuantizationIgnore(src.config) \cup LeftOutOfIgnore(src.config)
<1>1. DOMAIN src.files[s] = {k \in DOMAIN src.map : src.map[k] = s} /\ src \in Sources
  BY DEF Convertible, SpecsValid
<1>2. n \in loaded
  <2>1. \A k \in int8 : Scale(k.mod).part = "scale"
    BY PartNames
  <2>2. DOMAIN ConvertShard(src, s) = loaded \cup {Scale(k.mod) : k \in int8}
    BY DEF ConvertShard
  <2>3. n.part = "weight"
    BY DEF HasScale
  <2> HIDE DEF loaded, int8
  <2> QED
    BY <2>1, <2>2, <2>3
<1>3. ConvertShard(src, s)[n].dtype = IF IsServingQuantized(m, src.config) THEN "I8" ELSE "BF16"
  BY <1>2 DEF ConvertShard
<1>4. n \in DOMAIN src.map /\ m \in [class : ModuleClass, layer : Nat]
  BY <1>1, <1>2, SourcesAssumption
<1>5. \/ m.class \in {"layer", "indexer"} /\ IsServingQuantized(m, src.config)
      \/ m.class = "attn" /\ m.layer \in 0 .. src.config.layers - 1
      \/ m.class \in {"mtp", "mtpattn"} /\ m.layer \in 0 .. mtp - 1
      \/ m.class = "main" /\ m.layer = 0
  BY <1>1, <1>4, FormatAssumption
<1>6. mtp \in Nat \ {0}
  BY <1>1, SourcesAssumption DEF MtpLayerCount, Convertible, ValidateSource, TargetsValid
<1>7. m.class = "mtp" => IsServingQuantized(m, src.config)
  <2> HIDE DEF m
  <2>1. m.class = "mtp" => m.layer < mtp
    BY <1>4, <1>5, <1>6
  <2> QED
    BY <2>1 DEF IsServingQuantized
<1>8. m.class \in {"attn", "mtpattn", "main"} => ~ IsServingQuantized(m, src.config)
  BY DEF IsServingQuantized
<1>9. m = [class |-> m.class, layer |-> m.layer]
  BY <1>4
<1>10. m.class \in {"layer", "indexer", "mtp"} => m \notin named
  <2> HIDE DEF m
  <2> QED
    BY DEF QuantizationIgnore, LeftOutOfIgnore
<1>11. m.class \in {"attn", "mtpattn", "main"} => m \in named
  <2> HIDE DEF m
  <2>1. CASE m.class = "attn"
    BY <1>5, <1>9, <2>1 DEF QuantizationIgnore
  <2>2. CASE m.class = "mtpattn"
    BY <1>5, <1>9, <2>2 DEF QuantizationIgnore
  <2>3. CASE m.class = "main"
    <3>1. CASE mtp = 1
      BY <1>5, <1>9, <2>3, <3>1 DEF LeftOutOfIgnore
    <3>2. CASE mtp > 1
      BY <1>5, <1>9, <2>3, <3>2 DEF QuantizationIgnore
    <3> QED
      BY <1>6, <3>1, <3>2
  <2> QED
    BY <2>1, <2>2, <2>3
<1> QED
  BY <1>3, <1>5, <1>7, <1>8, <1>10, <1>11

(***************************************************************************)
(* ConversionInv is inductive.                                             *)
(***************************************************************************)
LEMMA LeastExists ==
  ASSUME NEW S \in SUBSET Nat, S # {}
  PROVE  Min(S) \in S /\ \A y \in S : Min(S) <= y
<1>1. \E m \in S : \A y \in S : ~(<<y, m>> \in OpToRel(<, Nat))
  BY NatLessThanWellFounded, WFMin, Zenon
<1>2. \E m \in S : \A y \in S : ~(y < m)
  BY <1>1 DEF OpToRel
<1>3. \E m \in S : \A y \in S : m <= y
  BY <1>2
<1> QED
  BY <1>3 DEF Min

LEMMA ConversionInitially == CInit => ConversionInv
<1> SUFFICES ASSUME CInit PROVE ConversionInv
  OBVIOUS
<1>1. out = NoOutput /\ DOMAIN out.shards = {}
  BY DEF CInit, NoOutput
<1>2. OutputInv
  BY <1>1 DEF OutputInv, NoOutput
<1>3. RunInv /\ ShardsOfOneSource
  BY <1>1 DEF CInit, RunInv, Idle, ShardsOfOneSource
<1> QED
  BY <1>2, <1>3 DEF ConversionInv, CInit

\* A step that leaves the output alone.
LEMMA OutputStays ==
  ASSUME ConversionInv, out' = out, source' \in Sources, RunInv'
  PROVE  ConversionInv'
<1>1. OutputInv'
  BY DEF ConversionInv, OutputInv
<1>2. ShardsOfOneSource'
  BY DEF ConversionInv, ShardsOfOneSource
<1> QED
  BY <1>1, <1>2 DEF ConversionInv

LEMMA IdleRun ==
  ASSUME NEW exit, conv' = Idle(exit)
  PROVE  RunInv'
BY DEF Idle, RunInv

LEMMA StartKeeps ==
  ASSUME ConversionInv, NEW resume \in BOOLEAN, NEW dryRun \in BOOLEAN, NEW noSpec \in BOOLEAN,
         Start(resume, dryRun, noSpec)
  PROVE  ConversionInv'
<1> DEFINE run(pc) == [pc |-> pc, exit |-> "none", resume |-> resume, noSpec |-> noSpec,
                       todo |-> ShardNames(source)]
<1>1. source' = source /\ source \in Sources
  BY DEF Start, ConversionInv
<1>2. CASE out' = out /\ \E exit : conv' = Idle(exit)
  BY <1>1, <1>2, IdleRun, OutputStays
<1>3. CASE /\ out' = out /\ conv' = run("aux") /\ out.exists
           /\ ValidateSource(source) /\ SpecsValid(source)
           /\ out.marker # Absent /\ ValidateConversionMarker(source, out.marker)
  <2>1. source \in Convertible /\ out.marker.source = source
    BY <1>1, <1>3 DEF Convertible, ValidateConversionMarker
  <2>2. RunInv'
    BY <1>1, <1>3, <2>1 DEF RunInv
  <2> QED
    BY <1>1, <1>3, <2>2, OutputStays
<1>4. CASE /\ out' = [out EXCEPT !.exists = TRUE] /\ conv' = run("marker") /\ ~ out.exists
           /\ ValidateSource(source) /\ SpecsValid(source)
  <2>1. /\ out' = [exists |-> TRUE, marker |-> out.marker, aux |-> out.aux,
                   shards |-> out.shards, config |-> out.config, index |-> out.index]
        /\ out.marker = Absent
    BY <1>4 DEF ConversionInv, OutputInv
  <2>2. OutputInv' /\ ShardsOfOneSource'
    BY <2>1 DEF ConversionInv, OutputInv, ShardsOfOneSource
  <2>3. source \in Convertible
    BY <1>1, <1>4 DEF Convertible
  <2>4. RunInv'
    BY <1>1, <1>4, <2>1, <2>3 DEF RunInv
  <2> QED
    BY <1>1, <2>2, <2>4 DEF ConversionInv
<1> HIDE DEF run
<1>5. \/ out' = out /\ \E exit : conv' = Idle(exit)
      \/ /\ out' = out /\ conv' = run("aux") /\ out.exists
         /\ ValidateSource(source) /\ SpecsValid(source)
         /\ out.marker # Absent /\ ValidateConversionMarker(source, out.marker)
      \/ /\ out' = [out EXCEPT !.exists = TRUE] /\ conv' = run("marker") /\ ~ out.exists
         /\ ValidateSource(source) /\ SpecsValid(source)
  BY DEF Start, run
<1> QED
  BY <1>2, <1>3, <1>4, <1>5

LEMMA WriteMarkerKeeps ==
  ASSUME ConversionInv, WriteMarker
  PROVE  ConversionInv'
<1> DEFINE marker == [source |-> source, complete |-> FALSE]
<1>1. /\ source' = source /\ source \in Sources /\ source \in Convertible
      /\ conv.pc = "marker" /\ out.marker = Absent /\ out.exists
  BY DEF WriteMarker, ConversionInv, RunInv
<1>2. out' = [exists |-> out.exists, marker |-> marker, aux |-> out.aux,
              shards |-> out.shards, config |-> out.config, index |-> out.index]
  BY DEF WriteMarker, ConversionInv, OutputInv
<1>3. marker # Absent /\ marker \in [source : Convertible, complete : BOOLEAN]
      /\ marker.source = source /\ marker.complete = FALSE
  BY <1>1, MarkerAssumption
<1> HIDE DEF marker
<1>4. DOMAIN out.shards = {} /\ out.config = Absent /\ out.index = Absent
  BY <1>1 DEF ConversionInv, OutputInv
<1>5. OutputInv' /\ ShardsOfOneSource'
  BY <1>1, <1>2, <1>3, <1>4 DEF OutputInv, ShardsOfOneSource
<1>6. RunInv'
  <2>1. conv' = [pc |-> "aux", exit |-> conv.exit, resume |-> conv.resume,
                 noSpec |-> conv.noSpec, todo |-> conv.todo]
    BY <1>1 DEF WriteMarker, ConversionInv, RunInv
  <2> QED
    BY <1>1, <1>2, <1>3, <2>1 DEF ConversionInv, RunInv
<1> QED
  BY <1>1, <1>5, <1>6 DEF ConversionInv

LEMMA CopyAuxiliaryFilesKeeps ==
  ASSUME ConversionInv, CopyAuxiliaryFiles
  PROVE  ConversionInv'
<1>1. source' = source /\ source \in Sources /\ conv.pc = "aux"
  BY DEF CopyAuxiliaryFiles, ConversionInv
<1>2. PICK aux : out' = [exists |-> out.exists, marker |-> out.marker, aux |-> aux,
                         shards |-> out.shards, config |-> out.config, index |-> out.index]
  BY DEF CopyAuxiliaryFiles, ConversionInv, OutputInv
<1>3. OutputInv' /\ ShardsOfOneSource'
  BY <1>2 DEF ConversionInv, OutputInv, ShardsOfOneSource
<1>4. conv' = [pc |-> "shard", exit |-> conv.exit, resume |-> conv.resume,
               noSpec |-> conv.noSpec, todo |-> conv.todo]
  BY <1>1 DEF CopyAuxiliaryFiles, ConversionInv, RunInv
<1>5. RunInv'
  BY <1>1, <1>2, <1>4 DEF ConversionInv, RunInv
<1> QED
  BY <1>1, <1>3, <1>5 DEF ConversionInv

\* The shard the loop is at is one of the source.
LEMMA ShardAtFacts ==
  ASSUME ConversionInv, conv.pc # "idle", conv.todo # {}
  PROVE  ShardAt \in conv.todo /\ ShardAt \in ShardNames(source)
<1>1. conv.todo \subseteq ShardNames(source) /\ source \in Sources
  BY DEF ConversionInv, RunInv
<1>2. ShardNames(source) \subseteq Nat
  BY <1>1, SourcesAssumption DEF ShardNames
<1>3. conv.todo \in SUBSET Nat
  BY <1>1, <1>2
<1>4. Min(conv.todo) \in conv.todo
  BY <1>3, LeastExists
<1> QED
  BY <1>1, <1>4 DEF ShardAt

LEMMA VisitShardKeeps ==
  ASSUME ConversionInv, VisitShard
  PROVE  ConversionInv'
<1> DEFINE s == ShardAt
<1>1. /\ source' = source /\ source \in Sources /\ out' = out
      /\ conv.pc = "shard" /\ conv.todo # {}
  BY DEF VisitShard, ConversionInv
<1>2. s \in conv.todo /\ s \in ShardNames(source)
  BY <1>1, ShardAtFacts
<1>6. \/ s \notin DOMAIN out.shards /\ conv' = [conv EXCEPT !.pc = "publish"]
      \/ s \in DOMAIN out.shards /\ conv' = [conv EXCEPT !.todo = conv.todo \ {s}]
      \/ conv' = Idle("error")
  BY DEF VisitShard
<1> HIDE DEF s
<1>3. CASE s \notin DOMAIN out.shards /\ conv' = [conv EXCEPT !.pc = "publish"]
  <2>1. conv' = [pc |-> "publish", exit |-> conv.exit, resume |-> conv.resume,
                 noSpec |-> conv.noSpec, todo |-> conv.todo]
    BY <1>1, <1>3 DEF ConversionInv, RunInv
  <2>2. RunInv'
    BY <1>1, <2>1 DEF ConversionInv, RunInv
  <2> QED
    BY <1>1, <2>2, OutputStays
<1>4. CASE s \in DOMAIN out.shards /\ conv' = [conv EXCEPT !.todo = conv.todo \ {s}]
  <2>1. conv' = [pc |-> "shard", exit |-> conv.exit, resume |-> conv.resume,
                 noSpec |-> conv.noSpec, todo |-> conv.todo \ {s}]
    BY <1>1, <1>4 DEF ConversionInv, RunInv
  <2>2. RunInv'
    BY <1>1, <1>4, <2>1 DEF ConversionInv, RunInv
  <2> QED
    BY <1>1, <2>2, OutputStays
<1>5. CASE conv' = Idle("error")
  BY <1>1, <1>5, IdleRun, OutputStays
<1> QED
  BY <1>3, <1>4, <1>5, <1>6

LEMMA PublishShardKeeps ==
  ASSUME ConversionInv, PublishShard
  PROVE  ConversionInv'
<1> DEFINE s == ShardAt
           file == [source |-> source, tensors |-> ConvertShard(source, s)]
           shards == [t \in DOMAIN out.shards \cup {s} |-> IF t = s THEN file ELSE out.shards[t]]
<1>1. /\ source' = source /\ source \in Sources /\ conv.pc = "publish" /\ conv.todo # {}
      /\ out.marker # Absent /\ out.marker.source = source
  BY DEF PublishShard, ConversionInv, RunInv
<1>2. s \in conv.todo /\ s \in ShardNames(source)
  BY <1>1, ShardAtFacts
<1>3. out' = [exists |-> out.exists, marker |-> out.marker, aux |-> out.aux,
              shards |-> shards, config |-> out.config, index |-> out.index]
  <2>1. out' = [out EXCEPT !.shards = shards]
    BY DEF PublishShard
  <2> HIDE DEF shards
  <2> QED
    BY <2>1 DEF ConversionInv, OutputInv
<1>4. conv' = [pc |-> "shard", exit |-> conv.exit, resume |-> conv.resume,
               noSpec |-> conv.noSpec, todo |-> conv.todo \ {s}]
  <2>1. conv' = [conv EXCEPT !.pc = "shard", !.todo = conv.todo \ {s}]
    BY DEF PublishShard
  <2> HIDE DEF s
  <2> QED
    BY <1>1, <2>1 DEF ConversionInv, RunInv
<1>5. DOMAIN shards = DOMAIN out.shards \cup {s}
  OBVIOUS
<1>6. \A t \in DOMAIN shards : shards[t] = [source |-> source, tensors |-> ConvertShard(source, t)]
  BY <1>1 DEF ConversionInv, ShardsOfOneSource
<1> HIDE DEF s, shards
<1>7. ShardsOfOneSource'
  BY <1>1, <1>3, <1>6 DEF ShardsOfOneSource
<1>8. OutputInv'
  BY <1>1, <1>2, <1>3, <1>5 DEF ConversionInv, OutputInv
<1>9. RunInv'
  BY <1>1, <1>2, <1>3, <1>4, <1>5 DEF ConversionInv, RunInv
<1> QED
  BY <1>1, <1>7, <1>8, <1>9 DEF ConversionInv

\* With no shard left to visit, all are published.
LEMMA AllPublished ==
  ASSUME ConversionInv, conv.pc \notin {"idle", "marker"}, conv.todo = {}
  PROVE  /\ out.marker # Absent /\ out.marker.source = source
         /\ DOMAIN out.shards = ShardNames(source)
BY DEF ConversionInv, RunInv, OutputInv

LEMMA ConfigKeeps ==
  ASSUME ConversionInv, TruncateConfig \/ WriteConfig
  PROVE  ConversionInv'
<1>1. source' = source /\ source \in Sources /\ conv.pc \in {"shard", "config"} /\ conv.todo = {}
  BY DEF TruncateConfig, WriteConfig, ConversionInv, RunInv
<1>2. PICK config, pc :
        /\ out' = [exists |-> out.exists, marker |-> out.marker, aux |-> out.aux,
                   shards |-> out.shards, config |-> config, index |-> out.index]
        /\ conv' = [pc |-> pc, exit |-> conv.exit, resume |-> conv.resume,
                    noSpec |-> conv.noSpec, todo |-> conv.todo]
        /\ \/ pc = "config" /\ config = Torn
           \/ pc = "size" /\ config \in OutputConfigs(source)
  <2>1. CASE TruncateConfig
    BY <1>1, <2>1 DEF TruncateConfig, ConversionInv, OutputInv, RunInv
  <2>2. CASE WriteConfig
    <3>1. BuildOutputConfig(source.config, conv.noSpec) \in OutputConfigs(source)
      BY <1>1 DEF OutputConfigs, ConversionInv, RunInv
    <3> QED
      BY <1>1, <2>2, <3>1 DEF WriteConfig, ConversionInv, OutputInv, RunInv
  <2> QED
    BY <2>1, <2>2
<1>3. /\ out.marker # Absent /\ out.marker.source = source
      /\ DOMAIN out.shards = ShardNames(source)
  BY <1>1, AllPublished
<1>4. OutputInv'
  BY <1>1, <1>2, <1>3 DEF ConversionInv, OutputInv
<1>5. ShardsOfOneSource'
  BY <1>2 DEF ConversionInv, ShardsOfOneSource
<1>6. RunInv'
  BY <1>1, <1>2, <1>3 DEF ConversionInv, RunInv
<1> QED
  BY <1>1, <1>4, <1>5, <1>6 DEF ConversionInv

LEMMA IndexKeeps ==
  ASSUME ConversionInv, TruncateIndex \/ WriteIndex
  PROVE  ConversionInv'
<1>1. source' = source /\ source \in Sources /\ conv.pc \in {"size", "index"} /\ conv.todo = {}
  BY DEF TruncateIndex, WriteIndex, ConversionInv, RunInv
<1>2. PICK index, pc :
        /\ out' = [exists |-> out.exists, marker |-> out.marker, aux |-> out.aux,
                   shards |-> out.shards, config |-> out.config, index |-> index]
        /\ conv' = [pc |-> pc, exit |-> conv.exit, resume |-> conv.resume,
                    noSpec |-> conv.noSpec, todo |-> conv.todo]
        /\ pc \in {"index", "complete"} /\ index \in {Torn, BuildOutputWeightMap(source)}
  <2>1. CASE TruncateIndex
    BY <1>1, <2>1 DEF TruncateIndex, ConversionInv, OutputInv, RunInv
  <2>2. CASE WriteIndex
    BY <1>1, <2>2 DEF WriteIndex, ConversionInv, OutputInv, RunInv
  <2> QED
    BY <2>1, <2>2
<1>3. /\ out.marker # Absent /\ out.marker.source = source
      /\ DOMAIN out.shards = ShardNames(source)
  BY <1>1, AllPublished
<1>4. OutputInv'
  BY <1>1, <1>2, <1>3 DEF ConversionInv, OutputInv
<1>5. ShardsOfOneSource'
  BY <1>2 DEF ConversionInv, ShardsOfOneSource
<1>6. RunInv'
  BY <1>1, <1>2, <1>3 DEF ConversionInv, RunInv
<1> QED
  BY <1>1, <1>4, <1>5, <1>6 DEF ConversionInv

LEMMA CompleteKeeps ==
  ASSUME ConversionInv, Complete
  PROVE  ConversionInv'
<1> DEFINE marker == [source |-> source, complete |-> TRUE]
<1>1. /\ source' = source /\ source \in Sources /\ conv.pc = "complete" /\ conv.todo = {}
      /\ out.config \in OutputConfigs(source)
  BY DEF Complete, ConversionInv, RunInv
<1>2. /\ out.marker # Absent /\ out.marker.source = source
      /\ DOMAIN out.shards = ShardNames(source)
  BY <1>1, AllPublished
<1>3. out.marker \in [source : Convertible, complete : BOOLEAN] /\ source \in Convertible
  BY <1>2 DEF ConversionInv, OutputInv
<1>4. [out.marker EXCEPT !.complete = TRUE] = marker
  <2>1. ASSUME NEW S, NEW m \in [source : S, complete : BOOLEAN], NEW next,
               next = [m EXCEPT !.complete = TRUE]
        PROVE  next = [source |-> m.source, complete |-> TRUE]
    BY <2>1
  <2> QED
    BY <1>2, <1>3, <2>1
<1>5. out' = [exists |-> out.exists, marker |-> marker, aux |-> out.aux,
              shards |-> out.shards, config |-> out.config, index |-> out.index]
  BY <1>4 DEF Complete, ConversionInv, OutputInv
<1>6. marker # Absent /\ marker \in [source : Convertible, complete : BOOLEAN]
      /\ marker.source = source
  BY <1>1, <1>3, MarkerAssumption
<1> HIDE DEF marker
<1>7. OutputInv'
  BY <1>1, <1>2, <1>5, <1>6 DEF ConversionInv, OutputInv
<1>8. ShardsOfOneSource'
  BY <1>2, <1>5, <1>6 DEF ConversionInv, ShardsOfOneSource
<1>9. RunInv'
  BY IdleRun DEF Complete
<1> QED
  BY <1>1, <1>7, <1>8, <1>9 DEF ConversionInv

\* The operator acts, and the process dies, without a conversion left running.
LEMMA OutsideKeeps ==
  ASSUME ConversionInv, Crash \/ ReplaceSource \/ RemoveOutput
  PROVE  ConversionInv'
<1>1. CASE Crash
  <2>1. RunInv'
    BY <1>1, IdleRun DEF Crash
  <2> QED
    BY <1>1, <2>1, OutputStays DEF Crash, ConversionInv
<1>2. CASE ReplaceSource
  <2>1. RunInv' /\ source' \in Sources /\ out' = out
    BY <1>2 DEF ReplaceSource, RunInv
  <2> QED
    BY <2>1, OutputStays
<1>3. CASE RemoveOutput
  <2>1. out' = NoOutput /\ DOMAIN out'.shards = {} /\ source' = source /\ conv' = conv
        /\ conv.pc = "idle"
    BY <1>3 DEF RemoveOutput, NoOutput
  <2>2. OutputInv'
    BY <2>1 DEF OutputInv, NoOutput
  <2>3. RunInv' /\ ShardsOfOneSource'
    BY <2>1 DEF RunInv, ShardsOfOneSource
  <2> QED
    BY <2>1, <2>2, <2>3 DEF ConversionInv
<1> QED
  BY <1>1, <1>2, <1>3

LEMMA ConversionFollows ==
  ASSUME ConversionInv
  PROVE  ConversionSound
<1> DEFINE src == out.marker.source
<1>1. ASSUME out.marker # Absent
      PROVE  /\ src \in Convertible
             /\ \A s \in DOMAIN out.shards : /\ s \in ShardNames(src)
                                              /\ out.shards[s].tensors = ConvertShard(src, s)
  BY <1>1 DEF ConversionInv, OutputInv, ShardsOfOneSource
<1>2. IndexMatchesShards
  <2> SUFFICES ASSUME out.index \notin {Absent, Torn}
               PROVE  /\ Range(out.index) \subseteq DOMAIN out.shards
                      /\ \A s \in DOMAIN out.shards :
                            DOMAIN out.shards[s].tensors = {n \in DOMAIN out.index : out.index[n] = s}
                      /\ {n.mod : n \in DOMAIN out.index} = {n.mod : n \in DOMAIN src.map}
    BY DEF IndexMatchesShards
  <2>1. /\ out.marker # Absent /\ out.index = BuildOutputWeightMap(src)
        /\ DOMAIN out.shards = ShardNames(src)
    BY DEF ConversionInv, OutputInv
  <2>2. /\ src \in Convertible
        /\ \A s \in ShardNames(src) : out.shards[s].tensors = ConvertShard(src, s)
    BY <1>1, <2>1
  <2> HIDE DEF src
  <2>3. ASSUME NEW s \in ShardNames(src)
        PROVE  DOMAIN out.shards[s].tensors = {n \in DOMAIN out.index : out.index[n] = s}
    <3>1. DOMAIN ConvertShard(src, s)
          = {n \in DOMAIN BuildOutputWeightMap(src) : BuildOutputWeightMap(src)[n] = s}
      BY <2>2, SavedNames
    <3>2. out.shards[s].tensors = ConvertShard(src, s)
      BY <2>2
    <3> QED
      BY <2>1, <3>1, <3>2
  <2> QED
    BY <2>1, <2>2, <2>3, IndexComplete
<1>3. CompleteMeansConverted
  <2> SUFFICES ASSUME out.marker # Absent, out.marker.complete
               PROVE  /\ DOMAIN out.shards = ShardNames(src)
                      /\ out.config # Torn =>
                           Unquantized(out.config.ignore \cup LeftOutOfIgnore(src.config))
    BY DEF CompleteMeansConverted
  <2>1. DOMAIN out.shards = ShardNames(src) /\ out.config \in {Torn} \cup OutputConfigs(src)
    BY DEF ConversionInv, OutputInv
  <2>2. out.config # Torn => out.config.ignore = QuantizationIgnore(src.config)
    BY <2>1 DEF OutputConfigs, BuildOutputConfig
  <2> QED
    BY <1>1, <2>1, <2>2, IgnoredWeights DEF Unquantized
<1> QED
  BY <1>2, <1>3 DEF ConversionInv, ConversionSound

\* However often the converter dies and is resumed, and whatever the operator
\* replaces or removes meanwhile, its output is of one source: the shards are
\* of the source the marker names, the index leads to the tensors that are
\* there, and what is marked complete is all of it (convert_checkpoint).
THEOREM ConversionCorrect == WeightsSpec => []ConversionSound
<1>1. WeightsInit => ConversionInv
  BY ConversionInitially DEF WeightsInit
<1>2. ConversionInv /\ [WeightsNext]_allVars => ConversionInv'
  <2> SUFFICES ASSUME ConversionInv, [WeightsNext]_allVars PROVE ConversionInv'
    OBVIOUS
  <2>1. CASE CNext
    BY <2>1, StartKeeps, WriteMarkerKeeps, CopyAuxiliaryFilesKeeps, VisitShardKeeps,
       PublishShardKeeps, ConfigKeeps, IndexKeeps, CompleteKeeps, OutsideKeeps DEF CNext, Step
  <2>2. CASE UNCHANGED cvars
    <3>1. RunInv' /\ source' = source /\ out' = out
      BY <2>2 DEF cvars, ConversionInv, RunInv
    <3> QED
      BY <3>1, OutputStays DEF ConversionInv
  <2> QED
    BY <2>1, <2>2 DEF WeightsNext, allVars
<1>3. ConversionInv => ConversionSound
  BY ConversionFollows
<1> QED
  BY <1>1, <1>2, <1>3, PTL DEF WeightsSpec

-----------------------------------------------------------------------------
(***************************************************************************)
(* The staging of the layers: first what depends on the checkpoint only.   *)
(***************************************************************************)
LEMMA CaseFixed ==
  ASSUME case' = case
  PROVE  /\ Rules' = Rules /\ Layers' = Layers
         /\ Width' = Width /\ Member' = Member /\ Place' = Place /\ Packed' = Packed
         /\ Writes' = Writes /\ Unstageable' = Unstageable /\ StartupContract' = StartupContract
<1>1. Rules' = Rules /\ Layers' = Layers
  BY DEF Rules, Layers
<1>2. Member' = Member /\ Place' = Place
  BY <1>1 DEF Member, Place, Members
<1>3. Width' = Width
  BY <1>1 DEF Width, TemplateWidth, LocalExperts, SourceName, LayerWeightNames, EnabledFor,
     ContextFlag, Rules
<1>4. Packed' = Packed
  BY <1>1 DEF Packed, PackRule, TemplateWidth, LocalExperts, SourceName, LayerWeightNames,
     EnabledFor, ContextFlag, Rules, LocalExpertIds
<1>5. Writes' = Writes
  BY <1>1 DEF Writes, RuleFails, TemplateWidth, LocalExperts, SourceName, LayerWeightNames,
     EnabledFor, ContextFlag, Rules
<1>6. Unstageable' = Unstageable
  BY <1>1 DEF Unstageable, LoadFails, RuleFails, TemplateWidth, LocalExperts, SourceName,
     LayerWeightNames, EnabledFor, ContextFlag, Rules
<1>7. StartupContract' = StartupContract
  BY <1>1 DEF StartupContract, LayerWeightNames, SourceName, EnabledFor, ContextFlag, Rules
<1> QED
  BY <1>1, <1>2, <1>3, <1>4, <1>5, <1>6, <1>7

LEMMA JoinedTables ==
  ASSUME NEW S, NEW s \in Seq(S), NEW t \in Seq(S)
  PROVE  /\ s \o t \in Seq(S) /\ Len(s \o t) = Len(s) + Len(t)
         /\ \A i \in 1 .. Len(s) + Len(t) : (s \o t)[i] = IF i <= Len(s) THEN s[i] ELSE t[i - Len(s)]
OBVIOUS

\* The rules of a family have names of their own.
LEMMA RuleNames ==
  /\ Len(Rules) \in Nat /\ DOMAIN Rules = 1 .. Len(Rules)
  /\ \A i \in DOMAIN Rules : Rules[i].width \in Nat
  /\ \A i, j \in DOMAIN Rules : Rules[i].name = Rules[j].name => i = j
<1>1. CASE case.family = "qwen"
  <2> DEFINE r1 == Rule("decode_wq", "layer", "fwd", "q_proj", {}, "", "", 2)
             r2 == Rule("decode_q_norm_weight", "defaulted", "fwd", "q_norm", {}, "", "ones", 1)
  <2>1. Rules = <<r1, r2>>
    BY <1>1 DEF Rules, QwenLayerRules
  <2>2. /\ r1.width \in Nat /\ r1.name = "decode_wq"
        /\ r2.width \in Nat /\ r2.name = "decode_q_norm_weight"
    BY DEF Rule
  <2> HIDE DEF r1, r2
  <2> QED
    BY <2>1, <2>2
<1>2. CASE case.family # "qwen"
  <2> DEFINE r1 == Rule("wq_b", "layer", "fwd", "attn.wq_b", {}, "", "", 2)
             r2 == Rule("hca_cmp_wkv", "optional", "hca", "attn.compressor", {128}, "", "zeros", 2)
             r3 == Rule("csa_cmp_wkv", "optional", "csa", "attn.compressor", {4}, "", "zeros", 2)
             r4 == Rule("csa_hadamard_idx", "synthetic", "csa", "", {}, "", "hadamard_idx", 1)
             r5 == Rule("gate_bias", "defaulted", "fwd", "ffn.gate.bias", {}, "include_gate_bias",
                        "zeros", 1)
             r6 == Rule("tid2eid", "defaulted", "fwd", "ffn.gate.tid2eid", {}, "include_tid2eid",
                        "zeros", 1)
             r7 == Rule("routed_w1", "expert", "fwd", "ffn.experts", {}, "", "", 0)
  <2>1. Rules = <<r1>> \o <<r2, r3, r4>> \o <<r5, r6>> \o <<r7>>
    BY <1>2 DEF Rules, DeepSeekLayerRules, DeepSeekCoreRules, DeepSeekOptionalRules,
       DeepSeekRouterRules, DeepSeekExpertRules
  <2>2. /\ r1.width \in Nat /\ r1.name = "wq_b"
        /\ r2.width \in Nat /\ r2.name = "hca_cmp_wkv"
        /\ r3.width \in Nat /\ r3.name = "csa_cmp_wkv"
        /\ r4.width \in Nat /\ r4.name = "csa_hadamard_idx"
        /\ r5.width \in Nat /\ r5.name = "gate_bias"
        /\ r6.width \in Nat /\ r6.name = "tid2eid"
        /\ r7.width \in Nat /\ r7.name = "routed_w1"
    BY DEF Rule
  <2> HIDE DEF r1, r2, r3, r4, r5, r6, r7
  <2> DEFINE S == {r1, r2, r3, r4, r5, r6, r7}
             t1 == <<r1>>
             t2 == <<r2, r3, r4>>
             t3 == <<r5, r6>>
             t4 == <<r7>>
  <2>3. /\ t1 \in Seq(S) /\ Len(t1) = 1 /\ t1[1] = r1
        /\ t2 \in Seq(S) /\ Len(t2) = 3 /\ t2[1] = r2 /\ t2[2] = r3 /\ t2[3] = r4
        /\ t3 \in Seq(S) /\ Len(t3) = 2 /\ t3[1] = r5 /\ t3[2] = r6
        /\ t4 \in Seq(S) /\ Len(t4) = 1 /\ t4[1] = r7
    OBVIOUS
  <2> HIDE DEF S, t1, t2, t3, t4
  <2>4. /\ t1 \o t2 \in Seq(S) /\ Len(t1 \o t2) = 4
        /\ (t1 \o t2)[1] = r1 /\ (t1 \o t2)[2] = r2 /\ (t1 \o t2)[3] = r3 /\ (t1 \o t2)[4] = r4
    <3>1. /\ t1 \o t2 \in Seq(S) /\ Len(t1 \o t2) = Len(t1) + Len(t2)
          /\ \A i \in 1 .. Len(t1) + Len(t2) :
                (t1 \o t2)[i] = IF i <= Len(t1) THEN t1[i] ELSE t2[i - Len(t1)]
      BY <2>3, JoinedTables
    <3> QED
      BY <2>3, <3>1
  <2> DEFINE u2 == t1 \o t2
             u3 == u2 \o t3
             u4 == u3 \o t4
  <2> HIDE DEF u2
  <2>5. /\ u3 \in Seq(S) /\ Len(u3) = 6
        /\ u3[1] = r1 /\ u3[2] = r2 /\ u3[3] = r3 /\ u3[4] = r4 /\ u3[5] = r5 /\ u3[6] = r6
    <3>1. u2 \in Seq(S) /\ Len(u2) = 4 /\ u2[1] = r1 /\ u2[2] = r2 /\ u2[3] = r3 /\ u2[4] = r4
      BY <2>4 DEF u2
    <3>2. /\ u3 \in Seq(S) /\ Len(u3) = Len(u2) + Len(t3)
          /\ \A i \in 1 .. Len(u2) + Len(t3) :
                u3[i] = IF i <= Len(u2) THEN u2[i] ELSE t3[i - Len(u2)]
      BY <2>3, <3>1, JoinedTables
    <3> QED
      BY <2>3, <3>1, <3>2
  <2> HIDE DEF u3
  <2>6. /\ u4 \in Seq(S) /\ Len(u4) = 7 /\ u4[1] = r1 /\ u4[2] = r2 /\ u4[3] = r3
        /\ u4[4] = r4 /\ u4[5] = r5 /\ u4[6] = r6 /\ u4[7] = r7
    <3>1. /\ u4 \in Seq(S) /\ Len(u4) = Len(u3) + Len(t4)
          /\ \A i \in 1 .. Len(u3) + Len(t4) :
                u4[i] = IF i <= Len(u3) THEN u3[i] ELSE t4[i - Len(u3)]
      BY <2>3, <2>5, JoinedTables
    <3> QED
      BY <2>3, <2>5, <3>1, SMTT(30)
  <2>7. Rules = u4
    BY <2>1, Zenon DEF t1, t2, t3, t4, u2, u3
  <2> HIDE DEF u4
  <2>8. Len(Rules) = 7 /\ DOMAIN Rules = 1 .. 7
    BY <2>6, <2>7
  <2>9. \A i \in 1 .. 7 : i = 1 \/ i = 2 \/ i = 3 \/ i = 4 \/ i = 5 \/ i = 6 \/ i = 7
    OBVIOUS
  <2>10. \A i \in 1 .. 7 : Rules[i].width \in Nat
    BY <2>2, <2>6, <2>7, <2>9
  <2>11. /\ Rules[1].name = "wq_b" /\ Rules[2].name = "hca_cmp_wkv"
         /\ Rules[3].name = "csa_cmp_wkv" /\ Rules[4].name = "csa_hadamard_idx"
         /\ Rules[5].name = "gate_bias" /\ Rules[6].name = "tid2eid" /\ Rules[7].name = "routed_w1"
    BY <2>2, <2>6, <2>7
  <2>12. ASSUME NEW i \in 1 .. 7, NEW j \in 1 .. 7, Rules[i].name = Rules[j].name PROVE i = j
    BY <2>9, <2>11, <2>12
  <2> QED
    BY <2>8, <2>10, <2>12
<1> QED
  BY <1>1, <1>2

\* The elements of a finite set of naturals, by the number of smaller ones.
LEMMA RanksCover ==
  ASSUME NEW S \in SUBSET Nat, IsFiniteSet(S)
  PROVE  LET n == Cardinality(S) IN
         /\ n \in Nat
         /\ \A l \in S : Cardinality(Before(S, l)) \in 0 .. n - 1
         /\ \A l, m \in S : Cardinality(Before(S, l)) = Cardinality(Before(S, m)) => l = m
         /\ \A p \in 0 .. n - 1 : \E l \in S : Cardinality(Before(S, l)) = p
<1> DEFINE n == Cardinality(S)
           rank(l) == Cardinality(Before(S, l))
           f == [l \in S |-> rank(l)]
<1>1. n \in Nat
  BY FS_CardinalityType
<1>2. ASSUME NEW l \in S PROVE IsFiniteSet(Before(S, l)) /\ rank(l) \in Nat /\ rank(l) < n
  <2>1. Before(S, l) \in SUBSET S /\ l \notin Before(S, l)
    BY DEF Before
  <2>2. IsFiniteSet(Before(S, l)) /\ rank(l) <= n /\ (n = rank(l) => S = Before(S, l))
    BY <2>1, FS_Subset
  <2>3. rank(l) \in Nat
    BY <2>2, FS_CardinalityType
  <2> QED
    BY <1>1, <2>1, <2>2, <2>3
<1>3. ASSUME NEW l \in S, NEW m \in S, l < m PROVE rank(l) < rank(m)
  <2>1. Before(S, l) \in SUBSET Before(S, m) /\ l \in Before(S, m) /\ l \notin Before(S, l)
    <3>1. ASSUME NEW k \in S, k < l PROVE k < m
      BY <1>3, <3>1
    <3>2. l \in Nat /\ ~ (l < l)
      OBVIOUS
    <3> QED
      BY <1>3, <3>1, <3>2 DEF Before
  <2>2. /\ rank(l) <= rank(m)
        /\ rank(m) = rank(l) => Before(S, m) = Before(S, l)
    BY <1>2, <2>1, FS_Subset
  <2>3. rank(l) \in Nat /\ rank(m) \in Nat
    BY <1>2
  <2> HIDE DEF rank
  <2> QED
    BY <2>1, <2>2, <2>3
<1>4. ASSUME NEW l \in S, NEW m \in S, rank(l) = rank(m) PROVE l = m
  <2>1. rank(l) \in Nat /\ l \in Nat /\ m \in Nat
    BY <1>2
  <2>2. ~ (l < m)
    BY <1>3, <1>4, <2>1
  <2>3. ~ (m < l)
    BY <1>3, <1>4, <2>1
  <2> QED
    BY <2>1, <2>2, <2>3
<1>5. \A l \in S : rank(l) \in 0 .. n - 1
  <2> HIDE DEF rank, n
  <2> QED
    BY <1>1, <1>2
<1>6. f \in Injection(S, 0 .. n - 1)
  <2> HIDE DEF rank, n
  <2>1. f \in [S -> 0 .. n - 1]
    BY <1>5
  <2>2. \A l, m \in S : f[l] = f[m] => l = m
    BY <1>4
  <2> QED
    BY <2>1, <2>2 DEF Injection, IsInjective
<1>7. IsFiniteSet(0 .. n - 1) /\ Cardinality(0 .. n - 1) = n
  <2> HIDE DEF n
  <2> QED
    BY <1>1, FS_Interval
<1>8. f \in Surjection(S, 0 .. n - 1)
  BY <1>6, <1>7, FS_Injection
<1>9. \A p \in 0 .. n - 1 : \E l \in S : rank(l) = p
  BY <1>8 DEF Surjection
<1> QED
  BY <1>1, <1>4, <1>5, <1>9

\* The places of a group's layers are 0, 1, ... in their order.
LEMMA GroupPlaces ==
  ASSUME case \in Cases, NEW g
  PROVE  LET S == Members(g)
             n == Cardinality(S)
         IN  /\ n \in Nat /\ S \subseteq Layers /\ Layers \subseteq Nat
             /\ n = 0 <=> S = {}
             /\ \A l \in S : Cardinality(Before(S, l)) \in 0 .. n - 1
             /\ \A l, m \in S : Cardinality(Before(S, l)) = Cardinality(Before(S, m)) => l = m
             /\ \A p \in 0 .. n - 1 : \E l \in S : Cardinality(Before(S, l)) = p
<1>1. Len(case.ratios) \in Nat
  BY CasesAssumption
<1>2. Members(g) \subseteq Layers /\ Layers \subseteq Nat
  BY <1>1 DEF Members, Layers
<1>3. IsFiniteSet(Layers)
  BY <1>1, FS_Interval DEF Layers
<1>4. IsFiniteSet(Members(g)) /\ Members(g) \in SUBSET Nat
  BY <1>2, <1>3, FS_Subset
<1>5. Cardinality(Members(g)) = 0 <=> Members(g) = {}
  BY <1>4, FS_EmptySet
<1> QED
  BY <1>2, <1>4, <1>5, RanksCover

LEMMA StackGroupFacts ==
  ASSUME case \in Cases, NEW g
  PROVE  /\ Len(StackGroup(g)) = Cardinality(Members(g))
         /\ StackGroup(g) = <<>> <=> Members(g) = {}
         /\ \A l : InGroup(g, l) <=> l \in Members(g)
         /\ \A l \in Members(g) : PositionOf(g, l) = Cardinality(Before(Members(g), l))
<1> DEFINE S == Members(g)
           n == Cardinality(S)
           rank(l) == Cardinality(Before(S, l))
           s == StackGroup(g)
<1>1. /\ n \in Nat /\ S \subseteq Nat /\ (n = 0 <=> S = {})
      /\ \A l \in S : rank(l) \in 0 .. n - 1
      /\ \A l, m \in S : rank(l) = rank(m) => l = m
      /\ \A p \in 0 .. n - 1 : \E l \in S : rank(l) = p
  BY GroupPlaces
<1>2. s = [i \in 1 .. n |-> CHOOSE l \in S : rank(l) = i - 1]
  BY DEF StackGroup
<1>3. \A l : InGroup(g, l) <=> \E i \in DOMAIN s : s[i] = l
  BY DEF InGroup
<1>4. \A l : PositionOf(g, l) = (CHOOSE i \in DOMAIN s : s[i] = l) - 1
  BY DEF PositionOf
<1> HIDE DEF S, n, rank, s
<1>5. ASSUME NEW i \in 1 .. n PROVE s[i] \in S /\ rank(s[i]) = i - 1
  <2>1. i - 1 \in 0 .. n - 1 /\ s[i] = CHOOSE l \in S : rank(l) = i - 1
    BY <1>1, <1>2
  <2>2. \E l \in S : rank(l) = i - 1
    BY <1>1, <2>1
  <2> QED
    BY <2>1, <2>2
<1>6. ASSUME NEW l \in S PROVE /\ rank(l) + 1 \in 1 .. n /\ s[rank(l) + 1] = l
                              /\ \A i \in 1 .. n : s[i] = l => i = rank(l) + 1
  <2>1. rank(l) \in 0 .. n - 1 /\ rank(l) + 1 \in 1 .. n
    BY <1>1
  <2>2. s[rank(l) + 1] \in S /\ rank(s[rank(l) + 1]) = rank(l)
    BY <1>5, <2>1
  <2>3. s[rank(l) + 1] = l
    BY <1>1, <2>2
  <2>4. ASSUME NEW i \in 1 .. n, s[i] = l PROVE i = rank(l) + 1
    <3>1. rank(l) = i - 1 /\ i \in Int
      BY <1>1, <1>5, <2>4
    <3> QED
      BY <3>1
  <2> QED
    BY <2>1, <2>3, <2>4
<1>7. DOMAIN s = 1 .. n /\ Len(s) = n
  BY <1>1, <1>2
<1>8. s = <<>> <=> S = {}
  <2>1. CASE n = 0
    BY <1>1, <1>2, <2>1
  <2>2. CASE n # 0
    BY <1>1, <1>7, <2>2
  <2> QED
    BY <2>1, <2>2
<1>9. \A l : InGroup(g, l) <=> l \in S
  BY <1>3, <1>5, <1>6, <1>7
<1>10. ASSUME NEW l \in S PROVE PositionOf(g, l) = rank(l)
  <2>1. (CHOOSE i \in DOMAIN s : s[i] = l) = rank(l) + 1
    BY <1>6, <1>7
  <2>2. rank(l) \in Nat
    BY <1>1
  <2> QED
    BY <1>4, <2>1, <2>2
<1> QED
  BY <1>7, <1>8, <1>9, <1>10 DEF S, n, rank, s

(***************************************************************************)
(* Then the steps.                                                         *)
(***************************************************************************)
LEMMA LayerFacts ==
  ASSUME StagingTypes
  PROVE  /\ Len(case.ratios) \in Nat \ {0} /\ Layers = 0 .. Len(case.ratios) - 1 /\ Layers \subseteq Nat
         /\ 0 \in Layers
         /\ DOMAIN layer = Layers
         /\ \A l \in Layers : /\ layer[l] = [status |-> layer[l].status, at |-> layer[l].at]
                              /\ layer[l].status \in {"pending", "running", "failed", "done", "cancelled"}
                              /\ layer[l].at \in 1 .. Len(Rules) + 1
         /\ main = [pc |-> main.pc, k |-> main.k] /\ main.k \in 0 .. Len(case.ratios)
         /\ main.pc \in {"contract", "refused", "template", "raised"} \cup Staged
<1>1. Len(case.ratios) \in Nat \ {0}
  BY CasesAssumption DEF StagingTypes
<1>2. Layers = 0 .. Len(case.ratios) - 1 /\ Layers \subseteq Nat /\ 0 \in Layers
  BY <1>1 DEF Layers
<1> DEFINE L == [status : {"pending", "running", "failed", "done", "cancelled"},
                 at : 1 .. Len(Rules) + 1]
           M == [pc : {"contract", "refused", "template", "raised"} \cup Staged,
                 k : 0 .. Len(case.ratios)]
<1>3. layer \in [Layers -> L] /\ main \in M
  BY DEF StagingTypes
<1>4. \A e \in L : /\ e = [status |-> e.status, at |-> e.at]
                  /\ e.status \in {"pending", "running", "failed", "done", "cancelled"}
                  /\ e.at \in 1 .. Len(Rules) + 1
  OBVIOUS
<1>5. \A e \in M : /\ e = [pc |-> e.pc, k |-> e.k] /\ e.k \in 0 .. Len(case.ratios)
                  /\ e.pc \in {"contract", "refused", "template", "raised"} \cup Staged
  OBVIOUS
<1> HIDE DEF L, M
<1>6. DOMAIN layer = Layers /\ \A l \in Layers : layer[l] \in L
  BY <1>3
<1> QED
  BY <1>1, <1>2, <1>3, <1>4, <1>5, <1>6

LEMMA StagingInitially == SInit => StagingInv
<1> SUFFICES ASSUME SInit PROVE StagingInv
  OBVIOUS
<1>1. case \in Cases /\ layer = [l \in Layers |-> [status |-> "pending", at |-> 1]]
  BY DEF SInit, Layers
<1>2. Len(case.ratios) \in Nat /\ Len(Rules) \in Nat
  BY <1>1, CasesAssumption, RuleNames
<1>3. main = [pc |-> "contract", k |-> 0] /\ threads = TorchThreads
  BY DEF SInit
<1>4. StagingTypes
  BY <1>1, <1>2, <1>3 DEF StagingTypes
<1>5. WorkersJoined
  BY <1>1, <1>3 DEF WorkersJoined, With
<1>6. ResultsTaken
  BY <1>1, <1>3 DEF ResultsTaken, Staged
<1>7. FailuresFounded
  BY <1>1, <1>3 DEF FailuresFounded
<1> QED
  BY <1>3, <1>4, <1>5, <1>6, <1>7 DEF StagingInv, Staged

\* No slab is written and no layer evaluates a rule.
LEMMA SlabsStay ==
  ASSUME case \in Cases, case' = case, slabs' = slabs, SlabShapes, SlicesWritten,
         \A l \in Layers : layer'[l].at = layer[l].at
  PROVE  SlabShapes' /\ SlicesWritten'
<1>1. /\ Rules' = Rules /\ Width' = Width /\ Member' = Member /\ Place' = Place
      /\ Packed' = Packed /\ Writes' = Writes
  BY CaseFixed
<1>2. \A i \in DOMAIN Rules : Member[i] \subseteq Layers
  BY DEF Member, Members
<1>3. SlabShapes'
  BY <1>1 DEF SlabShapes
<1>4. SlicesWritten'
  BY <1>1, <1>2 DEF SlicesWritten
<1> QED
  BY <1>3, <1>4

LEMMA SStutterKeeps ==
  ASSUME StagingInv, UNCHANGED svars
  PROVE  StagingInv'
<1>1. UNCHANGED <<case, slabs, layer, main, threads>> /\ case \in Cases
  BY DEF svars, StagingInv, StagingTypes
<1>2. /\ Rules' = Rules /\ Layers' = Layers /\ Unstageable' = Unstageable
      /\ StartupContract' = StartupContract
  BY <1>1, CaseFixed
<1>3. StagingTypes' /\ WorkersJoined' /\ ResultsTaken' /\ FailuresFounded'
  BY <1>1, <1>2 DEF StagingInv, StagingTypes, WorkersJoined, With, ResultsTaken, FailuresFounded
<1>4. main'.pc \in Staged => SlabShapes' /\ SlicesWritten'
  BY <1>1, SlabsStay DEF StagingInv
<1> QED
  BY <1>3, <1>4 DEF StagingInv

LEMMA ValidateKeeps ==
  ASSUME StagingInv, ValidateStartupContract
  PROVE  StagingInv'
<1> DEFINE pc == IF StartupContract \subseteq DOMAIN case.raw THEN "template" ELSE "refused"
<1>1. UNCHANGED <<case, slabs, layer, threads>> /\ case \in Cases /\ StagingTypes /\ main.pc = "contract"
  BY DEF ValidateStartupContract, StagingInv, StagingTypes
<1>2. /\ Rules' = Rules /\ Layers' = Layers /\ Unstageable' = Unstageable
      /\ StartupContract' = StartupContract
  BY <1>1, CaseFixed
<1>3. main' = [pc |-> pc, k |-> main.k]
  BY <1>1, LayerFacts DEF ValidateStartupContract
<1>4. pc \in {"template", "refused"} /\ (pc = "template" => StartupContract \subseteq DOMAIN case.raw)
  OBVIOUS
<1> HIDE DEF pc
<1>5. main'.pc = pc /\ main'.k = main.k /\ main' \in [pc : {"template", "refused"}, k : 0 .. Len(case.ratios)]
  BY <1>1, <1>3, <1>4, LayerFacts
<1>6. StagingTypes'
  BY <1>1, <1>2, <1>5 DEF StagingTypes
<1>7. WorkersJoined'
  BY <1>1, <1>2, <1>4, <1>5 DEF StagingInv, WorkersJoined, With
<1>8. ResultsTaken'
  BY <1>1, <1>2, <1>4, <1>5 DEF StagingInv, ResultsTaken, Staged
<1>9. FailuresFounded'
  BY <1>1, <1>2, <1>4, <1>5 DEF StagingInv, FailuresFounded
<1> QED
  BY <1>4, <1>5, <1>6, <1>7, <1>8, <1>9 DEF StagingInv, Staged

\* When layer 0 could be read, the slabs have a size, and what is allocated has it.
LEMMA TemplateWidths ==
  ASSUME case \in Cases, ~LoadFails(0)
  PROVE  Width \in [DOMAIN Rules -> Nat]
<1> SUFFICES ASSUME NEW i \in DOMAIN Rules PROVE TemplateWidth(Rules[i]) \in Nat
  BY DEF Width
<1>1. LayerWeightNames(0) \subseteq DOMAIN case.raw
  BY DEF LoadFails
<1>2. Rules[i].width \in Nat
  BY RuleNames
<1>3. case.experts \in Nat /\ case.ranks \in Nat \ {0} /\ case.raw \in [DOMAIN case.raw -> Nat]
  BY CasesAssumption
<1>4. LocalExperts \in Nat
  BY <1>3 DEF LocalExperts
<1> QED
  BY <1>1, <1>2, <1>3, <1>4 DEF TemplateWidth

LEMMA AllocatedShapes ==
  ASSUME case \in Cases, case' = case, ~LoadFails(0), slabs' = AllocateSlabs
  PROVE  SlabShapes'
<1>1. Rules' = Rules /\ Width' = Width /\ Member' = Member
  BY CaseFixed
<1>2. Width \in [DOMAIN Rules -> Nat]
  BY TemplateWidths
<1> DEFINE stacked == {i \in DOMAIN Rules : StackGroup(Rules[i].group) # <<>>}
           rows(rule) == [row \in 0 .. TemplateWidth(rule) * Len(StackGroup(rule.group)) - 1 |-> Unwritten]
           of(name) == Rules[CHOOSE i \in stacked : Rules[i].name = name]
<1>3. slabs' = [name \in {Rules[i].name : i \in stacked} |->
                  [rank \in 0 .. case.ranks - 1 |-> rows(of(name))]]
  BY DEF AllocateSlabs
<1>4. ASSUME NEW i \in DOMAIN Rules, Member[i] # {}
      PROVE  /\ Rules[i].name \in DOMAIN slabs'
             /\ DOMAIN slabs'[Rules[i].name] = 0 .. case.ranks - 1
             /\ \A rank \in 0 .. case.ranks - 1 :
                  DOMAIN slabs'[Rules[i].name][rank] = 0 .. Width[i] * Cardinality(Member[i]) - 1
  <2>1. /\ Member[i] = Members(Rules[i].group) /\ Width[i] = TemplateWidth(Rules[i])
        /\ i \in stacked /\ Len(StackGroup(Rules[i].group)) = Cardinality(Members(Rules[i].group))
    BY <1>4, StackGroupFacts DEF Member, Width
  <2>2. \A j \in stacked : Rules[j].name = Rules[i].name => j = i
    BY RuleNames
  <2>3. of(Rules[i].name) = Rules[i]
    BY <2>1, <2>2
  <2>4. DOMAIN rows(Rules[i]) = 0 .. Width[i] * Cardinality(Member[i]) - 1
    BY <2>1
  <2> HIDE DEF rows, of, stacked
  <2>5. slabs'[Rules[i].name] = [rank \in 0 .. case.ranks - 1 |-> rows(Rules[i])]
        /\ Rules[i].name \in DOMAIN slabs'
    BY <1>3, <2>1, <2>3
  <2> QED
    BY <2>4, <2>5
<1> QED
  BY <1>1, <1>2, <1>4 DEF SlabShapes

LEMMA PackTemplateKeeps ==
  ASSUME StagingInv, PackTemplate
  PROVE  StagingInv'
<1>1. UNCHANGED <<case, layer>> /\ case \in Cases /\ StagingTypes /\ main.pc = "template" /\ WorkersJoined
  BY DEF PackTemplate, StagingInv, StagingTypes
<1>2. /\ Rules' = Rules /\ Layers' = Layers /\ Unstageable' = Unstageable
      /\ StartupContract' = StartupContract /\ Member' = Member
  BY <1>1, CaseFixed
<1>3. /\ \A l \in Layers : layer[l].at = 1 /\ layer[l].status # "running"
      /\ threads = TorchThreads /\ main.k = 0
  BY <1>1 DEF WorkersJoined, With
<1> DEFINE broken == LoadFails(0) \/ \E i \in DOMAIN Rules : RuleFails(Rules[i], 0)
<1>4. CASE broken
  <2>1. main' = [pc |-> "raised", k |-> main.k] /\ UNCHANGED <<slabs, threads>>
    BY <1>1, <1>4, LayerFacts DEF PackTemplate
  <2>2. 0 \in Unstageable
    BY <1>1, <1>4, LayerFacts DEF Unstageable
  <2>3. StagingTypes'
    BY <1>1, <1>2, <2>1, LayerFacts DEF StagingTypes
  <2>4. WorkersJoined'
    BY <1>1, <1>2, <1>3, <2>1 DEF WorkersJoined, With
  <2>5. ResultsTaken'
    BY <1>1, <1>2, <2>1 DEF StagingInv, ResultsTaken, Staged
  <2>6. FailuresFounded'
    BY <1>1, <1>2, <2>1, <2>2 DEF StagingInv, FailuresFounded
  <2> QED
    BY <2>1, <2>3, <2>4, <2>5, <2>6 DEF StagingInv, Staged
<1>5. CASE ~broken
  <2>1. main' = [pc |-> "stage", k |-> main.k] /\ slabs' = AllocateSlabs
    BY <1>1, <1>5, LayerFacts DEF PackTemplate
  <2>2. StagingTypes'
    BY <1>1, <1>2, <2>1, LayerFacts DEF StagingTypes, Staged
  <2>3. WorkersJoined'
    BY <1>1, <1>2, <1>3, <2>1 DEF WorkersJoined, With
  <2>4. ResultsTaken'
    <3>1. \A l \in Layers : ~ (l < 0)
      BY <1>1, LayerFacts
    <3> QED
      BY <1>1, <1>2, <1>3, <2>1, <3>1 DEF StagingInv, ResultsTaken, Staged
  <2>5. FailuresFounded'
    BY <1>1, <1>2, <2>1 DEF StagingInv, FailuresFounded
  <2>6. SlabShapes'
    BY <1>1, <1>5, <2>1, AllocatedShapes
  <2>7. SlicesWritten'
    <3>1. \A i \in DOMAIN Rules : i >= 1 /\ i \in Nat /\ Member[i] \subseteq Layers
      BY RuleNames DEF Member, Members
    <3>2. \A i \in DOMAIN Rules : \A l \in Member[i] : ~ (i < layer[l].at)
      BY <1>3, <3>1
    <3> QED
      BY <1>1, <1>2, <3>2 DEF SlicesWritten
  <2> QED
    BY <2>2, <2>3, <2>4, <2>5, <2>6, <2>7 DEF StagingInv
<1> QED
  BY <1>4, <1>5

\* One layer gets another status, which is not "running" once the caller has
\* joined the workers, and "done" only after its last rule.
LEMMA StatusKeeps ==
  ASSUME StagingInv, NEW l \in Layers, NEW status \in {"running", "failed", "done"},
         UNCHANGED <<case, slabs, main, threads>>,
         layer' = [layer EXCEPT ![l].status = status],
         layer[l].status \in {"pending", "running"},
         main.pc \in {"stage", "join"},
         status = "failed" => l \in Unstageable,
         status = "done" => layer[l].at = Len(Rules) + 1
  PROVE  StagingInv'
<1>1. case \in Cases /\ StagingTypes
  BY DEF StagingInv, StagingTypes
<1>2. /\ Rules' = Rules /\ Layers' = Layers /\ Unstageable' = Unstageable
      /\ StartupContract' = StartupContract
  BY <1>1, CaseFixed
<1>3. /\ DOMAIN layer' = Layers
      /\ layer'[l] = [status |-> status, at |-> layer[l].at]
      /\ \A m \in Layers \ {l} : layer'[m] = layer[m]
  <2>1. DOMAIN layer = Layers /\ layer[l] = [status |-> layer[l].status, at |-> layer[l].at]
    BY <1>1, LayerFacts
  <2>2. layer' = [layer EXCEPT ![l] = [layer[l] EXCEPT !.status = status]]
    OBVIOUS
  <2>3. [layer[l] EXCEPT !.status = status] = [status |-> status, at |-> layer[l].at]
    BY <2>1
  <2> QED
    BY <2>1, <2>2, <2>3
<1>4. /\ \A m \in Layers : layer'[m].at = layer[m].at
      /\ \A m \in Layers : layer'[m].status = IF m = l THEN status ELSE layer[m].status
  BY <1>3
<1>5. StagingTypes'
  <2>1. layer' \in [Layers -> [status : {"pending", "running", "failed", "done", "cancelled"},
                               at : 1 .. Len(Rules) + 1]]
    BY <1>1 DEF StagingTypes
  <2> QED
    BY <1>1, <1>2, <2>1 DEF StagingTypes
<1>6. WorkersJoined'
  BY <1>2 DEF WorkersJoined
<1>7. ResultsTaken'
  BY <1>2, <1>4 DEF StagingInv, ResultsTaken
<1>8. FailuresFounded'
  <2>1. main.pc = "join" /\ main.k \in Layers => layer'[main.k].status = "failed"
    BY <1>4 DEF StagingInv, FailuresFounded
  <2> QED
    BY <1>2, <1>4, <2>1 DEF StagingInv, FailuresFounded
<1>9. SlabShapes' /\ SlicesWritten'
  BY <1>1, <1>4, SlabsStay DEF StagingInv, Staged
<1> QED
  BY <1>5, <1>6, <1>7, <1>8, <1>9 DEF StagingInv

LEMMA StartLayerKeeps ==
  ASSUME StagingInv, NEW l \in Layers, StartLayer(l)
  PROVE  StagingInv'
<1> DEFINE status == IF l # 0 /\ LoadFails(l) THEN "failed" ELSE "running"
<1>1. status \in {"running", "failed", "done"} /\ status # "done"
  OBVIOUS
<1>2. status = "failed" => l \in Unstageable
  BY DEF Unstageable
<1>3. /\ main.pc = "stage" /\ layer[l].status = "pending"
      /\ layer' = [layer EXCEPT ![l].status = status]
      /\ UNCHANGED <<case, slabs, main, threads>>
  BY DEF StartLayer
<1> HIDE DEF status
<1> QED
  BY <1>1, <1>2, <1>3, StatusKeeps

LEMMA RunningMeansStaging ==
  ASSUME StagingInv, NEW l \in Layers, layer[l].status = "running"
  PROVE  main.pc \in {"stage", "join"}
BY DEF StagingInv, WorkersJoined, With

LEMMA FinishLayerKeeps ==
  ASSUME StagingInv, NEW l \in Layers, FinishLayer(l)
  PROVE  StagingInv'
<1>1. /\ layer[l].status = "running" /\ layer[l].at > Len(Rules)
      /\ layer' = [layer EXCEPT ![l].status = "done"]
      /\ UNCHANGED <<case, slabs, main, threads>>
  BY DEF FinishLayer
<1>2. layer[l].at \in 1 .. Len(Rules) + 1 /\ Len(Rules) \in Nat
  BY LayerFacts, RuleNames DEF StagingInv
<1>3. layer[l].at = Len(Rules) + 1
  BY <1>1, <1>2
<1> QED
  BY <1>1, <1>3, StatusKeeps, RunningMeansStaging

LEMMA TakeResultKeeps ==
  ASSUME StagingInv, TakeResult
  PROVE  StagingInv'
<1>1. /\ UNCHANGED <<case, slabs, threads>> /\ case \in Cases /\ StagingTypes /\ main.pc = "stage"
  BY DEF TakeResult, StagingInv, StagingTypes
<1>2. /\ Rules' = Rules /\ Layers' = Layers /\ Unstageable' = Unstageable
      /\ StartupContract' = StartupContract
  BY <1>1, CaseFixed
<1>3. CASE main.k \notin Layers
  <2>1. main' = [pc |-> "join", k |-> main.k] /\ UNCHANGED layer
    BY <1>1, <1>3, LayerFacts DEF TakeResult
  <2>2. StagingTypes'
    BY <1>1, <1>2, <2>1, LayerFacts DEF StagingTypes, Staged
  <2>3. WorkersJoined' /\ ResultsTaken' /\ FailuresFounded'
    BY <1>1, <1>2, <1>3, <2>1 DEF StagingInv, WorkersJoined, ResultsTaken, FailuresFounded, Staged
  <2>4. SlabShapes' /\ SlicesWritten'
    BY <1>1, <2>1, SlabsStay DEF StagingInv, Staged
  <2> QED
    BY <2>2, <2>3, <2>4 DEF StagingInv
<1>4. CASE main.k \in Layers /\ layer[main.k].status = "done"
  <2>1. main' = [pc |-> "stage", k |-> main.k + 1] /\ UNCHANGED layer
    BY <1>1, <1>4, LayerFacts DEF TakeResult
  <2>2. StagingTypes'
    <3>1. main.k + 1 \in 0 .. Len(case.ratios)
      BY <1>1, <1>4, LayerFacts
    <3> QED
      BY <1>1, <1>2, <2>1, <3>1 DEF StagingTypes, Staged
  <2>3. ResultsTaken'
    <3>1. \A l \in Layers : l < main.k + 1 => l < main.k \/ l = main.k
      BY <1>1, <1>4, LayerFacts
    <3> QED
      BY <1>1, <1>2, <1>4, <2>1, <3>1 DEF StagingInv, ResultsTaken, Staged
  <2>4. WorkersJoined' /\ FailuresFounded'
    BY <1>1, <1>2, <2>1 DEF StagingInv, WorkersJoined, FailuresFounded
  <2>5. SlabShapes' /\ SlicesWritten'
    BY <1>1, <2>1, SlabsStay DEF StagingInv, Staged
  <2> QED
    BY <2>2, <2>3, <2>4, <2>5 DEF StagingInv
<1>5. CASE main.k \in Layers /\ layer[main.k].status = "failed"
  <2>1. /\ main' = [pc |-> "join", k |-> main.k]
        /\ layer' = [l \in Layers |-> IF layer[l].status = "pending"
                                      THEN [layer[l] EXCEPT !.status = "cancelled"] ELSE layer[l]]
    BY <1>1, <1>5, LayerFacts DEF TakeResult
  <2>2. ASSUME NEW l \in Layers
        PROVE  /\ layer'[l].at = layer[l].at
               /\ layer'[l].status = IF layer[l].status = "pending" THEN "cancelled" ELSE layer[l].status
               /\ layer'[l] \in [status : {"pending", "running", "failed", "done", "cancelled"},
                                 at : 1 .. Len(Rules) + 1]
    <3>1. layer[l] \in [status : {"pending", "running", "failed", "done", "cancelled"},
                        at : 1 .. Len(Rules) + 1]
      BY <1>1 DEF StagingTypes
    <3>2. layer'[l] = IF layer[l].status = "pending"
                      THEN [layer[l] EXCEPT !.status = "cancelled"] ELSE layer[l]
      BY <2>1
    <3> QED
      BY <3>1, <3>2
  <2>3. StagingTypes'
    <3>1. layer' \in [Layers -> [status : {"pending", "running", "failed", "done", "cancelled"},
                                 at : 1 .. Len(Rules) + 1]]
      BY <2>1, <2>2
    <3>2. main' \in [pc : {"contract", "refused", "template", "raised"} \cup Staged,
                     k : 0 .. Len(case.ratios)]
      BY <1>1, <2>1, LayerFacts DEF Staged
    <3> QED
      BY <1>1, <1>2, <3>1, <3>2 DEF StagingTypes
  <2>4. ResultsTaken'
    BY <1>1, <1>2, <2>1, <2>2 DEF StagingInv, ResultsTaken, Staged
  <2>5. FailuresFounded'
    BY <1>1, <1>2, <1>5, <2>1, <2>2 DEF StagingInv, FailuresFounded
  <2>6. WorkersJoined'
    BY <1>1, <1>2, <2>1 DEF WorkersJoined
  <2>7. SlabShapes' /\ SlicesWritten'
    BY <1>1, <2>2, SlabsStay DEF StagingInv, Staged
  <2> QED
    BY <2>3, <2>4, <2>5, <2>6, <2>7 DEF StagingInv
<1> QED
  BY <1>3, <1>4, <1>5 DEF TakeResult

LEMMA JoinPoolKeeps ==
  ASSUME StagingInv, JoinPool
  PROVE  StagingInv'
<1> DEFINE pc == IF main.k \notin Layers THEN "returned" ELSE "raised"
<1>1. /\ UNCHANGED <<case, slabs, layer>> /\ case \in Cases /\ StagingTypes /\ main.pc = "join"
      /\ With("running") = {} /\ threads' = TorchThreads
  BY DEF JoinPool, StagingInv, StagingTypes, RestoreThreads
<1>2. /\ Rules' = Rules /\ Layers' = Layers /\ Unstageable' = Unstageable
      /\ StartupContract' = StartupContract
  BY <1>1, CaseFixed
<1>3. main' = [pc |-> pc, k |-> main.k]
  BY <1>1, LayerFacts DEF JoinPool
<1>4. \/ main' = [pc |-> "returned", k |-> main.k] /\ main.k \notin Layers
      \/ main' = [pc |-> "raised", k |-> main.k] /\ main.k \in Layers
  BY <1>3
<1> HIDE DEF pc
<1>5. StagingTypes'
  BY <1>1, <1>2, <1>4, LayerFacts DEF StagingTypes, Staged
<1>6. WorkersJoined'
  BY <1>1, <1>2, <1>4 DEF WorkersJoined, With
<1>7. ResultsTaken'
  BY <1>1, <1>2, <1>4 DEF StagingInv, ResultsTaken, Staged
<1>8. FailuresFounded'
  BY <1>1, <1>2, <1>4 DEF StagingInv, FailuresFounded
<1>9. SlabShapes' /\ SlicesWritten'
  BY <1>1, SlabsStay DEF StagingInv, Staged
<1> QED
  BY <1>5, <1>6, <1>7, <1>8, <1>9 DEF StagingInv

(***************************************************************************)
(* A layer writes its slice, and no other one.                             *)
(***************************************************************************)
LEMMA MultiplesApart ==
  ASSUME NEW n \in Nat, NEW x \in Nat, NEW y \in Nat, x < y
  PROVE  x * n + n <= y * n
<1>1. (x + 1) * n <= y * n
  OBVIOUS
<1>2. (x + 1) * n = x * n + n
  OBVIOUS
<1> QED
  BY <1>1, <1>2

LEMMA SlicesApart ==
  ASSUME NEW n \in Nat, NEW x \in Nat, NEW y \in Nat, NEW i \in 0 .. n - 1,
         x * n + i \in y * n .. y * n + n - 1
  PROVE  x = y
<1>1. x * n \in Nat /\ y * n \in Nat
  OBVIOUS
<1>2. ~ (x < y)
  BY <1>1, MultiplesApart
<1>3. ~ (y < x)
  BY <1>1, MultiplesApart
<1> QED
  BY <1>2, <1>3

LEMMA SliceFits ==
  ASSUME NEW n \in Nat, NEW c \in Nat, NEW x \in 0 .. c - 1, NEW i \in 0 .. n - 1
  PROVE  x * n + i \in 0 .. n * c - 1
<1>1. x * n \in Nat /\ c * n \in Nat /\ n * c = c * n
  OBVIOUS
<1>2. x * n + n <= c * n
  BY MultiplesApart
<1> QED
  BY <1>1, <1>2

\* What StageRule writes, in the terms of the invariant.
LEMMA SliceCopied ==
  ASSUME StagingTypes, SlabShapes, NEW i \in DOMAIN Rules, NEW l \in Member[i]
  PROVE  LET name == Rules[i].name
             start == Place[i][l] * Width[i]
         IN  CopyIntoDestination(Rules[i], l)
             = [rank \in 0 .. case.ranks - 1 |->
                  [row \in 0 .. Width[i] * Cardinality(Member[i]) - 1 |->
                     IF row \in start .. start + Width[i] - 1 THEN Packed[i][l][rank][row - start]
                     ELSE slabs[name][rank][row]]]
<1>1. case \in Cases
  BY DEF StagingTypes
<1>2. /\ Member[i] = Members(Rules[i].group) /\ l \in Layers /\ Width[i] = TemplateWidth(Rules[i])
      /\ Packed[i][l] = PackRule(Rules[i], l)
      /\ Place[i][l] = Cardinality(Before(Members(Rules[i].group), l))
  BY DEF Member, Members, Width, Packed, Place
<1>3. PositionOf(Rules[i].group, l) = Place[i][l]
  BY <1>1, <1>2, StackGroupFacts
<1>4. /\ DOMAIN slabs[Rules[i].name] = 0 .. case.ranks - 1
      /\ \A rank \in 0 .. case.ranks - 1 :
           DOMAIN slabs[Rules[i].name][rank] = 0 .. Width[i] * Cardinality(Member[i]) - 1
  BY DEF SlabShapes
<1> QED
  BY <1>2, <1>3, <1>4 DEF CopyIntoDestination

\* A layer goes on to its next rule: its slice of the rule's slab is the
\* packed weight, and what the other layers and rules wrote is still there.
LEMMA RuleStaged ==
  ASSUME StagingTypes, SlabShapes, SlicesWritten, case' = case,
         NEW l \in Layers, NEW i \in DOMAIN Rules, layer[l].at = i,
         l \in Member[i], l \in Writes[i],
         slabs' = [slabs EXCEPT ![Rules[i].name] = CopyIntoDestination(Rules[i], l)],
         \A m \in Layers : layer'[m].at = IF m = l THEN i + 1 ELSE layer[m].at
  PROVE  SlabShapes' /\ SlicesWritten'
<1> DEFINE name == Rules[i].name
           w == Width[i]
           c == Cardinality(Member[i])
           start == Place[i][l] * w
           R == 0 .. case.ranks - 1
           D == 0 .. w * c - 1
           cell(rank, row) == IF row \in start .. start + w - 1 THEN Packed[i][l][rank][row - start]
                              ELSE slabs[name][rank][row]
<1>1. case \in Cases
  BY DEF StagingTypes
<1>2. /\ Rules' = Rules /\ Width' = Width /\ Member' = Member /\ Place' = Place
      /\ Packed' = Packed /\ Writes' = Writes
  BY <1>1, CaseFixed
<1>3. name \in DOMAIN slabs
  BY DEF SlabShapes
<1>4. /\ DOMAIN slabs'[name] = R
      /\ \A rank \in R : DOMAIN slabs'[name][rank] = D
      /\ \A rank \in R, row \in D : slabs'[name][rank][row] = cell(rank, row)
  <2>1. slabs'[name] = [rank \in R |-> [row \in D |-> cell(rank, row)]]
    BY <1>3, SliceCopied
  <2> HIDE DEF R, D, cell, name
  <2> QED
    BY <2>1
<1>5. /\ DOMAIN slabs' = DOMAIN slabs
      /\ \A n \in DOMAIN slabs : n # name => slabs'[n] = slabs[n]
  OBVIOUS
<1>6. \A j \in DOMAIN Rules : j # i => Rules[j].name # name
  BY RuleNames
<1>7. SlabShapes'
  <2>1. /\ DOMAIN slabs'[name] = R
        /\ \A rank \in R : DOMAIN slabs'[name][rank] = 0 .. w * c - 1
    BY <1>4 DEF D
  <2>2. ASSUME NEW j \in DOMAIN Rules, Member[j] # {}
        PROVE  /\ Rules[j].name \in DOMAIN slabs'
               /\ DOMAIN slabs'[Rules[j].name] = R
               /\ \A rank \in R :
                     DOMAIN slabs'[Rules[j].name][rank] = 0 .. Width[j] * Cardinality(Member[j]) - 1
    <3>1. CASE j = i
      BY <1>3, <1>5, <2>1, <3>1
    <3>2. CASE j # i
      BY <1>5, <1>6, <2>2, <3>2 DEF SlabShapes
    <3> QED
      BY <3>1, <3>2
  <2>3. Width \in [DOMAIN Rules -> Nat]
    BY DEF SlabShapes
  <2> QED
    BY <1>2, <2>2, <2>3 DEF SlabShapes
<1>8. /\ w \in Nat /\ c \in Nat
      /\ \A m \in Member[i] : m \in Layers /\ Place[i][m] \in 0 .. c - 1
      /\ \A m, n \in Member[i] : Place[i][m] = Place[i][n] => m = n
  <2>1. w \in Nat
    BY DEF SlabShapes
  <2>2. Member[i] = Members(Rules[i].group)
    BY DEF Member
  <2>3. \A m \in Layers : Place[i][m] = Cardinality(Before(Members(Rules[i].group), m))
    BY DEF Place
  <2> QED
    BY <1>1, <2>1, <2>2, <2>3, GroupPlaces
<1> HIDE DEF w, c, R, D, cell
<1>9. ASSUME NEW j \in DOMAIN Rules, NEW m \in Member[j], j < layer'[m].at
      PROVE  /\ m \in Writes[j]
             /\ \A rank \in R, k \in 0 .. Width[j] - 1 :
                  slabs'[Rules[j].name][rank][Place[j][m] * Width[j] + k] = Packed[j][m][rank][k]
  <2>1. m \in Layers /\ j \in Nat /\ i \in Nat /\ Rules[j].name \in DOMAIN slabs
    BY RuleNames DEF Member, Members, SlabShapes
  <2>2. CASE j # i
    <3>1. j < layer[m].at
      BY <1>9, <2>1, <2>2
    <3>2. slabs'[Rules[j].name] = slabs[Rules[j].name]
      BY <1>5, <1>6, <2>1, <2>2
    <3>3. /\ m \in Writes[j]
          /\ \A rank \in R, k \in 0 .. Width[j] - 1 :
               slabs[Rules[j].name][rank][Place[j][m] * Width[j] + k] = Packed[j][m][rank][k]
      BY <3>1 DEF SlicesWritten, R
    <3> QED
      BY <3>2, <3>3
  <2>3. CASE j = i /\ m = l
    <3>1. ASSUME NEW rank \in R, NEW k \in 0 .. w - 1
          PROVE  slabs'[name][rank][Place[i][l] * w + k] = Packed[i][l][rank][k]
      <4>1. Place[i][l] \in 0 .. c - 1 /\ start \in Nat
        BY <1>8
      <4>2. start + k \in D
        BY <1>8, <4>1, SliceFits DEF D
      <4>3. start + k \in start .. start + w - 1 /\ (start + k) - start = k
        BY <1>8, <4>1
      <4> HIDE DEF start
      <4>4. slabs'[name][rank][start + k] = cell(rank, start + k)
        BY <1>4, <4>2
      <4>5. cell(rank, start + k) = Packed[i][l][rank][(start + k) - start]
        BY <4>3 DEF cell
      <4> QED
        BY <4>3, <4>4, <4>5 DEF start
    <3> QED
      BY <2>3, <3>1 DEF w
  <2>4. CASE j = i /\ m # l
    <3>1. i < layer[m].at
      BY <1>9, <2>1, <2>4
    <3>2. /\ m \in Writes[i]
          /\ \A rank \in R, k \in 0 .. w - 1 :
               slabs[name][rank][Place[i][m] * w + k] = Packed[i][m][rank][k]
      BY <2>4, <3>1 DEF SlicesWritten, R, w
    <3>3. ASSUME NEW rank \in R, NEW k \in 0 .. w - 1
          PROVE  slabs'[name][rank][Place[i][m] * w + k] = slabs[name][rank][Place[i][m] * w + k]
      <4>1. /\ Place[i][l] \in 0 .. c - 1 /\ Place[i][m] \in 0 .. c - 1
            /\ Place[i][l] # Place[i][m] /\ Place[i][l] \in Nat /\ Place[i][m] \in Nat
        BY <1>8, <2>4
      <4>2. Place[i][m] * w + k \in D
        BY <1>8, <4>1, SliceFits DEF D
      <4>3. Place[i][m] * w + k \notin start .. start + w - 1
        BY <1>8, <4>1, SlicesApart
      <4>4. slabs'[name][rank][Place[i][m] * w + k] = cell(rank, Place[i][m] * w + k)
        BY <1>4, <4>2
      <4> QED
        BY <4>3, <4>4 DEF cell
    <3> QED
      BY <2>4, <3>2, <3>3 DEF w
  <2> QED
    BY <2>2, <2>3, <2>4
<1>10. SlicesWritten'
  BY <1>2, <1>9 DEF SlicesWritten, R
<1> QED
  BY <1>7, <1>10

LEMMA StageRuleKeeps ==
  ASSUME StagingInv, NEW l \in Layers, StageRule(l)
  PROVE  StagingInv'
<1> DEFINE i == layer[l].at
           rule == Rules[i]
           skip == ~InGroup(rule.group, l)
           fail == ~skip /\ RuleFails(rule, l)
<1>1. /\ UNCHANGED <<case, main, threads>> /\ case \in Cases /\ StagingTypes
      /\ layer[l].status = "running" /\ i <= Len(Rules)
      /\ main.pc \in {"stage", "join"}
  BY RunningMeansStaging DEF StageRule, StagingInv, StagingTypes
<1>2. /\ Rules' = Rules /\ Layers' = Layers /\ Unstageable' = Unstageable
      /\ StartupContract' = StartupContract
  BY <1>1, CaseFixed
<1>3. /\ Len(Rules) \in Nat /\ i \in 1 .. Len(Rules) + 1 /\ i \in DOMAIN Rules
  <2>1. Len(Rules) \in Nat /\ DOMAIN Rules = 1 .. Len(Rules)
    BY RuleNames
  <2>2. i \in 1 .. Len(Rules) + 1
    BY <1>1, LayerFacts
  <2> HIDE DEF i
  <2> QED
    BY <1>1, <2>1, <2>2
<1>4. SlabShapes /\ SlicesWritten
  BY <1>1 DEF StagingInv, Staged
<1>5. /\ slabs' = IF skip \/ fail THEN slabs
                  ELSE [slabs EXCEPT ![rule.name] = CopyIntoDestination(rule, l)]
      /\ layer' = [layer EXCEPT ![l] =
                     IF fail THEN [@ EXCEPT !.status = "failed"] ELSE [@ EXCEPT !.at = layer[l].at + 1]]
  BY DEF StageRule
<1>6. skip <=> l \notin Member[i]
  BY <1>1, <1>3, StackGroupFacts DEF Member
<1>7. CASE fail
  <2>1. layer' = [layer EXCEPT ![l].status = "failed"] /\ UNCHANGED slabs
    BY <1>5, <1>7
  <2>2. l \in Unstageable
    BY <1>3, <1>7 DEF Unstageable
  <2> QED
    BY <1>1, <2>1, <2>2, StatusKeeps
<1>8. CASE ~fail
  <2>1. /\ DOMAIN layer = Layers /\ layer[l] = [status |-> "running", at |-> i]
    BY <1>1, LayerFacts
  <2>2. layer' = [layer EXCEPT ![l] = [layer[l] EXCEPT !.at = layer[l].at + 1]]
    <3> HIDE DEF fail
    <3> QED
      BY <1>5, <1>8
  <2>3. [layer[l] EXCEPT !.at = layer[l].at + 1] = [status |-> "running", at |-> i + 1]
    <3> HIDE DEF i
    <3> QED
      BY <2>1
  <2>4. /\ DOMAIN layer' = Layers /\ layer'[l] = [status |-> "running", at |-> i + 1]
        /\ \A m \in Layers \ {l} : layer'[m] = layer[m]
    BY <2>1, <2>2, <2>3
  <2>5. /\ \A m \in Layers : layer'[m].at = IF m = l THEN i + 1 ELSE layer[m].at
        /\ \A m \in Layers : layer'[m].status = layer[m].status
    BY <1>1, <2>4
  <2> HIDE DEF i
  <2>6. StagingTypes'
    <3>1. i + 1 \in 1 .. Len(Rules) + 1
      BY <1>1, <1>3
    <3>2. layer' \in [Layers -> [status : {"pending", "running", "failed", "done", "cancelled"},
                                 at : 1 .. Len(Rules) + 1]]
      BY <1>1, <2>2, <2>3, <3>1 DEF StagingTypes
    <3> QED
      BY <1>1, <1>2, <3>2 DEF StagingTypes
  <2>7. WorkersJoined'
    BY <1>1, <1>2 DEF WorkersJoined
  <2>8. ResultsTaken'
    BY <1>1, <1>2, <2>4, <2>5 DEF StagingInv, ResultsTaken
  <2>9. FailuresFounded'
    BY <1>1, <1>2, <2>5 DEF StagingInv, FailuresFounded
  <2>10. SlabShapes' /\ SlicesWritten'
    <3>1. CASE ~skip
      <4>1. l \in Member[i]
        BY <1>6, <3>1
      <4>2. l \in Writes[i]
        BY <1>3, <1>8, <3>1 DEF Writes
      <4>3. slabs' = [slabs EXCEPT ![Rules[i].name] = CopyIntoDestination(Rules[i], l)]
        BY <1>5, <1>8, <3>1
      <4>4. layer[l].at = i
        BY DEF i
      <4> QED
        BY <1>1, <1>3, <1>4, <2>5, <4>1, <4>2, <4>3, <4>4, RuleStaged
    <3>2. CASE skip
      <4>1. slabs' = slabs /\ l \notin Member[i]
        BY <1>5, <1>6, <3>2
      <4>2. /\ Width' = Width /\ Member' = Member /\ Place' = Place
            /\ Packed' = Packed /\ Writes' = Writes
        BY <1>1, CaseFixed
      <4>3. SlabShapes'
        BY <1>1, <1>2, <1>4, <4>1, <4>2 DEF SlabShapes
      <4>4. \A j \in DOMAIN Rules : \A m \in Member[j] : j < layer'[m].at => j < layer[m].at
        <5> SUFFICES ASSUME NEW j \in DOMAIN Rules, NEW m \in Member[j], j < layer'[m].at
                     PROVE  j < layer[m].at
          OBVIOUS
        <5>1. m \in Layers /\ j \in Nat /\ i \in Nat /\ layer[l].at = i
          BY <1>3, RuleNames DEF Member, Members, i
        <5>2. CASE m = l
          <6>1. j < i + 1 /\ j # i
            BY <2>5, <4>1, <5>1, <5>2
          <6> QED
            BY <5>1, <5>2, <6>1
        <5>3. CASE m # l
          BY <2>5, <5>1, <5>3
        <5> QED
          BY <5>2, <5>3
      <4>5. SlicesWritten'
        BY <1>1, <1>2, <1>4, <4>1, <4>2, <4>4 DEF SlicesWritten
      <4> QED
        BY <4>3, <4>5
    <3> QED
      BY <3>1, <3>2
  <2> QED
    BY <2>6, <2>7, <2>8, <2>9, <2>10 DEF StagingInv
<1> QED
  BY <1>7, <1>8

(***************************************************************************)
(* What the invariant says of the slabs that are returned.                 *)
(***************************************************************************)
LEMMA QuotientUnique ==
  ASSUME NEW n \in Nat, NEW q \in Nat, NEW r \in 0 .. n - 1
  PROVE  (q * n + r) \div n = q /\ (q * n + r) % n = r
<1> DEFINE x == q * n + r
<1>1. n \in Nat \ {0} /\ x \in Nat /\ q * n \in Nat
  OBVIOUS
<1>2. x = (x \div n) * n + (x % n) /\ x \div n \in Nat /\ x % n \in 0 .. n - 1
  <2> HIDE DEF x
  <2> QED
    BY <1>1
<1>3. x \in q * n .. q * n + n - 1
  BY <1>1
<1>4. x \div n = q
  BY <1>2, <1>3, SlicesApart
<1> QED
  BY <1>1, <1>2, <1>4

LEMMA EvenSplit ==
  ASSUME NEW ranks \in Nat \ {0}, NEW experts \in Nat, experts % ranks = 0
  PROVE  experts = ranks * (experts \div ranks)
OBVIOUS

\* Expert rank * n + i is the one whose rank and place these are.
LEMMA ExpertOf ==
  ASSUME NEW n \in Nat, NEW ranks \in Nat, NEW rank \in 0 .. ranks - 1, NEW i \in 0 .. n - 1
  PROVE  LET e == rank * n + i IN
         /\ e \in 0 .. ranks * n - 1 /\ e \div n = rank /\ e % n = i
         /\ \A f \in 0 .. ranks * n - 1 : f \div n = rank /\ f % n = i => f = e
<1>1. rank \in Nat /\ n * ranks = ranks * n /\ ranks * n \in Nat
  OBVIOUS
<1>2. rank * n + i \in 0 .. ranks * n - 1
  BY <1>1, SliceFits
<1>3. (rank * n + i) \div n = rank /\ (rank * n + i) % n = i
  BY <1>1, QuotientUnique
<1>4. ASSUME NEW e \in 0 .. ranks * n - 1, e \div n = rank, e % n = i
      PROVE  e = rank * n + i
  <2>1. n \in Nat \ {0} /\ e \in Nat
    BY <1>1
  <2>2. e = (e \div n) * n + (e % n)
    BY <2>1
  <2> QED
    BY <1>4, <2>2
<1> QED
  BY <1>2, <1>3, <1>4

LEMMA PackedIsReference ==
  ASSUME StagingTypes, NEW i \in DOMAIN Rules, NEW l \in Member[i], l \in Writes[i],
         Width[i] \in Nat, NEW rank \in 0 .. case.ranks - 1, NEW j \in 0 .. Width[i] - 1
  PROVE  Packed[i][l][rank][j] = ReferenceCell(Rules[i], rank, Place[i][l] * Width[i] + j)
<1> DEFINE rule == Rules[i]
           w == TemplateWidth(rule)
           S == Members(rule.group)
           R == Place[i][l] * w + j
           read == SourceName(rule, l, 0) \in LayerWeightNames(l)
<1>1. /\ case \in Cases /\ case.ranks \in Nat \ {0} /\ case.experts \in Nat
  BY CasesAssumption DEF StagingTypes
<1>2. /\ Width[i] = w /\ w \in Nat /\ Member[i] = S /\ l \in Layers
      /\ Place[i][l] = Cardinality(Before(S, l))
      /\ Packed[i][l] = PackRule(rule, l) /\ ~RuleFails(rule, l)
  BY DEF Width, Member, Members, Place, Packed, Writes
<1>3. /\ Place[i][l] \in Nat
      /\ \A m \in S : Cardinality(Before(S, m)) = Place[i][l] => m = l
  BY <1>1, <1>2, GroupPlaces
<1>4. R \div w = Place[i][l] /\ R % w = j
  BY <1>2, <1>3, QuotientUnique
<1>5. (CHOOSE m \in S : Cardinality(Before(S, m)) = R \div w) = l
  BY <1>2, <1>3, <1>4
<1>6. ReferenceCell(rule, rank, R)
      = IF rule.kind = "expert"
        THEN Cell(l, rule.src, CHOOSE e \in 0 .. case.experts - 1 :
                                  e \div LocalExperts = rank /\ e % LocalExperts = j)
        ELSE IF read THEN Cell(l, rule.src, j) ELSE Fill(rule.fill)
  <2> DEFINE l0 == CHOOSE m \in S : Cardinality(Before(S, m)) = R \div w
  <2> HIDE DEF R
  <2>1. ReferenceCell(rule, rank, R)
        = IF rule.kind = "expert"
          THEN Cell(l0, rule.src, CHOOSE e \in 0 .. case.experts - 1 :
                                     e \div LocalExperts = rank /\ e % LocalExperts = R % w)
          ELSE IF SourceName(rule, l0, 0) \in LayerWeightNames(l0) THEN Cell(l0, rule.src, R % w)
          ELSE Fill(rule.fill)
    BY Zenon DEF ReferenceCell
  <2>2. l0 = l
    BY <1>5
  <2> HIDE DEF l0, w, S
  <2> QED
    BY <1>4, <2>1, <2>2
<1>7. PackRule(rule, l)[rank][j]
      = IF rule.kind = "expert" THEN Cell(l, rule.src, LocalExpertIds(rank)[j])
        ELSE IF read THEN Cell(l, rule.src, j) ELSE Fill(rule.fill)
  BY <1>2 DEF PackRule
<1>8. ASSUME rule.kind = "expert"
      PROVE  (CHOOSE e \in 0 .. case.experts - 1 : e \div LocalExperts = rank /\ e % LocalExperts = j)
             = LocalExpertIds(rank)[j]
  <2>1. w = LocalExperts /\ LocalExperts = case.experts \div case.ranks
    BY <1>8 DEF TemplateWidth, LocalExperts
  <2>2. case.experts % case.ranks = 0
    BY <1>2, <1>8 DEF RuleFails
  <2>3. LocalExpertIds(rank)[j] = rank * LocalExperts + j
    BY <1>2, <2>1 DEF LocalExpertIds
  <2>4. LocalExperts \in Nat /\ j \in 0 .. LocalExperts - 1
    BY <1>2, <2>1
  <2>5. case.experts = case.ranks * LocalExperts
    BY <1>1, <2>1, <2>2, EvenSplit
  <2> HIDE DEF w, rule
  <2> DEFINE n == LocalExperts
             e == rank * n + j
  <2>6. /\ e \in 0 .. case.experts - 1 /\ e \div n = rank /\ e % n = j
        /\ \A f \in 0 .. case.experts - 1 : f \div n = rank /\ f % n = j => f = e
    <3>1. /\ e \in 0 .. case.ranks * n - 1 /\ e \div n = rank /\ e % n = j
          /\ \A f \in 0 .. case.ranks * n - 1 : f \div n = rank /\ f % n = j => f = e
      <4>1. case.ranks \in Nat
        BY <1>1
      <4> HIDE DEF n
      <4> QED
        BY <2>4, <4>1, ExpertOf DEF n
    <3> QED
      BY <2>5, <3>1
  <2> HIDE DEF e
  <2>7. (CHOOSE f \in 0 .. case.experts - 1 : f \div n = rank /\ f % n = j) = e
    BY <2>6
  <2> QED
    BY <2>3, <2>7 DEF e
<1> QED
  BY <1>2, <1>6, <1>7, <1>8

LEMMA QuotientAndRest ==
  ASSUME NEW R \in Nat, NEW w \in Nat, w # 0
  PROVE  R = (R \div w) * w + (R % w) /\ R \div w \in Nat /\ R % w \in 0 .. w - 1
<1>1. R \div w \in Int /\ R % w \in 0 .. w - 1 /\ R = (R \div w) * w + (R % w)
  OBVIOUS
<1>2. R \div w >= 0
  OBVIOUS
<1> QED
  BY <1>1, <1>2

LEMMA ReturnedSlabsExact ==
  ASSUME StagingInv
  PROVE  SlabsExact
<1> SUFFICES ASSUME main.pc = "returned", NEW i \in DOMAIN Rules,
                    StackGroup(Rules[i].group) # <<>>,
                    NEW rank \in 0 .. case.ranks - 1,
                    NEW R \in DOMAIN slabs[Rules[i].name][rank]
             PROVE  slabs[Rules[i].name][rank][R] = ReferenceCell(Rules[i], rank, R)
  BY DEF SlabsExact
<1> DEFINE w == Width[i]
           c == Cardinality(Member[i])
           q == R \div w
           j == R % w
<1>1. /\ StagingTypes /\ SlabShapes /\ SlicesWritten /\ case \in Cases
      /\ \A l \in Layers : layer[l].at = Len(Rules) + 1
  <2>1. StagingTypes /\ SlabShapes /\ SlicesWritten /\ case \in Cases
    BY DEF StagingInv, Staged, StagingTypes
  <2>2. main.k \notin Layers /\ \A l \in Layers : l < main.k => layer[l].status = "done"
    BY DEF StagingInv, ResultsTaken, Staged
  <2>3. \A l \in Layers : l < main.k
    BY <2>1, <2>2, LayerFacts
  <2> QED
    BY <2>1, <2>2, <2>3 DEF StagingInv, ResultsTaken
<1>2. /\ Member[i] = Members(Rules[i].group) /\ Member[i] # {}
      /\ \A l \in Layers : Place[i][l] = Cardinality(Before(Members(Rules[i].group), l))
  BY <1>1, StackGroupFacts DEF Member, Place
<1>3. w \in Nat /\ R \in 0 .. w * c - 1
  BY <1>1, <1>2 DEF SlabShapes
<1>4. /\ c \in Nat /\ Member[i] \subseteq Layers
      /\ \A p \in 0 .. c - 1 : \E l \in Member[i] : Place[i][l] = p
  <2>1. /\ c \in Nat /\ Member[i] \subseteq Layers
        /\ \A p \in 0 .. c - 1 : \E l \in Member[i] : Cardinality(Before(Members(Rules[i].group), l)) = p
    BY <1>1, <1>2, GroupPlaces
  <2> QED
    BY <1>2, <2>1
<1> HIDE DEF w, c
<1>5. w * c \in Nat /\ w # 0
  <2>1. w * c \in Nat
    BY <1>3, <1>4
  <2>2. CASE w = 0
    <3>1. w * c = 0
      BY <1>4, <2>2
    <3> QED
      BY <1>3, <3>1
  <2> QED
    BY <2>1, <2>2
<1>6. R \in Nat /\ R < w * c
  BY <1>3, <1>5
<1>7. R = q * w + j /\ q \in Nat /\ j \in 0 .. w - 1
  BY <1>3, <1>5, <1>6, QuotientAndRest
<1> HIDE DEF q, j
<1>8. q \in 0 .. c - 1
  <2>1. CASE q >= c
    <3>1. c * w <= q * w /\ c * w = w * c /\ q * w \in Nat /\ c * w \in Nat
      BY <1>3, <1>4, <1>7, <2>1
    <3> QED
      BY <1>6, <1>7, <3>1
  <2> QED
    BY <1>4, <1>7, <2>1
<1>9. PICK l \in Member[i] : Place[i][l] = q
  BY <1>4, <1>8
<1>10. i < layer[l].at
  <2>1. DOMAIN Rules = 1 .. Len(Rules) /\ Len(Rules) \in Nat
    BY RuleNames
  <2> QED
    BY <1>1, <1>4, <2>1
<1>11. l \in Writes[i] /\ slabs[Rules[i].name][rank][q * w + j] = Packed[i][l][rank][j]
  BY <1>1, <1>7, <1>9, <1>10 DEF SlicesWritten, w
<1>12. Packed[i][l][rank][j] = ReferenceCell(Rules[i], rank, Place[i][l] * w + j)
  BY <1>1, <1>3, <1>7, <1>11, PackedIsReference DEF w
<1> QED
  BY <1>7, <1>9, <1>11, <1>12

LEMMA StagingFollows ==
  ASSUME StagingInv
  PROVE  StagingSound
<1>1. StagingLeavesNothing
  BY DEF StagingInv, WorkersJoined, StagingLeavesNothing
<1>2. ContractCoversStaging
  <2> SUFFICES ASSUME main.pc = "raised"
               PROVE  \/ \E l \in Layers : \E n \in LayerWeightNames(l) \ DOMAIN case.raw :
                             n.expert \notin {0, case.experts - 1}
                      \/ \E l \in Layers, i \in DOMAIN Rules :
                             LayerWeightNames(l) \subseteq DOMAIN case.raw /\ RuleFails(Rules[i], l)
    BY DEF ContractCoversStaging
  <2>1. StartupContract \subseteq DOMAIN case.raw /\ Unstageable # {}
    BY DEF StagingInv, FailuresFounded
  <2>2. PICK l \in Layers : LoadFails(l) \/ \E i \in DOMAIN Rules : RuleFails(Rules[i], l)
    BY <2>1 DEF Unstageable
  <2>3. CASE LoadFails(l)
    <3>1. PICK n \in LayerWeightNames(l) : n \notin DOMAIN case.raw
      BY <2>3 DEF LoadFails
    <3>2. n.expert \in {0, case.experts - 1} => n \in StartupContract
      BY DEF StartupContract
    <3> QED
      BY <2>1, <3>1, <3>2
  <2>4. CASE ~LoadFails(l)
    BY <2>2, <2>4 DEF LoadFails
  <2> QED
    BY <2>3, <2>4
<1> QED
  BY <1>1, <1>2, ReturnedSlabsExact DEF StagingSound

\* Whatever the order in which a pool's workers pack the layers, the slabs that
\* staging returns hold at every rank and row the tensor of the layer and expert
\* that belongs there; a failure leaves no worker writing and torch's thread
\* count restored, and is one the start-up contract could not see: for any
\* checkpoint, compress ratios, numbers of ranks, experts and workers
\* (stage_layers, stack_layers, validate_startup_contract).
THEOREM StagingCorrect == WeightsSpec => []StagingSound
<1>1. WeightsInit => StagingInv
  BY StagingInitially DEF WeightsInit
<1>2. StagingInv /\ [WeightsNext]_allVars => StagingInv'
  <2> SUFFICES ASSUME StagingInv, [WeightsNext]_allVars PROVE StagingInv'
    OBVIOUS
  <2>1. CASE SNext
    BY <2>1, ValidateKeeps, PackTemplateKeeps, TakeResultKeeps, JoinPoolKeeps, StartLayerKeeps,
       StageRuleKeeps, FinishLayerKeeps DEF SNext
  <2>2. CASE UNCHANGED svars
    BY <2>2, SStutterKeeps
  <2> QED
    BY <2>1, <2>2 DEF WeightsNext, allVars
<1>3. StagingInv => StagingSound
  BY StagingFollows
<1> QED
  BY <1>1, <1>2, <1>3, PTL DEF WeightsSpec
=============================================================================
