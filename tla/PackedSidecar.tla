---------------------------- MODULE PackedSidecar ----------------------------
(***************************************************************************)
(* The prepacked DeepSeek V4 sidecar: tools/prepack_deepseek_v4.py writes  *)
(* it, and serving maps it at start instead of packing the checkpoint's    *)
(* shards (weight_loader.py).                                              *)
(*                                                                         *)
(* Prepack commands, a starting server and an operator who redeploys       *)
(* shards or the config share one directory and no lock.  A file's bytes   *)
(* are known by the time of their last change, a stamp that is never used  *)
(* twice; so the fingerprint of a set of files, which covers each one's    *)
(* modification time, is a record of stamps, and so is what was packed     *)
(* from them.                                                              *)
(***************************************************************************)
EXTENDS Integers, FiniteSetsExt

CONSTANTS
    Packers,          \* prepack commands
    NumShards,        \* source shards of the checkpoint
    RankCounts,       \* rank counts a layout is packed for
    NoFile,           \* no sidecar at the path
    MaxRedeploys      \* bound: how often the operator replaces a file

(* build_sidecar takes its output's mode from the first of the shards. *)
ASSUME ShardsAssumption == NumShards \in Nat \ {0} /\ MaxRedeploys \in Nat

Shards == 1 .. NumShards

VARIABLES
    stamp,            \* shard -> the stamp of its bytes; 0 is config.json
    sidecar,          \* rank count -> the sidecar at its default path
    packer,           \* prepack command -> its progress
    loader            \* the server's progress

pvars == <<stamp, sidecar, packer, loader>>

NoStats == [s \in 0 .. NumShards |-> 0]
Gone == [pc |-> "done"]

(* packed_stacked_layer_weights_fingerprint: the rank count, the config's  *)
(* fields, and the size and modification time of every shard.              *)
Fingerprint(ranks, stats) == [ranks |-> ranks, stats |-> stats]

PInit ==
    /\ stamp = [s \in 0 .. NumShards |-> 1]
    /\ sidecar = [r \in RankCounts |-> NoFile]
    /\ packer = [p \in Packers |-> [pc |-> "new"]]
    /\ loader = [pc |-> "new"]

(* A shard or the config is replaced by the operator. *)
Redeploy(s) ==
    /\ LET latest == Max({stamp[t] : t \in DOMAIN stamp}) IN
       /\ latest <= MaxRedeploys
       /\ stamp' = [stamp EXCEPT ![s] = latest + 1]
    /\ UNCHANGED <<sidecar, packer, loader>>

-----------------------------------------------------------------------------
(* build_sidecar                                                           *)

(* The command packs for ranks and writes to the default path of output;   *)
(* --output can name the path of another rank count.                       *)
PackBegin(p, ranks, output, force) ==
    /\ packer[p].pc = "new"
    /\ packer' = [packer EXCEPT ![p] =
         IF sidecar[output] # NoFile /\ ~force THEN Gone
         ELSE [pc |-> "stat", s |-> 1, ranks |-> ranks, output |-> output,
               stats |-> [NoStats EXCEPT ![0] = stamp[0]],
               read  |-> [NoStats EXCEPT ![0] = stamp[0]]]]
    /\ UNCHANGED <<stamp, sidecar, loader>>

Walk(rec, field, after) ==
    [rec EXCEPT ![field][rec.s] = stamp[rec.s],
                !.s  = IF rec.s = NumShards THEN 1 ELSE rec.s + 1,
                !.pc = IF rec.s = NumShards THEN after ELSE rec.pc]

(* Mutant: the fingerprint is taken from the shards after they are read. *)
ReadThenStat(p) ==
    \/ packer[p].pc = "stat" /\ packer' = [packer EXCEPT ![p] = Walk(@, "read", "read")]
    \/ packer[p].pc = "read" /\ packer' = [packer EXCEPT ![p] = Walk(@, "stats", "save")]

(* The shards are stat'ed for the fingerprint, and only then read. *)
StatThenRead(p) ==
    \/ packer[p].pc = "stat" /\ packer' = [packer EXCEPT ![p] = Walk(@, "stats", "read")]
    \/ packer[p].pc = "read" /\ packer' = [packer EXCEPT ![p] = Walk(@, "read", "save")]

PackShard(p) ==
    /\ StatThenRead(p)
    /\ UNCHANGED <<stamp, sidecar, loader>>

(* The payload was saved under a temporary name of the command's own       *)
(* (mkstemp), and takes the sidecar's name in one step.                    *)
PackPublish(p) ==
    /\ packer[p].pc = "save"
    /\ sidecar' = [sidecar EXCEPT ![packer[p].output] =
         [fingerprint |-> Fingerprint(packer[p].ranks, packer[p].stats),
          content     |-> Fingerprint(packer[p].ranks, packer[p].read)]]
    /\ packer' = [packer EXCEPT ![p] = Gone]
    /\ UNCHANGED <<stamp, loader>>

(* The command fails or is killed; its temporary file is never published. *)
PackDies(p) ==
    /\ packer[p].pc \notin {"new", "done"}
    /\ packer' = [packer EXCEPT ![p] = Gone]
    /\ UNCHANGED <<stamp, sidecar, loader>>

-----------------------------------------------------------------------------
(* load_stacked_layer_weights with use_prepacked                           *)

(* The server reads config.json and opens the sidecar of its rank count. *)
LoadOpen(ranks) ==
    /\ loader.pc = "new"
    /\ loader' = [pc |-> IF sidecar[ranks] = NoFile THEN "pack" ELSE "resident",
                  s |-> 1, ranks |-> ranks, fd |-> sidecar[ranks], from |-> "shards",
                  stats |-> [NoStats EXCEPT ![0] = stamp[0]],
                  read  |-> [NoStats EXCEPT ![0] = stamp[0]]]
    /\ UNCHANGED <<stamp, sidecar, packer>>

(* The sampled page-cache residency is below the threshold or could not be *)
(* sampled: the sidecar is skipped.                                        *)
LoadResidency(warm) ==
    /\ loader.pc = "resident"
    /\ loader' = [loader EXCEPT !.pc = IF warm THEN "stat" ELSE "pack"]
    /\ UNCHANGED <<stamp, sidecar, packer>>

LoadStat ==
    /\ loader.pc = "stat"
    /\ loader' = Walk(loader, "stats", "check")
    /\ UNCHANGED <<stamp, sidecar, packer>>

FingerprintMatches ==
    loader.fd.fingerprint = Fingerprint(loader.ranks, loader.stats)

(* Mutant: a stale sidecar ends the start instead of falling back. *)
StaleIsFatal ==
    /\ loader.pc = "check"
    /\ loader' = [loader EXCEPT !.pc = IF FingerprintMatches THEN "map" ELSE "failed"]
    /\ UNCHANGED <<stamp, sidecar, packer>>

(* A stale sidecar is ignored. *)
LoadCheck ==
    /\ loader.pc = "check"
    /\ loader' = [loader EXCEPT !.pc = IF FingerprintMatches THEN "map" ELSE "pack"]
    /\ UNCHANGED <<stamp, sidecar, packer>>

(* The mapping is of the descriptor that was checked, not of the name; a   *)
(* payload without the leading rank dimension is fatal from here on.       *)
LoadMap ==
    /\ loader.pc = "map"
    /\ loader' = [loader EXCEPT !.from = "sidecar", !.fd = loader.fd.content,
                    !.pc = IF loader.fd.content.ranks = loader.ranks THEN "done" ELSE "failed"]
    /\ UNCHANGED <<stamp, sidecar, packer>>

(* Every hidden layer is read and packed from the shards. *)
LoadFromShards ==
    /\ loader.pc = "pack"
    /\ loader' = Walk(loader, "read", "done")
    /\ UNCHANGED <<stamp, sidecar, packer>>

LoadStep ==
    \/ \E warm \in BOOLEAN : LoadResidency(warm)
    \/ LoadStat \/ LoadCheck \/ LoadMap \/ LoadFromShards

PNext ==
    \/ \E s \in 0 .. NumShards : Redeploy(s)
    \/ \E p \in Packers :
          \/ \E ranks, output \in RankCounts, force \in BOOLEAN :
                PackBegin(p, ranks, output, force)
          \/ PackShard(p) \/ PackPublish(p) \/ PackDies(p)
    \/ \E ranks \in RankCounts : LoadOpen(ranks)
    \/ LoadStep

-----------------------------------------------------------------------------
(* Properties                                                              *)

(* Weights taken from a sidecar are, rank layout, config and every shard,  *)
(* the ones that packing the files the server looked at would give -       *)
(* whatever was redeployed and whichever prepack published while the       *)
(* sidecar was packed and while it was being loaded.                       *)
SidecarIsFresh ==
    loader.pc = "done" /\ loader.from = "sidecar"
        => loader.fd = Fingerprint(loader.ranks, loader.stats)

(* A server start never depends on the sidecar: missing, cold, stale or    *)
(* being replaced, the load ends with weights.                             *)
LoadEnds == loader.pc # "new" ~> loader.pc = "done"

-----------------------------------------------------------------------------
(***************************************************************************)
(* The inductive invariant behind SidecarIsFresh (Weights_proofs).  Stamps *)
(* only grow, and a shard is stat'ed before it is read by a prepack, read  *)
(* before the sidecar is published, and stat'ed again after the sidecar    *)
(* was opened: stats that agree enclose what was read.                     *)
(***************************************************************************)
Stats == [0 .. NumShards -> Nat]

Within(a, b, n) == \A t \in 0 .. NumShards : t < n => a[t] <= b[t]
AllWithin(a, b) == \A t \in 0 .. NumShards : a[t] <= b[t]

(* What a sidecar is: both parts of the same rank count. *)
Published(f) ==
    /\ f.fingerprint = Fingerprint(f.content.ranks, f.fingerprint.stats)
    /\ f.content = Fingerprint(f.content.ranks, f.content.stats)
    /\ f.fingerprint.stats \in Stats /\ f.content.stats \in Stats
    /\ AllWithin(f.fingerprint.stats, f.content.stats)
    /\ AllWithin(f.content.stats, stamp)

PackerInv(rec) ==
    rec.pc \notin {"new", "done"} =>
        /\ rec = [pc |-> rec.pc, s |-> rec.s, ranks |-> rec.ranks, output |-> rec.output,
                  stats |-> rec.stats, read |-> rec.read]
        /\ rec.pc \in {"stat", "read", "save"}
        /\ rec.s \in Shards /\ rec.stats \in Stats /\ rec.read \in Stats
        /\ AllWithin(rec.stats, stamp) /\ AllWithin(rec.read, stamp)
        /\ rec.stats[0] <= rec.read[0]
        /\ rec.pc = "read" => Within(rec.stats, rec.read, rec.s)
        /\ rec.pc = "save" => AllWithin(rec.stats, rec.read)

LoaderInv(rec) ==
    rec.pc # "new" =>
        /\ rec = [pc |-> rec.pc, s |-> rec.s, ranks |-> rec.ranks, fd |-> rec.fd,
                  from |-> rec.from, stats |-> rec.stats, read |-> rec.read]
        /\ rec.s \in Shards /\ rec.stats \in Stats /\ rec.read \in Stats
        /\ rec.pc \notin {"done", "failed"} => rec.from = "shards"
        /\ rec.pc \in {"resident", "stat", "check", "map"} => Published(rec.fd)
        /\ rec.pc = "resident" => rec.s = 1
        /\ rec.pc \in {"resident", "stat"} => Within(rec.fd.content.stats, rec.stats, rec.s)
        /\ rec.pc \in {"check", "map"} => AllWithin(rec.fd.content.stats, rec.stats)
        /\ rec.pc = "map" => rec.fd.fingerprint = Fingerprint(rec.ranks, rec.stats)
        /\ rec.pc = "done" /\ rec.from = "sidecar" =>
              rec.fd = Fingerprint(rec.ranks, rec.stats)

SidecarInv ==
    /\ stamp \in Stats /\ \A t \in 0 .. NumShards : stamp[t] <= MaxRedeploys + 1
    /\ sidecar = [r \in RankCounts |-> sidecar[r]]
    /\ \A r \in RankCounts : sidecar[r] # NoFile => Published(sidecar[r])
    /\ packer = [p \in Packers |-> packer[p]]
    /\ \A p \in Packers : PackerInv(packer[p])
    /\ LoaderInv(loader)
=============================================================================
