------------------------------ MODULE MCWeights ------------------------------
(***************************************************************************)
(* What happens to a checkpoint before it is served: its conversion, the   *)
(* prepacked sidecar, the staging of its layers, and the allocation of the *)
(* caches next to it.  The parts meet in files and in the memory that is   *)
(* left only, and each one's module has those as its input; so a behaviour *)
(* is one of a single part, chosen at the start.                           *)
(***************************************************************************)
EXTENDS ConvertCheckpoint, PackedSidecar, WeightStaging, CachePools

-----------------------------------------------------------------------------
(* Source checkpoints *)

Mod(c, l) == [class |-> c, layer |-> l]
F8(r, c)  == [dtype |-> "F8_E4M3", shape |-> <<r, c>>]
I8(r, c)  == [dtype |-> "I8", shape |-> <<r, c>>]
B16(r, c) == [dtype |-> "BF16", shape |-> <<r, c>>]
E8(r, c)  == [dtype |-> "F8_E8M0", shape |-> <<r, c>>]

(* A source whose shard files agree with its index. *)
Checkpoint(config, tensors, payload) ==
    LET map == [n \in DOMAIN tensors |-> tensors[n].shard] IN
    [config |-> config, map |-> map, payload |-> payload,
     files |-> [s \in Range(map) |->
                  [n \in {k \in DOMAIN map : map[k] = s} |-> tensors[n].spec]]]
In(s, spec) == [shard |-> s, spec |-> spec]

(* One hidden layer and one MTP layer; the scale of the layer's INT8       *)
(* projection lies in another shard than its weight.                       *)
PlainConfig == [method |-> "fp8", layers |-> 1, ratios |-> <<4, 0>>, targets |-> Absent,
                experts |-> 1]
PlainTensors ==
       Weight(Mod("layer", 0))   :> In(1, I8(2, 3)) @@ Scale(Mod("layer", 0))   :> In(2, E8(2, 3))
    @@ Weight(Mod("indexer", 0)) :> In(1, F8(3, 2)) @@ Scale(Mod("indexer", 0)) :> In(1, E8(2, 1))
    @@ Weight(Mod("attn", 0))    :> In(1, F8(2, 2)) @@ Scale(Mod("attn", 0))    :> In(1, E8(1, 1))
    @@ Weight(Mod("mtp", 0))     :> In(2, F8(2, 3)) @@ Scale(Mod("mtp", 0))     :> In(2, E8(1, 2))
    @@ Weight(Mod("plain", 0))   :> In(2, B16(1, 1))

(* Two hidden layers and two DSpark draft layers. *)
DsparkConfig == [method |-> "fp8", layers |-> 2, ratios |-> <<4, 0, 0, 0>>, targets |-> <<1, 0>>,
                 experts |-> 1]
DsparkTensors ==
       Weight(Mod("mtp", 0))     :> In(1, I8(2, 1)) @@ Scale(Mod("mtp", 0))     :> In(1, E8(2, 1))
    @@ Weight(Mod("mtp", 1))     :> In(2, I8(2, 1)) @@ Scale(Mod("mtp", 1))     :> In(1, E8(2, 1))
    @@ Weight(Mod("mtpattn", 0)) :> In(1, F8(2, 2)) @@ Scale(Mod("mtpattn", 0)) :> In(1, E8(1, 1))
    @@ Weight(Mod("mtpattn", 1)) :> In(3, F8(2, 2)) @@ Scale(Mod("mtpattn", 1)) :> In(2, E8(1, 1))
    @@ Weight(Mod("main", 0))    :> In(3, F8(2, 2)) @@ Scale(Mod("main", 0))    :> In(3, E8(1, 1))
    @@ Weight(Mod("markov", 1))  :> In(3, B16(2, 1))

(* One hidden layer, which is the only DSpark target.                      *)
SingleTargetConfig == [PlainConfig EXCEPT !.targets = <<0>>]
SingleTargetTensors ==
       Weight(Mod("mtp", 0))     :> In(1, I8(2, 1)) @@ Scale(Mod("mtp", 0))     :> In(1, E8(2, 1))
    @@ Weight(Mod("mtpattn", 0)) :> In(1, F8(2, 2)) @@ Scale(Mod("mtpattn", 0)) :> In(2, E8(1, 1))
    @@ Weight(Mod("main", 0))    :> In(2, F8(2, 2)) @@ Scale(Mod("main", 0))    :> In(2, E8(1, 1))
    @@ Weight(Mod("markov", 0))  :> In(2, B16(2, 1))
SingleTarget == Checkpoint(SingleTargetConfig, SingleTargetTensors, 1)

(* The scale of the layer's INT8 projection is all there is in its shard.  *)
ScalesApart ==
    Checkpoint(PlainConfig, [PlainTensors EXCEPT ![Scale(Mod("layer", 0))].shard = 3], 1)

(* The second has other bytes in the same shards, the last two are refused:*)
(* a scale is missing, and a shard does not hold what the index says.      *)
MCSources ==
    {Checkpoint(PlainConfig, PlainTensors, 1), Checkpoint(PlainConfig, PlainTensors, 2),
     Checkpoint(DsparkConfig, DsparkTensors, 1), SingleTarget, ScalesApart,
     Checkpoint(PlainConfig, [n \in DOMAIN PlainTensors \ {Scale(Mod("mtp", 0))} |->
                                PlainTensors[n]], 1),
     [Checkpoint(PlainConfig, PlainTensors, 1) EXCEPT !.files[2] =
        [n \in {Weight(Mod("plain", 0))} |-> B16(1, 1)]]}

-----------------------------------------------------------------------------
(* Deployments to stage *)

(* A checkpoint that has every tensor the rules can ask for, two rows each.*)
Names(sources, layers, experts) ==
    [layer : 0 .. layers - 1, src : sources, expert : {0}]
      \cup [layer : 0 .. layers - 1, src : {"ffn.experts"}, expert : 0 .. experts - 1]
Raw(names) ==
    [n \in names |-> IF n.src \in {"ffn.gate.bias", "ffn.gate.tid2eid", "q_norm"} THEN 1 ELSE 2]

DeepSeekSources == {"attn.wq_b", "attn.compressor", "ffn.gate.bias", "ffn.gate.tid2eid"}
DeepSeek(names) ==
    [family |-> "deepseek", ratios |-> <<0, 4, 128, 4>>, ranks |-> 2, experts |-> 4,
     hashLayers |-> 1, workers |-> 1, raw |-> Raw(names)]
DeepSeekNames == Names(DeepSeekSources, 4, 4)

Qwen(raw) ==
    [family |-> "qwen", ratios |-> <<0, 0, 0>>, ranks |-> 1, experts |-> 0,
     hashLayers |-> 0, workers |-> 2, raw |-> raw]
QwenNames == Names({"q_proj", "q_norm"}, 3, 0)
Tensor(l, src, e) == [layer |-> l, src |-> src, expert |-> e]

MCCases ==
    {DeepSeek(DeepSeekNames),
     DeepSeek(DeepSeekNames \ {Tensor(2, "ffn.experts", 2)}),    \* an inner expert is missing
     DeepSeek(DeepSeekNames \ {Tensor(3, "ffn.experts", 3)}),    \* a last expert is missing
     DeepSeek(DeepSeekNames \ {Tensor(2, "ffn.gate.bias", 0)}),  \* a router bias is missing
     Qwen(Raw(QwenNames)),
     Qwen(Raw({n \in QwenNames : n.src = "q_proj"})),            \* no QK norms
     Qwen(Raw(QwenNames \ {Tensor(1, "q_proj", 0)})),            \* a projection is missing
     Qwen(Raw(QwenNames \ {Tensor(0, "q_proj", 0)})),
     Qwen([Raw(QwenNames) EXCEPT ![Tensor(2, "q_norm", 0)] = 2])} \* a shape differs

-----------------------------------------------------------------------------
(* Devices to allocate caches on *)

(* Two ranks, one of each kind of cache group; the index cache has a second *)
(* tensor for its scales.                                                   *)
DeepSeekPools(spec, free0, free1, util, pages) ==
    [family |-> "deepseek", ranks |-> 2, spec |-> spec, total |-> 1000, util |-> util,
     free |-> 0 :> free0 @@ 1 :> free1, pages |-> pages, floor |-> 1, committed |-> 0,
     perSeq |-> "ori" :> 2 @@ "cmp" :> 3 @@ "idx" :> 3, mtpRow |-> 2,
     tensors |-> <<"kv", "cmp_kv", "idx_kv", "idx_scale">>,
     of |-> "kv" :> "ori" @@ "cmp_kv" :> "cmp" @@ "idx_kv" :> "idx" @@ "idx_scale" :> "idx",
     row |-> "kv" :> 4 @@ "cmp_kv" :> 2 @@ "idx_kv" :> 1 @@ "idx_scale" :> 1]
QwenPools(free, committed, floor) ==
    [family |-> "qwen", ranks |-> 1, spec |-> 0, total |-> 100, util |-> 90,
     free |-> 0 :> free, pages |-> 0, floor |-> floor, committed |-> committed,
     perSeq |-> "ori" :> 1, mtpRow |-> 0, tensors |-> <<"key", "value">>,
     of |-> "key" :> "ori" @@ "value" :> "ori", row |-> "key" :> 3 @@ "value" :> 3]

MCDeployments ==
    {DeepSeekPools(spec, 330, 300, 90, 0) : spec \in {0, 1, 3, 7}}
      \cup {DeepSeekPools(3, 300, 330, 100, 0), DeepSeekPools(1, 330, 160, 90, 0), \* no slot fits
            DeepSeekPools(3, 330, 300, 90, 24),   \* more pages asked for than fit
            DeepSeekPools(3, 330, 300, 90, 1),    \* less than one ring asked for
            QwenPools(70, 0, 2), QwenPools(70, 60, 2), QwenPools(24, 0, 3), QwenPools(24, 0, 5),
            QwenPools(4, 0, 1)}

-----------------------------------------------------------------------------
VARIABLE part

allVars == <<cvars, pvars, svars, kvars, part>>

(* The parts that are not run keep one initial state. *)
WeightsInit ==
    /\ CInit /\ PInit /\ SInit /\ KInit
    /\ part \in {"convert", "sidecar", "stage", "pools"}
    /\ part # "convert" => source = Checkpoint(PlainConfig, PlainTensors, 1)
    /\ part # "stage" => case = DeepSeek(DeepSeekNames)
    /\ part # "pools" => deploy = QwenPools(70, 0, 2)

WeightsNext ==
    \/ part = "convert" /\ CNext /\ UNCHANGED <<pvars, svars, kvars, part>>
    \/ part = "sidecar" /\ PNext /\ UNCHANGED <<cvars, svars, kvars, part>>
    \/ part = "stage"   /\ SNext /\ UNCHANGED <<cvars, pvars, kvars, part>>
    \/ part = "pools"   /\ KNext /\ UNCHANGED <<cvars, pvars, svars, part>>

(* A running converter goes on, and the operator runs it again with        *)
(* --resume as the documentation asks; a server that has begun to load     *)
(* goes on, and so does init_kv_cache.  Nobody has to prepack.             *)
WeightsFairness ==
    /\ WF_cvars(part = "convert" /\ Step)
    /\ WF_cvars(part = "convert" /\ Start(TRUE, FALSE, FALSE))
    /\ WF_pvars(part = "sidecar" /\ LoadStep)
    /\ WF_kvars(part = "pools" /\ KNext)

WeightsSpec == WeightsInit /\ [][WeightsNext]_allVars /\ WeightsFairness

(* A conversion that wrote its marker completes when it is resumed, a      *)
(* server that begins to load gets weights, and init_kv_cache returns or   *)
(* gives up, whatever is refused.                                          *)
WeightsArrive == ResumeCompletes /\ LoadEnds /\ PoolInitEnds
=============================================================================
