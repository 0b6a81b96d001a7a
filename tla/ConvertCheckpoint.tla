-------------------------- MODULE ConvertCheckpoint --------------------------
(***************************************************************************)
(* scripts/convert_deepseek_v4_to_w8a8.py: the conversion of a hybrid      *)
(* FP8/MXFP4 checkpoint into the W8A8 checkpoint that serving loads.       *)
(*                                                                         *)
(* The converter is a process that may die between any two effects on the  *)
(* file system, and that its operator starts again, with or without        *)
(* --resume.  Every file it leaves is state: the shards and the marker are *)
(* published by an atomic rename, config.json and the index are truncated  *)
(* and then written.  A source checkpoint is one value, so a digest of it  *)
(* is that value; it is only replaced while no conversion runs.            *)
(*                                                                         *)
(* A source is [config, map, files, payload]: config.json, the index, the  *)
(* tensors' dtypes and shapes per shard file, and which bytes they hold.   *)
(* A tensor name is [mod |-> m, part |-> "weight" or "scale"], where the   *)
(* module m is [class |-> c, layer |-> l]:                                 *)
(*   layer    layers.l, a projection the kernels take as INT8              *)
(*   attn     layers.l.attn.wq_a and its like: quantized in the source,    *)
(*            BF16 in the output                                           *)
(*   indexer  layers.l.attn.indexer.wq_b                                   *)
(*   mtp      mtp.l, a projection the kernels take as INT8                 *)
(*   mtpattn  mtp.l.attn.wq_a and its like                                 *)
(*   main     mtp.0.main_proj            markov  the DSpark final heads    *)
(*   plain    embeddings, norms: never quantized                           *)
(***************************************************************************)
EXTENDS Integers, Sequences, FiniteSets, SequencesExt

CONSTANTS
    Sources,       \* the source checkpoints that can be in the input directory
    Absent,        \* no such file, or no such optional field
    Torn,          \* a file that was truncated and not yet written
    Fp8Block,      \* FP8_BLOCK_SIZE
    Mxfp4Group,    \* MXFP4_GROUP_SIZE
    MaxCrashes,    \* bound: how often the converter dies
    MaxEdits       \* bound: how often the operator replaces or removes a directory

ModuleClass == {"layer", "attn", "indexer", "mtp", "mtpattn", "main", "markov", "plain"}

(* The shards are numbered in the order of their names. *)
ASSUME SourcesAssumption ==
    \A src \in Sources :
        /\ DOMAIN src.map \subseteq [mod : [class : ModuleClass, layer : Nat],
                                     part : {"weight", "scale"}]
        /\ Range(src.map) \subseteq Nat
        /\ src.config.targets # Absent => src.config.targets \in Seq(Nat)

(* A marker file that is there is not absent. *)
ASSUME MarkerAssumption ==
    \A src \in Sources : \A complete \in BOOLEAN :
        [source |-> src, complete |-> complete] # Absent

VARIABLES
    source,        \* the checkpoint in the input directory
    out,           \* the output directory
    conv,          \* the running conversion
    crashes, edits

cvars == <<source, out, conv, crashes, edits>>

Weight(m) == [mod |-> m, part |-> "weight"]
Scale(m)  == [mod |-> m, part |-> "scale"]
ShardNames(src) == Range(src.map)

-----------------------------------------------------------------------------
(* Reading and validating the source                                       *)

(* The draft layers: one MTP layer, or one per DSpark target layer. *)
MtpLayerCount(config) ==
    IF config.targets = Absent THEN 1 ELSE Len(config.targets)

TargetsValid(config) ==
    config.targets # Absent =>
        /\ config.targets # <<>>
        /\ IsInjective(config.targets)
        /\ \A i \in DOMAIN config.targets :
              config.targets[i] \in 0 .. config.layers - 1

(* Which weights the serving kernels take as INT8. *)
IsServingQuantized(m, config) ==
    \/ m.class = "mtp" /\ m.layer < MtpLayerCount(config)
    \/ m.class = "layer"
    \/ /\ m.class = "indexer"
       /\ m.layer < Len(config.ratios)
       /\ config.ratios[m.layer + 1] = 4

RequiredDsparkNames(config) ==
    LET last == MtpLayerCount(config) - 1
        scaled == [class : {"mtp", "mtpattn"}, layer : 0 .. last]
                    \cup {[class |-> "main", layer |-> 0]}
    IN  {Weight(m) : m \in scaled \cup {[class |-> "markov", layer |-> last]}}
          \cup {Scale(m) : m \in scaled}

(* _validate_source, with every refusal as a conjunct. *)
ValidateSource(src) ==
    LET config == src.config IN
    /\ config.method = "fp8"
    /\ config.layers > 0
    /\ TargetsValid(config)
    /\ Len(config.ratios) = config.layers + MtpLayerCount(config)
    /\ config.experts > 0
    /\ DOMAIN src.map # {}
    /\ ShardNames(src) \subseteq DOMAIN src.files
    /\ config.targets # Absent => RequiredDsparkNames(config) \subseteq DOMAIN src.map
    /\ \A n \in DOMAIN src.map :
          n.part = "weight" /\ IsServingQuantized(n.mod, config)
             => Scale(n.mod) \in DOMAIN src.map

Ceil(a, b) == (a + b - 1) \div b

(* A weight the source stores quantized, and what dequantizing it needs. *)
HasScale(n, src) == n.part = "weight" /\ Scale(n.mod) \in DOMAIN src.map
DropsScale(n, src) == n.part = "scale" /\ Weight(n.mod) \in DOMAIN src.map

(* The modules that a hybrid checkpoint stores quantized.                  *)
ASSUME FormatAssumption ==
    \A src \in Sources : \A n \in DOMAIN src.map : HasScale(n, src) =>
        LET m == n.mod
            mtp == MtpLayerCount(src.config)
        IN  \/ m.class \in {"layer", "indexer"} /\ IsServingQuantized(m, src.config)
            \/ m.class = "attn" /\ m.layer \in 0 .. src.config.layers - 1
            \/ m.class \in {"mtp", "mtpattn"} /\ m.layer \in 0 .. mtp - 1
            \/ m.class = "main" /\ m.layer = 0

DequantizedShape(spec) ==
    IF spec.dtype = "I8" THEN <<spec.shape[1], 2 * spec.shape[2]>> ELSE spec.shape

ScaleShape(spec) ==
    LET shape == DequantizedShape(spec) IN
    IF spec.dtype = "I8"
    THEN <<shape[1], Ceil(shape[2], Mxfp4Group)>>
    ELSE <<Ceil(shape[1], Fp8Block), Ceil(shape[2], Fp8Block)>>

(* The checks of _expected_output_specs on the shards' headers. *)
SpecsValid(src) ==
    /\ \A s \in ShardNames(src) :
          DOMAIN src.files[s] = {n \in DOMAIN src.map : src.map[n] = s}
    /\ \A n \in DOMAIN src.map :
          HasScale(n, src) =>
             LET weight == src.files[src.map[n]][n]
                 scale  == src.files[src.map[Scale(n.mod)]][Scale(n.mod)]
             IN  /\ Len(weight.shape) = 2 /\ Len(scale.shape) = 2
                 /\ weight.dtype \in {"I8", "F8_E4M3"}
                 /\ scale = [dtype |-> "F8_E8M0", shape |-> ScaleShape(weight)]

-----------------------------------------------------------------------------
(* What a conversion writes                                                *)

(* Mutant: the scale of an INT8 weight is indexed where the source had it. *)
ScaleStaysOutputWeightMap(src) ==
    LET kept == {n \in DOMAIN src.map : ~DropsScale(n, src)}
        made == {Scale(n.mod) : n \in {k \in kept : HasScale(k, src)
                                          /\ IsServingQuantized(k.mod, src.config)}}
    IN  [n \in kept \cup made |-> src.map[n]]

(* _build_output_weight_map: the scale of an INT8 weight goes into the     *)
(* weight's shard, wherever the source kept it.                            *)
BuildOutputWeightMap(src) ==
    LET kept == {n \in DOMAIN src.map : ~DropsScale(n, src)}
        made == {Scale(n.mod) : n \in {k \in kept : HasScale(k, src)
                                          /\ IsServingQuantized(k.mod, src.config)}}
    IN  [n \in kept \cup made |-> IF n \in made THEN src.map[Weight(n.mod)] ELSE src.map[n]]

(* Mutant: the header check expects the scale at the source's shape. *)
SourceScaleExpectedSpecs(src, s) ==
    LET map == BuildOutputWeightMap(src)
        spec(n) == src.files[src.map[n]][n]
    IN  [n \in {k \in DOMAIN map : map[k] = s} |->
           IF n.part = "weight" /\ HasScale(n, src)
           THEN [dtype |-> IF IsServingQuantized(n.mod, src.config) THEN "I8" ELSE "BF16",
                 shape |-> DequantizedShape(spec(n))]
           ELSE spec(n)]

(* _expected_output_specs: per shard, the name, dtype and shape a finished *)
(* output shard must have; it is computed from the headers alone.          *)
ExpectedOutputSpecs(src, s) ==
    LET map == BuildOutputWeightMap(src)
        spec(n) == src.files[src.map[n]][n]
    IN  [n \in {k \in DOMAIN map : map[k] = s} |->
           IF n.part = "scale" /\ HasScale(Weight(n.mod), src) /\ Weight(n.mod) \in DOMAIN src.map
           THEN [dtype |-> "F32", shape |-> <<DequantizedShape(spec(Weight(n.mod)))[1]>>]
           ELSE IF HasScale(n, src)
           THEN [dtype |-> IF IsServingQuantized(n.mod, src.config) THEN "I8" ELSE "BF16",
                 shape |-> DequantizedShape(spec(n))]
           ELSE spec(n)]

(* _convert_shard: the tensors it really writes, from the payloads. *)
ConvertShard(src, s) ==
    LET loaded == {n \in DOMAIN src.files[s] : ~DropsScale(n, src)}
        int8   == {n \in loaded : HasScale(n, src) /\ IsServingQuantized(n.mod, src.config)}
        weight(n) == DequantizedShape(src.files[s][n])
    IN  [n \in loaded \cup {Scale(n.mod) : n \in int8} |->
           IF n \notin loaded
           THEN [dtype |-> "F32", shape |-> <<weight(Weight(n.mod))[1]>>]
           ELSE IF n \in int8 THEN [dtype |-> "I8", shape |-> weight(n)]
           ELSE IF HasScale(n, src) THEN [dtype |-> "BF16", shape |-> weight(n)]
           ELSE src.files[s][n]]

(* Mutant: the DSpark projection is left out of the ignore list. *)
NoMainQuantizationIgnore(config) ==
    [class : {"attn"}, layer : 0 .. config.layers - 1]
      \cup [class : {"mtpattn"}, layer : 0 .. MtpLayerCount(config) - 1]
      \cup {[class |-> "plain", layer |-> 0]}

(* _quantization_ignore: the modules the config says are not INT8. *)
QuantizationIgnore(config) ==
    LET mtp == MtpLayerCount(config) IN
    [class : {"attn"}, layer : 0 .. config.layers - 1]
      \cup [class : {"mtpattn"}, layer : 0 .. mtp - 1]
      \cup (IF mtp > 1
            THEN {[class |-> "main", layer |-> 0], [class |-> "markov", layer |-> mtp - 1]}
            ELSE {})
      \cup {[class |-> "plain", layer |-> 0]}

BuildOutputConfig(config, noSpec) ==
    [ratios |-> IF noSpec THEN SubSeq(config.ratios, 1, config.layers + 1) ELSE config.ratios,
     ignore |-> QuantizationIgnore(config)]

-----------------------------------------------------------------------------
(* The process                                                             *)

NoOutput == [exists |-> FALSE, marker |-> Absent, aux |-> Absent, shards |-> <<>>,
             config |-> Absent, index |-> Absent]
Idle(exit) == [pc |-> "idle", exit |-> exit]

(* The loop visits the shards in the order of their names. *)
ShardAt == Min(conv.todo)

CInit ==
    /\ source \in Sources
    /\ out = NoOutput
    /\ conv = Idle("none")
    /\ crashes = 0
    /\ edits = 0

(* Mutant: only the digests of the config and of the index are compared. *)
ShardsNotDigested(src, marker) ==
    marker.source.config = src.config /\ marker.source.map = src.map

(* _validate_conversion_marker: the digests of config, index and shards. *)
ValidateConversionMarker(src, marker) == marker.source = src

(* main() with the given options, up to its first write.  Every refusal    *)
(* ends the process with an error and leaves the output alone.             *)
Start(resume, dryRun, noSpec) ==
    /\ conv.pc = "idle"
    /\ LET run(pc) == [pc |-> pc, exit |-> "none", resume |-> resume, noSpec |-> noSpec,
                     todo |-> ShardNames(source)]
       IN  \/ /\ ~(ValidateSource(source) /\ SpecsValid(source))
              /\ conv' = Idle("error") /\ UNCHANGED out
           \/ /\ ValidateSource(source) /\ SpecsValid(source)
              /\ \/ dryRun /\ conv' = Idle("dry") /\ UNCHANGED out
                 \/ /\ ~dryRun /\ out.exists /\ ~resume
                    /\ conv' = Idle("error") /\ UNCHANGED out
                 \/ /\ ~dryRun /\ out.exists /\ resume
                    /\ UNCHANGED out
                    /\ conv' = IF /\ out.marker # Absent
                                  /\ ValidateConversionMarker(source, out.marker)
                               THEN run("aux") ELSE Idle("error")
                 \/ /\ ~dryRun /\ ~out.exists
                    /\ out' = [out EXCEPT !.exists = TRUE]
                    /\ conv' = run("marker")
    /\ UNCHANGED <<source, crashes, edits>>

(* The source is digested, which reads all of it, and the first marker is  *)
(* published by a rename.                                                  *)
WriteMarker ==
    /\ conv.pc = "marker"
    /\ out' = [out EXCEPT !.marker = [source |-> source, complete |-> FALSE]]
    /\ conv' = [conv EXCEPT !.pc = "aux"]
    /\ UNCHANGED <<source, crashes, edits>>

(* Files that are already there are kept. *)
CopyAuxiliaryFiles ==
    /\ conv.pc = "aux"
    /\ out' = [out EXCEPT !.aux = IF @ = Absent THEN source ELSE @]
    /\ conv' = [conv EXCEPT !.pc = "shard"]
    /\ UNCHANGED <<source, crashes, edits>>

(* The loop: a published shard is checked and skipped, another is read,    *)
(* converted and saved as .<name>.tmp, which nothing ever reads.           *)
VisitShard ==
    /\ conv.pc = "shard"
    /\ conv.todo # {}
    /\ LET s == ShardAt IN
       \/ /\ s \notin DOMAIN out.shards
          /\ UNCHANGED out
          /\ conv' = [conv EXCEPT !.pc = "publish"]
       \/ /\ s \in DOMAIN out.shards
          /\ UNCHANGED out
          /\ conv' = IF /\ conv.resume
                        /\ DOMAIN ExpectedOutputSpecs(source, s) # {}
                        /\ out.shards[s].tensors = ExpectedOutputSpecs(source, s)
                     THEN [conv EXCEPT !.todo = @ \ {s}]
                     ELSE Idle("error")
    /\ UNCHANGED <<source, crashes, edits>>

(* os.replace of the temporary file. *)
PublishShard ==
    /\ conv.pc = "publish"
    /\ LET s == ShardAt IN
       out' = [out EXCEPT !.shards =
                 [t \in DOMAIN @ \cup {s} |->
                    IF t = s THEN [source |-> source, tensors |-> ConvertShard(source, s)]
                    ELSE @[t]]]
    /\ conv' = [conv EXCEPT !.pc = "shard", !.todo = @ \ {ShardAt}]
    /\ UNCHANGED <<source, crashes, edits>>

(* config.json and the index are opened for writing, which truncates them, *)
(* and then written.                                                       *)
TruncateConfig ==
    /\ conv.pc = "shard" /\ conv.todo = {}
    /\ out' = [out EXCEPT !.config = Torn]
    /\ conv' = [conv EXCEPT !.pc = "config"]
    /\ UNCHANGED <<source, crashes, edits>>

WriteConfig ==
    /\ conv.pc = "config"
    /\ out' = [out EXCEPT !.config = BuildOutputConfig(source.config, conv.noSpec)]
    /\ conv' = [conv EXCEPT !.pc = "size"]
    /\ UNCHANGED <<source, crashes, edits>>

(* The payload size is summed from the shards, which must be readable. *)
TruncateIndex ==
    /\ conv.pc = "size"
    /\ out' = [out EXCEPT !.index = Torn]
    /\ conv' = [conv EXCEPT !.pc = "index"]
    /\ UNCHANGED <<source, crashes, edits>>

WriteIndex ==
    /\ conv.pc = "index"
    /\ out' = [out EXCEPT !.index = BuildOutputWeightMap(source)]
    /\ conv' = [conv EXCEPT !.pc = "complete"]
    /\ UNCHANGED <<source, crashes, edits>>

Complete ==
    /\ conv.pc = "complete"
    /\ out' = [out EXCEPT !.marker = [@ EXCEPT !.complete = TRUE]]
    /\ conv' = Idle("ok")
    /\ UNCHANGED <<source, crashes, edits>>

(* The process dies; what it wrote stays. *)
Crash ==
    /\ conv.pc # "idle" /\ crashes < MaxCrashes
    /\ conv' = Idle("none")
    /\ crashes' = crashes + 1
    /\ UNCHANGED <<source, out, edits>>

ReplaceSource ==
    /\ conv.pc = "idle" /\ edits < MaxEdits
    /\ source' \in Sources \ {source}
    /\ edits' = edits + 1
    /\ UNCHANGED <<out, conv, crashes>>

RemoveOutput ==
    /\ conv.pc = "idle" /\ out.exists /\ edits < MaxEdits
    /\ out' = NoOutput
    /\ edits' = edits + 1
    /\ UNCHANGED <<source, conv, crashes>>

Step ==
    \/ WriteMarker \/ CopyAuxiliaryFiles \/ VisitShard \/ PublishShard
    \/ TruncateConfig \/ WriteConfig \/ TruncateIndex \/ WriteIndex \/ Complete

CNext ==
    \/ \E resume, dryRun, noSpec \in BOOLEAN : Start(resume, dryRun, noSpec)
    \/ Step
    \/ Crash \/ ReplaceSource \/ RemoveOutput

-----------------------------------------------------------------------------
(* Properties                                                              *)

(* However often the conversion dies and is resumed, and whatever the      *)
(* source directory holds by then, every published shard is the conversion *)
(* of the source that the marker names: no output mixes two checkpoints,   *)
(* and none holds a half-written shard.                                    *)
ShardsOfOneSource ==
    \A s \in DOMAIN out.shards :
        /\ out.marker # Absent
        /\ out.shards[s] = [source  |-> out.marker.source,
                            tensors |-> ConvertShard(out.marker.source, s)]

(* Once the index can be read, every tensor it names is in the shard it    *)
(* names, every tensor of a shard is in the index, and no module of the    *)
(* source is lost - also when a scale lay in another shard than its        *)
(* weight, and also before the marker says the conversion is complete.     *)
IndexMatchesShards ==
    out.index \notin {Absent, Torn} =>
        /\ Range(out.index) \subseteq DOMAIN out.shards
        /\ \A s \in DOMAIN out.shards :
              DOMAIN out.shards[s].tensors = {n \in DOMAIN out.index : out.index[n] = s}
        /\ {n.mod : n \in DOMAIN out.index} = {n.mod : n \in DOMAIN out.marker.source.map}

(* Of the weights that the source stored quantized, exactly those of the   *)
(* given modules are in the output as BF16, and the others as INT8.        *)
Unquantized(modules) ==
    \A s \in DOMAIN out.shards : \A n \in DOMAIN out.shards[s].tensors :
        HasScale(n, out.marker.source) =>
            (n.mod \in modules <=> out.shards[s].tensors[n].dtype = "BF16")

(* What _quantization_ignore leaves out: with a single draft layer its     *)
(* condition mtp_layer_count > 1 is false, and mtp.0.main_proj is not      *)
(* listed, although it is dequantized as in any other DSpark model.        *)
LeftOutOfIgnore(config) ==
    IF MtpLayerCount(config) = 1 THEN {[class |-> "main", layer |-> 0]} ELSE {}

(* A marker that says complete stands beside all the shards of its source; *)
(* and the dequantized weights that were not quantized again are those     *)
(* that the config beside it does not call INT8, with mtp.0.main_proj of a *)
(* model with a single draft layer as the only exception.                  *)
CompleteMeansConverted ==
    out.marker # Absent /\ out.marker.complete =>
        LET src == out.marker.source IN
        /\ DOMAIN out.shards = ShardNames(src)
        /\ out.config # Torn => Unquantized(out.config.ignore \cup LeftOutOfIgnore(src.config))

(* However often the converter dies and is resumed: its shards are of the  *)
(* source the marker names, the index leads to tensors that are there, and *)
(* an output marked complete is the conversion of that source.             *)
ConversionSound == ShardsOfOneSource /\ IndexMatchesShards /\ CompleteMeansConverted

(* The source in the input directory is the one the marker names. *)
Resumable == out.marker # Absent /\ out.marker.source = source

(* A shard that held only scales of weights in other shards has no tensor  *)
(* in the output, and no entry in what _expected_output_specs returns.     *)
EveryShardKeepsTensors(src) ==
    \A s \in ShardNames(src) : \E n \in DOMAIN src.map : src.map[n] = s /\ ~DropsScale(n, src)

(* Every conversion of a source that got as far as its marker is completed *)
(* by running the converter again with --resume, unless its source is      *)
(* replaced or its output is removed: the checks on resume never refuse    *)
(* what the converter wrote, but for a shard without tensors.              *)
ResumeCompletes ==
    Resumable /\ ~out.marker.complete
      ~> ~Resumable \/ out.marker.complete \/ ~EveryShardKeepsTensors(source)

-----------------------------------------------------------------------------
(* The inductive invariant behind ConversionSound                          *)

Convertible == {src \in Sources : ValidateSource(src) /\ SpecsValid(src)}
OutputConfigs(src) == {BuildOutputConfig(src.config, noSpec) : noSpec \in BOOLEAN}

(* A marker comes before everything else; the index, and the marker that   *)
(* says complete, come after the last shard.                               *)
OutputInv ==
    /\ out = [exists |-> out.exists, marker |-> out.marker, aux |-> out.aux,
              shards |-> out.shards, config |-> out.config, index |-> out.index]
    /\ ~out.exists => out.marker = Absent
    /\ out.marker = Absent =>
          DOMAIN out.shards = {} /\ out.config = Absent /\ out.index = Absent
    /\ out.marker # Absent =>
          LET src == out.marker.source
              full == DOMAIN out.shards = ShardNames(src)
          IN  /\ out.marker \in [source : Convertible, complete : BOOLEAN]
              /\ DOMAIN out.shards \subseteq ShardNames(src)
              /\ out.config \in {Absent, Torn} \cup OutputConfigs(src)
              /\ out.index = Absent
                   \/ (out.index \in {Torn, BuildOutputWeightMap(src)} /\ full)
              /\ out.marker.complete => full /\ out.config \in {Torn} \cup OutputConfigs(src)

(* A running conversion is of the source its marker names, and a shard it  *)
(* has passed is published.                                                *)
RunInv ==
    conv.pc # "idle" =>
        /\ conv = [pc |-> conv.pc, exit |-> conv.exit, resume |-> conv.resume,
                   noSpec |-> conv.noSpec, todo |-> conv.todo]
        /\ conv.pc \in {"marker", "aux", "shard", "publish", "config", "size", "index", "complete"}
        /\ conv.noSpec \in BOOLEAN
        /\ source \in Convertible /\ out.exists
        /\ IF conv.pc = "marker" THEN out.marker = Absent
           ELSE out.marker # Absent /\ out.marker.source = source
        /\ conv.todo \subseteq ShardNames(source)
        /\ ShardNames(source) \ conv.todo \subseteq DOMAIN out.shards
        /\ conv.pc = "publish" => conv.todo # {}
        /\ conv.pc \in {"config", "size", "index", "complete"} => conv.todo = {}
        /\ conv.pc \in {"size", "index", "complete"} => out.config \in OutputConfigs(source)

ConversionInv == source \in Sources /\ OutputInv /\ RunInv /\ ShardsOfOneSource
=============================================================================
