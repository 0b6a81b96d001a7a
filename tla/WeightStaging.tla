---------------------------- MODULE WeightStaging ----------------------------
(***************************************************************************)
(* The staging of a checkpoint's hidden layers into whole-model slabs      *)
(* (pypto_serving/model/common/weights and its DeepSeek V4 and Qwen        *)
(* bindings): layer 0 is packed first and sizes the slabs, then every      *)
(* layer writes its slice of every slab it belongs to, one after another   *)
(* for DeepSeek and on a thread pool for Qwen.                             *)
(*                                                                         *)
(* A slab is a function of rank and row.  A row's content is the cell      *)
(* [layer, src, row] of the checkpoint it was copied from, so transposes   *)
(* and dtype casts, which keep rows apart, are left out.  The tables of    *)
(* weight rules are represented by one rule of each kind and group.        *)
(***************************************************************************)
EXTENDS Integers, Sequences, SequencesExt

CONSTANTS
    Cases,          \* checkpoints and deployments to stage, see MCWeights
    TorchThreads    \* torch.get_num_threads() before the staging

VARIABLES
    case,           \* the member of Cases
    slabs,          \* weight name -> rank -> row -> cell
    layer,          \* layer -> [status, at]: at is the next rule it evaluates
    main,           \* the caller: [pc, k], k the layer whose result it waits for
    threads         \* torch's process-wide thread count

ASSUME CasesAssumption ==
    \A c \in Cases :
        /\ c.family \in {"deepseek", "qwen"}
        /\ c.ratios \in Seq({0, 4, 128}) /\ c.ratios # <<>>   \* the compress ratio of every layer
        /\ c.ranks \in Nat \ {0} /\ c.experts \in Nat /\ c.hashLayers \in Nat
        /\ c.workers \in Nat \ {0}
        /\ c.raw \in [DOMAIN c.raw -> Nat]                    \* the rows of every tensor there is

svars == <<case, slabs, layer, main, threads>>

Layers == 0 .. Len(case.ratios) - 1

Cell(l, src, row) == [layer |-> l, src |-> src, row |-> row]
Fill(value) == Cell(0, value, 0)
Unwritten == Fill("torch.empty")

-----------------------------------------------------------------------------
(* The rule tables (weight_spec.py of each family)                         *)

Rule(name, kind, group, src, ratios, flag, fill, width) ==
    [name |-> name, kind |-> kind, group |-> group, src |-> src, ratios |-> ratios,
     flag |-> flag, fill |-> fill, width |-> width]

DeepSeekCoreRules ==
    <<Rule("wq_b", "layer", "fwd", "attn.wq_b", {}, "", "", 2)>>
DeepSeekOptionalRules ==
    <<Rule("hca_cmp_wkv", "optional", "hca", "attn.compressor", {128}, "", "zeros", 2),
      Rule("csa_cmp_wkv", "optional", "csa", "attn.compressor", {4}, "", "zeros", 2),
      Rule("csa_hadamard_idx", "synthetic", "csa", "", {}, "", "hadamard_idx", 1)>>
DeepSeekRouterRules ==
    <<Rule("gate_bias", "defaulted", "fwd", "ffn.gate.bias", {}, "include_gate_bias", "zeros", 1),
      Rule("tid2eid", "defaulted", "fwd", "ffn.gate.tid2eid", {}, "include_tid2eid", "zeros", 1)>>
DeepSeekExpertRules ==
    <<Rule("routed_w1", "expert", "fwd", "ffn.experts", {}, "", "", 0)>>
DeepSeekLayerRules ==
    DeepSeekCoreRules \o DeepSeekOptionalRules \o DeepSeekRouterRules \o DeepSeekExpertRules

QwenLayerRules ==
    <<Rule("decode_wq", "layer", "fwd", "q_proj", {}, "", "", 2),
      Rule("decode_q_norm_weight", "defaulted", "fwd", "q_norm", {}, "", "ones", 1)>>

Rules == IF case.family = "qwen" THEN QwenLayerRules ELSE DeepSeekLayerRules

(* The rules of a group make its members; a group's layers, in order, are  *)
(* those whose compress ratio it is for, and every layer is in fwd.        *)
GroupRatio(group) == CASE group = "csa" -> {4} [] group = "hca" -> {128} [] OTHER -> {0, 4, 128}
Members(group) == {l \in Layers : case.ratios[l + 1] \in GroupRatio(group)}
Before(layers, l) == {m \in layers : m < l}
StackGroup(group) ==
    [i \in 1 .. Cardinality(Members(group)) |->
       CHOOSE l \in Members(group) : Cardinality(Before(Members(group), l)) = i - 1]

-----------------------------------------------------------------------------
(* Reading and packing one layer                                           *)

(* LayerContext: which router mode a layer must have. *)
ContextFlag(flag, l) ==
    \/ flag = "include_gate_bias" /\ l >= case.hashLayers
    \/ flag = "include_tid2eid"   /\ l <  case.hashLayers

SourceName(rule, l, e) == [layer |-> l, src |-> rule.src, expert |-> e]
EnabledFor(rule, l) == case.ratios[l + 1] \in rule.ratios

(* The names a layer is read by: DeepSeek names exactly what the layer     *)
(* needs, Qwen what the index has of the layer's names.                    *)
LayerWeightNames(l) ==
    LET wanted(rule) ==
          CASE rule.kind = "expert"    -> {SourceName(rule, l, e) : e \in 0 .. case.experts - 1}
            [] rule.kind = "layer"     -> {SourceName(rule, l, 0)}
            [] rule.kind = "optional"  -> IF EnabledFor(rule, l) THEN {SourceName(rule, l, 0)} ELSE {}
            [] rule.kind = "defaulted" -> IF case.family = "qwen" \/ ContextFlag(rule.flag, l)
                                          THEN {SourceName(rule, l, 0)} ELSE {}
            [] OTHER                   -> {}
        names == UNION {wanted(Rules[i]) : i \in DOMAIN Rules}
    IN  IF case.family = "qwen" THEN names \cap DOMAIN case.raw ELSE names

(* load_many raises for a name the index does not have. *)
LoadFails(l) == ~(LayerWeightNames(l) \subseteq DOMAIN case.raw)

(* Rows of a weight along the stack axis, in the slabs' template. *)
LocalExperts == case.experts \div case.ranks
TemplateWidth(rule) ==
    IF rule.kind = "expert" THEN LocalExperts
    ELSE IF SourceName(rule, 0, 0) \in LayerWeightNames(0) THEN case.raw[SourceName(rule, 0, 0)]
    ELSE rule.width

(* Errors of one rule: a source that the layer must have is missing, or    *)
(* the tensor does not have the shape of its destination.                  *)
RuleFails(rule, l) ==
    LET name == SourceName(rule, l, 0)
        read == name \in LayerWeightNames(l)
    IN  \/ rule.kind = "layer" /\ ~read
        \/ rule.kind = "defaulted" /\ ~read /\ ContextFlag(rule.flag, l)
        \/ /\ rule.kind # "expert"
           /\ (IF read THEN case.raw[name] ELSE rule.width) # TemplateWidth(rule)
        \/ rule.kind = "expert" /\ case.experts % case.ranks # 0

(* Mutant: expert e goes to rank e % ranks. *)
RoundRobinExpertIds(rank) == [i \in 0 .. LocalExperts - 1 |-> i * case.ranks + rank]

(* deepseek_v4_local_expert_ids: the contiguous experts of a rank. *)
LocalExpertIds(rank) == [i \in 0 .. LocalExperts - 1 |-> rank * LocalExperts + i]

(* pack_layer for one rule, under Replicate, NoShard (one rank) or         *)
(* ExpertParallel: what it writes, by rank and row.                        *)
PackRule(rule, l) ==
    [rank \in 0 .. case.ranks - 1 |->
       [i \in 0 .. TemplateWidth(rule) - 1 |->
          IF rule.kind = "expert" THEN Cell(l, rule.src, LocalExpertIds(rank)[i])
          ELSE IF SourceName(rule, l, 0) \in LayerWeightNames(l) THEN Cell(l, rule.src, i)
          ELSE Fill(rule.fill)]]

-----------------------------------------------------------------------------
(* The slabs (stacker.py)                                                  *)

AllocateSlabs ==
    LET stacked == {i \in DOMAIN Rules : StackGroup(Rules[i].group) # <<>>} IN
    [name \in {Rules[i].name : i \in stacked} |->
       LET rule == Rules[CHOOSE i \in stacked : Rules[i].name = name] IN
       [rank \in 0 .. case.ranks - 1 |->
          [row \in 0 .. TemplateWidth(rule) * Len(StackGroup(rule.group)) - 1 |-> Unwritten]]]

(* Mutant: a layer's slice is found by its id. *)
PositionIsLayerId(group, l) == l % Len(StackGroup(group))

(* StackGroup.position_of: a layer's slot is its place in the group. *)
PositionOf(group, l) == (CHOOSE i \in DOMAIN StackGroup(group) : StackGroup(group)[i] = l) - 1

InGroup(group, l) == \E i \in DOMAIN StackGroup(group) : StackGroup(group)[i] = l

(* The slab of a weight after a layer is copied into its destination, the  *)
(* narrow() of the slab at position * width.                               *)
CopyIntoDestination(rule, l) ==
    LET width == TemplateWidth(rule)
        start == PositionOf(rule.group, l) * width
        packed == PackRule(rule, l)
    IN  [rank \in DOMAIN slabs[rule.name] |->
           [row \in DOMAIN slabs[rule.name][rank] |->
              IF row \in start .. start + width - 1 THEN packed[rank][row - start]
              ELSE slabs[rule.name][rank][row]]]

-----------------------------------------------------------------------------
(* Staging (stage_layers): serially, or on a pool of workers               *)

Pooled == case.workers > 1
With(status) == {l \in Layers : layer[l].status = status}

SInit ==
    /\ case \in Cases
    /\ slabs = <<>>
    /\ layer = [l \in 0 .. Len(case.ratios) - 1 |-> [status |-> "pending", at |-> 1]]
    /\ main = [pc |-> "contract", k |-> 0]
    /\ threads = TorchThreads

(* Mutant: the router weights are left out of the contract. *)
NoRouterContract ==
    UNION {LET edge == {n \in LayerWeightNames(l) : n.expert \in {0, case.experts - 1}}
           IN  {n \in edge : n.src # "ffn.gate.bias"} : l \in Layers}

(* deepseek_v4_startup_weight_names: every layer's tensors, of the routed  *)
(* experts the first and the last.                                         *)
StartupContract ==
    UNION {{n \in LayerWeightNames(l) : n.expert \in {0, case.experts - 1}} : l \in Layers}

(* The index is checked before any shard is read; Qwen has no such check. *)
ValidateStartupContract ==
    /\ main.pc = "contract"
    /\ main' = [main EXCEPT !.pc = IF StartupContract \subseteq DOMAIN case.raw
                                   THEN "template" ELSE "refused"]
    /\ UNCHANGED <<case, slabs, layer, threads>>

(* Layer 0 is read and packed by itself; the slabs are sized from it, and  *)
(* torch is told to use one thread for as long as there is a pool.         *)
PackTemplate ==
    /\ main.pc = "template"
    /\ IF LoadFails(0) \/ \E i \in DOMAIN Rules : RuleFails(Rules[i], 0)
       THEN main' = [main EXCEPT !.pc = "raised"] /\ UNCHANGED <<slabs, threads>>
       ELSE /\ main' = [main EXCEPT !.pc = "stage"]
            /\ slabs' = AllocateSlabs
            /\ threads' = IF Pooled THEN 1 ELSE threads
    /\ UNCHANGED <<case, layer>>

(* A worker takes the next layer: the pool hands them out in order, the    *)
(* serial loop goes on only after the layer before has succeeded.          *)
StartLayer(l) ==
    /\ main.pc = "stage"
    /\ layer[l].status = "pending"
    /\ \A m \in With("pending") : l <= m
    /\ IF Pooled THEN Cardinality(With("running")) < case.workers
       ELSE \A m \in Layers : m < l => layer[m].status = "done"
    /\ layer' = [layer EXCEPT ![l].status = IF l # 0 /\ LoadFails(l) THEN "failed" ELSE "running"]
    /\ UNCHANGED <<case, slabs, main, threads>>

(* The running layer evaluates its next rule, straight into its slice; a   *)
(* weight whose group the layer is not in is skipped.  Layer 0 is copied   *)
(* from the template.                                                      *)
StageRule(l) ==
    /\ layer[l].status = "running"
    /\ layer[l].at <= Len(Rules)
    /\ LET rule == Rules[layer[l].at]
           skip == ~InGroup(rule.group, l)
           fail == ~skip /\ RuleFails(rule, l)
       IN  /\ slabs' = IF skip \/ fail THEN slabs
                       ELSE [slabs EXCEPT ![rule.name] = CopyIntoDestination(rule, l)]
           /\ layer' = [layer EXCEPT ![l] =
                IF fail THEN [@ EXCEPT !.status = "failed"] ELSE [@ EXCEPT !.at = layer[l].at + 1]]
    /\ UNCHANGED <<case, main, threads>>

FinishLayer(l) ==
    /\ layer[l].status = "running" /\ layer[l].at > Len(Rules)
    /\ layer' = [layer EXCEPT ![l].status = "done"]
    /\ UNCHANGED <<case, slabs, main, threads>>

(* The results are taken in layer order; the first failure is raised, which*)
(* cancels the layers no worker has taken.                                 *)
TakeResult ==
    /\ main.pc = "stage"
    /\ IF main.k \notin Layers
       THEN main' = [main EXCEPT !.pc = "join"] /\ UNCHANGED layer
       ELSE \/ /\ layer[main.k].status = "done"
               /\ main' = [main EXCEPT !.k = @ + 1]
               /\ UNCHANGED layer
            \/ /\ layer[main.k].status = "failed"
               /\ main' = [main EXCEPT !.pc = "join"]
               /\ layer' = [l \in Layers |-> IF layer[l].status = "pending"
                                             THEN [layer[l] EXCEPT !.status = "cancelled"]
                                             ELSE layer[l]]
    /\ UNCHANGED <<case, slabs, threads>>

(* Mutant: torch's thread count is only put back when staging succeeded. *)
RestoreOnSuccess(succeeded) == IF succeeded THEN TorchThreads ELSE threads

(* The finally clause around the pool. *)
RestoreThreads(succeeded) == TorchThreads

(* The pool is joined before the slabs or the error leave. *)
JoinPool ==
    /\ main.pc = "join"
    /\ With("running") = {}
    /\ LET succeeded == main.k \notin Layers IN
       /\ main' = [main EXCEPT !.pc = IF succeeded THEN "returned" ELSE "raised"]
       /\ threads' = RestoreThreads(succeeded)
    /\ UNCHANGED <<case, slabs, layer>>

SNext ==
    \/ ValidateStartupContract \/ PackTemplate \/ TakeResult \/ JoinPool
    \/ \E l \in Layers : StartLayer(l) \/ StageRule(l) \/ FinishLayer(l)

-----------------------------------------------------------------------------
(* Properties                                                              *)

(* The reference: row R of a weight's slab on a rank belongs to the layer  *)
(* that has R \div width layers of its group before it; expert e of it is  *)
(* with rank e \div LocalExperts.                                          *)
ReferenceCell(rule, rank, R) ==
    LET width   == TemplateWidth(rule)
        members == Members(rule.group)
        l == CHOOSE m \in members : Cardinality(Before(members, m)) = R \div width
        i == R % width
    IN  IF rule.kind = "expert"
        THEN Cell(l, rule.src, CHOOSE e \in 0 .. case.experts - 1 :
                     e \div LocalExperts = rank /\ e % LocalExperts = i)
        ELSE IF SourceName(rule, l, 0) \in LayerWeightNames(l) THEN Cell(l, rule.src, i)
        ELSE Fill(rule.fill)

(* Slabs that staging returns hold, at every rank and row, the tensor of   *)
(* the layer and expert that belongs there, and no row was left out: the   *)
(* layers of a sparse group are packed side by side, whatever order the    *)
(* workers wrote them in, and no failed layer goes unnoticed.              *)
SlabsExact ==
    main.pc = "returned" =>
        \A i \in DOMAIN Rules :
            StackGroup(Rules[i].group) # <<>> =>
                \A rank \in 0 .. case.ranks - 1 :
                    \A R \in DOMAIN slabs[Rules[i].name][rank] :
                        slabs[Rules[i].name][rank][R] = ReferenceCell(Rules[i], rank, R)

(* A DeepSeek checkpoint that passes the startup check fails staging only  *)
(* for what that check is documented not to look at: the inner experts of  *)
(* a layer, and shapes.                                                    *)
ContractCoversStaging ==
    main.pc = "raised" /\ case.family = "deepseek" =>
        \/ \E l \in Layers : \E n \in LayerWeightNames(l) \ DOMAIN case.raw :
              n.expert \notin {0, case.experts - 1}
        \/ \E l \in Layers, i \in DOMAIN Rules :
              LayerWeightNames(l) \subseteq DOMAIN case.raw /\ RuleFails(Rules[i], l)

(* When staging returns or raises no worker is still writing, and torch    *)
(* has the thread count it had before.                                     *)
StagingLeavesNothing ==
    main.pc \in {"returned", "raised"} => threads = TorchThreads /\ With("running") = {}

(* Staging ends with every row of every slab the checkpoint's, or fails    *)
(* with no thread left and torch's thread count restored; a missing tensor *)
(* is refused by the start-up contract, as far as it looks.                *)
StagingSound == SlabsExact /\ StagingLeavesNothing /\ ContractCoversStaging

-----------------------------------------------------------------------------
(* The inductive invariant of the staging                                  *)

Staged == {"stage", "join", "returned"}     \* the caller has its slabs

StagingTypes ==
    /\ case \in Cases
    /\ layer \in [Layers -> [status : {"pending", "running", "failed", "done", "cancelled"},
                              at : 1 .. Len(Rules) + 1]]
    /\ main \in [pc : {"contract", "refused", "template", "raised"} \cup Staged,
                  k : 0 .. Len(case.ratios)]

(* Workers run, and torch has another thread count, only between the       *)
(* template and the join.                                                  *)
WorkersJoined ==
    /\ main.pc \notin {"stage", "join"} => threads = TorchThreads /\ With("running") = {}
    /\ main.pc \in {"contract", "template"} => main.k = 0 /\ \A l \in Layers : layer[l].at = 1

(* What the caller has taken was done, and done is every rule.             *)
ResultsTaken ==
    /\ main.pc \in Staged => \A l \in Layers : l < main.k => layer[l].status = "done"
    /\ main.pc = "returned" => main.k \notin Layers
    /\ \A l \in Layers : layer[l].status = "done" => layer[l].at = Len(Rules) + 1

(* A layer fails, and so does the caller, for a reason.                    *)
Unstageable ==
    {l \in Layers : LoadFails(l) \/ \E i \in DOMAIN Rules : RuleFails(Rules[i], l)}
FailuresFounded ==
    /\ main.pc \notin {"contract", "refused"} => StartupContract \subseteq DOMAIN case.raw
    /\ \A l \in Layers : layer[l].status = "failed" => l \in Unstageable
    /\ main.pc = "join" /\ main.k \in Layers => layer[main.k].status = "failed"
    /\ main.pc = "raised" => Unstageable # {}

(* By rule: its rows in a layer, its layers, their places, what they write.*)
Width  == [i \in DOMAIN Rules |-> TemplateWidth(Rules[i])]
Member == [i \in DOMAIN Rules |-> Members(Rules[i].group)]
Place  == [i \in DOMAIN Rules |-> [l \in Layers |-> Cardinality(Before(Members(Rules[i].group), l))]]
Packed == [i \in DOMAIN Rules |-> [l \in Layers |-> PackRule(Rules[i], l)]]
Writes == [i \in DOMAIN Rules |-> {l \in Layers : ~RuleFails(Rules[i], l)}]

(* Every rule that a layer has evaluated is in the layer's slice.          *)
SlabShapes ==
    /\ Width \in [DOMAIN Rules -> Nat]
    /\ \A i \in DOMAIN Rules :
        Member[i] # {} =>
            /\ Rules[i].name \in DOMAIN slabs
            /\ DOMAIN slabs[Rules[i].name] = 0 .. case.ranks - 1
            /\ \A rank \in 0 .. case.ranks - 1 :
                  DOMAIN slabs[Rules[i].name][rank] = 0 .. Width[i] * Cardinality(Member[i]) - 1
SlicesWritten ==
    \A i \in DOMAIN Rules : \A l \in Member[i] :
        i < layer[l].at =>
            /\ l \in Writes[i]
            /\ \A rank \in 0 .. case.ranks - 1, j \in 0 .. Width[i] - 1 :
                  slabs[Rules[i].name][rank][Place[i][l] * Width[i] + j] = Packed[i][l][rank][j]

StagingInv ==
    /\ StagingTypes /\ WorkersJoined /\ ResultsTaken /\ FailuresFounded
    /\ main.pc \in Staged => SlabShapes /\ SlicesWritten
=============================================================================
