---------------------------- MODULE WeightInstall ----------------------------
(***************************************************************************)
(* The rollout's half: which slice of each received tensor a vLLM tensor-  *)
(* parallel rank registers, whether a direct-install layout plans for the  *)
(* live model, and how the slices are written into vLLM's parameters, or   *)
(* go to vLLM's own loaders in HF's layout.  model.tp ranks serve one      *)
(* copy; LoadersWrite is what vLLM's checkpoint loaders make of the HF     *)
(* tensors (external), the result that an install has to reproduce.        *)
(***************************************************************************)
EXTENDS WeightExport

CONSTANT MoePad                    \* _MOE_PAD_MULTIPLE

VARIABLES plan,     \* the install mode: [layout, expertParallel]
          slice,    \* per rank: name -> [d, n, i], block i of n along d (d = -1: whole)
          staging,  \* per rank: name -> what it received
          installed \* per rank: vLLM parameter -> its value
installvars == <<plan, slice, staging, installed>>

TP == 0 .. model.tp - 1
Aligned(inter) == ((inter + MoePad - 1) \div MoePad) * MoePad
Pad(n) == [j \in 1 .. n |-> <<"pad", 0>>]
Transposed(t) == [rows |-> t.cols, cols |-> t.rows]
SameShape(t, u) == Len(t.rows) = Len(u.rows) /\ Len(t.cols) = Len(u.cols)

(***************************************************************************)
(* vLLM (external).                                                        *)
(***************************************************************************)
Split(t, names, sizes, d) ==
  LET start(k) == IF k = 1 THEN 0 ELSE IF k = 2 THEN sizes[1] ELSE sizes[1] + sizes[2]
  IN  [n \in Range(names) |-> LET k == CHOOSE k \in DOMAIN names : names[k] = n IN Narrow(t, d, start(k), sizes[k])]
KvBlock(t, r) == IF model.kv >= model.tp THEN BlockOf(t, 0, model.tp, r)
                 ELSE BlockOf(t, 0, model.kv, r \div (model.tp \div model.kv))
Linear == {"qkv", "o", "gate_up", "down", "s.gate_up", "s.down", "router", "s.router", "qkvz", "ba", "lin.out"}
AsKept(p, t) == IF model.flipped /\ p \in Linear THEN Transposed(t) ELSE t
Dealt(labels, r) == [k \in 1 .. Len(labels) \div model.tp |-> labels[(k - 1) * model.tp + r + 1]]
Experts(t, r, whole) ==
  IF ~whole THEN BlockOf(t, 1, model.tp, r)
  ELSE IF model.placement = "linear" THEN BlockOf(t, 0, model.tp, r) ELSE [t EXCEPT !.rows = Dealt(@, r)]
\* vllm-torchtpu pads the intermediate size, vLLM's own method does not.
Padding(inter) == IF model.method = "vllm" THEN 0 ELSE Aligned(inter) - inter
PadCols(t) == [t EXCEPT !.cols = @ \o Pad(Padding(Len(@)))]
\* The names of vLLM's parameters that one HF tensor makes up.
Plain(hf) == DOMAIN hf \ {"q", "k", "v", "gate", "up", "s.gate", "s.up", "lin.qkv", "lin.conv", "lin.z", "lin.b", "lin.a",
                          "x.gate", "x.up", "x.gate_up", "x.down"}
WholeOn == {"norm", "router", "s.router"}
RowParallel == {"o", "down", "s.down", "lin.out"}
LoadersWrite(hf, r) ==
  LET Rows(n) == BlockOf(hf[n], 0, model.tp, r)
      plain == [n \in Plain(hf) |->
                  AsKept(n, IF n \in WholeOn THEN hf[n] ELSE BlockOf(hf[n], IF n \in RowParallel THEN 1 ELSE 0, model.tp, r))]
      attention == [p \in {"qkv"} |-> AsKept(p, Concat(<<Rows("q"), KvBlock(hf["k"], r), KvBlock(hf["v"], r)>>, 0))]
      mlp == [p \in {p \in {"gate_up", "s.gate_up"} : (IF p = "gate_up" THEN "gate" ELSE "s.gate") \in DOMAIN hf} |->
                AsKept(p, Concat(IF p = "gate_up" THEN <<Rows("gate"), Rows("up")>> ELSE <<Rows("s.gate"), Rows("s.up")>>, 0))]
      lin == IF "lin.qkv" \notin DOMAIN hf THEN <<>>
             ELSE LET Parts(n) == Split(hf[n], <<"q", "k", "v">>, QKVRows(model), 0)
                      Of(n) == [k \in 1 .. 3 |-> BlockOf(Parts(n)[<<"q", "k", "v">>[k]], 0, model.tp, r)]
                  IN  [p \in {"qkvz", "conv", "ba"} |->
                        AsKept(p, Concat(CASE p = "qkvz" -> Append(Of("lin.qkv"), Rows("lin.z"))
                                           [] p = "conv" -> Of("lin.conv")
                                           [] p = "ba" -> <<Rows("lin.b"), Rows("lin.a")>>, 0))]
      moe == IF "x.down" \notin DOMAIN hf THEN <<>>
             ELSE LET gateUp == IF "x.gate_up" \in DOMAIN hf
                                THEN Split(hf["x.gate_up"], <<"x.gate", "x.up">>, <<model.moe, model.moe>>, 1) ELSE hf
                      of(t) == PadCols(Experts(t, r, model.useEp))
                  IN  [p \in {"w13", "w2"} |->
                        IF p = "w2" THEN of(hf["x.down"]) ELSE Concat(<<of(gateUp["x.gate"]), of(gateUp["x.up"])>>, 1)]
  IN  Extended(Extended(plain, attention), Extended(mlp, Extended(lin, moe)))
HFTensors == [n \in HFNames(model) |-> HF(model, n)]

(***************************************************************************)
(* select_layout.                                                          *)
(***************************************************************************)
Known == {"tpu", "vllm"}                      \* MOE_LAYOUTS; "quant" is any other method
\* moe_parallel_mode: whole experts (TRUE), slices of each (FALSE), or a refusal.
MoeModes ==
  IF model.tp = 1 THEN {TRUE}
  ELSE IF ~model.useEp THEN IF model.moe % model.tp = 0 THEN {FALSE} ELSE {}
  ELSE IF model.experts % model.tp = 0 /\ model.placement = "linear" THEN {TRUE} ELSE {}
WireEp == "w13_ep" \in DOMAIN sent
PlansQwen35 ==
  /\ model.family = "qwen3_5"
  /\ model.kheads % model.tp = 0 /\ model.vheads % model.tp = 0
  /\ model.experts > 0 =>
       /\ MoeModes # {}
       /\ IF WireEp THEN model.useEp /\ model.method = "tpu" ELSE model.method \in Known
PlansQwen3Moe == model.family = "qwen3" /\ model.experts > 0 /\ model.method \in Known /\ MoeModes # {}
ExpertParallel == IF model.experts = 0 THEN FALSE
                  ELSE IF model.family = "qwen3_5" /\ model.tp = 1 THEN model.useEp ELSE TRUE \in MoeModes
PlanOf ==
  IF PlansQwen35 THEN [layout |-> "qwen3_5", expertParallel |-> ExpertParallel]
  ELSE IF PlansQwen3Moe THEN [layout |-> "qwen3_moe", expertParallel |-> ExpertParallel]
  ELSE [layout |-> IF \E n \in DOMAIN sent : n \in Stacks \cup Convs THEN "loaders" ELSE "dense", expertParallel |-> FALSE]

(***************************************************************************)
(* The slice that rank r registers of a tensor of some shape.              *)
(***************************************************************************)
Whole == [d |-> -1, n |-> 1, i |-> 0]
Cut(d, n, i) == [d |-> d, n |-> n, i |-> i]
\* _sampler_sharding: a KV head that several ranks share is a block of its own.
KvHead(r) == Cut(0, model.kv, r \div (model.tp \div model.kv))
DenseSlice(n, t, r) ==
  IF n \in Vectors \cup Convs \cup Stacks THEN Whole
  ELSE IF n \in {"o", "down", "s.down"} THEN Cut(1, model.tp, r)
  ELSE IF n \in {"k", "v"} /\ model.kv < model.tp THEN KvHead(r)
  ELSE IF Len(t.rows) % model.tp = 0 THEN Cut(0, model.tp, r) ELSE Whole
LoaderSlice(n, t, r) ==
  IF n \notin Vectors /\ model.tp > 1 /\ Len(t.rows) % model.tp = 0 THEN Cut(0, model.tp, r) ELSE Whole
\* sampler_sharding_rule of the two layouts; where it raises, on a dimension
\* that the ranks do not divide, BlockOf loses labels.
NoRule == [d |-> -2, n |-> 0, i |-> 0]
StackSlice(pl, r) == Cut(IF pl.expertParallel THEN 0 ELSE 1, model.tp, r)
LayoutSlice(pl, n, r) ==
  IF n = "router" \/ (pl.layout = "qwen3_5" /\ n \in {"s.router", "lin.A_log", "lin.dt_bias"}) THEN Whole
  ELSE IF n \in {"x.gate", "x.up", "x.down"} THEN StackSlice(pl, r)
  ELSE IF n = "lin.out" THEN Cut(1, model.tp, r)
  ELSE IF n \in Convs \cup {"lin.q", "lin.k", "lin.v", "w13_ep", "w2_ep"} THEN Cut(0, model.tp, r)
  ELSE NoRule
SliceOf(pl, n, t, r) ==
  IF pl.layout = "loaders" THEN LoaderSlice(n, t, r)
  ELSE IF pl.layout # "dense" /\ LayoutSlice(pl, n, r) # NoRule THEN LayoutSlice(pl, n, r)
  ELSE DenseSlice(n, t, r)
\* How many ranks hold the same slice, by which the norm check divides.
\* Mutant: only a tensor kept whole is held by more than one.
WholeOrOnce(s) == IF s.d = -1 THEN model.tp ELSE 1
Replicas(s) == model.tp \div s.n
Sliced(t, s) == IF s.d = -1 THEN t ELSE BlockOf(t, s.d, s.n, s.i)

\* tpu-sync (external) puts block i of n where a rank said that it holds it.
Arrived(name) ==
  LET ranks == DOMAIN sent[name]
      any == sent[name][CHOOSE c \in ranks : TRUE]
      held(i) == {c \in ranks : sent[name][c].shard = <<any.shard[1], i>>}
  IN  IF any.shard = NoShard THEN any.t
      ELSE IF \E i \in 0 .. any.shard[1] - 1 : held(i) = {} THEN Garbage
      ELSE Concat([i \in 1 .. any.shard[1] |-> sent[name][CHOOSE c \in held(i - 1) : TRUE].t], 0)

\* init_tpu_sync_on_worker, on the first sync.  The experts are received
\* straight into vLLM's weights if those have the same shape; if they do not,
\* zero_copy_targets raises before anything is received.
ZeroCopyFits == WireEp /\ PlansQwen35 => Aligned(model.moe) = model.moe
InitOnWorkers ==
  /\ stage = "exported"
  /\ stage' = (IF ZeroCopyFits THEN "registered" ELSE "refused")
  /\ plan' = PlanOf
  /\ LET full == [n \in DOMAIN sent |-> Arrived(n)]
     IN  slice' = [r \in TP |-> [n \in DOMAIN sent |-> SliceOf(plan', n, full[n], r)]]
  /\ UNCHANGED <<model, params, sent, staging, installed>>
Receive ==
  /\ stage = "registered" /\ stage' = "received"
  /\ LET full == [n \in DOMAIN sent |-> Arrived(n)]
     IN  staging' = [r \in TP |-> [n \in DOMAIN sent |-> Sliced(full[n], slice[r][n])]]
  /\ UNCHANGED <<model, params, sent, plan, slice, installed>>

(***************************************************************************)
(* install_tpu_sync_weights.                                               *)
(***************************************************************************)
Raised == [rows |-> <<"raised">>, cols |-> <<>>]
\* copy_into: to_target_layout, then copy_ into a target of a fixed shape.
CopyInto(p, t, target) ==
  LET flip == \/ model.flipped /\ p \in Linear
              \/ ~SameShape(t, target) /\ SameShape(Transposed(t), target)
      adapted == IF p \notin Vectors \cup {"conv"} /\ flip THEN Transposed(t) ELSE t
  IN  IF SameShape(adapted, target) THEN adapted ELSE Raised
\* write_w13, write_w2: each half in its place, the padding stays as it is.
WriteExperts(t, target) == IF SameShape(t, target) THEN t ELSE Raised
WriteW13(gate, up, target) == WriteExperts(Concat(<<PadCols(gate), PadCols(up)>>, 1), target)
WriteW2(down, target) == WriteExperts(PadCols(down), target)

FusedFrom(p) ==
  CASE p = "qkv" -> <<"q", "k", "v">>
    [] p = "gate_up" -> <<"gate", "up">>
    [] p = "s.gate_up" -> <<"s.gate", "s.up">>
    [] p = "ba" -> <<"lin.b", "lin.a">>
    [] p = "qkvz" -> <<"lin.q", "lin.k", "lin.v", "lin.z">>
    [] p = "conv" -> <<"conv.q", "conv.k", "conv.v">>
    [] OTHER -> <<p>>
\* The value that the direct install writes to vLLM's parameter p on rank r.
Written(p, r, target) ==
  LET got == staging[r]
      rank == model.vheads \div model.tp
  IN  CASE p = "w13" -> IF WireEp THEN got["w13_ep"] ELSE WriteW13(got["x.gate"], got["x.up"], target)
        [] p = "w2"  -> IF WireEp THEN got["w2_ep"] ELSE WriteW2(got["x.down"], target)
        [] p \in {"lin.A_log", "lin.dt_bias"} -> CopyInto(p, Narrow(got[p], 0, r * rank, rank), target)
        [] OTHER -> CopyInto(p, Concat([k \in DOMAIN FusedFrom(p) |-> got[FusedFrom(p)[k]]], 0), target)
\* _install_with_vllm_loaders: gathered over the ranks and, by refuse_split_tensors,
\* fused again; split_expert_stacks hands the loaders a stack expert by expert.
Gathered(n) == IF slice[0][n].d = -1 THEN staging[0][n]
               ELSE Concat([k \in 1 .. model.tp |-> staging[k - 1][n]], 0)
FusedAgain(fused) == Concat([k \in DOMAIN PieceNames(fused) |-> Gathered(PieceNames(fused)[k])], PieceDim(fused))
HandedOver ==
  [n \in HFNames(model) |->
     IF n \in DOMAIN sent THEN Gathered(n)
     ELSE IF WireEp /\ n \in {"x.gate_up", "x.down"} THEN Gathered(EpName(n)) ELSE FusedAgain(n)]
Install ==
  /\ stage = "received" /\ stage' = "installed"
  /\ LET hf == IF plan.layout = "loaders" THEN HandedOver ELSE HFTensors
         target == [r \in TP |-> LoadersWrite(hf, r)]
     IN  installed' = IF plan.layout = "loaders" THEN target
                      ELSE [r \in TP |-> [p \in DOMAIN target[r] |-> Written(p, r, target[r][p])]]
  /\ UNCHANGED <<model, params, sent, plan, slice, staging>>

InstallInit(m) == ExportInit(m) /\ plan = [layout |-> "none", expertParallel |-> FALSE]
                  /\ slice = <<>> /\ staging = <<>> /\ installed = <<>>
InstallNext == (Export /\ UNCHANGED installvars) \/ InitOnWorkers \/ Receive \/ Install
=============================================================================
