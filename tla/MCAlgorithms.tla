---------------------------- MODULE MCAlgorithms ----------------------------
(***************************************************************************)
(* The calculations that have no concurrency, or that of a collective or a *)
(* device only, each over every input of a small set: `part', chosen at    *)
(* first, says which of them a behaviour is about; the others stay at one  *)
(* of their inputs.                                                        *)
(***************************************************************************)
EXTENDS MoriRoles, RaggedDispatch, WeightInstall, TpuTopology, EntropyKernels

VARIABLE part
vars == <<part, topology, dispatchvars, exportvars, installvars, topologyvars, kernelvars>>

(***************************************************************************)
(* The inputs.  Expert-parallel dispatch: two ranks of two experts with    *)
(* three routes, with and without a capacity factor; of one expert with    *)
(* four, of which a peer's first may be dropped before those to the next;  *)
(* and three ranks of one expert.                                          *)
(***************************************************************************)
MCJobs == [ranks : {2}, e : {2}, n : {3}, num : {0, 1}, den : {1}, align : {3}]
          \cup [ranks : {2}, e : {1}, n : {4}, num : {1}, den : {1}, align : {3}]
          \cup [ranks : {3}, e : {1}, n : {2}, num : {1}, den : {1}, align : {1}]

\* Models: dense, mixture of experts and hybrid ones, on the device meshes that
\* TorchTitan makes (shards along one dimension, replicas, strided shards), for
\* every tensor-parallel size that divides them.
DeviceMesh(kinds, sizes) == [kinds |-> kinds, sizes |-> sizes]
Meshes == {DeviceMesh(<<"S0">>, <<n>>) : n \in 1 .. 4}
            \cup {DeviceMesh(k, <<2, 2>>) : k \in {<<"R", "S0">>, <<"strided", "S1">>, <<"strided", "S0">>}}
StackMeshes == {DeviceMesh(<<"S0">>, <<2>>), DeviceMesh(<<"S0">>, <<3>>), DeviceMesh(<<"S1">>, <<2>>)}
                 \cup {DeviceMesh(<<"strided", "S0">>, s) : s \in {<<2, 2>>, <<2, 1>>, <<1, 4>>}}
Base == [family |-> "qwen3", tied |-> FALSE, heads |-> 4, kv |-> 2, kheads |-> 4, vheads |-> 4, experts |-> 0,
         moe |-> 4, mesh |-> DeviceMesh(<<"S0">>, <<2>>), stackMesh |-> DeviceMesh(<<"S0">>, <<2>>),
         wireEp |-> FALSE, tp |-> 2, useEp |-> FALSE, placement |-> "linear", method |-> "tpu", flipped |-> TRUE]
Dense == {[Base EXCEPT !.tied = t, !.kv = k, !.mesh = me, !.tp = tp, !.flipped = f] :
            t \in BOOLEAN, k \in {1, 2, 4}, me \in Meshes, tp \in {1, 2, 4}, f \in BOOLEAN}
Moe == {[Base EXCEPT !.family = fm, !.experts = 4, !.moe = mo, !.stackMesh = sm, !.tp = tp, !.useEp = ep,
                     !.placement = pl, !.method = me, !.wireEp = w, !.kheads = kh] :
          fm \in {"qwen3", "qwen3_5"}, mo \in {4, 8}, sm \in StackMeshes, tp \in {1, 2, 4}, ep \in BOOLEAN,
          pl \in {"linear", "round_robin"}, me \in {"tpu", "vllm", "quant"}, w \in BOOLEAN, kh \in {2, 4}}
Hybrid == {[Base EXCEPT !.family = "qwen3_5", !.mesh = me, !.tp = tp, !.kheads = kh, !.flipped = f] :
             me \in Meshes, tp \in {1, 2, 4}, kh \in {2, 4}, f \in BOOLEAN}
Supported(m) == /\ m.wireEp => m.family = "qwen3_5"
                /\ m.family = "qwen3" => m.kheads = 4 /\ Len(m.stackMesh.sizes) = 1
                /\ m.placement # "linear" => m.useEp
Models == {m \in Dense \cup Moe \cup Hybrid : Supported(m)}

\* Clusters of two slices, one of them with a dead host or not, of two generations;
\* drivers with variables of GKE, of another slice, or of none.
HostIn(s, type, alive) == [slice |-> s, type |-> type, alive |-> alive]
MCClusters == {<<HostIn(1, a, TRUE), HostIn(1, a, al), HostIn(2, b, TRUE)>> :
                 a \in {"v6e-8", "v7x-16"}, b \in {"TPU-V6E", "TPU-V7X"}, al \in BOOLEAN}
MCEnvirons == {[topology |-> t, accelerator |-> a, hostBounds |-> g[1], chipBounds |-> g[2]] :
                 t \in {<<>>, <<2,4,1>>, <<2,2,2,2>>}, a \in {"", "tpu7x"},
                 g \in {<<<<>>, <<>>>>, <<<<1,1,2>>, <<2,2,1>>>>, <<<<1,1,1>>, <<2,2,1>>>>}}
PlainEnviron == [topology |-> <<>>, accelerator |-> "", hostBounds |-> <<>>, chipBounds |-> <<>>]
\* Without variables, up to three pools of one host of four chips; else one pool of any size.
MCPoolSizes == {<<1, 4>>, <<1, 8>>, <<2, 4>>, <<2, 8>>}
PoolsBound(made) == IF environ = PlainEnviron THEN Len(made) <= 3 /\ \A p \in DOMAIN made : Len(made[p].bundles) = 4
                    ELSE Len(made) <= 1

\* Cross entropy: columns that end in the middle of a tile, a split and a backward
\* split, one and two ranks, and logits on both sides of zero.
Logit(t, c) == ((3 * t + 5 * c * c) % 7) - 3
MCWorks ==
  {[ranks |-> s[1], tokens |-> s[2], vocab |-> s[3], perSplit |-> 4, backSplit |-> 3, bm |-> 2, bn |-> n,
    epilogueBn |-> 1, group |-> 2, kblocks |-> IF mode = "apart" THEN 2 ELSE 1, cores |-> 2, mode |-> mode,
    reduce |-> l = 3, logit |-> [t \in 0 .. s[2] - 1 |-> [c \in 0 .. s[1] * s[3] - 1 |-> Logit(t, c)]],
    label |-> [t \in 0 .. s[2] - 1 |-> (3 * t + l) % (s[1] * s[3])]] :
   s \in {<<1, 3, 5>>, <<2, 2, 3>>, <<1, 5, 9>>}, n \in {1, 2, 4}, l \in {0, 3, 4},
   mode \in {"fused", "separate", "split", "apart"}}
-----------------------------------------------------------------------------
OneOf(set) == CHOOSE x \in set : TRUE
InputsOf(name, set) == IF part = name THEN set ELSE {OneOf(set)}
Init ==
  /\ part \in {"topology", "dispatch", "weights", "pools", "entropy"}
  /\ RolesInit
  /\ \E j \in InputsOf("dispatch", DispatchJobs) : DispatchInit(j)
  /\ \E m \in (IF part = "weights" THEN Models ELSE {Base}) : InstallInit(m)
  /\ \E c \in InputsOf("pools", Clusters), e \in InputsOf("pools", Environs) : TopologyInit(c, e)
  /\ \E w \in InputsOf("entropy", EntropyWorks) : EntropyInit(w)

Builds     == part = "topology" /\ Build
                /\ UNCHANGED <<part, dispatchvars, exportvars, installvars, topologyvars, kernelvars>>
Dispatches == part = "dispatch" /\ DispatchNext
                /\ UNCHANGED <<part, topology, exportvars, installvars, topologyvars, kernelvars>>
Installs   == part = "weights" /\ InstallNext
                /\ UNCHANGED <<part, topology, dispatchvars, topologyvars, kernelvars>>
\* One worker asks: what it is told depends on no other worker's answer.
Pools      == part = "pools" /\ told = {} /\ TopologyNext /\ PoolsBound(pools')
                /\ UNCHANGED <<part, topology, dispatchvars, exportvars, installvars, kernelvars>>
Computes   == part = "entropy" /\ EntropyNext
                /\ UNCHANGED <<part, topology, dispatchvars, exportvars, installvars, topologyvars>>
Next == Builds \/ Dispatches \/ Installs \/ Pools \/ Computes
Spec == Init /\ [][Next]_vars
-----------------------------------------------------------------------------
\* What the fast path leaves in a rollout worker's parameters is what vLLM's own
\* loaders write there from the whole tensors of the HF checkpoint.
InstalledAsLoaded == stage = "installed" => \A r \in TP : installed[r] = LoadersWrite(HFTensors, r)

\* The parity check weighs a worker's share of a tensor by the number of workers
\* that hold it: exactly as many received each element of its slice.
ReplicasCounted ==
  stage = "received" => \A n \in DOMAIN sent : \A s \in TP :
    LET has(r, a, b) == a \in Range(staging[r][n].rows) /\ b \in Range(staging[r][n].cols) IN
    \A a \in Range(staging[s][n].rows), b \in Range(staging[s][n].cols) :
      Cardinality({r \in TP : has(r, a, b)}) = Replicas(slice[s][n])
=============================================================================
