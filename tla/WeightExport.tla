---------------------------- MODULE WeightExport ----------------------------
(***************************************************************************)
(* The trainer's half of a tpu-sync transfer: how the parameters of one    *)
(* layer, laid out over the trainer's device mesh, become the tensors and  *)
(* blocks that it sends (TrainerWeights.local_shards).  A tensor is the    *)
(* product of the labels of its rows and of its columns; a stack of        *)
(* experts has its experts as rows and the intermediate size as columns,   *)
(* and the hidden dimension, which nothing here cuts, is left out of it.   *)
(***************************************************************************)
EXTENDS Integers, Sequences, SequencesExt, FiniteSets

CONSTANTS Hidden, Vocab, Inner     \* hidden_size, vocab_size, intermediate_size

VARIABLES stage,   \* what is done: "loaded", "exported", ...
          model,   \* the model and how the two sides lay it out
          params,  \* name -> [t: tensor, mesh]: get_per_tensor_param
          sent     \* name -> what each trainer rank sends of it: [t, shard]
exportvars == <<stage, model, params, sent>>

Along(t, d) == IF d = 0 THEN t.rows ELSE t.cols
WithAlong(t, d, labels) == IF d = 0 THEN [t EXCEPT !.rows = labels] ELSE [t EXCEPT !.cols = labels]
Narrow(t, d, start, size) == WithAlong(t, d, SubSeq(Along(t, d), start + 1, start + size))
BlockOf(t, d, n, i) == LET size == Len(Along(t, d)) \div n IN Narrow(t, d, i * size, size)
Garbage == [rows |-> <<>>, cols |-> <<>>]
Concat(ts, d) ==
  IF \A k \in DOMAIN ts : Along(ts[k], 1 - d) = Along(ts[1], 1 - d)
  THEN WithAlong(ts[1], d, FlattenSeq([k \in DOMAIN ts |-> Along(ts[k], d)]))
  ELSE Garbage
Extended(f, g) == [x \in DOMAIN f \cup DOMAIN g |-> IF x \in DOMAIN g THEN g[x] ELSE f[x]]

\* The HF tensors of a model.
Stacks == {"x.gate", "x.up", "x.down", "x.gate_up", "w13_ep", "w2_ep"}
Vectors == {"norm", "lin.A_log", "lin.dt_bias"}
Convs == {"lin.conv", "conv.q", "conv.k", "conv.v"}
QKVRows(m) == <<m.kheads, m.kheads, m.vheads>>
RowsOfQKV(m) == 2 * m.kheads + m.vheads
Mlp(p) == {p \o "gate", p \o "up", p \o "down"}
HFNames(m) ==
  {"q", "k", "v", "o", "norm", "embed", "lm_head"}
  \cup (IF m.family = "qwen3_5"
        THEN {"lin.qkv", "lin.conv", "lin.z", "lin.b", "lin.a", "lin.A_log", "lin.dt_bias", "lin.out"} ELSE {})
  \cup (IF m.experts = 0 THEN Mlp("")
        ELSE {"router"} \cup (IF m.family = "qwen3_5" THEN {"s.router", "x.gate_up", "x.down"} \cup Mlp("s.")
                              ELSE {"x.gate", "x.up", "x.down"}))
HFRows(m, n) ==
  CASE n = "q" -> m.heads
    [] n \in {"k", "v"} -> m.kv
    [] n \in {"embed", "lm_head"} -> Vocab
    [] n \in {"gate", "up", "s.gate", "s.up"} -> Inner
    [] n \in {"lin.qkv", "lin.conv"} -> RowsOfQKV(m)
    [] n \in {"lin.z", "lin.b", "lin.a", "lin.A_log", "lin.dt_bias"} -> m.vheads
    [] n = "s.router" -> 1
    [] n \in Stacks \cup {"router"} -> m.experts
    [] OTHER -> Hidden
HFCols(m, n) ==
  CASE n = "o" -> m.heads
    [] n \in {"down", "s.down"} -> Inner
    [] n = "lin.out" -> m.vheads
    [] n = "x.gate_up" -> 2 * m.moe
    [] n \in Stacks -> m.moe
    [] n \in Vectors \cup Convs -> 1
    [] OTHER -> Hidden
\* Tied embeddings are one parameter under two names.
HF(m, n) ==
  LET own == IF n = "lm_head" /\ m.tied THEN "embed" ELSE n
  IN  [rows |-> [i \in 1 .. HFRows(m, n) |-> IF n \in Stacks THEN <<"expert", i>> ELSE <<own, i>>],
       cols |-> [j \in 1 .. HFCols(m, n) |-> IF n \in Stacks THEN <<own, j>> ELSE <<"in", j>>]]

(***************************************************************************)
(* Device meshes (torch): a dimension replicates ("R"), shards dim 0 or 1  *)
(* ("S0", "S1") or is the _StridedShard(0) of SimpleFSDP, which cuts the   *)
(* blocks that the other dimensions left.  The last block may be smaller.  *)
(***************************************************************************)
Replicated == [sizes |-> <<1>>, kinds |-> <<"R">>]
Coords(mesh) == {c \in [DOMAIN mesh.sizes -> 0 .. 4] : \A d \in DOMAIN c : c[d] < mesh.sizes[d]}
Active(mesh) == {d \in DOMAIN mesh.sizes : mesh.sizes[d] > 1}
Chunk(t, d, n, i) ==
  LET size == (Len(Along(t, d)) + n - 1) \div n
  IN  WithAlong(t, d, SubSeq(Along(t, d), i * size + 1, (i + 1) * size))
ToLocal(t, mesh, c) ==
  LET Cut(u, d) == IF mesh.kinds[d] = "R" THEN u
                   ELSE Chunk(u, IF mesh.kinds[d] = "S1" THEN 1 ELSE 0, mesh.sizes[d], c[d])
      dims == SetToSortSeq(DOMAIN mesh.sizes, <)
  IN  FoldLeft(Cut, FoldLeft(Cut, t, SelectSeq(dims, LAMBDA d : mesh.kinds[d] # "strided")),
               SelectSeq(dims, LAMBDA d : mesh.kinds[d] = "strided"))

\* fsdp_dim0_shard: <<number of blocks, this rank's>>, or none: the tensor is
\* gathered.  Mutant: the blocks of _efsdp_ep_dim0_shard count the outer
\* dimension first, as in a plain Shard(0) of both.
NoShard == <<>>
OuterFirst(mesh, c, outer, inner) == c[outer] * mesh.sizes[inner] + c[inner]
InnerFirst(mesh, c, outer, inner) == c[inner] * mesh.sizes[outer] + c[outer]
EfsdpEpShard(t, mesh, c) ==
  LET outer == CHOOSE d \in Active(mesh) : \A e \in Active(mesh) : d <= e
      inner == CHOOSE d \in Active(mesh) : d # outer
      n == mesh.sizes[outer] * mesh.sizes[inner]
  IN  IF /\ mesh.kinds[inner] = "S0" /\ mesh.kinds[outer] = "strided"
         /\ Len(t.rows) % n = 0 /\ Len(ToLocal(t, mesh, c).rows) = Len(t.rows) \div n
      THEN <<n, InnerFirst(mesh, c, outer, inner)>> ELSE NoShard
Dim0Shard(name, t, mesh, c) ==
  IF name \in Vectors THEN NoShard
  ELSE IF Cardinality(Active(mesh)) = 2 THEN EfsdpEpShard(t, mesh, c)
  ELSE IF Cardinality(Active(mesh)) # 1 THEN NoShard
  ELSE LET d == CHOOSE d \in Active(mesh) : TRUE
           n == mesh.sizes[d]
       IN  IF /\ mesh.kinds[d] = "S0" /\ Len(t.rows) % n = 0
              /\ Len(ToLocal(t, mesh, c).rows) = Len(t.rows) \div n
           THEN <<n, c[d]>> ELSE NoShard

(***************************************************************************)
(* make_tpu_sync_local_layout: Qwen3.5's fused tensors leave as the pieces *)
(* that vLLM shards, its experts also as whole stacks in vLLM's layout.    *)
(***************************************************************************)
PieceNames(fused) ==
  CASE fused = "lin.qkv" -> <<"lin.q", "lin.k", "lin.v">>
    [] fused = "lin.conv" -> <<"conv.q", "conv.k", "conv.v">>
    [] fused = "x.gate_up" -> <<"x.gate", "x.up">>
    [] OTHER -> <<>>
PieceSizes(m, fused) == IF fused = "x.gate_up" THEN <<m.moe, m.moe>> ELSE QKVRows(m)
PieceDim(fused) == IF fused = "x.gate_up" THEN 1 ELSE 0
EpName(n) == IF n = "x.gate_up" THEN "w13_ep" ELSE "w2_ep"
\* The state-dict adapter has gathered q, k and v to concatenate them, and a
\* view across the dimension that the mesh shards gathers the tensor.
Piece(m, ps, fused, k) ==
  LET size(j) == PieceSizes(m, fused)[j]
      start == IF k = 1 THEN 0 ELSE IF k = 2 THEN size(1) ELSE size(1) + size(2)
      mesh == ps[fused].mesh
  IN  [t |-> Narrow(ps[fused].t, PieceDim(fused), start, size(k)),
       mesh |-> IF fused # "x.gate_up" \/ \E d \in Active(mesh) : mesh.kinds[d] = "S1" THEN Replicated ELSE mesh]
LocalLayout(m, ps) ==
  LET eps   == IF m.wireEp THEN {n \in DOMAIN ps : n \in {"x.gate_up", "x.down"}} ELSE {}
      fused == {n \in DOMAIN ps \ eps : PieceNames(n) # <<>>}
      owner(n) == CHOOSE f \in fused : \E k \in DOMAIN PieceNames(f) : PieceNames(f)[k] = n
      names == UNION {Range(PieceNames(f)) : f \in fused}
      piece == [n \in names |-> Piece(m, ps, owner(n), CHOOSE k \in 1 .. 3 : PieceNames(owner(n))[k] = n)]
      whole == [n \in {EpName(f) : f \in eps} |-> ps[CHOOSE f \in eps : EpName(f) = n]]
  IN  IF m.family # "qwen3_5" THEN ps
      ELSE Extended([n \in DOMAIN ps \ (fused \cup eps) |-> ps[n]], Extended(piece, whole))

\* get_per_tensor_param: the parameters are laid out on the mesh of the
\* dense weights, the stacks on that of the experts; FusedQKVLinear and the
\* adapter's concatenations have gathered theirs.
MeshOf(m, n) ==
  IF n \in Stacks THEN m.stackMesh
  ELSE IF n \in {"q", "k", "v", "lin.qkv", "lin.conv"} THEN Replicated ELSE m.mesh
ParamsOf(m) == [n \in HFNames(m) |-> [t |-> HF(m, n), mesh |-> MeshOf(m, n)]]

\* local_shards: this rank's block where tpu-sync can place it, else all of it.
Sent(name, p, c) ==
  LET shard == Dim0Shard(name, p.t, p.mesh, c)
  IN  [t |-> IF shard = NoShard THEN p.t ELSE ToLocal(p.t, p.mesh, c), shard |-> shard]

ExportInit(m) == stage = "loaded" /\ model = m /\ params = ParamsOf(m) /\ sent = <<>>
Export ==
  /\ stage = "loaded" /\ stage' = "exported"
  /\ LET ps == LocalLayout(model, params)
     IN  sent' = [n \in DOMAIN ps |-> [c \in Coords(ps[n].mesh) |-> Sent(n, ps[n], c)]]
  /\ UNCHANGED <<model, params>>
=============================================================================
