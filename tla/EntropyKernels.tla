--------------------------- MODULE EntropyKernels ---------------------------
(***************************************************************************)
(* The fused linear cross entropy of the MLU backend: hidden states times  *)
(* a vocabulary that is cut over the ranks, each rank's part into splits,     *)
(* and a kernel's tiles dealt to the cores, whose programs end in any      *)
(* order.  Arithmetic is exact and symbolic: a sum of exponentials is a    *)
(* set of terms <<column, e>>, each exp(e); entropy_b is the same sum with *)
(* each term times its column's logit.  One device per rank; what the host *)
(* enqueues on a stream runs in order.                                     *)
(***************************************************************************)
EXTENDS Integers, FiniteSets, FiniteSetsExt

CONSTANT EntropyWorks                       \* the calls: tensors and tuning

VARIABLES work,        \* the tensors and the tuning
          kernel, left,    \* per rank: the kernel that runs, and its programs that have not ended
          partial,     \* per rank, token and split: _max and _accu/_entropy_b
          reduced,     \* per rank, token and split: _max after its all_reduce
          picked,      \* per rank and token: the logits in _logprobs, <<rank, value>>
          joined,      \* _logprobs went through its all_reduce, on the stream of its own
          joint,       \* per rank and token: maximum and accumulate/entropy_b
          result,      \* per rank and token: what logprobs and entropy are made of
          summed,      \* per rank: the tokens added to the reduced logprobs, <<program, token>>
          split,       \* per rank: split_idx of the backward pass
          dlogits,     \* per rank, token and column of the buffer: the d_logits in it
          dhidden,     \* per rank, token and block of the hidden size: what was added
          dweight      \* per rank, column and block: what was added
kernelvars == <<work, kernel, left, partial, reduced, picked, joined, joint, result, summed, split, dlogits,
                dhidden, dweight>>
forward  == <<partial, reduced, picked, joined, joint, result, summed>>
backward == <<split, dlogits, dhidden, dweight>>

Below0(n) == 0 .. n - 1
Underflow == 500                           \* exp(-Underflow) is 0
\* Tensors of at least one element, a split (of 1024 columns) of whole tiles, and no two
\* logits as far apart as exp underflows, nor as far as Underflow from zero.
SizeFields == {"ranks", "tokens", "vocab", "perSplit", "backSplit", "bm", "bn", "epilogueBn", "group", "kblocks", "cores"}
IsWork(w) ==
  /\ \A f \in SizeFields : w[f] \in Nat \ {0}
  /\ w.perSplit % w.bn = 0
  /\ w.mode \in {"fused", "separate", "split", "apart"} /\ w.reduce \in BOOLEAN
  /\ w.label \in [Below0(w.tokens) -> Below0(w.ranks * w.vocab)]
  /\ w.logit \in [Below0(w.tokens) -> [Below0(w.ranks * w.vocab) -> Int]]
  /\ \A t \in Below0(w.tokens) : \A c, d \in Below0(w.ranks * w.vocab) :
       w.logit[t][c] < Underflow /\ w.logit[t][c] - w.logit[t][d] < Underflow /\ -w.logit[t][c] < Underflow
ASSUME WorksAssumption == \A w \in EntropyWorks : IsWork(w)

Cdiv(a, b) == (a + b - 1) \div b
Lesser(a, b) == IF a < b THEN a ELSE b
Greater(a, b) == IF a > b THEN a ELSE b
Groups == Below0(work.ranks)
Tokens == Below0(work.tokens)
OwnColumns  == Below0(work.vocab)               \* a rank's own columns
Splits == Below0(Cdiv(work.vocab, work.perSplit))
Blocks == Below0(work.kblocks)
Tp     == work.ranks > 1
Global(r, c) == r * work.vocab + c
NegInf == -10000
Masked == -1000
Scaled(terms, d) == {x \in {<<t[1], t[2] + d>> : t \in terms} : x[2] > -Underflow}
Unset == {<<-1, 0>>}                     \* the content of torch.empty

\* What is added to a gradient: <<tile or 0, row of the other factor, d_logit>>.
Factor(row, dlogit) == <<<<0, 0>>, row, dlogit>>

EntropyInit(w) ==
  /\ work = w
  /\ kernel = [r \in Groups |-> "mainloop"] /\ left = [r \in Groups |-> Below0(w.cores)]
  /\ partial = [r \in Groups |-> [x \in Tokens \X Splits |-> [max |-> 0, terms |-> Unset]]]
  /\ reduced = <<>> /\ joined = FALSE
  /\ picked = [r \in Groups |-> [t \in Tokens |-> IF Tp \/ w.reduce THEN {} ELSE Unset]]
  /\ joint = [r \in Groups |-> [t \in Tokens |-> [max |-> 0, terms |-> Unset]]]
  /\ result = [r \in Groups |-> [t \in Tokens |-> <<>>]] /\ summed = [r \in Groups |-> {}]
  /\ split = [r \in Groups |-> 0]
  /\ dlogits = [r \in Groups |-> [x \in Tokens \X Below0(IF w.mode = "split" THEN w.backSplit ELSE w.vocab) |-> <<-1, -1, FALSE>>]]
  /\ dhidden = [r \in Groups |-> [x \in Tokens \X Blocks |-> IF w.mode = "fused" THEN {} ELSE {Factor(-1, <<-1, -1, FALSE>>)}]]
  /\ dweight = [r \in Groups |-> [x \in OwnColumns \X Blocks |-> IF w.mode = "fused" THEN {} ELSE {Factor(-1, <<-1, -1, FALSE>>)}]]

\* The tiles of program p: the same number for each, fewer for the last.
Share(p, tiles) == {i \in Below0(tiles) : i \div Cdiv(tiles, work.cores) = p}
\* The programs of a kernel end one by one; the last one makes next the kernel that runs.
Ends(r, p, next) ==
  /\ p \in left[r]
  /\ left' = [left EXCEPT ![r] = IF @ = {p} THEN Below0(work.cores) ELSE @ \ {p}]
  /\ kernel' = [kernel EXCEPT ![r] = IF left[r] = {p} THEN next ELSE @]
-----------------------------------------------------------------------------
LogitOf(r, t, n, first, c) ==
  IF first + work.bn > work.vocab /\ c >= work.vocab THEN Masked
  ELSE IF c >= Lesser((n + 1) * work.perSplit, work.vocab) THEN 0 ELSE work.logit[t][Global(r, c)]

\* One block of columns in the loop over a split: the maximum moves, and what was
\* summed is scaled to it.
OneBlock(r, t, n, acc, b) ==
  LET first == n * work.perSplit + b * work.bn
      cols  == first .. first + work.bn - 1
      max   == Greater(acc.max, Max({LogitOf(r, t, n, first, c) : c \in cols}))
      local == work.label[t] - (first + r * work.vocab)
  IN  [max   |-> max,
       terms |-> Scaled(acc.terms, acc.max - max)
                   \cup Scaled({<<Global(r, c), LogitOf(r, t, n, first, c)>> : c \in cols}, -max),
       pick  |-> acc.pick + (IF local \in Below0(work.bn) THEN LogitOf(r, t, n, first, first + local) ELSE 0)]
OneSplit(r, t, n) ==
  LET blocks == Cdiv(work.perSplit, work.bn)
      acc[b \in 0 .. blocks] == IF b = 0 THEN [max |-> NegInf, terms |-> {}, pick |-> 0]
                                ELSE OneBlock(r, t, n, acc[b - 1], b - 1)
  IN  acc[blocks]
Owns(r, n, label) == label >= Global(r, n * work.perSplit)
                     /\ label < Global(r, Lesser((n + 1) * work.perSplit, work.vocab))

\* efficient_entropy_kernel_general_mainloop, program p
Mainloop(r, p) ==
  LET rowBlocks == Cdiv(work.tokens, work.bm)
      tiles == Share(p, rowBlocks * Cardinality(Splits))
      mine  == {x \in Tokens \X Splits : x[2] * rowBlocks + (x[1] \div work.bm) \in tiles}
  IN  /\ kernel[r] = "mainloop" /\ Ends(r, p, IF Tp THEN "reduce" ELSE "epilogue")
      /\ LET done == [x \in mine |-> OneSplit(r, x[1], x[2])] IN
         /\ partial' = [partial EXCEPT ![r] = [x \in DOMAIN @ |-> IF x \in mine THEN [max |-> done[x].max, terms |-> done[x].terms] ELSE @[x]]]
         /\ picked' = [picked EXCEPT ![r] = [t \in Tokens |->
              LET owners == {x \in mine : x[1] = t /\ Owns(r, x[2], work.label[t])}
              IN  IF owners = {} THEN @[t] ELSE {<<r, done[x].pick>> : x \in owners}]]
      /\ UNCHANGED <<work, reduced, joined, joint, result, summed>> /\ UNCHANGED backward

\* The tokens of program p of an epilogue, which runs on no more cores than blocks.
EpilogueCores == Lesser(work.cores, Cdiv(work.tokens, work.bm))
Portion(p) == LET n == Cdiv(work.tokens, EpilogueCores) IN {t \in Tokens : t >= n * p /\ t < n * (p + 1)}
Joined(r, t, top) == UNION {Scaled(partial[r][t, n].terms, partial[r][t, n].max - top) : n \in Splits}
Reduce(r, p) == summed' = [summed EXCEPT ![r] = @ \cup (IF work.reduce THEN {<<p, t>> : t \in Portion(p)} ELSE {})]

\* efficient_entropy_triton_kernel_epilogue
Epilogue(r, p) ==
  LET top(t) == Max({partial[r][t, n].max : n \in Splits}) IN
  /\ kernel[r] = "epilogue" /\ Ends(r, p, "forward")
  /\ joint' = [joint EXCEPT ![r] = [t \in Tokens |->
       IF t \in Portion(p) THEN [max |-> top(t), terms |-> Joined(r, t, top(t))] ELSE @[t]]]
  /\ result' = [result EXCEPT ![r] = [t \in Tokens |->
       IF t \in Portion(p) THEN [pick |-> picked[r][t], sum |-> joint'[r][t]] ELSE @[t]]]
  /\ Reduce(r, p)
  /\ UNCHANGED <<work, partial, reduced, picked, joined>> /\ UNCHANGED backward
-----------------------------------------------------------------------------
\* With the vocabulary over several ranks: all_reduce of _max on the main stream ...
ReduceMax ==
  /\ \A r \in Groups : kernel[r] = "reduce"
  /\ reduced' = [r \in Groups |-> [x \in Tokens \X Splits |-> Max({partial[s][x].max : s \in Groups})]]
  /\ kernel' = [r \in Groups |-> "join"]
  /\ UNCHANGED <<work, left, partial, picked, joined, joint, result, summed>> /\ UNCHANGED backward
\* ... and, any time after it, of _logprobs on the dedicated one.
ReduceLogprobs ==
  /\ reduced # <<>> /\ ~joined
  /\ joined' = TRUE
  /\ picked' = [r \in Groups |-> [t \in Tokens |-> UNION {picked[s][t] : s \in Groups}]]
  /\ UNCHANGED <<work, kernel, left, partial, reduced, joint, result, summed>> /\ UNCHANGED backward

\* efficient_entropy_triton_kernel_epilogue_tp: the splits, a block of them at a time.
OwnMax(r, t, n) == partial[r][t, n].max
JoinBlock(r, t, acc, b) ==
  LET splits == {n \in Splits : n \div work.epilogueBn = b}
      max == Greater(acc.max, Max({reduced[r][t, n] : n \in splits}))
  IN  [max |-> max,
       terms |-> Scaled(acc.terms, acc.max - max)
                   \cup UNION {Scaled(partial[r][t, n].terms, OwnMax(r, t, n) - max) : n \in splits}]
JoinSplits(r, t) ==
  LET blocks == Cdiv(Cardinality(Splits), work.epilogueBn)
      acc[b \in 0 .. blocks] == IF b = 0 THEN [max |-> 0, terms |-> {}] ELSE JoinBlock(r, t, acc[b - 1], b - 1)
  IN  acc[blocks]
EpilogueTp(r, p) ==
  /\ kernel[r] = "join" /\ Ends(r, p, "wait")
  /\ joint' = [joint EXCEPT ![r] = [t \in Tokens |-> IF t \in Portion(p) THEN JoinSplits(r, t) ELSE @[t]]]
  /\ UNCHANGED <<work, partial, reduced, picked, joined, result, summed>> /\ UNCHANGED backward

\* The main stream waits for the dedicated one before the sums are all-reduced.
\* Mutant: it does not.
Unwaited == TRUE
LogprobsAreIn == joined
ReduceSums ==
  /\ \A r \in Groups : kernel[r] = "wait"
  /\ LogprobsAreIn
  /\ joint' = [r \in Groups |-> [t \in Tokens |-> [joint[r][t] EXCEPT !.terms = UNION {joint[s][t].terms : s \in Groups}]]]
  /\ kernel' = [r \in Groups |-> "update"]
  /\ UNCHANGED <<work, left, partial, reduced, picked, joined, result, summed>> /\ UNCHANGED backward

\* efficient_entropy_triton_epilogue_tp_update
Update(r, p) ==
  /\ kernel[r] = "update" /\ Ends(r, p, "forward")
  /\ result' = [result EXCEPT ![r] = [t \in Tokens |->
       IF t \in Portion(p) THEN [pick |-> picked[r][t], sum |-> joint[r][t]] ELSE @[t]]]
  /\ Reduce(r, p)
  /\ UNCHANGED <<work, partial, reduced, picked, joined, joint>> /\ UNCHANGED backward
-----------------------------------------------------------------------------
\* efficient_entropy_backward, each rank by itself.  The tile i of a grid of rows and
\* columns, in groups of rows whose tiles are numbered column by column.
Decode(i, rows, cols) ==
  LET inGroup == work.group * cols
      first   == (i \div inGroup) * work.group
      size    == Lesser(rows - first, work.group)
  IN  <<first + ((i % inGroup) % size), (i % inGroup) \div size>>
Grid(p, rows, cols) == {Decode(i, rows, cols) : i \in Share(p, rows * cols)}
RowBlocks == Cdiv(work.tokens, work.bm)
RowOf(t) == t \div work.bm
Pairs(columns) == Cdiv(columns, 2 * work.bn)     \* a program takes two adjacent tiles of columns
PairOf(j) == j \div (2 * work.bn)

\* The gradient of a logit: its token, its column, and whether the label is taken from it.
AtLabel(r, t, c) == Global(r, c) = work.label[t]
Dlogit(r, t, c) == <<t, c, AtLabel(r, t, c)>>
HiddenOf(r, t) == {Factor(c, Dlogit(r, t, c)) : c \in OwnColumns}
WeightOf(r, c) == {Factor(t, Dlogit(r, t, c)) : t \in Tokens}

StartBackward(r) ==
  /\ kernel[r] = "forward"
  /\ kernel' = [kernel EXCEPT ![r] = IF work.mode = "apart" THEN "d_hidden" ELSE work.mode]
  /\ UNCHANGED <<work, left>> /\ UNCHANGED forward /\ UNCHANGED backward

\* efficient_entropy_backward_kernel_general_mainloop_MN adds to both gradients.
Fused(r, p) ==
  LET tiles == Grid(p, RowBlocks, Pairs(work.vocab))
      pairs == {x \in tiles \X Tokens \X OwnColumns : x[1] = <<RowOf(x[2]), PairOf(x[3])>>}
  IN  /\ kernel[r] = "fused" /\ Ends(r, p, "done")
      /\ dhidden' = [dhidden EXCEPT ![r] = [y \in DOMAIN @ |->
           @[y] \cup {<<x[1], x[3], Dlogit(r, x[2], x[3])>> : x \in {x \in pairs : x[2] = y[1]}}]]
      /\ dweight' = [dweight EXCEPT ![r] = [y \in DOMAIN @ |->
           @[y] \cup {<<x[1], x[2], Dlogit(r, x[2], x[3])>> : x \in {x \in pairs : x[3] = y[1]}}]]
      /\ UNCHANGED <<work, split, dlogits>> /\ UNCHANGED forward

\* ..._general_d_logits stores the gradient of every logit, for two products of matrices.
Separate(r, p) ==
  /\ kernel[r] = "separate" /\ Ends(r, p, "products")
  /\ dlogits' = [dlogits EXCEPT ![r] = [x \in DOMAIN @ |->
       IF <<RowOf(x[1]), PairOf(x[2])>> \in Grid(p, RowBlocks, Pairs(work.vocab)) THEN Dlogit(r, x[1], x[2]) ELSE @[x]]]
  /\ UNCHANGED <<work, split, dhidden, dweight>> /\ UNCHANGED forward
Products(r) ==
  /\ kernel[r] = "products" /\ kernel' = [kernel EXCEPT ![r] = "done"]
  /\ dhidden' = [dhidden EXCEPT ![r] = [y \in DOMAIN @ |-> {Factor(c, dlogits[r][y[1], c]) : c \in OwnColumns}]]
  /\ dweight' = [dweight EXCEPT ![r] = [y \in DOMAIN @ |-> {Factor(t, dlogits[r][t, y[1]]) : t \in Tokens}]]
  /\ UNCHANGED <<work, left, split, dlogits>> /\ UNCHANGED forward

\* ..._general_d_logits_split_N, for one split, into a buffer that all splits use ...
BackSplits == Cdiv(work.vocab, work.backSplit)
SplitLogits(r, p) ==
  /\ kernel[r] = "split" /\ Ends(r, p, "split_products")
  /\ dlogits' = [dlogits EXCEPT ![r] = [x \in DOMAIN @ |->
       IF <<RowOf(x[1]), PairOf(x[2])>> \in Grid(p, RowBlocks, Pairs(work.backSplit))
       THEN Dlogit(r, x[1], split[r] * work.backSplit + x[2]) ELSE @[x]]]
  /\ UNCHANGED <<work, split, dhidden, dweight>> /\ UNCHANGED forward
\* ... of which the last takes the part that the vocabulary still has.
\* Mutant: the first split does not overwrite what torch.empty left in d_hidden.
AlwaysAdds(sum, first) == sum
Before(sum, first) == IF first THEN {} ELSE sum
SplitProducts(r) ==
  LET base == split[r] * work.backSplit
      cols == {j \in Below0(work.backSplit) : base + j \in OwnColumns}
  IN  /\ kernel[r] = "split_products"
      /\ dhidden' = [dhidden EXCEPT ![r] = [y \in DOMAIN @ |->
           Before(@[y], split[r] = 0) \cup {Factor(base + j, dlogits[r][y[1], j]) : j \in cols}]]
      /\ dweight' = [dweight EXCEPT ![r] = [y \in DOMAIN @ |->
           IF y[1] - base \in cols THEN {Factor(t, dlogits[r][t, y[1] - base]) : t \in Tokens} ELSE @[y]]]
      /\ split' = [split EXCEPT ![r] = @ + 1]
      /\ kernel' = [kernel EXCEPT ![r] = IF split[r] + 1 < BackSplits THEN "split" ELSE "done"]
      /\ UNCHANGED <<work, left, dlogits>> /\ UNCHANGED forward

\* The kernels of one gradient each, by their launchers: ..._d_hidden over rows and
\* blocks of the hidden size, ..._d_weight over pairs of columns and blocks.
HiddenKernel(r, p) ==
  /\ kernel[r] = "d_hidden" /\ Ends(r, p, "d_weight")
  /\ dhidden' = [dhidden EXCEPT ![r] = [y \in DOMAIN @ |->
       IF <<RowOf(y[1]), y[2]>> \in Grid(p, RowBlocks, work.kblocks) THEN HiddenOf(r, y[1]) ELSE @[y]]]
  /\ UNCHANGED <<work, split, dlogits, dweight>> /\ UNCHANGED forward
WeightKernel(r, p) ==
  /\ kernel[r] = "d_weight" /\ Ends(r, p, "done")
  /\ dweight' = [dweight EXCEPT ![r] = [y \in DOMAIN @ |->
       IF <<PairOf(y[1]), y[2]>> \in Grid(p, Pairs(work.vocab), work.kblocks) THEN WeightOf(r, y[1]) ELSE @[y]]]
  /\ UNCHANGED <<work, split, dlogits, dhidden>> /\ UNCHANGED forward

EntropyNext ==
  \/ \E r \in Groups, p \in Below0(work.cores) :
       \/ Mainloop(r, p) \/ Epilogue(r, p) \/ EpilogueTp(r, p) \/ Update(r, p)
       \/ Fused(r, p) \/ Separate(r, p) \/ SplitLogits(r, p) \/ HiddenKernel(r, p) \/ WeightKernel(r, p)
  \/ ReduceMax \/ ReduceLogprobs \/ ReduceSums
  \/ \E r \in Groups : StartBackward(r) \/ Products(r) \/ SplitProducts(r)
EntropySpec == (\E w \in EntropyWorks : EntropyInit(w)) /\ [][EntropyNext]_kernelvars
-----------------------------------------------------------------------------
\* Each token's log probability and entropy are made of its label's logit and of the
\* exponential of every logit of the whole vocabulary once, relative to the maximum
\* that goes with the sum, whatever the tiles, the splits, the ranks and the order of
\* the cores and of the two streams; a sum or mean over the tokens has each once.
LogprobsAreExact ==
  \A r \in Groups :
    /\ \A t \in Tokens : result[r][t] # <<>> =>
         /\ Scaled(result[r][t].sum.terms, result[r][t].sum.max)
              = {<<c, work.logit[t][c]>> : c \in DOMAIN work.logit[t]}
         /\ result[r][t].pick = {<<work.label[t] \div work.vocab, work.logit[t][work.label[t]]>>}
    /\ kernel[r] = "done" =>
         \A t \in Tokens : Cardinality({x \in summed[r] : x[2] = t}) = IF work.reduce THEN 1 ELSE 0

\* In each of the backward modes a rank's gradients have every product of a token and
\* a column exactly once, the column of the gradient meeting the same row of the weight,
\* and the label is taken from the one logit that is the token's label.
Terms(sum) == {<<x[2], x[3][1], x[3][2]>> : x \in sum}
GradientsAreWhole ==
  \A r \in Groups : kernel[r] = "done" =>
    /\ \A y \in DOMAIN dhidden[r] :
         /\ Terms(dhidden[r][y]) = {<<c, y[1], c>> : c \in OwnColumns} /\ Cardinality(dhidden[r][y]) = work.vocab
         /\ {Global(r, x[2]) : x \in {x \in dhidden[r][y] : x[3][3]}}
              = {work.label[y[1]]} \cap {Global(r, c) : c \in OwnColumns}
    /\ \A y \in DOMAIN dweight[r] :
         Terms(dweight[r][y]) = {<<t, t, y[1]>> : t \in Tokens} /\ Cardinality(dweight[r][y]) = work.tokens
=============================================================================
