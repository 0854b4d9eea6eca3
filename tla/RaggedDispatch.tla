--------------------------- MODULE RaggedDispatch ---------------------------
(***************************************************************************)
(* TpuRaggedEPTokenDispatcher: how the rows that the ranks of an expert-   *)
(* parallel group route reach the experts and come back, collective by     *)
(* collective; the ranks run the same program, so that each step is one of *)
(* all of them.  A row is <<rank, i>>, the one that the rank sorted to     *)
(* place i; Zero stands for zeros, Junk for what a kernel left unwritten.  *)
(* Every rank routes as many rows (align_micro_batch_shapes_across_ranks). *)
(***************************************************************************)
EXTENDS Integers, FiniteSets

CONSTANT DispatchJobs   \* the sizes and tunings of a dispatch
ASSUME DispatchAssumption ==
  \A j \in DispatchJobs :
    j \in [ranks : Nat \ {0}, e : Nat \ {0}, n : Nat, num : Nat, den : Nat \ {0}, align : Nat \ {0}]

VARIABLES at,          \* the next step
          job,         \* [ranks, e: experts of each, n: routes of each, num/den: capacity_factor (none: 0), align]
          expert,      \* per rank: the expert of each of its rows, in the order of the experts
          total,       \* per rank and peer: what it routes to the peer's experts
          capped,      \* per rank, peer and local expert: what it keeps of that
          sends, sendFrom, sendTo,     \* disp_send_sz, disp_in_off, disp_out_off
          received,    \* per rank, peer and local expert: t_mat
          takes, takeFrom, backTo,     \* disp_recv_sz, comb_in_off, comb_out_off
          slots,       \* per rank: slot_expert_R
          perm, inverse,               \* perm_idx_R, inv_perm_idx_R
          rows         \* per rank: the rows that it holds
dispatchvars == <<at, job, expert, total, capped, sends, sendFrom, sendTo, received, takes, takeFrom, backTo,
                  slots, perm, inverse, rows>>

Zero == <<-1, 0>>
Junk == <<-1, 1>>
UpTo(n) == 0 .. n - 1
Ranks == UpTo(job.ranks)
\* The sum of f[0] to f[n - 1].
SumTo(f, n) == LET sum[i \in 0 .. n] == IF i = 0 THEN 0 ELSE sum[i - 1] + f[i - 1] IN sum[n]
Least(a, b) == IF a < b THEN a ELSE b
Most(a, b) == IF a > b THEN a ELSE b
DivUp(a, b) == (a + b - 1) \div b
ForRanks(Op(_)) == [r \in Ranks |-> Op(r)]
ForPairs(Op(_, _)) == [r \in Ranks |-> [d \in Ranks |-> Op(r, d)]]

\* torch.argsort(key, stable=True): place p holds the index of the p-th smallest.
Argsort(key) ==
  LET place == [i \in DOMAIN key |-> Cardinality({j \in DOMAIN key : key[j] < key[i] \/ (key[j] = key[i] /\ j < i)})]
  IN  [p \in DOMAIN key |-> CHOOSE i \in DOMAIN key : place[i] = p]

DispatchInit(j) ==
  /\ at = "reorder" /\ job = j
  /\ expert = <<>> /\ total = <<>> /\ capped = <<>> /\ sends = <<>> /\ sendFrom = <<>> /\ sendTo = <<>>
  /\ received = <<>> /\ takes = <<>> /\ takeFrom = <<>> /\ backTo = <<>>
  /\ slots = <<>> /\ perm = <<>> /\ inverse = <<>> /\ rows = <<>>

\* _local_reorder, for the experts that the router chose for each rank's routes.
Reorder(routes) ==
  /\ at = "reorder" /\ at' = "count"
  /\ expert' = ForRanks(LAMBDA r : LET order == Argsort(routes[r]) IN [p \in UpTo(job.n) |-> routes[r][order[p]]])
  /\ rows' = ForRanks(LAMBDA r : [p \in UpTo(job.n) |-> <<r, p>>])
  /\ UNCHANGED <<job, total, capped, sends, sendFrom, sendTo, received, takes, takeFrom, backTo, slots, perm, inverse>>

\* The first Cap rows to each peer are kept.
Cap == IF job.num = 0 THEN Most(job.n, 1)
       ELSE Most(1, Least(Most(job.n, 1), DivUp(job.num * job.n, job.den * job.ranks)))
RStatic == DivUp(job.ranks * Cap, job.align) * job.align
Routed(r, S) == Cardinality({p \in UpTo(job.n) : expert[r][p] \in S})
ExpertsOf(d, l) == {d * job.e + m : m \in UpTo(l)}
CappedTo(r, d, l) == Least(Cap, Routed(r, ExpertsOf(d, l)))
Count ==
  /\ at = "count" /\ at' = "sizes"
  /\ total' = ForPairs(LAMBDA r, d : Routed(r, ExpertsOf(d, job.e)))
  /\ capped' = ForPairs(LAMBDA r, d : [l \in UpTo(job.e) |-> CappedTo(r, d, l + 1) - CappedTo(r, d, l)])
  /\ UNCHANGED <<job, expert, sends, sendFrom, sendTo, received, takes, takeFrom, backTo, slots, perm, inverse, rows>>

\* The first exchange, of what is kept for each expert; an offset of nothing is 0.
OrNothing(size, offset) == IF size > 0 THEN offset ELSE 0
\* Mutant: the rows to a peer start after those kept for the peers before it.
StartOfKept(r, d) == SumTo([c \in Ranks |-> SumTo(capped[r][c], job.e)], d)
Start(r, d) == SumTo(total[r], d)
ExchangeCounts ==
  /\ at = "sizes" /\ at' = "offsets"
  /\ sends' = ForPairs(LAMBDA r, d : SumTo(capped[r][d], job.e))
  /\ sendFrom' = ForPairs(LAMBDA r, d : OrNothing(SumTo(capped[r][d], job.e), Start(r, d)))
  /\ received' = ForPairs(LAMBDA r, s : capped[s][r])
  /\ takes' = ForPairs(LAMBDA r, s : SumTo(capped[s][r], job.e))
  /\ UNCHANGED <<job, expert, total, capped, sendTo, takeFrom, backTo, slots, perm, inverse, rows>>

TakeStart(r, s) == SumTo(takes[r], s)
Valid(r) == SumTo(takes[r], job.ranks)

\* The local expert of row q that rank r will hold; e for the rows behind the valid ones.
SlotExpert(r, q) ==
  LET sender == Least(job.ranks - 1, Cardinality({s \in Ranks : q >= TakeStart(r, s) + takes[r][s]}))
      within == q - TakeStart(r, sender)
  IN  IF q < Valid(r)
      THEN Cardinality({l \in UpTo(job.e) : within >= SumTo(received[r][sender], l + 1)})
      ELSE job.e

\* The second exchange: each rank learns its peers' offsets for it.
ExchangeOffsets ==
  /\ at = "offsets" /\ at' = "sort"
  /\ takeFrom' = ForPairs(LAMBDA r, s : OrNothing(takes[r][s], TakeStart(r, s)))
  /\ sendTo' = ForPairs(LAMBDA r, d : OrNothing(sends[r][d], takeFrom'[d][r]))
  /\ backTo' = ForPairs(LAMBDA r, s : OrNothing(takes[r][s], sendFrom[s][r]))
  /\ slots' = ForRanks(LAMBDA r : [q \in UpTo(RStatic) |-> SlotExpert(r, q)])
  /\ UNCHANGED <<job, expert, total, capped, sends, sendFrom, received, takes, perm, inverse, rows>>

Undo(order) == Argsort(order)
SortSlots ==
  /\ at = "sort" /\ at' = "send"
  /\ perm' = ForRanks(LAMBDA r : Argsort(slots[r]))
  /\ inverse' = ForRanks(LAMBDA r : Undo(perm'[r]))
  /\ UNCHANGED <<job, expert, total, capped, sends, sendFrom, sendTo, received, takes, takeFrom, backTo, slots, rows>>

\* _ragged_all_to_all: each rank gets size rows, zero but where a rank writes.
RaggedAllToAll(operand, size, from, to, counts) ==
  ForRanks(LAMBDA r : [q \in UpTo(size) |->
    LET writers == {s \in Ranks : q \in to[s][r] .. to[s][r] + counts[r][s] - 1}
    IN  IF writers = {} THEN Zero
        ELSE LET s == CHOOSE s \in writers : \A t \in writers : t <= s
             IN  operand[s][from[s][r] + q - to[s][r]]])
\* _PermuteValidRows, which leaves zeros behind the valid rows.
Permute(r, held, index) == [q \in UpTo(RStatic) |-> IF q < Valid(r) THEN held[index[q]] ELSE Zero]

\* dispatch: the rows go to the ranks of their experts ...
SendRows ==
  /\ at = "send" /\ at' = "permute"
  /\ rows' = RaggedAllToAll(rows, RStatic, sendFrom, sendTo, takes)
  /\ UNCHANGED <<job, expert, total, capped, sends, sendFrom, sendTo, received, takes, takeFrom, backTo,
                 slots, perm, inverse>>
\* ... and are put in the order of the experts there.
PermuteRows ==
  /\ at = "permute" /\ at' = "experts"
  /\ rows' = ForRanks(LAMBDA r : Permute(r, rows[r], perm[r]))
  /\ UNCHANGED <<job, expert, total, capped, sends, sendFrom, sendTo, received, takes, takeFrom, backTo,
                 slots, perm, inverse>>

\* The rows that each expert takes, one expert after the other; without
\* MegaBlox the last takes the padding too.
GroupSizes(r, unpadded) ==
  LET real == [l \in UpTo(job.e) |-> SumTo([s \in Ranks |-> received[r][s][l]], job.ranks)]
  IN  IF unpadded THEN real ELSE [real EXCEPT ![job.e - 1] = @ + RStatic - Valid(r)]
\* The kernel writes the valid rows only; combine puts them back in place.
RunExperts ==
  /\ at = "experts" /\ at' = "return"
  /\ LET written == ForRanks(LAMBDA r : [q \in UpTo(RStatic) |-> IF q < Valid(r) THEN rows[r][q] ELSE Junk])
     IN  rows' = ForRanks(LAMBDA r : Permute(r, written[r], inverse[r]))
  /\ UNCHANGED <<job, expert, total, capped, sends, sendFrom, sendTo, received, takes, takeFrom, backTo,
                 slots, perm, inverse>>
ReturnRows ==
  /\ at = "return" /\ at' = "done"
  /\ rows' = RaggedAllToAll(rows, job.n, takeFrom, backTo, sends)
  /\ UNCHANGED <<job, expert, total, capped, sends, sendFrom, sendTo, received, takes, takeFrom, backTo,
                 slots, perm, inverse>>

\* The gradients of the returned rows take the same way: the backward of each of the
\* four steps uses the offsets, sizes and indices of its counterpart.
Backward ==
  /\ at = "done" /\ at' = "send"
  /\ rows' = ForRanks(LAMBDA r : [p \in UpTo(job.n) |-> <<r, p>>])
  /\ UNCHANGED <<job, expert, total, capped, sends, sendFrom, sendTo, received, takes, takeFrom, backTo,
                 slots, perm, inverse>>

\* The experts that the router may choose: of each rank's routes any.
Routes == [Ranks -> [UpTo(job.n) -> UpTo(job.ranks * job.e)]]
DispatchNext ==
  \/ \E routes \in Routes : Reorder(routes)
  \/ Count \/ ExchangeCounts \/ ExchangeOffsets \/ SortSlots \/ SendRows \/ PermuteRows \/ RunExperts
  \/ ReturnRows \/ Backward
DispatchSpec == (\E j \in DispatchJobs : DispatchInit(j)) /\ [][DispatchNext]_dispatchvars
-----------------------------------------------------------------------------
\* The rows that a rank's experts compute are those of all ranks that were routed
\* to them and kept, each in its expert's group (but for the padding that the last
\* group has without MegaBlox); and every kept row is back at its place at the end,
\* with zeros for the dropped ones.  The backward pass meets the same.
Kept(r, i) == Cardinality({j \in 0 .. i - 1 : expert[r][j] \div job.e = expert[r][i] \div job.e}) < Cap
RowsGoAndComeBack ==
  /\ at = "experts" => \A r \in Ranks, unpadded \in BOOLEAN, l \in UpTo(job.e) :
       LET sizes == GroupSizes(r, unpadded)
           first == SumTo(sizes, l)
           group == {rows[r][q] : q \in first .. first + sizes[l] - 1}
       IN  group \ (IF unpadded \/ l < job.e - 1 THEN {} ELSE {Zero})
             = {w \in Ranks \X UpTo(job.n) : Kept(w[1], w[2]) /\ expert[w[1]][w[2]] = r * job.e + l}
  /\ at = "done" => \A r \in Ranks, i \in UpTo(job.n) : rows[r][i] = IF Kept(r, i) THEN <<r, i>> ELSE Zero
=============================================================================
