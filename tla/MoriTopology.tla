---------------------------- MODULE MoriTopology ----------------------------
(***************************************************************************)
(* MoriCheckpointEngine.build_topology as a function: from the number of   *)
(* trainer ranks, the stripe limit and the node of every rollout worker it *)
(* computes who sends which stripe to whom.  Rollout workers are numbered  *)
(* from 0 in metadata order; stripe c is led by trainer rank c.            *)
(***************************************************************************)
EXTENDS Integers, FiniteSets, Sequences

Indices(f)   == DOMAIN f
Below(n)     == 0 .. n - 1
NumStripes(a, ch) == IF ch < a THEN ch ELSE a
None         == [kind |-> "none", id |-> 0]
Actor(a)     == [kind |-> "actor", id |-> a]
Rollout(r)   == [kind |-> "rollout", id |-> r]

\* Appended one by one in metadata order: the k-th of a set of rollout indices has k - 1
\* of them before it.
Appended(S) == [k \in 1 .. Cardinality(S) |-> CHOOSE r \in S : Cardinality({q \in S : q < r}) = k - 1]
\* The rollout indices on node x, and the nodes in the order of their first worker.
Members(nd, x) == Appended({r \in Indices(nd) : nd[r] = x})
NodeList(nd) ==
  LET firsts == Appended({r \in Indices(nd) : \A q \in Indices(nd) : nd[q] = nd[r] => r <= q})
  IN  [k \in DOMAIN firsts |-> nd[firsts[k]]]

\* The chain order of the nodes for stripe c.
ChainOrder(nd, c) ==
  LET list == NodeList(nd) n == Len(list)
  IN  [i \in 1 .. n |-> list[((i - 1 + c) % n) + 1]]

\* holders(c): the rollout worker that carries stripe c on each node, in chain
\* order; the order starts at node c % n.
Holders(nd, c) ==
  LET order == ChainOrder(nd, c)
  IN  [i \in DOMAIN order |-> LET m == Members(nd, order[i]) IN m[(c % Len(m)) + 1]]

\* The roles of one stripe, for the trainer that leads it and for each rollout
\* worker, as the loop over the holders appends them.

\* The other workers of h's node.
Locals(nd, h) == {x \in Indices(nd) : nd[x] = nd[h] /\ x # h}
HolderRole(nd, c, i) ==
  LET hs == Holders(nd, c) IN
  [prev  |-> IF i = 1 THEN Actor(c) ELSE Rollout(hs[i - 1]),
   nexts |-> (IF i < Len(hs) THEN {hs[i + 1]} ELSE {}) \cup Locals(nd, hs[i])]
\* Mutant: every worker gets the stripe from the trainer.
RolloutRoleNoFanOut(nd, c, r) == [prev |-> Actor(c), nexts |-> {}]
RolloutRole(nd, c, r) ==
  LET hs == Holders(nd, c)
      at == CHOOSE i \in 1 .. Len(hs) : nd[hs[i]] = nd[r]
  IN  IF hs[at] = r THEN HolderRole(nd, c, at)
      ELSE [prev |-> Rollout(hs[at]), nexts |-> {}]
ActorRole(nd, c) == [prev |-> None, nexts |-> {Holders(nd, c)[1]}]

\* build_topology: roles by stripe; a trainer that leads none gets rank -1.
BuildTopology(a, ch, nd) ==
  [lead    |-> [c \in Below(NumStripes(a, ch)) |-> ActorRole(nd, c)],
   rollout |-> [x \in Below(NumStripes(a, ch)) \X Indices(nd) |-> RolloutRole(nd, x[1], x[2])],
   rank    |-> [x \in Below(a) |-> IF x < NumStripes(a, ch) THEN x ELSE -1]]
=============================================================================
