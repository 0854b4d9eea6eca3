----------------------------- MODULE MCMoriSync -----------------------------
(***************************************************************************)
(* Instances of MoriSync for TLC.  The topology is written out for the     *)
(* placements used; SameTopology checks it is what build_topology computes *)
(* for NodeOf, the node of each rollout worker.                            *)
(***************************************************************************)
EXTENDS MoriSyncInv
T == INSTANCE MoriTopology

CONSTANTS NumActors, MaxChains, NodeOf, FallibleActors, FallibleRollouts

N == Cardinality(DOMAIN NodeOf)
MCStripes == 0 .. T!NumStripes(NumActors, MaxChains) - 1
MCTrainers == {T!Actor(a) : a \in 0 .. NumActors - 1}
MCRollouts == {T!Rollout(r) : r \in DOMAIN NodeOf}
MCLeader  == [c \in MCStripes |-> T!Actor(c)]
MCPrev    == [x \in MCStripes \X MCRollouts |->
                IF x[2].id = x[1] % N THEN T!Actor(x[1]) ELSE T!Rollout((x[2].id - 1) % N)]
MCNear    == {x \in MCStripes \X MCRollouts :
                LET p == MCPrev[x] IN p \in MCRollouts /\ NodeOf[p.id] = NodeOf[x[2].id]}
MCFallible == {T!Actor(a) : a \in FallibleActors} \cup {T!Rollout(r) : r \in FallibleRollouts}

\* For these placements build_topology gives just that.
Topology == T!BuildTopology(NumActors, MaxChains, NodeOf)
ASSUME SameTopology ==
  /\ DOMAIN Topology.lead = MCStripes
  /\ \A x \in MCStripes \X MCRollouts : MCPrev[x] = Topology.rollout[x[1], x[2].id].prev

\* Placements.
OneNode     == [r \in 0 .. 1 |-> "x"]
TwoNodes    == [r \in 0 .. 1 |-> IF r = 0 THEN "x" ELSE "y"]
Single      == [r \in 0 .. 0 |-> "x"]

\* Loads, in buckets per stripe.
ThreeBuckets == [c \in MCStripes |-> 3]
OneAndEmpty  == [c \in MCStripes |-> IF c = 0 THEN 1 ELSE 0]

\* A message another sync may have left in the inbox of a usable worker: the
\* abort of a peer that failed after this worker was done.
NoMessages    == {}
StaleMessages == {[to |-> T!Rollout(1), t |-> "abort"]}
=============================================================================
