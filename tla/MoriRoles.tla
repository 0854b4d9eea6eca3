----------------------------- MODULE MoriRoles -----------------------------
(***************************************************************************)
(* One call of build_topology of the MoRI engine, for every number of      *)
(* trainers and stripes and every placement of the rollout workers, and    *)
(* what the roles that it hands out must do together.                      *)
(***************************************************************************)
EXTENDS MoriTopology, FiniteSets

CONSTANTS MaxActors, MaxRollouts, MaxChains,  \* the bounds of the inputs
          Nodes                               \* the nodes that a worker may be on
ASSUME BoundsAssumption == MaxActors \in Nat /\ MaxRollouts \in Nat /\ MaxChains \in Nat

VARIABLES actors, chains, node, roles      \* the inputs, and the roles built from them
topology == <<actors, chains, node, roles>>

RolesInit == actors = 0 /\ chains = 0 /\ node = <<>> /\ roles = <<>>
\* build_topology, once.
Build ==
  /\ roles = <<>>
  /\ actors' \in 1 .. MaxActors /\ chains' \in 1 .. MaxChains
  /\ \E n \in 1 .. MaxRollouts : node' \in [Below(n) -> Nodes]
  /\ roles' = BuildTopology(actors', chains', node')
RolesSpec == RolesInit /\ [][Build]_topology
-----------------------------------------------------------------------------
\* Every rollout worker gets every stripe: whoever is reached from the stripe's leader
\* hop by hop, no set of workers that has the first hop and the hops of its own members
\* leaves one out, and no hop leads anywhere else; and each node takes one copy of the
\* model, that is, one of its workers is fed from outside the node per stripe.
Hops(c, S) == roles.lead[c].nexts \cup UNION {roles.rollout[c, x].nexts : x \in S}
FedFromOutside(c, r) == LET prev == roles.rollout[c, r].prev IN prev.kind = "actor" \/ node[prev.id] # node[r]
EveryNodeFedOnce ==
  roles # <<>> => \A c \in DOMAIN roles.lead :
    /\ Hops(c, Indices(node)) \subseteq Indices(node)
    /\ \A S \in SUBSET Indices(node) : Hops(c, S) \subseteq S => S = Indices(node)
    /\ \A x \in Indices(node) : Cardinality({r \in Indices(node) : node[r] = node[x] /\ FedFromOutside(c, r)}) = 1
=============================================================================
