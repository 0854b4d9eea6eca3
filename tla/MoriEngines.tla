---------------------------- MODULE MoriEngines ----------------------------
(***************************************************************************)
(* The life of the MoRI engines between syncs: a worker opens one on its   *)
(* first sync, keeps it and its registered region, connects to the hops of *)
(* each topology, drops peers that left, and replaces the whole engine     *)
(* when many have left.  A failed worker is never used again; the job      *)
(* recreates it.  What happens inside a sync is MoriSync; here a hop is    *)
(* one write that may still be in flight when its sync has ended.          *)
(***************************************************************************)
EXTENDS Integers, FiniteSets, Sequences, SequencesExt

CONSTANTS
  Trainer,        \* the leader of the one stripe
  Pool,           \* workers that may serve as rollout workers
  MaxRetired,     \* _MAX_RETIRED_PEERS
  MaxSyncs, MaxEvents    \* bounds: syncs; events and closes

Members == Pool \cup {Trainer}

VARIABLES
  stage,      \* what the driver does: "prepare", "connect" or "sync"
  syncs,      \* syncs begun
  order,      \* the chain of the current topology
  begun,      \* members that have entered the sync
  engineOf,   \* number of each worker's MoRI engine, 0 if it has none
  peers,      \* _peers: keys registered with the worker's engine
  retired,    \* _retired
  unusable, busy,
  wrote,      \* members that have written to their next hop in this sync
  writes,     \* <<source key, target key>> in flight
  open,       \* keys whose engine exists, with its region registered
  made,       \* engines that each worker has made
  happened

life == <<stage, syncs, order, begun, engineOf, peers, retired, unusable, busy,
          wrote, writes, open, made, happened>>

Larger(a, b) == IF a > b THEN a ELSE b
Chain == ToSet(order)
PosOf(w) == CHOOSE i \in DOMAIN order : order[i] = w
Prev(w) == IF PosOf(w) = 1 THEN {} ELSE {order[PosOf(w) - 1]}
Nexts(w) == IF PosOf(w) = Len(order) THEN {} ELSE {order[PosOf(w) + 1]}
Key(w) == <<w, engineOf[w]>>
HopsOf(w) == {Key(v) : v \in Prev(w) \cup Nexts(w)}
Usable(w) == ~unusable[w] /\ ~busy[w]         \* _check_usable

LifeInit ==
  /\ stage = "prepare" /\ syncs = 0 /\ order = <<>> /\ begun = {}
  /\ engineOf = [w \in Members |-> 0]
  /\ peers = [w \in Members |-> {}]
  /\ retired = [w \in Members |-> 0]
  /\ unusable = [w \in Members |-> FALSE] /\ busy = [w \in Members |-> FALSE]
  /\ wrote = {} /\ writes = {} /\ open = {} /\ happened = 0
  /\ made = [w \in Members |-> 0]

\* The rollout workers of the next sync: which of the pool, in what order.
Topologies == {o \in UNION {[1..n -> Members] : n \in 2..Cardinality(Members)} :
                 o[1] = Trainer /\ \A i, j \in DOMAIN o : o[i] = o[j] => i = j}
MustReplace(w) == retired[w] > Larger(MaxRetired, 2 * Cardinality(peers[w]))

\* prepare of every worker of the chain, which do not touch each other:
\* _setup the first time, _replace_mori when many peers have left.
Prepare(o) ==
  LET new == {w \in ToSet(o) : engineOf[w] = 0 \/ MustReplace(w)} IN
  /\ stage = "prepare" /\ syncs < MaxSyncs
  /\ \A w \in ToSet(o) : Usable(w)
  /\ order' = o
  /\ engineOf' = [w \in Members |-> IF w \in new THEN made[w] + 1 ELSE engineOf[w]]
  /\ made' = [w \in Members |-> IF w \in new THEN made[w] + 1 ELSE made[w]]
  /\ open' = (open \ {Key(w) : w \in new})
             \cup {<<w, made[w] + 1>> : w \in new}
  /\ peers' = [w \in Members |-> IF w \in new THEN {} ELSE peers[w]]
  /\ retired' = [w \in Members |-> IF w \in new THEN 0 ELSE retired[w]]
  /\ stage' = "connect"
  /\ UNCHANGED <<syncs, begun, unusable, busy, wrote, writes, happened>>

\* init_process_group of every worker with the keys that the workers gave:
\* _connect to each hop, then _retire_stale_peers.
Connect ==
  /\ stage = "connect"
  /\ \A w \in Chain : Usable(w)
  /\ peers' = [w \in Members |-> IF w \in Chain THEN HopsOf(w) ELSE peers[w]]
  /\ retired' = [w \in Members |-> IF w \in Chain THEN retired[w] + Cardinality(peers[w] \ HopsOf(w))
                                  ELSE retired[w]]
  /\ stage' = "sync" /\ begun' = {} /\ wrote' = {} /\ syncs' = syncs + 1
  /\ UNCHANGED <<order, engineOf, made, unusable, busy, writes, open, happened>>

\* send_weights, or the call of receive_weights.
Begin(w) ==
  /\ stage = "sync" /\ w \in Chain \ begun /\ Usable(w)
  /\ begun' = begun \cup {w} /\ busy' = [busy EXCEPT ![w] = TRUE]
  /\ UNCHANGED <<stage, syncs, order, engineOf, peers, retired, unusable, wrote, writes, open, made, happened>>

\* A worker writes to the engines of its next hops that it is connected to,
\* once they have granted their slots.
Targets(w) == {k \in peers[w] : k[1] \in Nexts(w)}
Write(w) ==
  /\ stage = "sync" /\ busy[w] /\ ~unusable[w] /\ w \notin wrote
  /\ \A n \in Nexts(w) : n \in begun /\ (unusable[n] => n \in wrote)
  /\ wrote' = wrote \cup {w}
  /\ writes' = writes \cup {<<Key(w), k>> : k \in Targets(w)}
  /\ UNCHANGED <<stage, syncs, order, begun, engineOf, peers, retired, unusable, busy, open, made, happened>>

Land(x) ==
  /\ x \in writes
  /\ writes' = writes \ {x}
  /\ UNCHANGED <<stage, syncs, order, begun, engineOf, peers, retired, unusable, busy, wrote, open, made, happened>>

\* Mutant: a worker's sync ends when it has submitted its writes.
Submitted(w) == TRUE
Drained(w) == \A x \in writes : x[1] # Key(w)

Arrived(w) == \A p \in Prev(w) : p \in wrote /\ <<Key(p), Key(w)>> \notin writes
Succeed(w) ==
  /\ stage = "sync" /\ busy[w] /\ ~unusable[w] /\ w \in wrote
  /\ Drained(w)
  /\ Arrived(w)
  /\ busy' = [busy EXCEPT ![w] = FALSE]
  /\ UNCHANGED <<stage, syncs, order, begun, engineOf, peers, retired, unusable, wrote, writes, open, made, happened>>

\* Any failure inside the sync, or a neighbour's abort: _mark_unusable keeps
\* the engine, the region and the statuses for as long as the process lives.
Aborted(w) == \E v \in Prev(w) \cup Nexts(w) : unusable[v]
Fail(w) ==
  /\ stage = "sync" /\ busy[w] /\ ~unusable[w]
  /\ happened < MaxEvents \/ Aborted(w)
  /\ happened' = IF Aborted(w) THEN happened ELSE happened + 1
  /\ unusable' = [unusable EXCEPT ![w] = TRUE]
  /\ UNCHANGED <<stage, syncs, order, begun, engineOf, peers, retired, busy, wrote, writes, open, made>>

\* The consumer closes the stream before its first tensor: nobody may write
\* to a worker whose receive has not begun, and its sync is over.
Abandon(w) ==
  /\ stage = "sync" /\ w \in Chain \ (begun \cup {Trainer}) /\ Usable(w) /\ happened < MaxEvents
  /\ begun' = begun \cup {w} /\ happened' = happened + 1
  /\ busy' = [busy EXCEPT ![w] = TRUE] /\ unusable' = [unusable EXCEPT ![w] = TRUE]
  /\ UNCHANGED <<stage, syncs, order, engineOf, peers, retired, wrote, writes, open, made>>

\* Every worker of the chain has ended, well or badly; finalize keeps all.
EndSync ==
  /\ stage = "sync" /\ begun = Chain
  /\ \A w \in Chain : busy[w] => unusable[w]
  /\ stage' = "prepare" /\ begun' = {} /\ order' = <<>>
  /\ UNCHANGED <<syncs, engineOf, peers, retired, unusable, busy, wrote, writes, open, made, happened>>

\* The job recreates a worker that refuses further use; the end of its
\* process takes its engine and its unfinished writes.
Recreate(w) ==
  /\ stage = "prepare" /\ unusable[w]
  /\ open' = open \ {Key(w)}
  /\ writes' = {x \in writes : Key(w) \notin {x[1], x[2]}}
  /\ engineOf' = [engineOf EXCEPT ![w] = 0]
  /\ peers' = [peers EXCEPT ![w] = {}] /\ retired' = [retired EXCEPT ![w] = 0]
  /\ unusable' = [unusable EXCEPT ![w] = FALSE] /\ busy' = [busy EXCEPT ![w] = FALSE]
  /\ UNCHANGED <<stage, syncs, order, begun, wrote, made, happened>>

\* close, between syncs: an unusable engine stays as it is.
Close(w) ==
  /\ stage = "prepare" /\ ~unusable[w] /\ engineOf[w] # 0
  /\ happened < MaxEvents /\ happened' = happened + 1
  /\ open' = open \ {Key(w)}
  /\ engineOf' = [engineOf EXCEPT ![w] = 0]
  /\ peers' = [peers EXCEPT ![w] = {}]
  /\ UNCHANGED <<stage, syncs, order, begun, retired, unusable, busy, wrote, writes, made>>

LifeNext ==
  \/ Connect \/ EndSync
  \/ \E o \in Topologies : Prepare(o)
  \/ \E w \in Members : \/ Begin(w) \/ Write(w) \/ Succeed(w)
                         \/ Fail(w) \/ Abandon(w) \/ Recreate(w) \/ Close(w)
  \/ \E x \in writes : Land(x)
LifeSpec == LifeInit /\ [][LifeNext]_life

\* A write in flight has both its ends: neither the engine that submitted it
\* nor the region that it goes to has been released (replaced or closed).
WritesHaveBothEnds == \A x \in writes : x[1] \in open /\ x[2] \in open
=============================================================================
