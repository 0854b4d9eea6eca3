----------------------------- MODULE TpuTopology -----------------------------
(***************************************************************************)
(* PlatformTPU: which slice a pool of workers takes, and the mesh and the  *)
(* addresses that each worker is told.  Every worker asks for itself when  *)
(* it is created, so that the cluster may change between two of them.      *)
(* A topology is a sequence of sizes; <<>> stands for "".                  *)
(***************************************************************************)
EXTENDS Integers, FiniteSets, Sequences

CONSTANTS Clusters, Environs,   \* the clusters and the drivers' variables
          PoolSizes             \* the <<hosts, workers of each>> of pools
ASSUME TopologyAssumption ==
  /\ \A c \in Clusters : c \in Seq([slice : Nat, type : STRING, alive : BOOLEAN])
  /\ \A e \in Environs :
       e \in [topology : Seq(Nat), accelerator : STRING, hostBounds : Seq(Nat), chipBounds : Seq(Nat)]
  /\ PoolSizes \subseteq (Nat \ {0}) \X (Nat \ {0})

VARIABLES cluster,     \* per host: [slice: number of its tpu-group (0: none), type: its label, alive]
          environ,     \* the driver's variables: topology, accelerator, hostBounds, chipBounds
          claimed,     \* _claimed_slices
          pools,       \* the pools: [launcher, slice, bundles: host of each rank, perHost]
          told         \* what each worker was told: [pool, rank, addresses, type, mesh]
topologyvars == <<cluster, environ, claimed, pools, told>>

Devices(s) == LET product[i \in 0 .. Len(s)] == IF i = 0 THEN 1 ELSE product[i - 1] * s[i] IN product[Len(s)]
Times(a, b) == [i \in DOMAIN a |-> a[i] * b[i]]
ValuesOf(s) == {s[i] : i \in DOMAIN s}
BasePort == 8471

\* DEFAULT_TPU_TOPOLOGY_MAP, TPU_POD_TYPE_TOPOLOGY_MAP and TPU_V7X_TOPOLOGY_MAP
Lookup(table, key) == LET hits == {e \in table : e[1] = key} IN IF hits = {} THEN <<>> ELSE (CHOOSE e \in hits : TRUE)[2]
ByChips == {<<1, <<1,1,1>>>>, <<2, <<1,2,1>>>>, <<4, <<2,2,1>>>>, <<8, <<2,4,1>>>>, <<16, <<4,4,1>>>>,
            <<32, <<4,8,1>>>>, <<64, <<8,8,1>>>>, <<128, <<8,16,1>>>>, <<256, <<16,16,1>>>>}
ByPodType == {<<"v6e-4", <<2,2,1>>>>, <<"v6e-8", <<2,4,1>>>>, <<"v6e-16", <<4,4,1>>>>, <<"v6e-32", <<4,8,1>>>>}
ByDevices == {<<1, <<1,1,1,1>>>>, <<8, <<2,2,1,2>>>>, <<16, <<2,2,2,2>>>>, <<32, <<2,2,4,2>>>>,
              <<64, <<2,4,4,2>>>>, <<128, <<4,4,4,2>>>>}
CoresPerChip == 2
SingleHostMaxChips == 4

\* tpu_generation: the spellings of TPU 7x, in GKE's variable and in Ray's labels.
IsV7x(type) == (IF type = "" THEN environ.accelerator ELSE type) \in {"tpu7x", "v7x-16", "TPU-V7X"}

\* The slice that the GKE webhook describes, if its two variables agree.
GkeSlice == IF Len(environ.hostBounds) = Len(environ.chipBounds) THEN Times(environ.hostBounds, environ.chipBounds) ELSE <<>>
\* TORCH_TPU_TOPOLOGY counts only when it has as many devices as the pool.
\* Mutant: a variable inherited from another slice is believed.
Inherited(total) == environ.topology
Override(total) == IF Devices(environ.topology) = total THEN environ.topology ELSE <<>>

Or(t, u) == IF t # <<>> THEN t ELSE u
TopologyV7x(total, nodes) ==
  LET whole == /\ Devices(GkeSlice) * CoresPerChip = total
               /\ Devices(environ.hostBounds) = nodes
  IN  Or(Override(total), IF GkeSlice # <<>> /\ whole THEN Append(GkeSlice, CoresPerChip) ELSE Lookup(ByDevices, total))
Topology(total, nodes, type) ==
  IF IsV7x(type) THEN TopologyV7x(total, nodes)
  ELSE Or(Override(total), Or(Lookup(ByPodType, type), Lookup(ByChips, total)))

\* resolve_tpu_topology_bounds: the mesh, its bounds of hosts and of chips per host.
Mesh(total, nodes, type) ==
  LET t == Topology(total, nodes, type)
      cell == <<1, 1, 1>>
  IN  IF IsV7x(type) THEN [topology |-> t, hosts |-> t, chips |-> <<1, 1, 1, 1>>]
      ELSE IF total <= SingleHostMaxChips
           THEN [topology |-> t, hosts |-> cell, chips |-> IF nodes = 1 THEN t ELSE cell]
           ELSE [topology |-> t, hosts |-> t, chips |-> cell]
NoMesh == [topology |-> <<>>, hosts |-> <<>>, chips |-> <<>>]
-----------------------------------------------------------------------------
Alive == {h \in DOMAIN cluster : cluster[h].alive}
SlicesOf(hosts) == {cluster[h].slice : h \in hosts} \ {0}

TopologyInit(c, e) == cluster = c /\ environ = e /\ claimed = {} /\ pools = <<>> /\ told = {}

\* auto_assign_accelerator_type: the first slice that no pool claimed, else the last.
Assigned == LET free == SlicesOf(Alive) \ claimed
            IN  IF SlicesOf(Alive) = {} THEN 0
                ELSE IF free # {} THEN CHOOSE s \in free : \A t \in free : s <= t
                ELSE CHOOSE s \in SlicesOf(Alive) : \A t \in SlicesOf(Alive) : s >= t
PoolOf(launcher, slice, hosts, perHost) ==
  [launcher |-> launcher, slice |-> slice, perHost |-> perHost,
   bundles |-> [r \in 1 .. Len(hosts) * perHost |-> hosts[(r - 1) \div perHost + 1]]]
Different(n, from) == {f \in [1 .. n -> from] : \A i, j \in 1 .. n : i # j => f[i] # f[j]}

\* The pool gets the slice that it asks for, which claims nothing, or the next one;
\* Ray places its bundles, host by host, where the slice's resource is
\* (configure_placement_group_bundle).
AddPool(given, nodes, perHost) ==
  LET slice == IF given # 0 THEN given ELSE Assigned IN
  /\ claimed' = IF given = 0 /\ SlicesOf(Alive) \ claimed # {} THEN claimed \cup {Assigned} ELSE claimed
  /\ \E hosts \in Different(nodes, {h \in Alive : slice # 0 => cluster[h].slice = slice}) :
       pools' = Append(pools, PoolOf(IF given # 0 THEN "given" ELSE "ray", slice, hosts, perHost))
  /\ UNCHANGED <<cluster, environ, told>>

\* ray_tpu_accelerator_name: the label of the first alive node that Ray lists of the
\* pool's, of the cluster's when the pool has none.
TypesOf(hosts) == LET nodes == IF hosts = {} THEN Alive ELSE hosts \cap Alive
                  IN  IF nodes = {} THEN {""} ELSE {cluster[h].type : h \in nodes}

\* get_tpu_env_vars of rank: the bundles on nodes that Ray lists as alive, in their
\* order, one port per place of the host.
InOrder(ranks) == [b \in 1 .. Cardinality(ranks) |-> CHOOSE r \in ranks : Cardinality({q \in ranks : q <= r}) = b]
Port(b, perHost) == BasePort + ((b - 1) % perHost)
TellWorker(p, rank) ==
  LET pool   == pools[p]
      listed == InOrder({r \in DOMAIN pool.bundles : pool.bundles[r] \in Alive})
      ips    == [b \in DOMAIN listed |-> pool.bundles[listed[b]]]
      hosts  == ValuesOf(ips)
      total  == Len(pool.bundles)
  IN  /\ ~ \E t \in told : t.pool = p /\ t.rank = rank
      /\ \E type \in TypesOf(hosts) :
           /\ Topology(total, Cardinality(hosts), type) # <<>>    \* else the pool fails: ValueError
           /\ told' = told \cup {[pool |-> p, rank |-> rank,
                                  addresses |-> [b \in 1 .. Len(ips) |-> <<ips[b], Port(b, pool.perHost)>>],
                                  type |-> type, mesh |-> Mesh(total, Cardinality(hosts), type)]}
      /\ UNCHANGED <<cluster, environ, claimed, pools>>

\* configure_torchrun_tpu_env: without Ray the launcher names the hosts, and a mesh
\* that is already set is kept, on TPU 7x only if it fits.
Torchrun(hosts, perHost) ==
  LET total == Len(hosts) * perHost
      type  == environ.accelerator
      found == Mesh(total, Len(hosts), type)
      mesh  == IF Topology(total, Len(hosts), type) = <<>> THEN NoMesh
               ELSE IF ~IsV7x(type) /\ environ.topology # <<>>
                    THEN [found EXCEPT !.topology = environ.topology] ELSE found
  IN  /\ pools = <<>>
      /\ pools' = <<PoolOf("torchrun", 0, hosts, perHost)>>
      /\ told' = {[pool |-> 1, rank |-> r, type |-> type, mesh |-> mesh,
                   addresses |-> [b \in 1 .. total |-> <<pools'[1].bundles[b], Port(b, perHost)>>]] : r \in 1 .. total}
      /\ UNCHANGED <<cluster, environ, claimed>>

HostChanges(h) ==
  /\ cluster' = [cluster EXCEPT ![h].alive = ~ @]
  /\ UNCHANGED <<environ, claimed, pools, told>>

TopologyNext ==
  \/ \E s \in PoolSizes, given \in {0} \cup SlicesOf(Alive) : AddPool(given, s[1], s[2])
  \/ \E p \in DOMAIN pools : \E r \in DOMAIN pools[p].bundles : TellWorker(p, r)
  \/ \E s \in PoolSizes : \E hosts \in Different(s[1], Alive) : Torchrun(hosts, s[2])
  \/ \E h \in DOMAIN cluster : HostChanges(h)
TopologySpec == (\E c \in Clusters, e \in Environs : TopologyInit(c, e)) /\ [][TopologyNext]_topologyvars
-----------------------------------------------------------------------------
\* A worker whose pool's hosts are all alive finds its own host and port at its rank
\* in the list of addresses, and no other rank has them; the mesh has as many devices
\* as the pool (a v6e pod type names its whole slice, of which the pool may be a part;
\* torchrun keeps a mesh that was set), and the bounds of the hosts times those of a
\* host's chips make the mesh, if it has their dimensions (of four chips on two hosts
\* nothing is claimed).
MeshIsThePool ==
  \A t \in told :
    LET pool  == pools[t.pool]
        own   == t.addresses[t.rank]
        ranks == DOMAIN pool.bundles
        nodes == Cardinality(ValuesOf(pool.bundles))
        whole == Len(t.addresses) = Len(pool.bundles)
        other == pool.launcher = "torchrun"
    IN  /\ whole => /\ own[1] = pool.bundles[t.rank]
                    /\ \A q \in ranks \ {t.rank} : t.addresses[q] # own
                    /\ own[2] - BasePort = Cardinality({q \in ranks : q < t.rank /\ pool.bundles[q] = own[1]})
        /\ ~other /\ t.type \notin {e[1] : e \in ByPodType} => Devices(t.mesh.topology) = Cardinality(ranks)
        /\ /\ ~other /\ whole /\ (nodes = 1 \/ Cardinality(ranks) > SingleHostMaxChips)
           /\ DOMAIN t.mesh.topology = DOMAIN t.mesh.hosts /\ DOMAIN t.mesh.topology = DOMAIN t.mesh.chips
           => Times(t.mesh.hosts, t.mesh.chips) = t.mesh.topology
=============================================================================
