----------------------------- MODULE XpuPatches -----------------------------
(***************************************************************************)
(* A worker process on a host with Intel XPUs: the patches of verl-core    *)
(* that constructing PlatformXPU installs, and what the workers and the    *)
(* engine worker of the process get, depending on when the platform is     *)
(* constructed: before a worker, inside its constructor, or inside the     *)
(* last call of its constructor.  verl-core (external) is modelled from    *)
(* how the patches use it.                                                 *)
(***************************************************************************)
EXTENDS Integers

CONSTANTS NumWorkers,     \* workers that the process constructs, one after the other
          Threads, Main   \* the threads that may call get_platform; Main constructs the workers
ASSUME XpuAssumption == Main \in Threads /\ NumWorkers \in Nat

VARIABLES env,        \* VERL_PLATFORM: "intel", "other" or "" (auto-detection)
          present,    \* whether torch.xpu has devices
          rival,      \* whether another platform wins the auto-detection
          index,      \* the device that Ray assigned, Unpinned if it assigned none
          built,      \* the selected platform: "no", "xpu" or "other"
          builder,    \* per thread: where it is in get_platform
          read,       \* per thread: the all_reduce, then the set_numa_affinity, it read as the original
          allReduce, reduceApplied,    \* what dist.all_reduce is bound to, and _applied of its patch
          distributed, importer, numaApplied,  \* set_numa_affinity in its module, and as the engine worker bound it
          setup, configure, rayApplied, \* whether the two methods of Worker are wrapped
          worker, phase, via, \* the worker at hand, where its constructor is, whether the call at hand is wrapped
          inFlight,   \* the workers in whose _configure_with_store the platform was constructed
          localRank, stored, device,    \* LOCAL_RANK, the store's _local_rank, the current device
          got,        \* per worker: its rank and its device
          affinity    \* what set_numa_affinity did: "no", "xpu" or "core"
xpuvars == <<env, present, rival, index, built, builder, read, allReduce, reduceApplied, distributed, importer,
             numaApplied, setup, configure, rayApplied, worker, phase, via, inFlight, localRank, stored, device,
             got, affinity>>
patchvars == <<allReduce, reduceApplied, distributed, importer, numaApplied, setup, configure, rayApplied>>
workervars == <<worker, phase, via, inFlight, localRank, stored, device, got, affinity>>
hostvars == <<env, present, rival, index>>

Unpinned == 0
Selected == IF env = "intel" \/ (env = "" /\ present /\ ~rival) THEN "xpu" ELSE "other"

\* A call of all_reduce: its op, and whether it waits for a group with XCCL.
Calls == [op : {"AVG", "SUM"}, ours : BOOLEAN]
\* A binding of dist.all_reduce: the call in which each call of it ends at the
\* native one, and how often the result is divided then.
Native == [c \in Calls |-> [call |-> c, divided |-> 0]]
Summed(c) == [c EXCEPT !.op = "SUM"]
Wrapper(original) ==
  [c \in Calls |->
     IF c.op # "AVG" \/ ~c.ours THEN original[c]
     ELSE [original[Summed(c)] EXCEPT !.divided = @ + 1]]

\* A binding of set_numa_affinity: what it does under the selected platform.
Core == [p \in {"xpu", "other"} |-> "core"]
Pinning(original) == [original EXCEPT !["xpu"] = "xpu"]
Unimported == [p \in {"xpu", "other"} |-> "none"]
Unread == [reduce |-> Native, numa |-> Core]

XpuInit ==
  /\ env \in {"intel", "other", ""} /\ present \in BOOLEAN /\ rival \in BOOLEAN /\ index \in {Unpinned, 1}
  /\ built = "no" /\ builder = [t \in Threads |-> "no"] /\ read = [t \in Threads |-> Unread]
  /\ allReduce = Native /\ reduceApplied = FALSE
  /\ distributed = Core /\ importer = Unimported /\ numaApplied = FALSE
  /\ setup = FALSE /\ configure = FALSE /\ rayApplied = FALSE
  /\ worker = 0 /\ phase = "out" /\ via = FALSE /\ inFlight = {}
  /\ localRank = Unpinned /\ stored = Unpinned /\ device = Unpinned
  /\ got = [w \in 1..NumWorkers |-> [rank |-> Unpinned, on |-> Unpinned]] /\ affinity = "no"

-----------------------------------------------------------------------------
(* get_platform in thread t.                                               *)
At(t, where) == builder[t] = where
Go(t, where) == builder' = [builder EXCEPT ![t] = where]

\* The first call constructs the platform; a probe constructs PlatformXPU too,
\* and only another VERL_PLATFORM does not.  Bound: another thread does it
\* while no worker is under construction (its stack would not show that).
GetPlatform(t) ==
  /\ built = "no" /\ At(t, "no") /\ (t # Main => phase = "out")
  /\ Go(t, IF env = "other" THEN "select" ELSE "reduce")
  /\ UNCHANGED <<hostvars, built, read, patchvars, workervars>>

\* reduce_avg_allreduce_patch.apply: not without a device, and not twice; but
\* it has no lock, so that threads may take these steps in any order.
CheckReduce(t) ==
  /\ At(t, "reduce") /\ Go(t, IF reduceApplied \/ ~present THEN "ray" ELSE "read")
  /\ UNCHANGED <<hostvars, built, read, patchvars, workervars>>
\* Mutant: the patch is marked as applied first, so that no thread wraps twice.
MarkedFirst(t) ==
  /\ At(t, "read") /\ Go(t, "wrap") /\ read' = [read EXCEPT ![t].reduce = allReduce]
  /\ reduceApplied' = TRUE
  /\ UNCHANGED <<hostvars, built, allReduce, distributed, importer, numaApplied, setup, configure, rayApplied,
                 workervars>>
ReadReduce(t) ==
  /\ At(t, "read") /\ Go(t, "wrap") /\ read' = [read EXCEPT ![t].reduce = allReduce]
  /\ UNCHANGED <<hostvars, built, patchvars, workervars>>
WrapReduce(t) ==
  /\ At(t, "wrap") /\ Go(t, "mark") /\ allReduce' = Wrapper(read[t].reduce)
  /\ UNCHANGED <<hostvars, built, read, reduceApplied, distributed, importer, numaApplied, setup, configure,
                 rayApplied, workervars>>
MarkReduce(t) ==
  /\ At(t, "mark") /\ Go(t, "ray") /\ reduceApplied' = TRUE
  /\ UNCHANGED <<hostvars, built, read, allReduce, distributed, importer, numaApplied, setup, configure,
                 rayApplied, workervars>>

\* ray_device_pin_patch.apply, under its lock: a call of
\* _configure_with_store below this one on the stack is pinned through its
\* frame, if it is certain that XPU will be selected; then the method is
\* wrapped that the workers still have to call.
\* Mutant: the method to wrap does not depend on the stack.
NeverLate(t) == FALSE
Late(t) == t = Main /\ phase # "out"
Configuring(t) == t = Main /\ phase = "configure"
PinsInFlight(t) == Configuring(t) /\ env = "intel" /\ present /\ index # Unpinned
ApplyRayPin(t) ==
  /\ At(t, "ray") /\ Go(t, "numa") /\ rayApplied' = TRUE
  /\ IF ~rayApplied /\ PinsInFlight(t) THEN stored' = index /\ device' = index ELSE UNCHANGED <<stored, device>>
  /\ inFlight' = inFlight \cup (IF ~rayApplied /\ Configuring(t) THEN {worker} ELSE {})
  /\ setup' = (setup \/ (~rayApplied /\ ~Late(t))) /\ configure' = (configure \/ (~rayApplied /\ Late(t)))
  /\ UNCHANGED <<hostvars, built, read, allReduce, reduceApplied, distributed, importer, numaApplied,
                 worker, phase, via, localRank, got, affinity>>

\* numa_affinity_patch.apply, without a lock either: the function is replaced,
\* and then rebound where what was read as the original is imported already.
\* (Two bindings that do the same count as identical, which makes no difference.)
CheckNuma(t) ==
  /\ At(t, "numa") /\ Go(t, IF numaApplied THEN "select" ELSE "original")
  /\ UNCHANGED <<hostvars, built, read, patchvars, workervars>>
ReadNuma(t) ==
  /\ At(t, "original") /\ Go(t, "replace") /\ read' = [read EXCEPT ![t].numa = distributed]
  /\ UNCHANGED <<hostvars, built, patchvars, workervars>>
ReplaceNuma(t) ==
  /\ At(t, "replace") /\ Go(t, "rebind") /\ distributed' = Pinning(read[t].numa)
  /\ UNCHANGED <<hostvars, built, read, allReduce, reduceApplied, importer, numaApplied, setup, configure,
                 rayApplied, workervars>>
\* Mutant: a module that has imported the function keeps the original.
NotRebound(t) ==
  /\ At(t, "rebind") /\ Go(t, "applied")
  /\ UNCHANGED <<hostvars, built, read, patchvars, workervars>>
RebindNuma(t) ==
  /\ At(t, "rebind") /\ Go(t, "applied")
  /\ importer' = IF importer = read[t].numa THEN Pinning(read[t].numa) ELSE importer
  /\ UNCHANGED <<hostvars, built, read, allReduce, reduceApplied, distributed, numaApplied, setup, configure,
                 rayApplied, workervars>>
MarkNuma(t) ==
  /\ At(t, "applied") /\ Go(t, "select") /\ numaApplied' = TRUE
  /\ UNCHANGED <<hostvars, built, read, allReduce, reduceApplied, distributed, importer, setup, configure,
                 rayApplied, workervars>>

Select(t) ==
  /\ At(t, "select") /\ Go(t, "no")
  /\ built' = IF built = "no" THEN Selected ELSE built
  /\ UNCHANGED <<hostvars, read, patchvars, workervars>>

-----------------------------------------------------------------------------
(* verl-core: Worker.__init__ and the engine worker.                       *)
Xpu == built = "xpu"
MainRuns == At(Main, "no")

\* The constructor calls _setup_env_cuda_visible_devices, as it is bound now.
StartWorker ==
  /\ (\A t \in Threads : At(t, "no")) /\ phase = "out" /\ worker < NumWorkers
  /\ worker' = worker + 1 /\ phase' = "setup" /\ via' = setup
  /\ UNCHANGED <<hostvars, built, builder, read, patchvars, inFlight, localRank, stored, device, got, affinity>>
\* The wrapper pins the worker after it, through LOCAL_RANK; the store takes that.
Pins == via /\ Xpu /\ index # Unpinned
EndSetup ==
  /\ MainRuns /\ phase = "setup" /\ (via => built # "no")
  /\ phase' = "middle"
  /\ localRank' = (IF Pins THEN index ELSE localRank) /\ stored' = localRank'
  /\ device' = IF Pins THEN index ELSE device
  /\ UNCHANGED <<hostvars, built, builder, read, patchvars, worker, via, inFlight, got, affinity>>
\* _configure_with_store, as it is bound now: its wrapper pins the worker through the store.
Configure ==
  /\ MainRuns /\ phase = "middle" /\ (configure => built # "no")
  /\ phase' = "configure" /\ via' = configure
  /\ LET pins == configure /\ Xpu /\ index # Unpinned
     IN stored' = (IF pins THEN index ELSE stored) /\ device' = (IF pins THEN index ELSE device)
  /\ UNCHANGED <<hostvars, built, builder, read, patchvars, worker, inFlight, localRank, got, affinity>>
\* It has asked for the platform, reads the store and exports LOCAL_RANK.
EndConfigure ==
  /\ MainRuns /\ phase = "configure" /\ built # "no"
  /\ phase' = "out" /\ localRank' = stored
  /\ got' = [got EXCEPT ![worker] = [rank |-> stored, on |-> device]]
  /\ UNCHANGED <<hostvars, built, builder, read, patchvars, worker, via, inFlight, stored, device, affinity>>

\* The engine worker's module binds set_numa_affinity by value when it is
\* imported.  Bound: it reads and binds the name in one step.
ImportEngineWorker ==
  /\ importer = Unimported /\ importer' = distributed
  /\ UNCHANGED <<hostvars, built, builder, read, allReduce, reduceApplied, distributed, numaApplied, setup,
                 configure, rayApplied, workervars>>
\* Its constructor asks for the platform, then calls what it bound.
StartEngineWorker ==
  /\ MainRuns /\ phase = "out" /\ importer # Unimported /\ built # "no" /\ affinity = "no"
  /\ affinity' = importer[built]
  /\ UNCHANGED <<hostvars, built, builder, read, patchvars, worker, phase, via, inFlight, localRank, stored,
                 device, got>>

XpuNext ==
  \/ \E t \in Threads : \/ GetPlatform(t) \/ ApplyRayPin(t) \/ Select(t)
                        \/ CheckReduce(t) \/ ReadReduce(t) \/ WrapReduce(t) \/ MarkReduce(t)
                        \/ CheckNuma(t) \/ ReadNuma(t) \/ ReplaceNuma(t) \/ RebindNuma(t) \/ MarkNuma(t)
  \/ StartWorker \/ EndSetup \/ Configure \/ EndConfigure \/ ImportEngineWorker \/ StartEngineWorker
XpuSpec == XpuInit /\ [][XpuNext]_xpuvars

\* When an XPU platform is selected, a worker whose constructor has returned
\* has its LOCAL_RANK and its current device from Ray, wherever in the
\* constructor the platform was built: before it, in it, or in its last call
\* (there only with VERL_PLATFORM set, since the selection is not certain
\* before).  When another platform is selected, no worker was pinned.
Constructed == 1..(IF phase = "out" THEN worker ELSE worker - 1)
PinnedToRaysDevice ==
  present => \A w \in Constructed :
    IF Xpu /\ index # Unpinned /\ ~(w \in inFlight /\ env = "")
    THEN got[w] = [rank |-> index, on |-> index]
    ELSE ~Xpu => got[w] = [rank |-> Unpinned, on |-> Unpinned]

\* Once an XPU platform is selected, whatever threads have wrapped all_reduce,
\* or one another's wrappers, an average over a group with XCCL is one native sum
\* and one division.  Every other call reaches the native one as it is, always.
AveragesDivideOnce ==
  \A c \in Calls :
    IF c.op = "AVG" /\ c.ours
    THEN Xpu /\ present => allReduce[c] = [call |-> Summed(c), divided |-> 1]
    ELSE allReduce[c] = [call |-> c, divided |-> 0]

\* The engine worker is bound to the NUMA node of its XPU exactly when an XPU
\* platform is selected, whether its module was imported before, after or while
\* threads replaced the function.  Not claimed while a thread has replaced the
\* function and not yet rebound the importers (lines 314 and 315): another one
\* may have selected the platform then, and the worker still calls core's.
Rebinding == \E t \in Threads : At(t, "rebind")
NumaBindingTakesEffect ==
  [][affinity' # affinity /\ ~Rebinding => affinity' = IF Xpu THEN "xpu" ELSE "core"]_xpuvars
=============================================================================
