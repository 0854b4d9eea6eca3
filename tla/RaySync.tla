-------------------------------- MODULE RaySync --------------------------------
(***************************************************************************)
(* The ray-plasma-store weight sync: trainer rank 0 publishes the weights  *)
(* of a step in a registry, the driver calls the rollout workers, and the  *)
(* workers of a host share one file: whoever creates the lock file first   *)
(* fetches the weights and writes it, the others wait for it.  The files   *)
(* outlive the job.  One action is one file operation of a worker, one     *)
(* remote call, or the driver's code between two awaits.  The weights are  *)
(* the training step they belong to; the shards of a worker are left out.  *)
(***************************************************************************)
EXTENDS Integers, FiniteSets

CONSTANTS Workers,     \* the rollout workers
          Replicas,    \* the rollout replicas
          ReplicaOf,   \* ReplicaOf[w]: the replica that w belongs to
          Hosts,
          HostOf,      \* HostOf[w]: the host of w
          LastStep,    \* bound: the number of training steps
          FaultKinds,  \* what may go wrong
          MaxFaults    \* bound: how often

ASSUME WorkersAssumption ==
    /\ ReplicaOf \in [Workers -> Replicas] /\ HostOf \in [Workers -> Hosts]
    /\ \A p \in Replicas : \E w \in Workers : ReplicaOf[w] = p
ASSUME BoundsAssumption == LastStep \in Nat /\ MaxFaults \in Nat

None == -1       \* no weights yet, no file
Garbage == -2    \* not this job's weights, or parts of several versions
Steps == 0..LastStep
Contents == Steps \cup {None, Garbage}

VARIABLES
  faults,      \* faults so far
  pc,          \* the training loop and update_ray_weights
  trained,     \* training steps done, the step key of a running sync
  registry,    \* the steps in RayWeightRegistry
  pt,          \* pt[h][s]: what state_dict_<s>.pt holds on host h
  ready,       \* ready[h]: the steps with a .ready file
  locks,       \* locks[h]: the steps with a .lock file
  at,          \* at[w]: where load_weights_from_ray_registry is, or how it ended
  held,        \* held[w]: the contents that w has mapped
  loaded,      \* loaded[w]: w returned a positive number of keys
  params,      \* params[w]: the step of w's parameters
  tag,         \* tag[p]: global_steps of the server
  cache,       \* cache[p]: the steps whose weights computed p's prefix and KV cache
  generating   \* generating[p]: p is not aborted

disk == <<pt, ready, locks>>
workers == <<at, held, loaded, params>>
servers == <<tag, cache, generating>>
vars == <<faults, pc, trained, registry, disk, workers, servers>>

Fault(kind) == /\ kind \in FaultKinds /\ faults < MaxFaults
               /\ faults' = faults + 1

NoFiles == [s \in Steps |-> None]

Init ==
    /\ faults = 0 /\ pc = "trained" /\ trained = 0 /\ registry = {}
    /\ pt = [h \in Hosts |-> NoFiles]
    /\ ready = [h \in Hosts |-> {}] /\ locks = [h \in Hosts |-> {}]
    /\ at = [w \in Workers |-> "idle"] /\ held = [w \in Workers |-> None]
    /\ loaded = [w \in Workers |-> FALSE] /\ params = [w \in Workers |-> None]
    /\ tag = [p \in Replicas |-> None] /\ cache = [p \in Replicas |-> {}]
    /\ generating = [p \in Replicas |-> TRUE]

\* What replica p computes with.
Holds(p) == IF \E s \in Steps \cup {None} : \A w \in Workers : ReplicaOf[w] = p => params[w] = s
            THEN CHOOSE s \in Steps \cup {None} : \A w \in Workers : ReplicaOf[w] = p => params[w] = s
            ELSE Garbage

--------------------------------------------------------------------------------
(* Around a sync. *)

Train == /\ pc = "train" /\ trained < LastStep
         /\ trained' = trained + 1 /\ pc' = "trained"
         /\ UNCHANGED <<faults, registry, disk, workers, servers>>

\* A request is served, and leaves its keys and values in the cache.
Generate(p) == /\ generating[p] /\ Holds(p) \notin cache[p]
               /\ cache' = [cache EXCEPT ![p] = cache[p] \cup {Holds(p)}]
               /\ UNCHANGED <<faults, pc, trained, registry, disk, workers, tag, generating>>

Quiet == \A w \in Workers : at[w] \in {"idle", "done", "error"}

\* The job stops and is started again on the same hosts, from the checkpoint of
\* step s; steps after s are trained anew, so that their files hold weights of
\* no step of this job.  With "kill" it may stop while workers load; with
\* "newjob" the files are those of another model.  The engine of rank 0 clears
\* the registry.
Restart ==
    /\ Fault("restart") /\ (Quiet \/ "kill" \in FaultKinds)
    /\ \E s \in 0..trained, same \in BOOLEAN :
          /\ same \/ ("newjob" \in FaultKinds /\ s = 0)
          /\ trained' = s
          /\ pt' = [h \in Hosts |-> [t \in Steps |->
                      IF pt[h][t] = None \/ (same /\ pt[h][t] <= s) THEN pt[h][t] ELSE Garbage]]
    /\ pc' = "trained" /\ registry' = {}
    /\ at' = [w \in Workers |-> "idle"] /\ held' = [w \in Workers |-> None]
    /\ loaded' = [w \in Workers |-> FALSE] /\ params' = [w \in Workers |-> None]
    /\ tag' = [p \in Replicas |-> None] /\ cache' = [p \in Replicas |-> {}]
    /\ generating' = [p \in Replicas |-> TRUE]
    /\ UNCHANGED <<ready, locks>>

--------------------------------------------------------------------------------
(* The driver: update_ray_weights. *)

\* abort_replicas, except before the first step.  A failure is only logged.
AbortReplicas ==
    /\ pc = "trained" /\ pc' = "send"
    /\ \E left \in SUBSET Replicas :
          /\ IF left = {} THEN UNCHANGED faults ELSE trained > 0 /\ Fault("abort")
          /\ generating' = [p \in Replicas |-> generating[p] /\ (trained = 0 \/ p \in left)]
    /\ UNCHANGED <<trained, registry, disk, workers, tag, cache>>

(* Beside some operators stand broken forms, which no specification uses:  *)
(* each is a mistake that a property of this module excludes.              *)

\* set_weights evicts the steps before.
Registered == {trained}

\* send_weights at every rank; it raises, or rank 0 never reaches the registry.
SendWeights ==
    /\ pc = "send"
    /\ \/ pc' = "sent" /\ registry' = Registered /\ UNCHANGED faults
       \/ pc' = "sent" /\ Fault("unsent") /\ UNCHANGED registry
       \/ pc' = "failed" /\ Fault("send") /\ UNCHANGED registry
    /\ UNCHANGED <<trained, disk, workers, servers>>

\* The driver looks the step up, and calls every worker of every replica.
CallWorkers ==
    /\ pc = "sent"
    /\ IF trained \in registry
       THEN /\ pc' = "load"
            /\ at' = [w \in Workers |-> "called"] /\ loaded' = [w \in Workers |-> FALSE]
       ELSE pc' = "failed" /\ UNCHANGED <<at, loaded>>
    /\ UNCHANGED <<faults, trained, registry, disk, held, params, servers>>

\* The gather raises the first error; the other workers go on.
LoadRaises == /\ pc = "load" /\ \E w \in Workers : at[w] = "error"
              /\ pc' = "failed"
              /\ UNCHANGED <<faults, trained, registry, disk, workers, servers>>

\* Broken: the cache is dropped only when the replicas were aborted.
KeptAtStepZero == IF trained > 0 THEN {} ELSE {None}

\* What clear_kv_cache leaves.
Cleared == {}

\* clear_kv_cache and set_global_steps at every server.
Tag == /\ pc = "load" /\ \A w \in Workers : at[w] = "done"
       /\ pc' = "tagged"
       /\ tag' = [p \in Replicas |-> trained]
       /\ cache' = [p \in Replicas |-> cache[p] \cap Cleared]
       /\ UNCHANGED <<faults, trained, registry, disk, workers, generating>>

\* Clear the registry (a failure is ignored), and see whether anybody loaded
\* anything; resume_generation_replicas.
AnyLoaded == \E w \in Workers : loaded[w]

Finish == /\ pc = "tagged"
          /\ \/ registry' = {} /\ UNCHANGED faults
             \/ Fault("clear") /\ UNCHANGED registry
          /\ IF AnyLoaded
             THEN pc' = "train" /\ generating' = [p \in Replicas |-> TRUE]
             ELSE pc' = "failed" /\ UNCHANGED generating
          /\ UNCHANGED <<trained, disk, workers, tag, cache>>

--------------------------------------------------------------------------------
(* A rollout worker: load_weights_from_ray_registry. *)

Goto(w, place) == at' = [at EXCEPT ![w] = place]

\* Create the lock file, exclusively.
TakeLock(w) ==
    /\ at[w] = "called"
    /\ IF trained \in locks[HostOf[w]] THEN Goto(w, "wait") /\ UNCHANGED locks
       ELSE /\ Goto(w, "clean")
            /\ locks' = [locks EXCEPT ![HostOf[w]] = locks[HostOf[w]] \cup {trained}]
    /\ UNCHANGED <<faults, pc, trained, registry, pt, ready, held, loaded, params, servers>>

\* Broken: the lock files go with the files of earlier steps.
CleanedToo == {}
\* Broken: nothing is removed.
NothingRemoved == Steps

\* The locks, and the files, that the master leaves alone.
LocksKept == {trained}
FilesKept == {trained}

Clean(w) ==
    /\ at[w] = "clean" /\ Goto(w, "fetch")
    /\ LET h == HostOf[w] IN
       /\ pt' = [pt EXCEPT ![h] = [s \in Steps |-> IF s \in FilesKept THEN pt[h][s] ELSE None]]
       /\ ready' = [ready EXCEPT ![h] = ready[h] \cap FilesKept]
       /\ locks' = [locks EXCEPT ![h] = locks[h] \cap LocksKept]
    /\ UNCHANGED <<faults, pc, trained, registry, held, loaded, params, servers>>

Unlocked(w) == [locks EXCEPT ![HostOf[w]] = locks[HostOf[w]] \ {trained}]

\* Read the registry and the object store.
Fetch(w) ==
    /\ at[w] = "fetch"
    /\ IF trained \in registry THEN Goto(w, "save") /\ UNCHANGED locks
       ELSE Goto(w, "done") /\ locks' = Unlocked(w)      \* return 0
    /\ UNCHANGED <<faults, pc, trained, registry, pt, ready, held, loaded, params, servers>>

\* Write the temporary file and move it into place.
Save(w) ==
    /\ at[w] = "save" /\ Goto(w, "mark")
    /\ pt' = [pt EXCEPT ![HostOf[w]][trained] = trained]
    /\ UNCHANGED <<faults, pc, trained, registry, ready, locks, held, loaded, params, servers>>

MarkReady(w) ==
    /\ at[w] = "mark" /\ Goto(w, "unlock")
    /\ ready' = [ready EXCEPT ![HostOf[w]] = ready[HostOf[w]] \cup {trained}]
    /\ UNCHANGED <<faults, pc, trained, registry, pt, locks, held, loaded, params, servers>>

Unlock(w) ==
    /\ at[w] = "unlock" /\ Goto(w, "map")
    /\ locks' = Unlocked(w)
    /\ UNCHANGED <<faults, pc, trained, registry, pt, ready, held, loaded, params, servers>>

SeeReady(w) ==
    /\ at[w] = "wait" /\ trained \in ready[HostOf[w]] /\ Goto(w, "map")
    /\ UNCHANGED <<faults, pc, trained, registry, disk, held, loaded, params, servers>>

MasterPlaces == {"clean", "fetch", "save", "mark", "unlock"}
Masters(h) == {w \in Workers : HostOf[w] = h /\ at[w] \in MasterPlaces}

\* Broken: a worker waits as long as it takes.
WaitsForEver(w) == FALSE

\* The wait may end without the file once nobody is writing it, or, with
\* "slow", because writing it takes more than 30 seconds.
GivesUp(w) == \/ Masters(HostOf[w]) = {} /\ UNCHANGED faults
              \/ Masters(HostOf[w]) # {} /\ Fault("slow")

TimeOut(w) ==
    /\ at[w] = "wait" /\ trained \notin ready[HostOf[w]] /\ GivesUp(w)
    /\ Goto(w, "map")
    /\ UNCHANGED <<pc, trained, registry, disk, held, loaded, params, servers>>

\* Map the file, whose inode stays what it is; without a file return 0.
Map(w) ==
    /\ at[w] = "map"
    /\ LET contents == pt[HostOf[w]][trained] IN
       /\ Goto(w, IF contents = None THEN "done" ELSE "copy")
       /\ held' = [held EXCEPT ![w] = contents]
       /\ params' = [params EXCEPT ![w] =
                       IF contents = None \/ contents = params[w] THEN params[w] ELSE Garbage]
    /\ UNCHANGED <<faults, pc, trained, registry, disk, loaded, servers>>

\* load_weights_on_worker has copied every group.
Copied(w) ==
    /\ at[w] = "copy" /\ Goto(w, "done")
    /\ params' = [params EXCEPT ![w] = held[w]]
    /\ held' = [held EXCEPT ![w] = None] /\ loaded' = [loaded EXCEPT ![w] = TRUE]
    /\ UNCHANGED <<faults, pc, trained, registry, disk, servers>>

\* An operation raises: a master removes its lock on the way out.  A process
\* that dies ("crash") removes nothing.
WorkerFails(w) ==
    /\ \/ at[w] \in {"fetch", "save", "mark"} /\ Fault("fetch") /\ locks' = Unlocked(w)
       \/ at[w] = "copy" /\ Fault("copy") /\ UNCHANGED locks
       \/ at[w] \in MasterPlaces \cup {"wait", "map", "copy"} /\ Fault("crash") /\ UNCHANGED locks
    /\ Goto(w, "error")
    /\ UNCHANGED <<pc, trained, registry, pt, ready, held, loaded, params, servers>>

--------------------------------------------------------------------------------

Driver == AbortReplicas \/ SendWeights \/ CallWorkers \/ LoadRaises \/ Tag \/ Finish
Worker(w) == TakeLock(w) \/ Clean(w) \/ Fetch(w) \/ Save(w) \/ MarkReady(w) \/ Unlock(w)
             \/ SeeReady(w) \/ TimeOut(w) \/ Map(w) \/ Copied(w)

Progress == Train \/ Driver \/ \E w \in Workers : Worker(w)

\* An exception has stopped the training loop, or it has ended.
Stopped == /\ \/ pc = "failed"
              \/ pc = "train" /\ trained = LastStep
           /\ UNCHANGED vars

Next == \/ Progress \/ Stopped \/ Restart
        \/ \E w \in Workers : WorkerFails(w)
        \/ \E p \in Replicas : Generate(p)
Spec == Init /\ [][Next]_vars
FairSpec == Spec /\ WF_vars(Progress)

--------------------------------------------------------------------------------
(* Properties. *)

\* Every variable keeps its type; the registry holds the model of one step at
\* most, because each takes the size of the model in the object store.
TypeOK ==
    /\ faults \in 0..MaxFaults /\ trained \in Steps
    /\ pc \in {"train", "trained", "send", "sent", "load", "tagged", "failed"}
    /\ registry \subseteq Steps /\ Cardinality(registry) <= 1
    /\ pt \in [Hosts -> [Steps -> Contents]]
    /\ ready \in [Hosts -> SUBSET Steps] /\ locks \in [Hosts -> SUBSET Steps]
    /\ at \in [Workers -> MasterPlaces \cup
                 {"idle", "called", "wait", "map", "copy", "done", "error"}]
    /\ held \in [Workers -> Contents] /\ loaded \in [Workers -> BOOLEAN]
    /\ params \in [Workers -> Contents]
    /\ tag \in [Replicas -> Steps \cup {None}] /\ cache \in [Replicas -> SUBSET Contents]
    /\ generating \in [Replicas -> BOOLEAN]

\* "Tell the servers which weight version they serve now": a replica that
\* generates has that version in every worker, except during the sync of step 0,
\* which pauses no replica.
ServesWhatItsTagSays ==
    trained > 0 \/ pc \in {"train", "trained"} =>
        \A p \in Replicas : generating[p] /\ tag[p] # None => Holds(p) = tag[p]

\* "Drop prefix/KV cache computed with the old weights": after a sync nothing
\* in a cache was computed with other weights than those of the replica.
CacheOfTheseWeights ==
    pc = "train" => \A p \in Replicas : cache[p] \subseteq {Holds(p)}

\* Two workers of a host never write the shared file at the same time: both
\* would write the same temporary file.
OneWriterPerHost == \A h \in Hosts : Cardinality(Masters(h)) <= 1

\* Every worker that is called answers, whatever becomes of the worker that
\* writes the file (or the job ends it).
EveryWorkerAnswers ==
    \A w \in Workers : (at[w] = "called") ~> (at[w] \in {"idle", "done", "error"})
================================================================================
