# A verification project for verl-hardware-plugin

TLA+ models of the concurrent and of the algorithmic core of this repository,
checked with TLC on small instances and, for the theorems listed below, proved
with TLAPS for every value of the constants. Source paths are relative to
`src/verl_hardware_plugin/accelerators/` unless they start with `src/`.

## 1. Inventory

The plugin adapts verl (reinforcement learning of language models) to
accelerators that are not CUDA. Its own logic is in the *checkpoint engines*,
which send the trainer's weights to the rollout workers after every training
step, in the TPU trainer, and in how pools of workers are placed on devices.

| Part | State it keeps | Operations | Hard behaviour | What makes it correct | Modelled by |
|---|---|---|---|---|---|
| **MoRI engine**, `rocm/engines/mori_checkpoint_engine.py`: a sync | per worker: region with slots per stripe, credits, in-flight writes, release tasks, inbox, busy and unusable flags | `build_topology`, `send_weights`, `receive_weights` | many coroutines per worker, one-sided RDMA and XGMI writes, device reads after the coroutine moved on, stale and lost messages, timeouts, fail-stop | no slot is overwritten in use; buckets are delivered once, in order, unchanged; everybody stops; success means everything below has it | `MoriTopology`, `MoriSync` |
| the same: across syncs | engine, peers, retired peers, unusable | `prepare`, `init_process_group`, `finalize`, `close` | engines replaced and workers recreated while writes of the last sync may be in flight | both ends of a write exist, so that hops are those of this sync | `MoriEngines` |
| **tpu-sync engine and driver**, `tpu/weight_sync/tpu_sync_*.py`, `tpu/rollout/tpu_sync_worker_extension.py` | trainer ranks: synchronizer, bound buffers, host staging; controller: registered units; rollout: receive buffers, parameters, tag; driver: background tail, stage flag, last topology | `send_weights`, `release_sync_buffers`, `update_tpu_sync_weights`, `wait_for_tpu_sync_update`, `init_tpu_sync_on_worker`, `install_tpu_sync_weights` | a sync that ends in a background thread while training goes on; a single host staging buffer; generation during the transfer | transfers carry one step; generation never runs on half-installed weights; versions are tagged right | `TpuSync` |
| **Export and install of weights**, `tpu/engines/weight_export.py`, `tpu/rollout/*_layout.py`, `direct_install.py`, `moe_weights.py` | none | slice, fuse, transpose, pad and place tensors | index arithmetic over meshes, experts and fused tensors | the fast path leaves what vLLM's loaders would have written | `WeightExport`, `WeightInstall` |
| **ray-plasma-store engine**, `tpu/weight_sync/ray_checkpoint_engine.py` | registry actor with one step; a directory per host with data, ready and lock files | `send_weights`, `load_weights_from_ray_registry`, `update_ray_weights` | election by lock file, waits with a limit, files of earlier steps and jobs | every worker loads the step asked for, or the sync fails | `RaySync` |
| **XCCL and CNCL engines**, `xpu/engines/xccl_*`, `mlu/engines/cncl_*` | two buckets, metadata channel, device queue, collective group | `send_weights`, `receive_weights`, `finalize` | the host only queues broadcasts, gathers and copies; relays; subscriptions that come late | buckets arrive unchanged; no collective waits for ever; buffers outlive their broadcasts | `BucketDevice`, `XcclBroadcast`, `CnclBroadcast` |
| **CNIXL engine**, `mlu/engines/cnixl_checkpoint_engine.py` | agents in a chain, two buffers, messages and notifications | `build_topology`, `init_process_group`, `send_weights`, `receive_weights`, `finalize` | pipelined reads down the chain | a buffer is reused only after the next agent read it | `ReadChain` |
| **TorchTitan TPU engine**, `tpu/engines/torchtitan_tpu.py`: optimizer step | fp32 masters and moments, two staging slots, events, param groups narrowed for a step | `optimizer_step` | gradients come in and weights go out by asynchronous copies while the CPU steps | every parameter gets exactly its updates | `CpuMasterStep` |
| the same: checkpoints | shards per step and rank, temporary files | `save_checkpoint`, `load_checkpoint` | killed anywhere; pruning; reading in slots with barriers | a whole save is on the disk, and every rank resumes the same one | `TrainerCheckpoint` |
| **Ragged expert parallelism**, `tpu/engines/tpu_ragged_ep.py` | offsets and permutations of a layer's call | `dispatch`, `combine`, their backward passes | capacity drops, static shapes, four offset tables that must agree | every kept row reaches its expert and comes back to its place | `RaggedDispatch` |
| **Fused cross entropy**, `mlu/utils/kernels_mlu.py` | partial maxima and sums | forward in tiles and splits, tensor-parallel epilogue, four backward modes | programs in any order, two streams, uninitialized buffers | each term once | `EntropyKernels` |
| **TPU pools**, `tpu/platform_tpu.py` | claimed slices | the mesh, bounds and addresses of each worker | inherited variables, dead hosts, pools of part of a slice | mesh and addresses are the pool's | `TpuTopology` |
| **TPU device queries**, `tpu/device_api.py` | caches per process | memory and synchronize queries | forked children | no process starts a runtime by asking | `TpuRuntime` |
| **XPU patches**, `xpu/patches/*`, `xpu/platform_xpu.py` | patched functions, environment | pin to Ray's device, NUMA affinity, averages | installed before, in or after a worker's constructor, by any thread | each worker is on its device; an average is one sum and one division; NUMA binding takes effect | `XpuPatches` |
| **Plugin loading**, profilers, other platforms, models and losses | registries, tensors | adapters and numerical code | - | - | not modelled |

Interaction: verl's trainer calls the checkpoint manager on the driver; the
manager calls `prepare`, `build_topology` and `init_process_group` (MoRI, XCCL,
CNIXL, CNCL) or the patched `update_weights` (TPU); trainer ranks run
`send_weights` and rollout workers `receive_weights` (or their `collective_rpc`
methods) concurrently, and talk through messages, collectives and one-sided
transfers. `WeightExport` and `WeightInstall` are the contents of the transfer
whose protocol is `TpuSync`.

## 2. Plan

Done: MoRI (topology, sync, life cycle), tpu-sync, ray-plasma-store, XCCL, CNCL,
CNIXL, the optimizer step and checkpoints of the TPU trainer, the ragged
dispatch, export and install of weights, the fused cross entropy, TPU pools and
queries, XPU patches. Proved: every safety property of `MoriSync`, `MoriRoles`,
`MoriEngines`, `TpuSync`, `RaySync`, `XcclBroadcast`, `CnclBroadcast`, `ReadChain`,
`CpuMasterStep`, `TrainerCheckpoint`, `RaggedDispatch`, `EntropyKernels`, `TpuRuntime`, `TpuTopology` and
`XpuPatches` that a run checks, and the
refinements of `WeightBroadcast` by `MoriSync`, by the XCCL and CNCL engines and by `ReadChain`, and of `RolloutVersions` by `TpuSync`.

Left: the exact parity check of step 0 and the pruning of norms in `TpuSync`, replicas that change
in `RaySync`.

## 3. Modules

| Module | What it is |
|---|---|
| `WeightBroadcast` | abstract: what one broadcast of weights promises to its receivers |
| `RolloutVersions` | abstract: what any sync promises to the users of the rollout, across steps |
| `MoriTopology`, `MoriRoles` | `build_topology`: stripes, holders, previous and next hops; one call of it, and what its roles must do together |
| `MoriSync`, `MoriSyncInv` | one sync of the MoRI engine, and its inductive invariants |
| `MoriSyncProofs` | theorems about `MoriSync`: types and slots; delivery and refinement |
| `MoriEngines` | the life of the MoRI engines from one sync to the next |
| `TpuSync`, `TpuSyncInv` | a job with tpu-sync: driver, trainer ranks, transfer, rollout replicas; its inductive invariant |
| `TpuSyncProofs` | theorems about `TpuSync` |
| `RaySync`, `RaySyncProofs` | a job with ray-plasma-store: driver, registry, workers and their host's files; theorems |
| `BucketDevice` | device queues, collectives and buffers under XCCL and CNCL |
| `XcclBroadcast`, `CnclBroadcast` | the two engines on it |
| `BucketEngines` | a job with either of them |
| `BucketProofs` | theorems about the buffers of `BucketEngines`; what a sync under way is like, and what the steps of each process do to it |
| `BucketOrderProofs` | on that, the steps of the whole system and the refinement |
| `ReadChain`, `ReadChainProofs` | the CNIXL engine; theorems |
| `CpuMasterStep`, `TrainerCheckpoint` | optimizer step and checkpoints of the TorchTitan TPU engine |
| `RaggedDispatch` | dispatch and combine of expert parallelism |
| `WeightExport`, `WeightInstall` | the trainer's and the rollout's half of the layout of a transfer |
| `EntropyKernels` | the fused linear cross entropy |
| `TpuTopology` | pools of TPU workers |
| `TpuRuntime` | device queries of forked processes |
| `XpuPatches` | the patches of the XPU platform |
| `TrainerHostsProofs` | theorems about `TrainerCheckpoint`, `CpuMasterStep`, `MoriEngines`, `TpuRuntime`, `XpuPatches` and `TpuTopology` |
| `AlgorithmProofs` | theorems about `MoriRoles`, `RaggedDispatch` and `EntropyKernels` |
| `MCMoriSync`, `MCTpuSync`, `MCRaySync`, `MCBuckets`, `MCReadChain`, `MCTrainer`, `MCHosts`, `MCAlgorithms` | instances and properties for TLC |

### MoriTopology, MoriRoles

The result of `build_topology` as functions of stripe and worker. Node
names are model values; what the roles carry besides identity (packed
descriptors, addresses) is left out. A list that the code appends to in the order of
the workers is given by the places of its elements (`Appended`). `MoriRoles` is one call;
`EveryNodeFedOnce` says that every stripe reaches every rollout worker and crosses into
each node once, where *reaches* is said of sets of workers that are closed under
hops, so that no recursion is needed. That the chain is rotated from stripe to stripe, to spread the load, is in the
module and not a property.

### MoriSync

One action is the code between two awaits of a coroutine, one message handled
by the pump, or one step of the hardware.

* `st[w]` is the life of worker `w` in the sync: `idle` (not called), `open`
  (`receive_weights` returned its stream, `_busy`), `run`, `failing`
  (`_mark_unusable` and `_notify_abort` done, tasks being reaped), `failed`, `done`.
* `pc`, `k`: the coroutine of each stripe at each worker, `_push_stripe` or
  `_receive_chain`, with its bucket number.
* `waiting`, `writing`, `werr`: the `one` tasks of `_write_next`; `rel`: the
  `_release` tasks; `inflight`: `_inflight`.
* `frees`, `posted`, `aborts`, `stale`: messages in the inboxes, sets because
  nothing depends on the order in which different messages of a kind are read;
  `inq`, `early`: the bucket queue and the dictionary of buckets that came early.
* `mem`, `copying`, `dma`, `air`, `carried`, `inbound`, `got`: the device and
  the network. A write leaves its source slot (`dma`), may be in the air after
  the sender's status succeeded (RDMA), and lands with a notification. A write
  whose status failed, or whose task was cancelled, may go on in `dma` for
  ever or complete: MoRI gives no guarantee. Reads of the consumer are queued on
  a stream and happen after the coroutine moved on (`ReadDone`).

Abstracted: tensors and their offsets inside a bucket (a bucket is its
number), validation of malformed messages, log text, the allocation of uids
(one per item). The rounds of several syncs appear as `Stale`, messages of other
syncs in the inbox.

Faults (`FaultKinds`): `timeout` (a wait gives up), `status` (a write fails),
`interrupt` (cancellation, or the consumer stops), `close` (the stream is closed before
its first item), `pump` (control messages cannot be handled), `step` (wrong
`global_steps`), `lost` (aborts are lost). `MaxFaults` bounds the spontaneous ones;
what follows from a fault is unbounded. A timeout without an earlier fault is
itself a fault: `timeout_s` is far longer than a healthy wait.

The broken forms that stand beside some operators, here and in the other
modules (*Broken* or *Mutant* in their comments), are used by no specification;
each is the mistake that one of the properties excludes.

### MoriEngines

One chain of workers per sync, in any order of any of the pool. `engineOf[w]` is
the number of the engine that `w` has now, so that `Key(w)`, a worker and its
engine, is what a peer registered: a peer that is replaced gets a new key. A worker writes to the
keys it is connected to (`Targets`), so that one that kept the connections of an earlier
sync would write to an engine that is gone, which `WritesHaveBothEnds` excludes.
`Prepare` is `prepare` of all workers of the chain (they do not touch each
other), `Connect` is `init_process_group` with `_connect` and the retirement of peers
that left. Within a sync a hop is one write, submitted, landed and waited for;
`Fail` is `_mark_unusable` with what follows, `Recreate` the job that replaces a
worker that refuses, `Close` the end of one. MoRI gives no guarantee about a write whose
wait was given up, so that it stays in `writes` until the hardware ends it.

### TpuSync

The weights are their *version*, the number of training steps in them, kept per
shard of a trainer rank. One action is the code between two awaits of the
driver, one worker's part of a remote call, or one step of a transfer. A
replica stands for its tensor-parallel workers, which one `collective_rpc`
calls together.

* Driver: `pc` is the training loop and `update_tpu_sync_weights`; `trained` the
  steps done, `last` the step of the last sync; `stageOn`, `transferred` and
  `future` are `manager._tpu_sync_stage_d2h`,
  `manager._tpu_sync_transferred_dst_units` and the future of `_BackgroundSync`.
* `at["fore"]` and `at["back"]` are the places of `_finish_tpu_sync` when the caller
  awaits it and when the background thread runs it; `job` holds its arguments.
  Nothing in the module forbids both at once: that they exclude each other
  follows from the join (`OneTail`), and without it `SyncedAfterWait` and `ImplementsPromise` fail.
* Trainer ranks: `rank` is the place in `send_weights` or its result; `ws`, `regsig`,
  `plan` describe the synchronizer and the transfer plan in it; `bound` is the
  version in the bound device buffers, `host` that of the host staging buffer and
  the plan its layout follows. Training writes bound buffers too, because they
  may share the storage of the parameters.
* Wire: `registered` is what the controller knows, `shapes` and `posted` what the
  rendezvous actor was told, `xfer` what the transfer still has to do per rank. It
  reads device or host when its turn comes, never when it was called.
* Rollout: `recv` are the receive buffers, `params` the parameters per shard (mixed
  while an install runs), `tag` is `global_steps`, `generating` says the replica is not paused.

`opt` is the record of the job's options: those of the engine
(`return_after_d2h`, `release_buffers_after_sync`, `verify_parity`), those of the
installed tpu-sync (`d2h` returns a future; `unbind_weights` exists), and whether
the job is resumed, so that the replicas' checkpoint is not the trainer's.

Faults (`FaultKinds`, at most `MaxFaults`): `elastic` (replicas join or leave between
syncs), `late` (the same during the background part), `relayout` (a rank exports
another layout), `shapes` (the shapes could not be recorded), `send` (a rank
raises), `init`, `install` (a worker finds no model, or raises), `transfer` (the controller
raises), `damage` (the data arrive damaged; only
where the norms are checked, since nothing else could tell), `stats` (norms are not posted),
`abort` (`abort_replicas` fails).

Abstracted: the order of `dst_units`; `global_steps` of `None`; the exact check of
step 0 and the pruning of norms; norms as arithmetic (damage is always seen:
a norm that happens to agree is outside the model); `set_global_steps` is one
step for all replicas; relays between replicas; start of the controller and `finalize`.

### RaySync

Weights are the step they belong to. `pc` is the training loop and
`update_ray_weights`; `at[w]` the place of worker `w` in
`load_weights_from_ray_registry`; `pt`, `ready` and `locks` are the files
`state_dict_<step>.pt`, `.ready` and `.lock` of each host. One action is one file
operation, one remote call, or the driver's code between two awaits. A mapped
file (`held`) keeps its contents when the file is replaced. A master that raises
removes its lock, one that dies does not. `Restart` starts the job again on the
same hosts from the checkpoint of a step; files of later steps then hold
weights that are no version of this job.

`cache[p]` collects the versions that computed the keys and values in the
prefix cache of a replica.

Faults: `restart` (between loads; with `kill` also in the middle, with `newjob`
over the files of another model), `unsent` and `send` (the trainer publishes
nothing, or raises), `fetch` and `copy` (a worker raises), `clear` (the registry
cannot be cleared), `abort`, `crash` (a worker dies), `slow` (writing the file
takes more than 30 seconds). A wait that nobody will end ends by its limit, without a fault.

Abstracted: slicing and fusing of tensors, the temporary file, the workers'
staggered start, `global_steps` of `None`, replicas that join or leave (the
trainer waits for the whole sync, so they do not change within it).

### BucketDevice, XcclBroadcast, CnclBroadcast, BucketEngines

One action is the code between two awaits of a coroutine, one step of the
executor's thread, one message of ZeroMQ, or one operation at the head of a
device queue. The host *queues* gathers (a collective of the actors, external),
fills, broadcasts and copies (`queue[w]`); a collective runs when all members have it
at the head of their queues (`Broadcast`, `Gather`), so that different orders
deadlock as they do on the device. `buf` holds which chunk is at which place of
each buffer; a chunk that was overwritten reads as `Junk`.

XCCL: `op[w]` is the broadcast in the executor's thread (publish or receive the
metadata, then queue the broadcast). With `multi` the master's node-mates are
relays that walk the same generator. `frames` and `count` are the subscriptions
at the XPUB socket and `_subscribers`, both kept over syncs. CNCL publishes and queues
in the coroutine and synchronizes before each swap; nothing waits for
subscriptions. `BucketEngines` is the job: its initial state chooses the engine, and whether
XCCL has relays.

Abstracted: names, dtypes and shapes in the metadata; the contents of a chunk,
which is its number.

### ReadChain

`Join` is `init_process_group` with its assertions (an agent that fails one is
`refused`). `mail` is the agent's PULL socket, `notes` what NIXL notified it of,
`key` the key its readable operation waits for; `read[w]` is the transfer that `w`
began, which runs between two actions and may fail (`MaxErrors`). While it runs the
target buffer is `Changing`. `landed` and `got` are what an agent read, bucket by bucket, and
what its loader copied, chunk by chunk; `base` is a history variable, the number of
chunks of the syncs that have ended, from which chunks are numbered. Every chunk has
some bytes (`ChainAssumption`), as parameters have, and fits a bucket (`ChunksFit`), to which
`split_weight_chunks` cuts it and which `send_weights` asserts. How many buckets a sync has is written
down apart from the steps, as the packing of its chunks one by one (`Packing`, `BucketsOf`,
`BucketsTo`): `WeightBroadcast` promises that number. Abstracted: the transfer's states other
than *in progress*, *done* and *error*; agents' names.

### CpuMasterStep and TrainerCheckpoint

The optimizer step: a value is the set of the updates it carries, an update being
the parameter and step its gradient is of and the group whose hyperparameters it
was made with; a wrong buffer, order or group shows as a wrong set. One action is
what the engine's thread does between two waits, or one transfer. With
`events = FALSE` (no `torch.tpu.Event`) the device's queue is taken to run in order, as
the code assumes. `mode` is where masters and states live. The optimizer has a param
group, and no parameter is in two (`GroupsAssumption`). Abstracted: the
arithmetic of AdamW, clipping, the scheduler.

Checkpoints: one action is one file operation, one barrier or one upload attempt of a
rank. `Restart` kills the job anywhere (`MaxRestarts`); the driver's record of the last
save is external. Shards carry their step and the run that computed them, so that a
mixture of two runs would show. Steps 9 to 11 make a directory name that sorts
differently as text. Bounds: the job resumes from what the driver recorded. A
user who resumes from an older step, or starts anew in a directory with later
steps, is outside the model (only `world_size` is compared on loading; the prune
counts the steps that are there).

### RaggedDispatch, WeightExport, WeightInstall, EntropyKernels, TpuTopology

Pure algorithms, step by step as the code computes them, compared in `MCAlgorithms` with
a definition of what they are for.

* `RaggedDispatch`: one action per collective or per tensor computation, of all
  ranks together, for a job of `DispatchJobs` (sizes, capacity and alignment) and any routes.
  A row is <<rank, place>>; rows that are padding or unwritten are told apart (`Zero`, `Junk`).
* `WeightExport`: a tensor is the labels of its rows and of its columns, so that slicing,
  fusing and transposing act on labels. One layer of Qwen3 or Qwen3.5, dense,
  mixture of experts or hybrid, on the meshes that TorchTitan makes.
* `WeightInstall`: which slices a worker asks for, which direct-install plan
  applies, and what it writes; `LoadersWrite` is vLLM's side (external). Layouts that are
  left out: a dense bias of qkv with tensor parallelism, a vocabulary that its
  size does not divide.
* `EntropyKernels`: exact, symbolic arithmetic (a sum of exponentials is a set of
  terms). Programs of a kernel end in any order; the host enqueues on two
  streams. Bounds: logits within 100 of zero (the tensor-parallel epilogue starts its
  maximum at 0), at most 512 splits; a group of one rank that asks for the
  tensor-parallel path, and the autotuner, are left out.
* `TpuTopology`: every worker asks when it is created; hosts may leave or join in between.
  `Clusters`, `Environs` and `PoolSizes` are what a behaviour may start from and ask for.
  Bound of the run: one worker's answer per behaviour, since it depends on no other's.
  Pools that share the last slice reuse ports of its slice builder, a pool with an
  explicit accelerator type claims nothing, and torchrun keeps an inherited mesh:
  so the code, and `MeshIsThePool` is stated around them. A variable may also name a mesh of fewer or
  more dimensions than the bounds that the code then makes of it; of their product nothing is claimed.

### XpuPatches, TpuRuntime

`XpuPatches`: `get_platform` step by step in each thread. Only the patch that pins the
workers has a lock; in the other two the test of `_applied`, the reading of the original, the
assignment of the patched function, the rebinding of importers and the setting of `_applied` are
steps of their own (`CheckReduce` to `MarkReduce`, `CheckNuma` to `MarkNuma`), so that a thread
may wrap another one's wrapper. `allReduce` is a function from calls (the op, and whether the
wrapper is in charge of it: an XCCL group, not asynchronous) to the native call it ends in and
how often the result is divided; `distributed` and `importer` are functions from the selected platform
to what `set_numa_affinity` does under it, in its module and in the engine worker's; `read` is what
a thread has read of them. `worker`, `phase` and `via` say where the constructor of the worker
at hand is and whether its current call went through a wrapper. Bounds: another thread
constructs the platform only between constructors (the inspection of the stack
sees its own thread), there is one importer, and it reads and binds the name in one step. `TpuRuntime`: which process has registered the TPU, which has a
runtime, and the two caches, which a forked child copies.

## 4. Runs

| Run | Question | Bounds | Size |
|---|---|---|---|
| `algorithms` | Do the pure algorithms compute what they are for? | all placements of 1 to 4 rollout workers on 3 nodes, 3 trainers, 5 stripes; 2 to 3 ranks and every routing of 2 to 4 rows; over 2000 models, meshes and inputs | 193 thousand states, 60 s |
| `mori_chain` | Does a sync without faults succeed, in order, and implement `WeightBroadcast`? Is the proved invariant `Delivery` right? | one stripe over two nodes, 3 buckets in 2 slots, one stale abort | 116 thousand, 100 s |
| `mori_faults` | Is memory safe and does everybody stop, whatever fails? | one hop, 3 buckets in 2 slots, each kind of fault at either end, one spontaneous fault | 200 thousand, 70 s |
| `mori_stripes` | Is a worker that reports success quiet for two stripes that cross the same workers in opposite orders, one of them without tensors? | two stripes, two workers, one stripe empty | 620 thousand, 120 s |
| `tpu_sync` | Is no wrong weight served, does a pause end or an error surface, and does the sync implement `RolloutVersions`, under each set of options? Is the proved invariant `Sound` right? | 2 ranks, 2 replicas, 3 training steps, 6 sets of options, any two faults or changes of replicas or layouts | 154 thousand, 55 s |
| `ray_sync` | Are the step's weights loaded everywhere, is there one writer per host, do all workers answer? | 3 workers of 2 replicas on 2 hosts, 2 training steps, 2 faults | 162 thousand, 45 s |
| `ray_partial` | The same when the file takes longer than the wait. (A worker keeps its old weights.) | one slow file | violation |
| `buckets` | Do XCCL, with and without relays, and CNCL broadcast the weights unchanged and end? | 3 actors, 2 rollout workers, 2 syncs of three buckets and one | 96 thousand, 55 s |
| `read_chain` | Does the CNIXL chain hand on every bucket, without a buffer in two uses? | 3 rollout workers, 2 syncs, one failed transfer | 45 thousand, 20 s |
| `chain_of_one` | Does it work with one rollout worker? (No.) | one rollout worker | violation |
| `trainer` | Are steps exact whatever the transfers do, and saves recoverable wherever the job dies? | two groups, 3 + 1 chunks, 2 steps; 5 ranks (two reading slots), 3 saves, one restart, one flaky upload | 445 thousand, 120 s |
| `hosts` | Is what lives between syncs right: MoRI engines, XPU patches, TPU queries? | 3 workers, 5 syncs, 1 event; 2 workers, 2 threads; 3 processes | 142 thousand, 12 s |

*Why the bounds are enough.* Three buckets in two slots, or two buffers, are the least in
which one is used again; one more hop or stripe than in `mori_faults` gives every
relation between hops that `MoriSync` has. Two ranks are needed for a tpu-sync in which one
stages and one does not, two replicas for one that joins or leaves while another
stays; staging starts with the second sync to the same replicas, is overtaken by
training in the third, and joined by the next. In `RaySync`, w1 and w2 share a host but not a replica, and
w2 and w3 a replica but not a host: all relations of two workers. Three actors
give XCCL a sender, a relay and an idle actor; a second sync meets the buffers,
sockets and counts of the first. A chain of three has an agent that reads from and
is read by one that does both. Three chunks are more than there are staging
slots, and sets of active parameters shift chunks between slots. Five syncs let
enough peers leave that an engine is replaced, with a sync on both sides. The
inputs of `algorithms` have sizes that do and do not divide each other.

*Deadlock* is checked in every run but `algorithms`, where a behaviour is one
calculation and ends with its result. The other specifications end in explicit
steps of what has stopped.

*Properties that hold by excluding a fault.* `PausedWhileInstalling`, a part of `Sound`, fails if
`abort_replicas` fails (`abort`: the code logs it and installs into replicas that
generate, `tpu_sync_checkpoint_engine.py:825`). `ServesWhatItsTagSays` of `TpuSync` fails if a replica
joins while a sync ends in the background (`late`: the tail reads `manager.replicas`
again, line 926, and tags what it never sent), and if three faults make a
replica leave, come back under the name that the controller still knows, and find
no model to register: the barrier does not notice. `EverySyncEnds` of `buckets` fails for
CNCL with a late subscription (`LateOnes`: its first metadata are dropped).
`NumaBindingTakesEffect` of `XpuPatches` leaves out the moment at which a thread has
replaced `set_numa_affinity` and not yet rebound the importers
(`xpu/patches/numa_affinity_patch.py:314-315`): without `~Rebinding` TLC finds that a second
thread takes the patched function for the original, so that it rebinds nothing, marks the patch
and selects the platform; the engine worker, imported before, is then constructed with core's
function, although the docstring (lines 53 to 56) leaves that case to `_rebind_importers`. In `MoriSync` a failed
forward write of a middle holder ends nothing before the next bucket or
`timeout_s` (line 912), although `mori_checkpoint_engine.md` says that peers fail at once.
The runs leave these faults out, the theorems name them in their assumptions, and
the corresponding hazards name them too.

### Findings

* `ray_partial` (`tpu/weight_sync/ray_checkpoint_engine.py:596`): a sync succeeds if any worker loaded
  anything; a worker that gave up waiting keeps its old weights under the new tag.
* `chain_of_one` (`mlu/engines/cnixl_checkpoint_engine.py:294`): with one rollout worker
  `metadata[-rollout_world_size + 1:]` is the whole list; the worker is given a
  next agent and its own assertion fails.

## 5. Fairness

In `MoriSync`, `FairSpec` is `Spec /\ WF_vars(Progress)`: while any step of the coroutines,
the pump or the device is possible, one is taken. This is the weakest useful
assumption, and asyncio and the hardware give more (each ready coroutine is
run). `Progress` leaves out every spontaneous fault; a timeout belongs to it only after
something is already broken, as `asyncio.wait_for` ends such a wait. No strong
fairness is needed, because behaviours of one sync are finite.

`TpuSync` has the same form. Its `Progress` holds every action of the driver, the
ranks, the transfer and the workers: remote calls return or raise (the timeouts of Ray and of
the barrier), and `RankFails`, `TransferFails`, `InstallFails` are spontaneous. The training
loop is verl's and may wait for samples: it may take a step or begin the next sync at any time, but is
certain to (`LoopGoesOn`) only while every replica generates, or when it has trained its last step. So
`PausedEndsOrStops` cannot lean on the loop reaching its next join: a paused replica is resumed,
leaves, or the job stops, or the sync has ended with an error that the join will raise. And
`FailureSurfaces` says that such an error stops the job unless the loop waits for ever
for a replica that the error has left paused (`Starved`): the code has no other way to tell it
(`tpu_sync_checkpoint_engine.py:678`), and without that exception TLC finds the property violated.

In `RaySync` the same form says that workers and driver go on; a wait for the file
ends by its limit when no worker writes it any more.

In `buckets` and `read_chain` some step is taken while one is possible: threads and
device queues run, ZeroMQ delivers, a transfer ends (or fails, within
`MaxErrors`). The numbers of syncs and chunks are finite, so that weak fairness of the
whole step is enough. In `trainer` the engine's own steps and transfers, and the
ranks' file operations, are fair; killing the job and failing uploads are not.

## 6. Proofs

Each theorem holds for every value of the constants that satisfies the named
assumptions of its module, which TLC evaluates in the runs. Each rests on an
inductive invariant, named below, whose proof has one step per action of the
next-state relation; the invariant is a conjunction of named parts, and for the long
ones each part has a lemma of its own, which says which parts it needs.

### MoriSync

For every topology that satisfies `TopologyAssumption`, every number of slots from
2, every load, and every set and number of faults.

* `Shape` (types, and where each coroutine may stand) is inductive:
  `ShapeInvariant`, and from it `TypeCorrect`.
* `SlotDiscipline == Shape /\ Order /\ Exclusion` is inductive:
  `SlotDisciplineHolds`. `NoSlotOverwrittenInUse` alone is not inductive: it
  speaks of writes in flight, and a step that submits a write must know that
  the credit it holds means a free slot. `Exclusion` says so: a slot that is
  *granted* (its free message is under way, or its credit is set at a hop that
  was not aborted) has no item on its way and is not in use, and what is on its
  way into a slot is one item. For the steps that move an item from one stage to the
  next, `Order` says that the stages exclude each other, and that an item is neither ahead of
  the worker that sends it nor behind the one that takes it. From it:
  `SlotSafety` (`NoSlotOverwrittenInUse`) and `GuardedSafety` (`WrittenOnlyWhileGuarded`).
* `Delivery == SlotDiscipline /\ Contents /\ Accounts` is inductive: `DeliveryHolds`.
  `Contents` says what a slot holds at each place where somebody is going to read
  it: at the source of a write, in the air, at the target once the notification is
  there, in the hand of the coroutine, and unread by the consumer. A step that writes
  memory disturbs none of them, by `Exclusion`. `DeliveredInOrder` is a part of it
  (`InOrder`), since a read by the consumer returns what `UnreadHolds` names.
  `Accounts` is the book-keeping of success: a bucket that its sender has begun
  is under way, taken, or lost by a writer or receiver that failed; a release
  task outlives whatever uses its slot; so a worker that drained all its credits
  has had all its buckets read. From it: `Quiet` (`SuccessIsQuiet`).
* `BroadcastImplemented`: `ImplementsBroadcast`. The refinement mapping is in
  `MoriSync`; a `ReadDone` is a read in order, the last step of a worker's chains its
  success (`SuccessIsSucceed`, which needs `Accounts` before and `SuccessIsQuiet` after
  the step), `Fail` and its relatives a failure, and every other step a stutter.

### MoriEngines

For every pool, every bound and every sequence of syncs.
`WritesHaveBothEnds` is not inductive: to know that `prepare`, `close` and the end of a
process release no engine in use, one must know who can be the end of a write in
flight. `Life` says so: `Current` (the ends of a write are the engines that their
workers have now), `Quiet` (a usable worker outside a sync is the end of no
write; inside one, only the worker before it writes to it) and `LifePlaces` (a worker
whose sync has ended well has written, and so has the worker before it).
`Succeed` establishes `Quiet` through the drain and the wait for arrival; `Write`
keeps it because a hop that had ended well would have had this worker's writes
already. That a worker writes to engines there are now, `Life` does not say: it is the invariant
`HopsAreCurrent`, which `Connect` establishes and nothing within a sync touches. From both: `WritesKeepTheirEnds`.

### TpuSync

For all sets of ranks, replicas and options, every number of steps, and the
faults of `FaultsCovered`: no replica joins while a sync ends in the background,
no abort fails, and at most two faults if replicas may come back *and* a worker may
find no model (the runs' bound; section 4 says what happens otherwise). `TypeCorrect` needs
no such assumption. `Sound == TypeOK /\ Control /\ Trainer /\ Rollout` is inductive (`SoundHolds`).

* `Control`: there is one tail at most, it works for this sync's step and for the
  replicas there are, and calls run only while it waits for them. This is what the
  join of the background thread at the start of a sync gives.
* `Trainer`: what a transfer will read is of this sync and, if it was staged, laid
  out for this sync's replicas. It needs `PlanKept`: the plan in a live
  synchronizer is the one of the last transfer, so that `transferred = replicas`, which the
  driver tests, means that the staging layout fits.
* `Rollout`: what arrived is of this sync, or the norms will tell; an install
  writes what arrived, and where nobody was paused (the first sync of a job that starts
  afresh) it changes nothing. `ServesWhatItsTagSays` and
  `PausedWhileInstalling` are parts of it (`Serves`, `PausedForInstall`), and
  `SyncedAfterWait` follows from `Settled` (`SyncedAfter`).
* `PromiseKept`: `ImplementsPromise`, every step mapped to one of `RolloutVersions` or to
  a stutter.

### RaySync

For all sets of workers, replicas and hosts and every number of steps.

* `TypeCorrect`, from `TypeStep`.
* `OneWriter`: `Locked` is inductive. It says that a master has the lock of the running
  step, that two masters of a host are one worker, and that nobody is at work
  outside the load: the step, which names the lock, changes only then.
* `Serves`: `ServesWhatItsTagSays` under the assumption that `FaultKinds` has none of
  `Excluded`; with `slow`, `ray_partial` shows that it fails. The invariant is
  `Delivery`, four parts with one lemma each: `Files` (a file of a step up to this one
  holds that step), `Places` (what a worker has done where it stands, and that
  a lock has a living owner), `Loading` (in a load nobody has failed in, whoever
  has begun works on a host that is, or is about to be, without files of other
  steps, and whoever is done holds the step) and `After` (tags and parameters
  agree; replicas are paused). `Loading` is about loads without errors only:
  after an error a worker may give up and load nothing, but the sync then fails.
* `CacheIsCurrent`: `CacheOfTheseWeights`, with every fault of the model. `CacheKept` adds
  the moment between tagging and the end of the sync, in which replicas that
  already generate fill the cache that was cleared.

### XcclBroadcast and CnclBroadcast

For every number of actors, relays, rollout workers, chunks and syncs, and any set
of late subscribers. `BuffersOutliveBroadcasts` is not inductive: XCCL's executor queues
the sender's broadcasts behind its coroutine's back. `Kept` is, checked by TLC before it
was proved: `Pending` says that a worker with a broadcast that its executor has yet to queue
has not reached the last wait of its sync; `Bystanders` that an actor outside the
group, which ends without any wait, queues nothing but gathers; `Lists` that whatever arrives as
metadata is a list of chunks, so that the last swap of a rollout worker queues
copies behind an empty queue and no broadcast. From it: `NoneFreed`. One lemma
about a step of one worker (`Moved`) carries both engines.

`EveryChunkComes` is the refinement, `ImplementsBroadcast`: for any loads of chunks that fit a bucket
(`LoadsAssumption`) and any alignment (`AlignAssumption`), under XCCL whatever the cluster, and under CNCL where
no subscription comes late (`NoneLate`: XCCL's sender counts its subscribers before it sends, CNCL's does not, and
section 4 says what a late one does). Its invariant, `InOrder`, was checked by TLC as a state
predicate of this run before it was proved. It says that there is a *layout* of the chunks of the sync under way,
`z`, and how far every process has got in it (`Under`):

* The layout gives each chunk its bucket and its place there, and each bucket the last of its
  chunks. That there is one is an induction over the chunks
  (`LayoutGrows`, `PlanThere`), with each engine's own test of when a chunk still fits. `PlanIsNeat` has what the
  steps need of it: buckets are cut in the order of the chunks, two chunks of one bucket do not
  overlap, and all of a bucket lies within the length that is broadcast.
* `Sender`: F buckets handed over, P of them published and Q queued, E broadcast; m chunks put in line, f of them copied
  by the device. The numbers follow from where its coroutine and its executor stand (`XcclHost`, `CnclHost`).
  `Lined` is its device queue: the fills f + 1 to m and the broadcasts E + 1 to Q, each in order,
  no broadcast before a fill of its bucket, no fill before the broadcast of the bucket that it
  overwrites. In XCCL that order is in the queue, because the sender awaits the last broadcast's
  thread before it fills the same buffer; in CNCL no such fill and broadcast are queued together, because it
  waits for the device. `Filled` then says that the buffers hold the chunks.
* `Relay`: it walks the same generator, so it has queued as many broadcasts as the chunks that it pulled cut,
  and of the same lengths.
* `Taker`: a rollout worker has been through t buckets and has copied c chunks. The
  last two buckets that were broadcast are in its buffers (`Stored`); its queue is the copies of bucket t that
  are left (`Given`), with the broadcast of bucket t + 1 among them wherever the executor's
  thread happened to put it (`Asked`); and the messages P down to t are on their way (`Coming`).

A broadcast runs when it is the next one of every member, so that E is one number for all, and it brings the buffer
that every rollout worker gives (`BroadcastRuns`, `SenderCarries`, `TakerFed`): not the one that copies of
bucket t still read. A sync that has ended has nothing queued, so that the state after it is one from
which the layout of the next sync starts (`EndIsFresh`, `FreshIsReady`). A step then maps to
`Read` where a rollout worker's device copies a chunk, which `Taker` knows to be the next, to `Succeed` or `Fail` where a worker ends,
or to a stutter (`PromiseStep`).

### ReadChain

For every number of actors and rollout workers, every load of chunks that have
bytes, any number of syncs and any transfers that fail. `Chained` is
inductive (`ChainedStep`, with one lemma per part and a statement of what each kind of step does,
`SwapDoes`, `TransferDoes`, ...). Its parts:

* `Placed`, `Joined`: where the coroutines stand; an agent that has joined knows the
  neighbours that `build_topology` gives (`Topology`, which is where a chain of one is excluded: that
  worker is refused).
* `Bucket`: the sender's `send_buf` holds the chunks of its bucket, but for the fills that
  are still queued, at increasing offsets, so that no fill overwrites another chunk.
* `Loader`, `Reader`: a loader has had all chunks from the first in order, and the copies that are
  queued continue them from `send_buf`; what an agent reads goes into the other buffer.
* `Sent`, `InOnePlace`: a bucket that was announced stays in its buffer until the
  next agent has read it; meanwhile it is in exactly one place, as a message, as a read, or
  as a notification with the current key. It needs the keys: a stale
  notification would end the wait for another bucket.
* `Counted`: what one agent announced the next has taken, or has yet to; this carries the order of
  chunks down the chain.

`BuffersInOneUse` follows (`OneUse`): `Reader` and `Loader` separate the read from the agent's own
copies, `Sent` from the reads of the next agent.

`BucketsBroadcast` is the refinement. It counts buckets where `Chained` counts chunks (`Carried`, inductive
together with `Chained`). `PackedSoFar` ties the sender's offset to the packing of the chunks it has pulled, so that
`Opened`, the buckets it has announced, is known at every step: a bucket is cut exactly where
the packing opens the next, and a full one is never empty because every chunk fits.
`BalanceOf`: an agent has announced what it read, but for the bucket it is about to announce, and its
neighbour has read that, reads one of it, or has a letter of it. `LastOf`: a bucket that is flagged
as the last is the last of the sync wherever the flag has got to, and an agent that has ended has read
everything and so has the agent it feeds. That a transfer brings the bucket announced, and not
another or half of one, is `Sent` again (`TransferLands`); a failed transfer ends its reader, whose feeder
then waits for ever and so never reports success.

### TrainerCheckpoint

For every number of ranks, slots, kept checkpoints and restarts. `Consistent` is
inductive: the ranks train, save or load together and hold the same state
(`InStep`, `HaveTogether`); nothing on the disk is newer than the step at hand, and what is there of the
recorded step is what was recorded (`DiskOf`); the prune of rank 0 spares it, except with
one checkpoint to keep, when the next one is whole by then (`PruneOld`, `RecordKept`); and a
rank that is past its slot has read its shard (`Reading`). From it `CanRecover` (`Recoverable`) and
`ResumesWhatWasSaved` (`ResumesTheSave`). That the slots of reading take turns is
not needed for either.

### CpuMasterStep

`ExactSteps` is `StepsAreExact` for every partition of the parameters into groups and
chunks, every shape, any sets of gradients and any number of steps, in the three modes, with
events or without. It is about `StepSpec`, the optimizer step alone, of which `MCTrainer`'s
behaviours are instances. `StepsAreExact` says nothing of what is under way; the
inductive invariant, `Exact`, adds it for the time within a step (`Underway`):

* `Progress`: at most two chunks are sent and not stepped (`Sent`), so no two of them share a
  slot, and the CPU AdamW has the hyperparameters of the group at hand.
* `Values`: a parameter that is yet to be stepped (`Pending`) lacks one update, the one its
  gradient makes; any other has what is due, or the transfer that brings it is queued.
* `Outgoing`, `Incoming`, `Gradients`: the buffer of a queued weight holds what is due to
  its parameter; queued gradients are those of `Sent`, and each of these is queued or in
  its buffer.
* `InSlots`: with events, each transfer is behind the event of its slot, and no weights leave a
  slot that gradients were sent to. It is what the two waits (`Free`, `SlotArrived`) give, and what
  keeps a gradient from a buffer whose weights have not left.
* `HostOrder`: without events, weights leave before gradients come, since the device's
  queue runs in order.

The masters are stepped when every gradient of the chunk is in its buffer, in which
`Values` gives what is due; then the weights of the chunk are queued from these buffers, which no
other chunk of `Sent` has. `ChunksAssumption` says of `Chunks` what the proof uses: the chunks of a
group hold its parameters with a gradient, each once. That `SelectSeq` of such chunks does is an
induction over a sequence, which this prover does not do; TLC evaluates it for the
groups of the run. The lemmas `Behind` and `TakenFrom` say of any queue what it is after
transfers join it or one leaves it.

### TpuRuntime and XpuPatches

`QueriesMeet`, for every set of process ids without zero
(`ProcessesAssumption`), from the invariant `Beliefs`: a
cached answer is true of the process that it names, whoever's memory it was
copied from. `WorkersArePinned`, `AveragesAreDividedOnce` and `NumaBindingHolds`, for any number of
threads and workers, from `Patched`. `Selecting`: a thread other than the main one is in
`get_platform` between two constructors only. `Bindings`: each name is bound to the function itself or to a
patch of it, and so is what a thread has read. A wrapper of a wrapper does what one wrapper does
(`WrappedOnce`), because the outer one asks for a sum. `Reduced`: the patch is marked only when it is in
effect, and who is past it has seen it marked. `NumaBound`: the first thread to replace
`set_numa_affinity` has read core's, and a module that still has core's has it only until that thread
rebinds it. `PinKept`: a worker that is constructed is pinned, or a method that pins it is
still to be called.

### TpuTopology

`MeshesFitTheirPools`, for all clusters, driver's variables and sizes of pools of `TopologyAssumption`, any number of
pools and answers, and hosts that leave and join at any time. `TopologyInv` says that a pool's workers are
placed host by host (`IsPool`) and that what has been told is right for its pool (`RightFor`), which
pools made later cannot change. The ranks of a host follow each other, so that the number of
earlier ranks there is the remainder that the code adds to the port (`BlockOf`, `RanksOfHost`); a list of
addresses as long as the pool is the pool's, since the filtered ranks are then all of them, in
order (`AllInOrder`). The mesh has the pool's devices from whichever of its four origins it
comes (`TopologyFits`): every row of the tables is the product it stands for (`Tables`), and the two
cores of a v7x chip double the devices of GKE's topology (`DevicesAppend`).

### MoriRoles

`EveryNodeIsFedOnce`, for any number of trainers, stripes and rollout workers and any
placement on any nodes. The holders of a stripe are one worker of each node
(`HoldersAll`): `Members` and `NodeList` list what they should, each once, because the
places of the elements of a finite set under an order are 0, 1, ... (`Places`), and the
rotation of the nodes is one to one (`Rotation`). A set of workers that has the
first hop and the hops of its own members has the k-th holder for every k, by induction, and
with a holder its node (`StripeReaches`).

### RaggedDispatch

`EveryRowComesBack`, for any number of ranks, experts and routes, any capacity factor and
alignment, and every choice of the router. `DispatchInv` says after each of the steps what
the tables and the rows are, in terms of three ideas. In the order of the experts, the rows of a
rank that go to experts below v are its first `FirstOf(r, v)` (`FirstRows`), so that what
a peer is given is an interval, and what is kept of it the interval's beginning (`KeptIs`). The
sums of the kept counts, `Place(r, s)`, cut a rank's places into one interval per sender, none
beyond `RStatic` (`PlacesGrow`): every filled place has one sender and one row of it
(`OneSender`, `SourceIs`), every kept row one place (`KeptHasPlace`, `PlaceIsKept`). And sorting
the places by local expert (`Sorts`, `SortsBack`) puts the padding last and the experts' rows in
groups that end where the received counts say (`InGroups`, `GroupBounds`), although `SlotExpert` computes
the expert of a place from those counts and never from the row (`SlotsAre`). That the four tables
of offsets agree is then what one rank's writers being disjoint means (`WritersOf`), in the
exchange there (`RowsLand`) and back (`RowsReturn`), where an offset of nothing is 0 and
must not be written to.

### EntropyKernels

`EntropyGradientsAreWhole`, for tensors and tunings of any size (`WorksAssumption`: what a
call may be), in the four backward modes. The inductive invariant `GradInv` says for each place
of a rank's backward pass what is in the buffers when the programs that have ended have
done their tiles and no others. It rests on the numbering of the tiles: each tile of the
grid is met by some program (`GridCovers`), also in the last, shorter group of rows
(`DecodeCovers`) and with fewer tiles for the last program (`ShareCovers`). That atomic additions of
the fused kernel meet each product once is then a fact about sets: the product of a
token and a column belongs to one tile.

`LogprobsExact` is the forward pass, on any number of ranks. `LogInv` has a stage for the
call (one rank; several ranks before the maxima are reduced, while the sums are joined, and
after the sums are reduced) and, for each rank, what the programs that have ended left of
`partial`, `picked`, `joint` and `summed`. Of the loop over a split it is shown, by induction
over its blocks, that the sum stands for the columns so far relative to one of their logits and
that the label is met by one block (`BlockStep`, `SplitDone`); a masked column never gets into
a sum (`BlockTerms`), and no rescaling drops a term, because no two logits are as far apart as exp
underflows (`Rescaled`, `LogitsApart`). With several ranks each joins its splits at the greatest of
0 and the reduced maxima, which is one number on all ranks (`JoinStep`, `OneTop`): so the sums may be added.
That the main stream waits for the reduction of `_logprobs` is what makes `picked` whole in the last stage.

### Induction over data

The induction theorems of the library take an operator, which the provers do not
instantiate. `AlgorithmProofs` proves what it needs of them from the well-foundedness of
the numbers, stated of sets: a set of finite sets that has the empty one, and with a set also
any larger by one element, has them all (`FiniteSetsGrow`); likewise for numbers (`UpToSets`).

### Only model-checked

* Two of the seven properties of `algorithms`, `InstalledAsLoaded` and `ReplicasCounted`: they are about the tensors of
  two model families on given meshes, and a proof would be one case per tensor.
* The liveness properties: fairness and `ENABLED` are out of its reach.

## 7. Not modelled

`PROJECT.json` lists each part with its reason. In short: the construction,
sharding and compilation of models, batches and losses are numerical code, of
which TLA+ says nothing; profilers, plugin loading and the remaining platforms are
sequential adapters. Rounding, tensor dtypes and contents are left out everywhere.
Known gaps within modelled parts: the pruning of norms
(`tpu_sync_rendezvous.py:69`), the exact parity check of step 0, replicas that change in
`RaySync`, the tuning runs of Triton (one backward kernel is autotuned with
`atomic_add` and without `reset_to_zero`, `kernels_mlu.py:832`; it is not the default), the
override of chips per host and the driver's own TPU environment, and Megatron's
merger in the XPU patches. With `max_ckpt_to_keep = 1` the recorded checkpoint is
pruned before the driver records the new one; `Recoverable` then promises a whole
save, not the recorded one.
