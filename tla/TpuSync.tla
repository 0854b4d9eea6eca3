-------------------------------- MODULE TpuSync --------------------------------
(***************************************************************************)
(* The tpu-sync weight sync: the driver (update_tpu_sync_weights and the   *)
(* tail of a sync, which may run in the background while training goes     *)
(* on), the trainer ranks (send_weights, release_sync_buffers), the        *)
(* controller's transfer, and the rollout replicas (init, install).        *)
(* One action is the code between two awaits, one worker's part of a       *)
(* remote call, or one step of a transfer.  The weights are their version, *)
(* the number of training steps in them, one for each trainer rank's       *)
(* shard.  A replica stands for its tensor-parallel workers, which one     *)
(* collective_rpc calls together.                                          *)
(***************************************************************************)
EXTENDS Integers, FiniteSets

CONSTANTS Ranks,       \* the trainer ranks
          Replicas,    \* the rollout replicas that may be in manager.replicas
          LastStep,    \* bound: the number of training steps
          Options,     \* option records of the engine, see OptionsAssumption
          FaultKinds,  \* what may go wrong, or change, on its own
          MaxFaults    \* bound: how often

OptionNames == {"return_after_d2h", "d2h_future", "release", "unbind", "norms", "resumed"}

ASSUME OptionsAssumption ==
    /\ Options \subseteq [OptionNames -> BOOLEAN]
    \* A tpu_sync whose d2h() returns a future also has unbind_weights().
    /\ \A o \in Options : o["d2h_future"] => o["unbind"]
ASSUME SetsAssumption == Ranks # {} /\ Replicas # {} /\ Ranks \cap Replicas = {}
ASSUME BoundsAssumption == LastStep \in Nat \ {0} /\ MaxFaults \in Nat

None == -1        \* no version; no plan is {}
Garbage == -2     \* bytes that are no version: never written, wrong layout, damaged
Steps == 0..LastStep
Versions == Steps \cup {None, Garbage}
Units == Ranks \cup Replicas
NoSig == -1
Sigs == {0, 1}    \* the tensor layouts a rank may export
Tails == {"fore", "back"}

VARIABLES
  opt,          \* the options of this job
  faults,       \* faults so far
  (* the driver *)
  pc,           \* where the training loop is
  trained,      \* training steps done
  last,         \* global_steps of the last sync started
  replicas,     \* manager.replicas
  dst,          \* dst_units of the sync being called
  stageOn,      \* manager._tpu_sync_stage_d2h
  transferred,  \* manager._tpu_sync_transferred_dst_units
  future,       \* _BackgroundSync._future
  at,           \* at[c]: where the tail is, in the caller ("fore") or the background
  job,          \* job[c]: its step, dst_units and staged
  (* the trainer ranks *)
  rank,         \* rank[r]: where send_weights is, or what it returned
  sig,          \* sig[r]: the layout of the tensors the rank exports
  stage,        \* stage[r]: _stage_d2h
  ws,           \* ws[r]: the rank has a WeightSynchronizer
  regsig,       \* regsig[r]: _registered_signature
  plan,         \* plan[r]: the topology whose transfer plan the synchronizer holds
  bound,        \* bound[r]: version in the bound device buffers
  host,         \* host[r]: version in the host staging buffer, and the plan of its layout
  releasing,    \* ranks called to release_sync_buffers that have not returned
  (* rendezvous actor, controller *)
  shapes,       \* global_shapes is not empty
  posted,       \* <<step, rank>>: norms posted
  registered,   \* units registered with the controller
  xfer,         \* xfer[r]: what the transfer still has to do for the shard of r
  (* the rollout *)
  rpc,          \* rpc[p]: the collective_rpc running at replica p
  inited,       \* inited[p]: p has a WeightSynchronizer
  recv,         \* recv[p][r]: version of shard r in p's receive buffers
  params,       \* params[p][r]: version of shard r in p's parameters
  tag,          \* tag[p]: global_steps of p
  generating    \* generating[p]: p is not paused

run     == <<opt, trained>>
driver  == <<pc, last, dst, stageOn, transferred, future>>
tailv   == <<at, job>>
trainer == <<rank, stage, ws, regsig, plan, bound, host>>
wire    == <<shapes, posted, registered, xfer>>
rollout == <<rpc, inited, recv, params, tag, generating>>
vars == <<run, faults, driver, replicas, tailv, trainer, sig, releasing, wire, rollout>>

Fault(kind) == /\ kind \in FaultKinds /\ faults < MaxFaults
               /\ faults' = faults + 1

Whole(v) == [r \in Ranks |-> v]
\* What a replica starts with: a checkpoint, which is the trainer's own in a
\* job that starts afresh; a resumed job starts with trained weights.
Checkpoint == Whole(IF opt["resumed"] THEN None ELSE 0)

Init ==
    /\ opt \in Options /\ faults = 0
    /\ trained = IF opt["resumed"] THEN 1 ELSE 0
    /\ params = [p \in Replicas |-> Checkpoint]
    /\ pc = "trained" /\ last = None /\ dst = {} /\ stageOn = FALSE
    /\ replicas \in (SUBSET Replicas) \ {{}}
    /\ transferred = {} /\ future = "none"
    /\ at = [c \in Tails |-> "off"]
    /\ job = [c \in Tails |-> [step |-> None, dst |-> {}, staged |-> FALSE]]
    /\ rank = [r \in Ranks |-> "idle"] /\ sig = [r \in Ranks |-> 0]
    /\ stage = [r \in Ranks |-> FALSE] /\ ws = [r \in Ranks |-> FALSE]
    /\ regsig = [r \in Ranks |-> NoSig] /\ plan = [r \in Ranks |-> {}]
    /\ bound = [r \in Ranks |-> None]
    /\ host = [r \in Ranks |-> [v |-> Garbage, plan |-> {}]]
    /\ releasing = {} /\ shapes = FALSE /\ posted = {} /\ registered = {}
    /\ xfer = [r \in Ranks |-> "off"]
    /\ rpc = [p \in Replicas |-> "none"] /\ inited = [p \in Replicas |-> FALSE]
    /\ recv = [p \in Replicas |-> Whole(Garbage)]
    /\ tag = [p \in Replicas |-> None] /\ generating = [p \in Replicas |-> TRUE]

--------------------------------------------------------------------------------
(* The training loop, outside a sync. *)

\* A training step writes the parameters in place; a bound buffer may share
\* their storage.
Train == /\ pc \in {"train", "validate"} /\ trained < LastStep
         /\ trained' = trained + 1 /\ pc' = "trained"
         /\ bound' = [r \in Ranks |-> IF bound[r] = None THEN None ELSE trained + 1]
         /\ UNCHANGED <<opt, faults, last, dst, stageOn, transferred, future, replicas, tailv,
                        rank, stage, ws, regsig, plan, host, sig, releasing, wire, rollout>>

\* The layout of what a rank exports changes between two syncs.
Relayout(r) == /\ pc = "trained" /\ Fault("relayout")
               /\ sig' = [sig EXCEPT ![r] = 1 - sig[r]]
               /\ UNCHANGED <<run, driver, replicas, tailv, trainer, releasing, wire, rollout>>

\* Replicas come and go between two syncs; with "late" also while the previous
\* sync is finishing in the background.
Elastic == /\ pc = "trained" /\ Fault("elastic")
           /\ future = "pending" => "late" \in FaultKinds

AddReplica(p) ==
    /\ Elastic /\ p \notin replicas /\ rpc[p] = "none"
    /\ replicas' = replicas \cup {p}
    /\ inited' = [inited EXCEPT ![p] = FALSE]
    /\ recv' = [recv EXCEPT ![p] = Whole(Garbage)]
    /\ params' = [params EXCEPT ![p] = Checkpoint]
    /\ tag' = [tag EXCEPT ![p] = None]
    /\ generating' = [generating EXCEPT ![p] = TRUE]
    /\ UNCHANGED <<run, driver, tailv, trainer, sig, releasing, wire, rpc>>

RemoveReplica(p) ==
    /\ Elastic /\ p \in replicas /\ replicas # {p}
    /\ replicas' = replicas \ {p}
    /\ UNCHANGED <<run, driver, tailv, trainer, sig, releasing, wire, rollout>>

\* wait_for_weight_update, before validation and before the loop exits.
BeginWait == /\ pc = "train" /\ pc' = "wait"
             /\ UNCHANGED <<run, faults, last, dst, stageOn, transferred, future, replicas,
                            tailv, trainer, sig, releasing, wire, rollout>>

\* update_weights of the manager, after a training step.
BeginSync == /\ pc = "trained" /\ pc' = "join"
             /\ UNCHANGED <<run, faults, last, dst, stageOn, transferred, future, replicas,
                            tailv, trainer, sig, releasing, wire, rollout>>

--------------------------------------------------------------------------------
(* The driver: update_tpu_sync_weights. *)

(* Beside some operators stand broken forms, which no specification uses:  *)
(* each is a mistake that a property of this module excludes.              *)

\* Broken: the sync does not wait for the one before.
JoinSkipped == TRUE

\* join(): the tail of the previous sync, if there is one, has ended.
PreviousEnded == future # "pending"

\* Broken: the error of the background part is dropped.
ErrorDropped == FALSE

\* It ended with an error, which stops the job.
PreviousFailed == future = "error"

Joined(next) == /\ PreviousEnded
                /\ future' = "none"
                /\ pc' = IF PreviousFailed THEN "failed" ELSE next

WaitDone == /\ pc = "wait" /\ Joined("validate")
            /\ UNCHANGED <<run, faults, last, dst, stageOn, transferred, replicas,
                           tailv, trainer, sig, releasing, wire, rollout>>

JoinFails == /\ pc = "join" /\ PreviousFailed /\ Joined("send")
             /\ UNCHANGED <<run, faults, last, dst, stageOn, transferred, replicas,
                            tailv, trainer, sig, releasing, wire, rollout>>

\* Broken: the units of the last transfer are not compared.
StageAlways == opt["return_after_d2h"]

\* The ranks may stage their weights when the last transfer was to the same units.
StageWanted == opt["return_after_d2h"] /\ transferred = replicas

\* Call set_stage_d2h at every rank, if it changes, and then send_weights.
CallSend ==
    /\ pc = "join" /\ ~PreviousFailed /\ Joined("send")
    /\ dst' = replicas /\ last' = trained
    /\ stageOn' = StageWanted
    /\ stage' = IF StageWanted # stageOn THEN [r \in Ranks |-> StageWanted] ELSE stage
    /\ rank' = [r \in Ranks |-> "called"]
    /\ UNCHANGED <<run, faults, transferred, replicas, tailv, ws, regsig, plan, bound, host, sig,
                   releasing, wire, rollout>>

AllSent == \A r \in Ranks : rank[r] \in {"sent", "staged"}
StagedRanks == {r \in Ranks : rank[r] = "staged"}
\* Broken: some ranks may have staged and some not.
MixedStaging == TRUE
StagedAlike == StagedRanks \in {{}, Ranks}

\* A rank raised, or only some of the ranks staged their weights.
SendFails == /\ pc = "send"
             /\ \/ \E r \in Ranks : rank[r] = "error"
                \/ AllSent /\ ~StagedAlike
             /\ pc' = "failed"
             /\ UNCHANGED <<run, faults, last, dst, stageOn, transferred, future, replicas,
                            tailv, trainer, sig, releasing, wire, rollout>>

StartTail(c) ==
    /\ at' = [at EXCEPT ![c] = "init"]
    /\ job' = [job EXCEPT ![c] = [step |-> trained, dst |-> dst, staged |-> c = "back"]]
    /\ rank' = [r \in Ranks |-> "idle"]

\* Not staged: the caller awaits the tail.
TailInCaller == /\ pc = "send" /\ AllSent /\ StagedAlike /\ StagedRanks = {}
                /\ at["fore"] = "off" /\ StartTail("fore")
                /\ pc' = "tail"
                /\ UNCHANGED <<run, faults, last, dst, stageOn, transferred, future, replicas, stage,
                               ws, regsig, plan, bound, host, sig, releasing, wire, rollout>>

\* Staged: the tail is submitted to the background thread and training goes on.
TailInBackground == /\ pc = "send" /\ AllSent /\ StagedAlike /\ StagedRanks # {}
                    /\ at["back"] = "off" /\ StartTail("back")
                    /\ pc' = "train" /\ future' = "pending"
                    /\ UNCHANGED <<run, faults, last, dst, stageOn, transferred, replicas, stage,
                                   ws, regsig, plan, bound, host, sig, releasing, wire, rollout>>

--------------------------------------------------------------------------------
(* A trainer rank: send_weights. *)

\* The live synchronizer was created for tensors of the same layout.
Rebound(r) == ws[r] /\ sig[r] = regsig[r]

\* The rank makes the copy to the host itself and gives its device buffers back.
StagesItself(r) == stage[r] /\ opt["d2h_future"]

Bind(r) ==
    /\ rank[r] = "called" /\ Rebound(r)
    /\ bound' = [bound EXCEPT ![r] = trained]
    /\ rank' = [rank EXCEPT ![r] = IF StagesItself(r) THEN "copying" ELSE "bound"]
    /\ UNCHANGED <<run, faults, driver, replicas, tailv, stage, ws, regsig, plan, host, sig,
                   releasing, wire, rollout>>

\* _create_and_register: a new synchronizer has no plan yet.  That its shapes
\* cannot be recorded is only logged.
Recreate(r) ==
    /\ rank[r] = "called" /\ ~Rebound(r)
    /\ ws' = [ws EXCEPT ![r] = TRUE] /\ regsig' = [regsig EXCEPT ![r] = sig[r]]
    /\ plan' = [plan EXCEPT ![r] = {}]
    /\ host' = [host EXCEPT ![r] = [v |-> Garbage, plan |-> {}]]
    /\ bound' = [bound EXCEPT ![r] = trained]
    /\ registered' = registered \cup {r}
    /\ \/ shapes' = TRUE /\ UNCHANGED faults
       \/ Fault("shapes") /\ UNCHANGED shapes
    /\ rank' = [rank EXCEPT ![r] = "bound"]
    /\ UNCHANGED <<run, driver, replicas, tailv, stage, sig, releasing, posted, xfer, rollout>>

\* The device-to-host copy has ended.  Its layout is that of the plan that the
\* synchronizer holds.
CopiedToHost(r) ==
    /\ rank[r] = "copying"
    /\ host' = [host EXCEPT ![r] = [v |-> bound[r], plan |-> plan[r]]]
    /\ rank' = [rank EXCEPT ![r] = "copied"]
    /\ UNCHANGED <<run, faults, driver, replicas, tailv, stage, ws, regsig, plan, bound, sig,
                   releasing, wire, rollout>>

\* Post the norms (a failure is only logged) and return.
Unbinds(r) == rank[r] = "copied"

Return(r) ==
    /\ rank[r] \in {"bound", "copied"}
    /\ \/ posted' = (IF opt["norms"] THEN posted \cup {<<trained, r>>} ELSE posted)
          /\ UNCHANGED faults
       \/ opt["norms"] /\ Fault("stats") /\ UNCHANGED posted
    /\ bound' = IF Unbinds(r) THEN [bound EXCEPT ![r] = None] ELSE bound
    /\ rank' = [rank EXCEPT ![r] = IF rank[r] = "copied" THEN "staged" ELSE "sent"]
    /\ UNCHANGED <<run, driver, replicas, tailv, stage, ws, regsig, plan, host, sig, releasing,
                   shapes, registered, xfer, rollout>>

\* Registration or the copy raises.
RankFails(r) ==
    /\ rank[r] \in {"called", "copying"} /\ Fault("send")
    /\ rank' = [rank EXCEPT ![r] = "error"]
    /\ UNCHANGED <<run, driver, replicas, tailv, stage, ws, regsig, plan, bound, host, sig,
                   releasing, wire, rollout>>

\* What a rank's binding is once its buffers are freed.
Freed == None

\* release_sync_buffers; without unbind_weights it destroys the synchronizer.
ReleaseBuffers(r) ==
    /\ r \in releasing /\ releasing' = releasing \ {r}
    /\ IF ~opt["release"] \/ ~ws[r] THEN UNCHANGED <<bound, ws, regsig, host, plan>>
       ELSE /\ bound' = [bound EXCEPT ![r] = Freed]
            /\ IF opt["unbind"] THEN UNCHANGED <<ws, regsig, host, plan>>
               ELSE /\ ws' = [ws EXCEPT ![r] = FALSE]
                    /\ regsig' = [regsig EXCEPT ![r] = NoSig]
                    /\ host' = [host EXCEPT ![r] = [v |-> Garbage, plan |-> {}]]
                    /\ plan' = [plan EXCEPT ![r] = {}]
    /\ UNCHANGED <<run, faults, driver, replicas, tailv, rank, stage, sig, wire, rollout>>

--------------------------------------------------------------------------------
(* The tail of a sync: _finish_tpu_sync. *)

Goto(c, place) == at' = [at EXCEPT ![c] = place]

\* Broken: the background part ends as if it had succeeded.
TailErrorLost(c) ==
    /\ Goto(c, "off")
    /\ IF c = "fore" THEN pc' = "failed" /\ UNCHANGED future
                     ELSE future' = "ok" /\ UNCHANGED pc

\* An error ends the tail; in the background the future keeps it.
TailFails(c) ==
    /\ Goto(c, "off")
    /\ IF c = "fore" THEN pc' = "failed" /\ UNCHANGED future
                     ELSE future' = "error" /\ UNCHANGED pc

\* collective_rpc at every replica; the gather waits for all, or for an error.
Call(method) == rpc' = [p \in Replicas |-> IF p \in replicas THEN method ELSE rpc[p]]
AllAnswered == \A p \in Replicas : rpc[p] = "none"

InitRollout(c) ==
    /\ at[c] = "init" /\ Goto(c, "initing")
    /\ Call("init")
    /\ UNCHANGED <<run, faults, driver, job, replicas, trainer, sig, releasing, wire,
                   inited, recv, params, tag, generating>>

\* init_tpu_sync_on_worker: the first call allocates and registers.
WorkerInit(p) ==
    /\ rpc[p] = "init"
    /\ \/ inited[p] /\ rpc' = [rpc EXCEPT ![p] = "none"]
          /\ UNCHANGED <<faults, inited, registered>>
       \/ ~inited[p] /\ shapes /\ rpc' = [rpc EXCEPT ![p] = "none"]
          /\ inited' = [inited EXCEPT ![p] = TRUE] /\ registered' = registered \cup {p}
          /\ UNCHANGED faults
       \/ ~inited[p] /\ ~shapes /\ rpc' = [rpc EXCEPT ![p] = "error"]
          /\ UNCHANGED <<faults, inited, registered>>
       \/ ~inited[p] /\ Fault("init")   \* no model found (returns), or an error
          /\ \E answer \in {"none", "error"} : rpc' = [rpc EXCEPT ![p] = answer]
          /\ UNCHANGED <<inited, registered>>
    /\ UNCHANGED <<run, driver, replicas, tailv, trainer, sig, releasing, shapes, posted, xfer,
                   recv, params, tag, generating>>

InitDone(c) ==
    /\ at[c] = "initing" /\ AllAnswered /\ Goto(c, "barrier")
    /\ UNCHANGED <<run, faults, driver, job, replicas, trainer, sig, releasing, wire, rollout>>

\* The gather raises the first error; the other calls go on.
CallFails(c) ==
    /\ at[c] \in {"initing", "installing"} /\ \E p \in Replicas : rpc[p] = "error"
    /\ rpc' = [p \in Replicas |-> IF rpc[p] = "error" THEN "none" ELSE rpc[p]]
    /\ TailFails(c)
    /\ UNCHANGED <<run, faults, last, dst, stageOn, transferred, job, replicas, trainer, sig,
                   releasing, wire, inited, recv, params, tag, generating>>

AllRegistered(c) == Ranks \cup job[c].dst \subseteq registered

\* _wait_for_registration, and the start of the transfer.
Barrier(c) ==
    /\ at[c] = "barrier" /\ AllRegistered(c) /\ Goto(c, "transfer")
    /\ xfer' = Whole(IF job[c].staged THEN "host" ELSE "device")
    /\ UNCHANGED <<run, faults, driver, job, replicas, trainer, sig, releasing,
                   shapes, posted, registered, rollout>>

BarrierTimesOut(c) ==
    /\ at[c] = "barrier" /\ ~AllRegistered(c) /\ TailFails(c)
    /\ UNCHANGED <<run, faults, last, dst, stageOn, transferred, job, replicas, trainer, sig,
                   releasing, wire, rollout>>

\* The transfer makes the plan for these units and copies rank r's shard to its host.
ReadDevice(c, r) ==
    /\ at[c] = "transfer" /\ xfer[r] = "device"
    /\ host' = [host EXCEPT ![r] = [v |-> bound[r], plan |-> job[c].dst]]
    /\ xfer' = [xfer EXCEPT ![r] = "host"]
    /\ UNCHANGED <<run, faults, driver, replicas, tailv, rank, stage, ws, regsig, plan, bound,
                   sig, releasing, shapes, posted, registered, rollout>>

\* The norms of the received tensors are compared after this sync.
NormsChecked(c) == opt["norms"] /\ job[c].step > 0

\* What the receivers make of the bytes of r's staging buffer.
Received(c, r) == IF host[r].plan = job[c].dst THEN host[r].v ELSE Garbage

PushShard(c, r) ==
    /\ at[c] = "transfer" /\ xfer[r] = "host"
    /\ xfer' = [xfer EXCEPT ![r] = "off"]
    /\ \E v \in {Received(c, r), Garbage} :
          \* Bound: damage only where the norms are checked; nothing else could tell.
          /\ IF v = Received(c, r) THEN UNCHANGED faults ELSE NormsChecked(c) /\ Fault("damage")
          /\ recv' = [p \in Replicas |->
                        IF p \in job[c].dst /\ inited[p] THEN [recv[p] EXCEPT ![r] = v]
                                                         ELSE recv[p]]
    /\ UNCHANGED <<run, driver, replicas, tailv, trainer, sig, releasing, shapes, posted,
                   registered, rpc, inited, params, tag, generating>>

TransferFails(c) ==
    /\ at[c] = "transfer" /\ Fault("transfer") /\ TailFails(c)
    /\ xfer' = Whole("off")
    /\ UNCHANGED <<run, last, dst, stageOn, transferred, job, replicas, trainer, sig, releasing,
                   shapes, posted, registered, rollout>>

TransferOver == \A r \in Ranks : xfer[r] = "off"

\* The plan is cached; ranks that did not stage are called to free their buffers.
TransferDone(c) ==
    /\ at[c] = "transfer" /\ TransferOver /\ Goto(c, "quiesce")
    /\ transferred' = job[c].dst
    /\ plan' = Whole(job[c].dst)
    /\ releasing' = IF job[c].staged THEN {} ELSE Ranks
    /\ UNCHANGED <<run, faults, pc, last, dst, stageOn, future, job, replicas, rank, stage, ws,
                   regsig, bound, host, sig, wire, rollout>>

\* _quiesce_rollout, and the start of the install.  A failed abort is only logged.
Pauses(c) == job[c].step > 0

Quiesce(c) ==
    /\ at[c] = "quiesce" /\ Goto(c, "installing")
    /\ \E left \in SUBSET replicas :
          /\ IF left = {} THEN UNCHANGED faults ELSE Pauses(c) /\ Fault("abort")
          /\ generating' = [p \in Replicas |->
                generating[p] /\ ~(Pauses(c) /\ p \in replicas \ left)]
    /\ Call("install")
    /\ UNCHANGED <<run, driver, job, replicas, trainer, sig, releasing, wire, inited, recv,
                   params, tag>>

\* install_tpu_sync_weights.  While it runs the parameters hold parts of both
\* versions; without a synchronizer it does nothing.
InstallBegins(p) ==
    /\ rpc[p] = "install"
    /\ IF ~inited[p]
       THEN rpc' = [rpc EXCEPT ![p] = "none"] /\ UNCHANGED params
       ELSE /\ rpc' = [rpc EXCEPT ![p] = "installing"]
            /\ params' = [params EXCEPT ![p] = [r \in Ranks |->
                            IF params[p][r] = recv[p][r] THEN recv[p][r] ELSE Garbage]]
    /\ UNCHANGED <<run, faults, driver, replicas, tailv, trainer, sig, releasing, wire, inited,
                   recv, tag, generating>>

InstallEnds(p) ==
    /\ rpc[p] = "installing" /\ rpc' = [rpc EXCEPT ![p] = "none"]
    /\ params' = [params EXCEPT ![p] = recv[p]]
    /\ UNCHANGED <<run, faults, driver, replicas, tailv, trainer, sig, releasing, wire, inited,
                   recv, tag, generating>>

InstallFails(p) ==
    /\ rpc[p] \in {"install", "installing"} /\ Fault("install")
    /\ rpc' = [rpc EXCEPT ![p] = "error"]
    /\ UNCHANGED <<run, driver, replicas, tailv, trainer, sig, releasing, wire, inited, recv,
                   params, tag, generating>>

\* set_global_steps at every replica.
Installed(c) == at[c] = "installing" /\ AllAnswered

TagReplicas(c) ==
    /\ Installed(c) /\ Goto(c, "parity")
    /\ tag' = [p \in Replicas |-> IF p \in replicas THEN job[c].step ELSE tag[p]]
    /\ UNCHANGED <<run, faults, driver, job, replicas, trainer, sig, releasing, wire, rpc, inited,
                   recv, params, generating>>

\* Broken: a failed check is only logged.
ParityLogged(c) == TRUE

\* verify_rollout_parity: every rank's norms, and the tensors that each replica
\* received match them.
ParityHolds(c) ==
    NormsChecked(c) =>
        /\ \A r \in Ranks : <<job[c].step, r>> \in posted
        /\ \A p \in replicas : inited[p] /\ recv[p] = Whole(job[c].step)

\* The check passes, or is off, and generation is resumed.
ResumeRollout(c) ==
    /\ at[c] = "parity" /\ ParityHolds(c) /\ Goto(c, "releasing")
    /\ generating' = [p \in Replicas |-> generating[p] \/ p \in replicas]
    /\ UNCHANGED <<run, faults, driver, job, replicas, trainer, sig, releasing, wire, rpc, inited,
                   recv, params, tag>>

ParityFails(c) ==
    /\ at[c] = "parity" /\ ~ParityHolds(c) /\ TailFails(c)
    /\ UNCHANGED <<run, faults, last, dst, stageOn, transferred, job, replicas, trainer, sig,
                   releasing, wire, rollout>>

\* The ranks have freed their buffers.
Released(c) == releasing = {}

TailEnds(c) ==
    /\ at[c] = "releasing" /\ Released(c) /\ Goto(c, "off")
    /\ IF c = "fore" THEN pc' = "train" /\ UNCHANGED future
                     ELSE future' = "ok" /\ UNCHANGED pc
    /\ UNCHANGED <<run, faults, last, dst, stageOn, transferred, job, replicas, trainer, sig,
                   releasing, wire, rollout>>

--------------------------------------------------------------------------------

\* The training loop, which is verl's, may train or validate at any time, but is
\* certain to go on only while no replica keeps it waiting, or at its end.
Loop == Train \/ BeginWait
LoopGoesOn == \/ Train /\ \A p \in replicas : generating[p]
              \/ BeginWait /\ trained = LastStep

Driver == BeginSync \/ WaitDone \/ JoinFails \/ CallSend \/ SendFails
          \/ TailInCaller \/ TailInBackground
Rank(r) == Bind(r) \/ Recreate(r) \/ CopiedToHost(r) \/ Return(r) \/ ReleaseBuffers(r)
Tail(c) == \/ InitRollout(c) \/ InitDone(c) \/ CallFails(c) \/ Barrier(c) \/ BarrierTimesOut(c)
           \/ \E r \in Ranks : ReadDevice(c, r) \/ PushShard(c, r)
           \/ TransferDone(c) \/ Quiesce(c) \/ TagReplicas(c) \/ ResumeRollout(c)
           \/ ParityFails(c) \/ TailEnds(c)
Worker(p) == WorkerInit(p) \/ InstallBegins(p) \/ InstallEnds(p)

\* What the code and the hardware do of their own accord.
Progress == \/ Driver
            \/ \E r \in Ranks : Rank(r)
            \/ \E c \in Tails : Tail(c)
            \/ \E p \in Replicas : Worker(p)

\* What may go wrong or change.
Upset == \/ \E r \in Ranks : Relayout(r) \/ RankFails(r)
         \/ \E c \in Tails : TransferFails(c)
         \/ \E p \in Replicas : AddReplica(p) \/ RemoveReplica(p) \/ InstallFails(p)

\* An exception has stopped the training loop, or it has ended.
Stopped == /\ \/ pc = "failed"
              \/ pc = "validate" /\ trained = LastStep
           /\ UNCHANGED vars

Next == Loop \/ Progress \/ Upset \/ Stopped
Spec == Init /\ [][Next]_vars
FairSpec == Spec /\ WF_vars(Progress \/ LoopGoesOn)

--------------------------------------------------------------------------------
(* Properties. *)

\* A replica that generates uses one version of the weights, and its tag says
\* which (a replica without a tag has had no sync).
ServesWhatItsTagSays ==
    \A p \in replicas : generating[p] /\ tag[p] # None => params[p] = Whole(tag[p])

\* From step 1 on, no replica generates while weights are installed in it or
\* while they wait for the parity check.
PausedWhileInstalling ==
    \A c \in Tails : at[c] \in {"installing", "parity"} /\ job[c].step > 0 =>
        \A p \in replicas : ~generating[p]

\* After wait_for_weight_update every replica generates with the weights of the last sync.
SyncedAfterWait ==
    pc = "validate" => \A p \in replicas : generating[p] /\ params[p] = Whole(last)

\* The training loop may be waiting for samples of a replica that is paused.
Starved == pc = "train" /\ \E p \in replicas : ~generating[p]

\* A replica that is paused is resumed, or leaves, or the job stops, or an error
\* is there for the next join to raise; the training loop, which may be waiting
\* for this very replica, does not have to do anything for it.
PausedEndsOrStops ==
    \A p \in Replicas : (p \in replicas /\ ~generating[p])
                          ~> \/ generating[p] \/ p \notin replicas
                             \/ pc = "failed" \/ future = "error"

\* An error of the background part reaches the training loop, unless this waits
\* for ever for samples of a replica that the error has left paused.
FailureSurfaces == [](future = "error" => <>(pc = "failed" \/ []Starved))

\* The version of the parameters f of a replica, for the abstract specification.
Version(f) == IF \E v \in Steps \cup {None} : f = Whole(v)
              THEN CHOOSE v \in Steps \cup {None} : f = Whole(v) ELSE Garbage
Promise == INSTANCE RolloutVersions WITH published <- last, open <- generating,
                                         holds <- [p \in Replicas |-> Version(params[p])]

\* The sync implements the promise.
ImplementsPromise == Promise!Spec
================================================================================
