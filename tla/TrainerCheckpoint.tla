-------------------------- MODULE TrainerCheckpoint --------------------------
(***************************************************************************)
(* The FP32 master checkpoints of the TorchTitan TPU engine: every rank    *)
(* writes its shard of a step, rank 0 prunes the oldest steps, and a       *)
(* restarted job loads the step that the driver (external) last recorded.  *)
(* The job may be killed between any two steps of any rank; what is on the *)
(* disk stays.                                                             *)
(***************************************************************************)
EXTENDS Integers, FiniteSets

CONSTANTS WorldSize, FirstStep,      \* the number of the first step that is saved
          Keeps,                     \* the values of max_ckpt_to_keep, 0 for None
          Flaky,                     \* the ranks whose uploads may fail
          LastStep, MaxRestarts      \* bounds: the last step, restarts of the job
ASSUME CheckpointAssumption == /\ WorldSize \in Nat \ {0} /\ FirstStep \in Nat \ {0} /\ Keeps \subseteq Nat
                               /\ Flaky \subseteq 0..WorldSize - 1 /\ LastStep \in Nat /\ MaxRestarts \in Nat

VARIABLES store,     \* "local" (a directory) or "gcs" (direct uploads)
          keep,      \* max_ckpt_to_keep
          at,        \* per rank: where it is in a save or a load
          have,      \* per rank: its training state: the step, and the run that computed it
          payload,   \* per rank: the shard that it has read
          tries,     \* per rank: upload attempts that failed
          slot,      \* the reading slot of a load
          disk,      \* the shards on the disk, by step and rank
          tmp,       \* the temporary files that were not yet put in place
          old,       \* the steps that rank 0 is removing
          run,       \* restarts so far
          recorded   \* the driver's latest saved step (latest_checkpointed_iteration), and the state it saved
ckptvars == <<store, keep, at, have, payload, tries, slot, disk, tmp, old, run, recorded>>

World == 0..WorldSize - 1
Steps == FirstStep..LastStep
None == [step |-> 0, run |-> 0]
All(where) == \A r \in World : at[r] = where
Move(r, where) == at' = [at EXCEPT ![r] = where]
Together(from, to) == All(from) /\ at' = [r \in World |-> to]

Shards(s) == {r \in World : disk[s][r] # None}
\* The step directories: one exists while it holds a shard, or a temporary file.
Found == {s \in Steps : Shards(s) # {} \/ \E r \in World : <<s, r>> \in tmp}

CkptInit ==
  /\ store \in {"local", "gcs"} /\ keep \in Keeps
  /\ at = [r \in World |-> "train"] /\ have = [r \in World |-> [step |-> FirstStep - 1, run |-> 0]]
  /\ payload = [r \in World |-> None] /\ tries = [r \in World |-> 0] /\ slot = 0
  /\ disk = [s \in Steps |-> [r \in World |-> None]] /\ tmp = {} /\ old = {}
  /\ run = 0 /\ recorded = None

-----------------------------------------------------------------------------
\* The ranks train a step together, and the driver has them save it.
TrainAndSave ==
  /\ Together("train", "write") /\ have[0].step < LastStep
  /\ have' = [r \in World |-> [step |-> have[r].step + 1, run |-> run]]
  /\ tries' = [r \in World |-> 0]
  /\ UNCHANGED <<store, keep, payload, slot, disk, tmp, old, run, recorded>>

\* _save_fp32_master_checkpoint: the shard goes to a temporary file ...
WriteTemporary(r) ==
  /\ at[r] = "write" /\ store = "local" /\ Move(r, "written")
  /\ tmp' = tmp \cup {<<have[r].step, r>>}
  /\ UNCHANGED <<store, keep, have, payload, tries, slot, disk, old, run, recorded>>
\* ... that is put in place in one go.
PutInPlace(r) ==
  /\ at[r] = "written"
  /\ disk' = [disk EXCEPT ![have[r].step][r] = have[r]] /\ tmp' = tmp \ {<<have[r].step, r>>}
  /\ Move(r, "shard")
  /\ UNCHANGED <<store, keep, have, payload, tries, slot, old, run, recorded>>
\* A bucket has no temporary file: the blob is there when its upload ends.
Upload(r) ==
  /\ at[r] = "write" /\ store = "gcs" /\ Move(r, "shard")
  /\ disk' = [disk EXCEPT ![have[r].step][r] = have[r]]
  /\ UNCHANGED <<store, keep, have, payload, tries, slot, tmp, old, run, recorded>>
\* An upload fails: three attempts, then the rank raises (and the job fails).
UploadFails(r) ==
  /\ at[r] = "write" /\ store = "gcs"
  /\ tries' = [tries EXCEPT ![r] = @ + 1]
  /\ IF tries[r] = 2 THEN Move(r, "raised") ELSE UNCHANGED at
  /\ UNCHANGED <<store, keep, have, payload, slot, disk, tmp, old, run, recorded>>

\* The checkpoints that max_ckpt_to_keep leaves no room for: all but the
\* newest, by the number in their names.
Oldest(found) == {s \in found : Cardinality({x \in found : x > s}) >= keep}
\* All shards are written (a barrier) before rank 0 prunes.
\* Mutant: rank 0 prunes when its own shard is written.
OwnShardWritten == at[0] = "shard"
ShardsWritten == All("shard")
StartPrune ==
  /\ ShardsWritten /\ at[0] = "shard" /\ Move(0, "prune")
  /\ old' = IF keep > 0 THEN Oldest(Found) ELSE {}
  /\ UNCHANGED <<store, keep, have, payload, tries, slot, disk, tmp, run, recorded>>

\* _prune_old_fp32_master_checkpoints: the files of an old step go one by one.
RemoveShard(s, r) ==
  /\ at[0] = "prune" /\ s \in old /\ r \in Shards(s)
  /\ disk' = [disk EXCEPT ![s][r] = None]
  /\ UNCHANGED <<store, keep, at, have, payload, tries, slot, tmp, old, run, recorded>>
Pruned ==
  /\ at[0] = "prune" /\ \A s \in old : Shards(s) = {}
  /\ Move(0, "pruned") /\ tmp' = {t \in tmp : t[1] \notin old}
  /\ old' = {}
  /\ UNCHANGED <<store, keep, have, payload, tries, slot, disk, run, recorded>>

\* The last barrier; the driver records the step once every rank has returned.
SaveEnds ==
  /\ at[0] = "pruned" /\ (\A r \in World \ {0} : at[r] = "shard") /\ at' = [r \in World |-> "train"]
  /\ recorded' = have[0]
  /\ UNCHANGED <<store, keep, have, payload, tries, slot, disk, tmp, old, run>>

-----------------------------------------------------------------------------
\* The job is killed, and started again by its user.
Restart ==
  /\ run < MaxRestarts /\ run' = run + 1 /\ slot' = 0 /\ old' = {}
  /\ payload' = [r \in World |-> None] /\ tries' = [r \in World |-> 0]
  /\ IF recorded = None
     THEN /\ at' = [r \in World |-> "train"]
          /\ have' = [r \in World |-> [step |-> FirstStep - 1, run |-> run + 1]]
     ELSE at' = [r \in World |-> "load"] /\ have' = [r \in World |-> None]
  /\ UNCHANGED <<store, keep, disk, tmp, recorded>>

\* _load_fp32_master_checkpoint: a rank without its shard raises before it joins the others.
FindShard(r) ==
  /\ at[r] = "load"
  /\ Move(r, IF disk[recorded.step][r] = None THEN "raised" ELSE "slots")
  /\ UNCHANGED <<store, keep, have, payload, tries, slot, disk, tmp, old, run, recorded>>

\* The ranks of a host read in two slots, with a barrier after each.
NumSlots == IF WorldSize + 3 < 8 THEN 1 ELSE 2
\* Mutant: as if a host had two ranks.
SlotOfTwo(r) == (r % 8) \div 2
SlotOf(r) == ((r % 8) \div 4) % NumSlots
ReadShard(r) ==
  /\ at[r] = "slots"
  /\ payload' = [payload EXCEPT ![r] = IF SlotOf(r) = slot THEN disk[recorded.step][r] ELSE @]
  /\ Move(r, "read")
  /\ UNCHANGED <<store, keep, have, tries, slot, disk, tmp, old, run, recorded>>
NextSlot ==
  /\ Together("read", IF slot + 1 < NumSlots THEN "slots" ELSE "apply")
  /\ slot' = slot + 1
  /\ UNCHANGED <<store, keep, have, payload, tries, disk, tmp, old, run, recorded>>

\* A rank that read nothing finds no world size in its payload and raises.
Apply(r) ==
  /\ at[r] = "apply"
  /\ Move(r, IF payload[r] = None THEN "raised" ELSE "loaded")
  /\ have' = [have EXCEPT ![r] = payload[r]]
  /\ UNCHANGED <<store, keep, payload, tries, slot, disk, tmp, old, run, recorded>>
Resume ==
  /\ Together("loaded", "train")
  /\ UNCHANGED <<store, keep, have, payload, tries, slot, disk, tmp, old, run, recorded>>

RankStep(r) ==
  WriteTemporary(r) \/ PutInPlace(r) \/ Upload(r) \/ FindShard(r) \/ ReadShard(r) \/ Apply(r)
Proceed ==
  \/ TrainAndSave \/ StartPrune \/ Pruned \/ SaveEnds \/ NextSlot \/ Resume
  \/ \E r \in World : RankStep(r)
  \/ \E s \in Steps, r \in World : RemoveShard(s, r)
CkptNext == Proceed \/ Restart \/ (\E r \in Flaky : UploadFails(r))
CkptSpec == CkptInit /\ [][CkptNext]_ckptvars

\* Once a save was recorded a whole checkpoint, all its shards of one run, is
\* on the disk whenever the job is killed; and it is the recorded one, unless
\* only one is kept (the prune precedes the record).
Whole(s) == disk[s][0] # None /\ \A r \in World : disk[s][r] = disk[s][0]
Recoverable ==
  recorded # None => (\E s \in Steps : Whole(s)) /\ (keep # 1 => Whole(recorded.step))

\* A job that trains has, on every rank, what the recorded save saved; and a
\* load finds every shard (only an upload that failed three times raises).
ResumesTheSave ==
  /\ All("train") /\ recorded # None => \A r \in World : have[r] = recorded
  /\ keep # 1 => \A r \in World : at[r] = "raised" => tries[r] = 3
=============================================================================
