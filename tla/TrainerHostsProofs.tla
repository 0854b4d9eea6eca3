------------------------- MODULE TrainerHostsProofs -------------------------
(***************************************************************************)
(* Theorems about a worker's own life, between the syncs of the weights.   *)
(*                                                                         *)
(* TrainerCheckpoint, for every number of ranks, every max_ckpt_to_keep    *)
(* and every moment at which the job is killed: a recorded save can be     *)
(* loaded again, and what a load resumes is it.                            *)
(*                                                                         *)
(* CpuMasterStep, for every partition of the parameters: each step gives   *)
(* every parameter its own update, whatever order the device makes the     *)
(* transfers in.                                                           *)
(*                                                                         *)
(* MoriEngines, for every pool of workers, however often its members fail, *)
(* are recreated, closed or get a new engine: a write in flight has both   *)
(* its ends.                                                               *)
(*                                                                         *)
(* TpuRuntime and XpuPatches: a query of a TPU host's process meets a      *)
(* runtime exactly when the process has one, for any number of processes   *)
(* and forks; and the patches of an XPU platform take effect once, and pin *)
(* every worker to Ray's device, for any number of threads and workers.    *)
(*                                                                         *)
(* TpuTopology, whatever the hosts and the driver's variables are, and     *)
(* however hosts leave and join: each worker is told its own place.        *)
(***************************************************************************)
EXTENDS TrainerCheckpoint, CpuMasterStep, MoriEngines, TpuRuntime, XpuPatches, TpuTopology,
        FiniteSetTheorems, WellFoundedInduction, TLAPS

Saves == {"write", "written", "shard", "prune", "pruned", "raised"}
Loads == {"load", "slots", "read", "apply", "loaded", "raised"}
Saving  == \A r \in World : at[r] \in Saves
Loading == \A r \in World : at[r] \in Loads
States == [step : Nat, run : Nat]

Types ==
  /\ store \in {"local", "gcs"} /\ keep \in Nat
  /\ at \in [World -> Saves \cup Loads \cup {"train"}]
  /\ have \in [World -> States] /\ payload \in [World -> States]
  /\ tries \in [World -> 0..3] /\ slot \in Nat
  /\ disk \in [Steps -> [World -> States]] /\ tmp \subseteq Steps \X World /\ old \subseteq Steps
  /\ run \in Nat /\ recorded \in States /\ (recorded # None => recorded.step \in Steps)

\* The step that the save at hand writes, or the next one will.
Coming == IF recorded = None THEN FirstStep ELSE recorded.step + 1

\* The ranks train, save or load together; rank 0 prunes when the others wait.
InStep ==
  /\ All("train") \/ Saving \/ Loading
  /\ \A r \in World : at[r] \in {"prune", "pruned"} => r = 0
  /\ at[0] \in {"prune", "pruned"} => \A r \in World \ {0} : at[r] = "shard"
  /\ \A r \in World : at[r] = "written" => store = "local"

\* All ranks have the same state: the recorded one when they train, and the next
\* one of this run when they save, which is on the disk once a rank has written it.
HaveTogether ==
  /\ All("train") => \A r \in World : IF recorded = None THEN have[r] = have[0] /\ have[r].step = FirstStep - 1
                                                         ELSE have[r] = recorded
  /\ \A r \in World :
       /\ at[r] \in Saves \ {"raised"} => Coming \in Steps /\ have[r] = [step |-> Coming, run |-> run]
       /\ at[r] \in {"shard", "prune", "pruned"} => disk[Coming][r] = have[r]

\* Nothing on the disk is newer than that step, or claims another step than its
\* directory's; what is there of the recorded step is what was recorded.
DiskOf ==
  /\ \A s \in Steps, r \in World : disk[s][r] # None => s <= Coming /\ disk[s][r].step = s
  /\ \A t \in tmp : t[1] <= Coming
  /\ recorded # None => \A r \in World : disk[recorded.step][r] \in {None, recorded}

\* Only steps before that one are pruned, and with more than one to keep not
\* the recorded one.
PruneOld ==
  /\ old # {} => at[0] = "prune"
  /\ \A s \in old : s < Coming
  /\ keep # 1 /\ recorded # None => recorded.step \notin old

\* The recorded step is on the disk; with one to keep it goes when the next is
\* complete, and a load that finds it gone does not get past its first barrier.
RecordKept ==
  recorded # None =>
    \/ \A r \in World : disk[recorded.step][r] = recorded
    \/ keep = 1 /\ at[0] \in {"prune", "pruned"}
    \/ keep = 1 /\ Loading /\ Coming \in Steps /\ Whole(Coming)

\* A rank that passed its slot has read its shard.
Reading ==
  \A r \in World :
       /\ at[r] \in Loads \ {"raised"} => recorded # None
       /\ at[r] = "load" => slot = 0
       /\ at[r] \in {"slots", "read", "apply", "loaded"} => disk[recorded.step][r] = recorded
       /\ at[r] = "slots" /\ slot > SlotOf(r) => payload[r] = recorded
       /\ at[r] = "read" /\ slot >= SlotOf(r) => payload[r] = recorded
       /\ at[r] \in {"apply", "loaded"} => payload[r] = recorded
       /\ at[r] = "loaded" => have[r] = recorded

\* A rank raises after three uploads, or when it does not find its shard.
RaisesRightly ==
  \A r \in World : /\ at[r] = "write" => tries[r] < 3
                   /\ keep # 1 /\ at[r] = "raised" => tries[r] = 3

Consistent == /\ Types /\ InStep /\ HaveTogether /\ DiskOf /\ PruneOld /\ RecordKept /\ Reading
              /\ RaisesRightly

\* Rank 0 is a rank.
LEMMA Ranks == 0 \in World /\ World \subseteq Nat
  BY CheckpointAssumption DEF World
\* The uploads that may fail are of ranks.
LEMMA FlakyRanks == Flaky \subseteq World
  BY CheckpointAssumption DEF World
\* The steps that are saved are the numbers from the first to the last.
LEMMA StepsAreNat == Steps \subseteq Nat \ {0} /\ FirstStep \in Nat \ {0} /\ LastStep \in Nat
                     /\ \A s \in Nat : s \in Steps <=> FirstStep <= s /\ s <= LastStep
  BY CheckpointAssumption DEF Steps
\* Every rank has a slot of reading that comes.
LEMMA SlotBound == \A r \in World : SlotOf(r) \in 0..NumSlots - 1
<1> SUFFICES ASSUME NEW r \in World PROVE SlotOf(r) \in 0..NumSlots - 1
  OBVIOUS
<1>1. r \in Nat
  BY Ranks
<1>2. (r % 8) \div 4 \in Nat
  BY <1>1
<1>3. NumSlots \in {1, 2}
  BY DEF NumSlots
<1>4. CASE NumSlots = 1
  BY <1>2, <1>4 DEF SlotOf
<1>5. CASE NumSlots = 2
  BY <1>2, <1>5 DEF SlotOf
<1> QED
  BY <1>3, <1>4, <1>5

\* A new job is consistent.
LEMMA ConsistentInit == CkptInit => Consistent
<1> SUFFICES ASSUME CkptInit PROVE Consistent
  OBVIOUS
<1> USE Ranks, CheckpointAssumption, StepsAreNat DEF CkptInit, None
<1>1. Types
  BY DEF Types, States, Loads, Saves
<1>2. InStep /\ HaveTogether
  BY DEF InStep, HaveTogether, All, Loads, Saves
<1>3. DiskOf /\ PruneOld /\ RecordKept /\ Reading /\ RaisesRightly
  BY DEF DiskOf, PruneOld, RecordKept, Reading, RaisesRightly, Loads
<1> QED
  BY <1>1, <1>2, <1>3 DEF Consistent

\* Every step keeps the types.
LEMMA TypesStep ==
  Types /\ InStep /\ HaveTogether /\ Reading /\ RaisesRightly /\ [CkptNext]_ckptvars => Types'
<1> SUFFICES ASSUME Types, InStep, HaveTogether, Reading, RaisesRightly, [CkptNext]_ckptvars PROVE Types'
  OBVIOUS
<1> USE Ranks DEF Types, States, Saves, Loads
<1>1. CASE TrainAndSave
  BY <1>1 DEF TrainAndSave, Move, Together, All
<1>2. CASE StartPrune
  <2>1. old' \subseteq Steps
    BY <1>2 DEF StartPrune, Oldest, Found
  <2> QED
    BY <1>2, <2>1 DEF StartPrune, Move
<1>3. CASE Pruned
  BY <1>3 DEF Pruned, Move, Together, All
<1>4. CASE SaveEnds
  <2>1. recorded' = have[0] /\ have[0].step \in Steps
    BY <1>4 DEF SaveEnds, HaveTogether
  <2> QED
    BY <1>4, <2>1 DEF SaveEnds
<1>5. CASE NextSlot
  BY <1>5 DEF NextSlot, Move, Together, All
<1>6. CASE Resume
  BY <1>6 DEF Resume, Move, Together, All
<1>7. CASE Restart
  <2>1. FirstStep - 1 \in Nat /\ run + 1 \in Nat /\ None \in States
    BY StepsAreNat DEF None
  <2> QED
    BY <1>7, <2>1 DEF Restart
<1>8. ASSUME NEW r \in World, WriteTemporary(r) PROVE Types'
  <2>1. have[r].step \in Steps
    BY <1>8 DEF WriteTemporary, HaveTogether
  <2> QED
    BY <1>8, <2>1 DEF WriteTemporary, Move
<1>9. ASSUME NEW r \in World, PutInPlace(r) PROVE Types'
  BY <1>9 DEF PutInPlace, Move, Together, All
<1>10. ASSUME NEW r \in World, Upload(r) PROVE Types'
  BY <1>10 DEF Upload, Move, Together, All
<1>11. ASSUME NEW r \in World, FindShard(r) PROVE Types'
  BY <1>11 DEF FindShard, Move, Together, All
<1>12. ASSUME NEW r \in World, ReadShard(r) PROVE Types'
  <2>1. disk[recorded.step][r] \in States
    BY <1>12 DEF ReadShard, Reading
  <2> QED
    BY <1>12, <2>1 DEF ReadShard, Move
<1>13. ASSUME NEW r \in World, Apply(r) PROVE Types'
  BY <1>13 DEF Apply, Move, Together, All
<1>14. ASSUME NEW r \in World, UploadFails(r) PROVE Types'
  <2>1. tries[r] + 1 \in 0..3
    BY <1>14 DEF UploadFails, RaisesRightly
  <2> QED
    BY <1>14, <2>1 DEF UploadFails, Move
<1>15. ASSUME NEW s \in Steps, NEW r \in World, RemoveShard(s, r) PROVE Types'
  <2>1. None \in States
    BY DEF None
  <2> QED
    BY <1>15, <2>1 DEF RemoveShard
<1>16. CASE UNCHANGED ckptvars
  BY <1>16 DEF ckptvars, All
<1> QED
  BY <1>1, <1>2, <1>3, <1>4, <1>5, <1>6, <1>7, <1>8, <1>9, <1>10, <1>11, <1>12, <1>13, <1>14, <1>15, <1>16, FlakyRanks DEF CkptNext, Proceed, RankStep

\* Barriers keep the ranks together.
LEMMA InStepStep ==
  Types /\ InStep /\ [CkptNext]_ckptvars => InStep'
<1> SUFFICES ASSUME Types, InStep, [CkptNext]_ckptvars PROVE InStep'
  OBVIOUS
<1> USE Ranks DEF InStep, Types, Saving, Loading, Saves, Loads
<1>1. CASE TrainAndSave
  BY <1>1 DEF TrainAndSave, Move, Together, All
<1>2. CASE StartPrune
  <2>1. /\ \A r \in World : at[r] = "shard"
        /\ at' = [at EXCEPT ![0] = "prune"] /\ UNCHANGED store
    BY <1>2 DEF StartPrune, ShardsWritten, Move, All
  <2> QED
    BY <2>1 DEF All
<1>3. CASE Pruned
  BY <1>3 DEF Pruned, Move, Together, All
<1>4. CASE SaveEnds
  BY <1>4 DEF SaveEnds, Move, Together, All
<1>5. CASE NextSlot
  BY <1>5 DEF NextSlot, Move, Together, All
<1>6. CASE Resume
  BY <1>6 DEF Resume, Move, Together, All
<1>7. CASE Restart
  BY <1>7 DEF Restart, Move, Together, All
<1>8. ASSUME NEW r \in World, WriteTemporary(r) PROVE InStep'
  BY <1>8 DEF WriteTemporary, Move, Together, All
<1>9. ASSUME NEW r \in World, PutInPlace(r) PROVE InStep'
  BY <1>9 DEF PutInPlace, Move, Together, All
<1>10. ASSUME NEW r \in World, Upload(r) PROVE InStep'
  BY <1>10 DEF Upload, Move, Together, All
<1>11. ASSUME NEW r \in World, FindShard(r) PROVE InStep'
  BY <1>11 DEF FindShard, Move, Together, All
<1>12. ASSUME NEW r \in World, ReadShard(r) PROVE InStep'
  BY <1>12 DEF ReadShard, Move, Together, All
<1>13. ASSUME NEW r \in World, Apply(r) PROVE InStep'
  BY <1>13 DEF Apply, Move, Together, All
<1>14. ASSUME NEW r \in World, UploadFails(r) PROVE InStep'
  BY <1>14 DEF UploadFails, Move, Together, All
<1>15. ASSUME NEW s \in Steps, NEW r \in World, RemoveShard(s, r) PROVE InStep'
  BY <1>15 DEF RemoveShard, Move, Together, All
<1>16. CASE UNCHANGED ckptvars
  BY <1>16 DEF ckptvars, All
<1> QED
  BY <1>1, <1>2, <1>3, <1>4, <1>5, <1>6, <1>7, <1>8, <1>9, <1>10, <1>11, <1>12, <1>13, <1>14, <1>15, <1>16, FlakyRanks DEF CkptNext, Proceed, RankStep

\* A rank changes its state with the others.
LEMMA HaveStep ==
  Types /\ InStep /\ HaveTogether /\ PruneOld /\ Reading /\ [CkptNext]_ckptvars => HaveTogether'
<1> SUFFICES ASSUME Types, InStep, HaveTogether, PruneOld, Reading, [CkptNext]_ckptvars PROVE HaveTogether'
  OBVIOUS
<1> USE Ranks DEF HaveTogether, InStep, Reading, Types, Saving, Loading, Saves, Loads, Coming, States
<1>1. CASE TrainAndSave
  <2>1. /\ \A r \in World : at[r] = "train" /\ at'[r] = "write"
        /\ \A r \in World : have'[r] = [step |-> have[r].step + 1, run |-> run]
        /\ have[0].step < LastStep /\ UNCHANGED <<run, recorded>>
    BY <1>1 DEF TrainAndSave, Together, All
  <2>2. \A r \in World : have[r].step + 1 = Coming
    BY <2>1, StepsAreNat DEF All
  <2>3. Coming \in Nat /\ FirstStep <= Coming /\ Coming <= LastStep
    BY <2>1, <2>2, StepsAreNat
  <2>4. Coming' = Coming /\ Coming \in Steps
    BY <2>1, <2>3, StepsAreNat
  <2> HIDE DEF Coming
  <2>5. ~All("train")'
    BY <2>1 DEF All
  <2> QED
    BY <2>1, <2>2, <2>4, <2>5
<1>2. CASE StartPrune
  BY <1>2 DEF StartPrune, Move, Together, All
<1>3. CASE Pruned
  BY <1>3 DEF Pruned, Move, Together, All
<1>4. CASE SaveEnds
  <2>1. /\ at[0] = "pruned" /\ \A r \in World : at'[r] = "train"
        /\ recorded' = have[0] /\ have' = have
        /\ \A r \in World : at[r] \in {"shard", "pruned"}
    BY <1>4 DEF SaveEnds
  <2>2. \A r \in World : have[r] = have[0]
    BY <2>1
  <2>3. have[0].step \in Steps
    BY <2>1
  <2>4. have[0] # None
    BY <2>3, StepsAreNat DEF None
  <2> QED
    BY <2>1, <2>2, <2>4
<1>5. CASE NextSlot
  BY <1>5 DEF NextSlot, Move, Together, All
<1>6. CASE Resume
  BY <1>6 DEF Resume, Move, Together, All
<1>7. CASE Restart
  BY <1>7 DEF Restart, Move, Together, All
<1>8. ASSUME NEW r \in World, WriteTemporary(r) PROVE HaveTogether'
  BY <1>8 DEF WriteTemporary, Move, Together, All
<1>9. ASSUME NEW r \in World, PutInPlace(r) PROVE HaveTogether'
  BY <1>9 DEF PutInPlace, Move, Together, All
<1>10. ASSUME NEW r \in World, Upload(r) PROVE HaveTogether'
  BY <1>10 DEF Upload, Move, Together, All
<1>11. ASSUME NEW r \in World, FindShard(r) PROVE HaveTogether'
  BY <1>11 DEF FindShard, Move, Together, All
<1>12. ASSUME NEW r \in World, ReadShard(r) PROVE HaveTogether'
  BY <1>12 DEF ReadShard, Move, Together, All
<1>13. ASSUME NEW r \in World, Apply(r) PROVE HaveTogether'
  BY <1>13 DEF Apply, Move, Together, All
<1>14. ASSUME NEW r \in World, UploadFails(r) PROVE HaveTogether'
  BY <1>14 DEF UploadFails, Move, Together, All
<1>15. ASSUME NEW s \in Steps, NEW r \in World, RemoveShard(s, r) PROVE HaveTogether'
  <2>1. s < Coming /\ disk' = [disk EXCEPT ![s][r] = None] /\ UNCHANGED <<at, have, run, recorded>>
    BY <1>15 DEF RemoveShard, PruneOld
  <2>2. \A q \in World : at[q] \in Saves \ {"raised"} => disk'[Coming][q] = disk[Coming][q]
    BY <2>1, StepsAreNat
  <2> HIDE DEF Coming
  <2>3. Coming' = Coming
    BY <2>1 DEF Coming
  <2> QED
    BY <2>1, <2>2, <2>3 DEF All
<1>16. CASE UNCHANGED ckptvars
  BY <1>16 DEF ckptvars, All
<1> QED
  BY <1>1, <1>2, <1>3, <1>4, <1>5, <1>6, <1>7, <1>8, <1>9, <1>10, <1>11, <1>12, <1>13, <1>14, <1>15, <1>16, FlakyRanks DEF CkptNext, Proceed, RankStep

\* Only the shards of the coming step are written.
LEMMA DiskStep ==
  Types /\ InStep /\ HaveTogether /\ DiskOf /\ [CkptNext]_ckptvars => DiskOf'
<1> SUFFICES ASSUME Types, InStep, HaveTogether, DiskOf, [CkptNext]_ckptvars PROVE DiskOf'
  OBVIOUS
<1> USE Ranks DEF HaveTogether, DiskOf, InStep, Types, Saves, Loads, Coming, States
<1>1. CASE TrainAndSave
  BY <1>1 DEF TrainAndSave, Move, Together, All
<1>2. CASE StartPrune
  BY <1>2 DEF StartPrune, Move, Together, All
<1>3. CASE Pruned
  BY <1>3 DEF Pruned, Move, Together, All
<1>4. CASE SaveEnds
  <2>1. /\ at[0] = "pruned" /\ recorded' = have[0] /\ UNCHANGED <<disk, tmp>>
        /\ \A r \in World : at[r] \in {"shard", "pruned"}
    BY <1>4 DEF SaveEnds
  <2>2. have[0].step = Coming /\ Coming \in Steps /\ have[0] # None
    BY <2>1, StepsAreNat DEF None
  <2>3. \A r \in World : disk[Coming][r] = have[0]
    BY <2>1
  <2>4. Coming' = Coming + 1 /\ Coming \in Nat
    BY <2>1, <2>2, StepsAreNat
  <2> HIDE DEF Coming
  <2>5. \A s \in Steps : s <= Coming => s <= Coming'
    BY <2>4, StepsAreNat
  <2>6. \A t \in tmp : t[1] \in Steps
    OBVIOUS
  <2>7. \A t \in tmp : t[1] <= Coming'
    BY <2>5, <2>6
  <2> QED
    BY <2>1, <2>2, <2>3, <2>5, <2>7
<1>5. CASE NextSlot
  BY <1>5 DEF NextSlot, Move, Together, All
<1>6. CASE Resume
  BY <1>6 DEF Resume, Move, Together, All
<1>7. CASE Restart
  BY <1>7 DEF Restart, Move, Together, All
<1>8. ASSUME NEW r \in World, WriteTemporary(r) PROVE DiskOf'
  BY <1>8 DEF WriteTemporary, Move, Together, All
<1>9. ASSUME NEW r \in World, PutInPlace(r) PROVE DiskOf'
  <2>1. /\ at[r] = "written" /\ disk' = [disk EXCEPT ![have[r].step][r] = have[r]] /\ tmp' \subseteq tmp
        /\ recorded' = recorded
    BY <1>9 DEF PutInPlace
  <2>2. have[r].step = Coming /\ Coming \in Steps
    BY <2>1
  <2>3. recorded # None => recorded.step # Coming /\ recorded.step \in Steps
    BY StepsAreNat
  <2>4. Coming' = Coming
    BY <2>1
  <2>5. Coming \in Nat /\ have[r] \in States
    BY StepsAreNat
  <2> HIDE DEF Coming
  <2>6. \A s \in Steps, q \in World :
          disk'[s][q] = IF s = Coming /\ q = r THEN have[r] ELSE disk[s][q]
    BY <2>1, <2>2
  <2>7. ASSUME NEW s \in Steps, NEW q \in World, disk'[s][q] # None
        PROVE  s <= Coming /\ disk'[s][q].step = s
    BY <2>2, <2>5, <2>6, <2>7, StepsAreNat
  <2>8. \A t \in tmp' : t[1] <= Coming
    BY <2>1
  <2>9. recorded # None => \A q \in World : disk'[recorded.step][q] \in {None, recorded}
    BY <2>3, <2>6
  <2> QED
    BY <2>1, <2>4, <2>7, <2>8, <2>9
<1>10. ASSUME NEW r \in World, Upload(r) PROVE DiskOf'
  BY <1>10 DEF Upload, Move, Together, All
<1>11. ASSUME NEW r \in World, FindShard(r) PROVE DiskOf'
  BY <1>11 DEF FindShard, Move, Together, All
<1>12. ASSUME NEW r \in World, ReadShard(r) PROVE DiskOf'
  BY <1>12 DEF ReadShard, Move, Together, All
<1>13. ASSUME NEW r \in World, Apply(r) PROVE DiskOf'
  BY <1>13 DEF Apply, Move, Together, All
<1>14. ASSUME NEW r \in World, UploadFails(r) PROVE DiskOf'
  BY <1>14 DEF UploadFails, Move, Together, All
<1>15. ASSUME NEW s \in Steps, NEW r \in World, RemoveShard(s, r) PROVE DiskOf'
  BY <1>15 DEF RemoveShard, Move, Together, All
<1>16. CASE UNCHANGED ckptvars
  BY <1>16 DEF ckptvars, All
<1> QED
  BY <1>1, <1>2, <1>3, <1>4, <1>5, <1>6, <1>7, <1>8, <1>9, <1>10, <1>11, <1>12, <1>13, <1>14, <1>15, <1>16, FlakyRanks DEF CkptNext, Proceed, RankStep

\* A step that is pruned has as many newer ones as are kept.
LEMMA PruneStep ==
  Types /\ InStep /\ HaveTogether /\ DiskOf /\ PruneOld /\ [CkptNext]_ckptvars => PruneOld'
<1> SUFFICES ASSUME Types, InStep, HaveTogether, DiskOf, PruneOld, [CkptNext]_ckptvars PROVE PruneOld'
  OBVIOUS
<1> USE Ranks DEF PruneOld, InStep, DiskOf, Types, States, Saves, Loads, Coming
<1>1. CASE TrainAndSave
  BY <1>1 DEF TrainAndSave, Move, Together, All
<1>2. CASE StartPrune
  <2>1. /\ at'[0] = "prune" /\ old' = (IF keep > 0 THEN Oldest(Found) ELSE {}) /\ UNCHANGED <<keep, recorded>>
        /\ at[0] = "shard"
    BY <1>2 DEF StartPrune, Move
  <2>2. \A s \in Found : s \in Nat /\ s <= Coming
    BY StepsAreNat DEF Found, Shards
  <2>3. Coming \in Nat
    BY StepsAreNat
  <2>4. Coming' = Coming
    BY <2>1
  <2> HIDE DEF Coming
  <2>5. ASSUME NEW s \in old' PROVE s < Coming
    <3>1. s \in Found /\ Cardinality({x \in Found : x > s}) >= keep /\ keep > 0
      BY <2>1, <2>5 DEF Oldest
    <3>2. {x \in Found : x > s} # {}
      <4>1. Cardinality({}) = 0 /\ ~(0 >= keep)
        BY <3>1, FS_EmptySet
      <4> QED
        BY <3>1, <4>1
    <3> QED
      BY <2>2, <2>3, <3>1, <3>2
  <2>6. ASSUME keep # 1, recorded # None, recorded.step \in old' PROVE FALSE
    <3>1. recorded.step \in Found /\ Cardinality({x \in Found : x > recorded.step}) >= keep /\ keep > 1
      BY <2>1, <2>6 DEF Oldest
    <3>2. Coming = recorded.step + 1
      BY <2>6 DEF Coming
    <3>3. {x \in Found : x > recorded.step} \subseteq {Coming}
      BY <2>2, <3>1, <3>2
    <3>4. {x \in Found : x > recorded.step} = {} \/ {x \in Found : x > recorded.step} = {Coming}
      BY <3>3
    <3>5. Cardinality({}) = 0 /\ Cardinality({Coming}) = 1
      BY FS_EmptySet, FS_Singleton
    <3>6. ~(0 >= keep) /\ ~(1 >= keep)
      BY <3>1
    <3>7. Cardinality({x \in Found : x > recorded.step}) \in {0, 1}
      BY <3>4, <3>5
    <3> QED
      BY ONLY <3>1, <3>6, <3>7
  <2> QED
    BY <2>1, <2>4, <2>5, <2>6
<1>3. CASE Pruned
  BY <1>3 DEF Pruned, Move, Together, All
<1>4. CASE SaveEnds
  BY <1>4 DEF SaveEnds, Move, Together, All
<1>5. CASE NextSlot
  BY <1>5 DEF NextSlot, Move, Together, All
<1>6. CASE Resume
  BY <1>6 DEF Resume, Move, Together, All
<1>7. CASE Restart
  BY <1>7 DEF Restart, Move, Together, All
<1>8. ASSUME NEW r \in World, WriteTemporary(r) PROVE PruneOld'
  BY <1>8 DEF WriteTemporary, Move, Together, All
<1>9. ASSUME NEW r \in World, PutInPlace(r) PROVE PruneOld'
  BY <1>9 DEF PutInPlace, Move, Together, All
<1>10. ASSUME NEW r \in World, Upload(r) PROVE PruneOld'
  BY <1>10 DEF Upload, Move, Together, All
<1>11. ASSUME NEW r \in World, FindShard(r) PROVE PruneOld'
  BY <1>11 DEF FindShard, Move, Together, All
<1>12. ASSUME NEW r \in World, ReadShard(r) PROVE PruneOld'
  BY <1>12 DEF ReadShard, Move, Together, All
<1>13. ASSUME NEW r \in World, Apply(r) PROVE PruneOld'
  BY <1>13 DEF Apply, Move, Together, All
<1>14. ASSUME NEW r \in World, UploadFails(r) PROVE PruneOld'
  BY <1>14 DEF UploadFails, Move, Together, All
<1>15. ASSUME NEW s \in Steps, NEW r \in World, RemoveShard(s, r) PROVE PruneOld'
  BY <1>15 DEF RemoveShard, Move, Together, All
<1>16. CASE UNCHANGED ckptvars
  BY <1>16 DEF ckptvars, All
<1> QED
  BY <1>1, <1>2, <1>3, <1>4, <1>5, <1>6, <1>7, <1>8, <1>9, <1>10, <1>11, <1>12, <1>13, <1>14, <1>15, <1>16, FlakyRanks DEF CkptNext, Proceed, RankStep

\* The recorded step goes only after the next is complete.
LEMMA RecordStep ==
  Types /\ InStep /\ HaveTogether /\ DiskOf /\ PruneOld /\ RecordKept /\ Reading /\ [CkptNext]_ckptvars => RecordKept'
<1> SUFFICES ASSUME Types, InStep, HaveTogether, DiskOf, PruneOld, RecordKept, Reading, [CkptNext]_ckptvars PROVE RecordKept'
  OBVIOUS
<1> USE Ranks DEF RecordKept, InStep, Types, States, Saving, Loading, Saves, Loads, Coming, Whole
<1>1. CASE TrainAndSave
  BY <1>1 DEF TrainAndSave, Move, Together, All
<1>2. CASE StartPrune
  BY <1>2 DEF StartPrune, Move, Together, All
<1>3. CASE Pruned
  BY <1>3 DEF Pruned, Move, Together, All
<1>4. CASE SaveEnds
  <2>1. /\ at[0] = "pruned" /\ recorded' = have[0] /\ UNCHANGED disk
        /\ \A r \in World : at[r] \in {"shard", "pruned"}
    BY <1>4 DEF SaveEnds
  <2>2. \A r \in World : disk[have[0].step][r] = have[0]
    BY <2>1 DEF HaveTogether
  <2> QED
    BY <2>1, <2>2
<1>5. CASE NextSlot
  BY <1>5 DEF NextSlot, Move, Together, All
<1>6. CASE Resume
  <2>1. \A r \in World : at[r] = "loaded"
    BY <1>6 DEF Resume, Together, All
  <2>2. \A r \in World : disk[recorded.step][r] = recorded
    BY <2>1 DEF Reading
  <2> QED
    BY <1>6, <2>2 DEF Resume
<1>7. CASE Restart
  <2>1. SUFFICES ASSUME recorded # None PROVE RecordKept'
    BY <1>7 DEF Restart
  <2>2. /\ \A r \in World : at'[r] = "load"
        /\ UNCHANGED <<keep, disk, recorded>>
    BY <1>7, <2>1 DEF Restart
  <2>3. CASE at[0] \in {"prune", "pruned"}
    <3>1. Coming \in Steps /\ \A r \in World : disk[Coming][r] = [step |-> Coming, run |-> run]
      BY <2>3 DEF HaveTogether
    <3>2. [step |-> Coming, run |-> run] # None
      BY <3>1, StepsAreNat DEF None
    <3> QED
      BY <2>2, <3>1, <3>2
  <2> QED
    BY <2>2, <2>3
<1>8. ASSUME NEW r \in World, WriteTemporary(r) PROVE RecordKept'
  BY <1>8 DEF WriteTemporary, Move, Together, All
<1>9. ASSUME NEW r \in World, PutInPlace(r) PROVE RecordKept'
  <2>1. /\ at[r] = "written" /\ disk' = [disk EXCEPT ![have[r].step][r] = have[r]] /\ UNCHANGED <<keep, recorded>>
        /\ at' = [at EXCEPT ![r] = "shard"]
    BY <1>9 DEF PutInPlace, Move
  <2>2. have[r].step = Coming /\ Coming \in Steps
    BY <2>1 DEF HaveTogether
  <2>3. recorded # None => recorded.step # Coming /\ recorded.step \in Steps
    BY StepsAreNat
  <2>4. ~Loading /\ at[0] \notin {"prune", "pruned"}
    BY <2>1
  <2>5. recorded # None => \A q \in World : disk[recorded.step][q] = recorded
    BY <2>4
  <2> HIDE DEF Coming
  <2>6. recorded # None => \A q \in World : disk'[recorded.step][q] = recorded
    BY <2>1, <2>2, <2>3, <2>5
  <2> QED
    BY <2>1, <2>6
<1>10. ASSUME NEW r \in World, Upload(r) PROVE RecordKept'
  <2>1. /\ at[r] = "write" /\ disk' = [disk EXCEPT ![have[r].step][r] = have[r]] /\ UNCHANGED <<keep, recorded>>
        /\ at' = [at EXCEPT ![r] = "shard"]
    BY <1>10 DEF Upload, Move
  <2>2. have[r].step = Coming /\ Coming \in Steps
    BY <2>1 DEF HaveTogether
  <2>3. recorded # None => recorded.step # Coming /\ recorded.step \in Steps
    BY StepsAreNat
  <2>4. ~Loading /\ at[0] \notin {"prune", "pruned"}
    BY <2>1
  <2>5. recorded # None => \A q \in World : disk[recorded.step][q] = recorded
    BY <2>4
  <2> HIDE DEF Coming
  <2>6. recorded # None => \A q \in World : disk'[recorded.step][q] = recorded
    BY <2>1, <2>2, <2>3, <2>5
  <2> QED
    BY <2>1, <2>6
<1>11. ASSUME NEW r \in World, FindShard(r) PROVE RecordKept'
  BY <1>11 DEF FindShard, Move, Together, All
<1>12. ASSUME NEW r \in World, ReadShard(r) PROVE RecordKept'
  BY <1>12 DEF ReadShard, Move, Together, All
<1>13. ASSUME NEW r \in World, Apply(r) PROVE RecordKept'
  BY <1>13 DEF Apply, Move, Together, All
<1>14. ASSUME NEW r \in World, UploadFails(r) PROVE RecordKept'
  BY <1>14 DEF UploadFails, Move, Together, All
<1>15. ASSUME NEW s \in Steps, NEW r \in World, RemoveShard(s, r) PROVE RecordKept'
  <2>1. /\ at[0] = "prune" /\ s \in old /\ disk' = [disk EXCEPT ![s][r] = None]
        /\ UNCHANGED <<at, keep, recorded>>
    BY <1>15 DEF RemoveShard
  <2>2. keep # 1 /\ recorded # None => recorded.step # s /\ recorded.step \in Steps
    BY <2>1 DEF PruneOld
  <2>3. keep # 1 /\ recorded # None => \A q \in World : disk'[recorded.step][q] = disk[recorded.step][q]
    BY <2>1, <2>2
  <2> QED
    BY <2>1, <2>3
<1>16. CASE UNCHANGED ckptvars
  BY <1>16 DEF ckptvars, All
<1> QED
  BY <1>1, <1>2, <1>3, <1>4, <1>5, <1>6, <1>7, <1>8, <1>9, <1>10, <1>11, <1>12, <1>13, <1>14, <1>15, <1>16, FlakyRanks DEF CkptNext, Proceed, RankStep

\* A slot is over when every rank has read or had another.
LEMMA ReadingStep ==
  Types /\ InStep /\ DiskOf /\ Reading /\ [CkptNext]_ckptvars => Reading'
<1> SUFFICES ASSUME Types, InStep, DiskOf, Reading, [CkptNext]_ckptvars PROVE Reading'
  OBVIOUS
<1> USE Ranks DEF Reading, InStep, Types, Saves, Loads
<1>1. CASE TrainAndSave
  BY <1>1 DEF TrainAndSave, Move, Together, All
<1>2. CASE StartPrune
  BY <1>2 DEF StartPrune, Move, Together, All
<1>3. CASE Pruned
  BY <1>3 DEF Pruned, Move, Together, All
<1>4. CASE SaveEnds
  BY <1>4 DEF SaveEnds, Move, Together, All
<1>5. CASE NextSlot
  <2>1. /\ \A r \in World : at[r] = "read" /\ at'[r] = (IF slot + 1 < NumSlots THEN "slots" ELSE "apply")
        /\ slot' = slot + 1 /\ UNCHANGED <<recorded, payload, have, disk>>
    BY <1>5 DEF NextSlot, Together, All
  <2>2. \A r \in World : SlotOf(r) \in Nat /\ SlotOf(r) < NumSlots
    BY SlotBound DEF NumSlots
  <2>3. \A r \in World : slot >= SlotOf(r) => payload[r] = recorded
    BY <2>1
  <2>4. ASSUME NEW r \in World, at'[r] = "slots", slot' > SlotOf(r) PROVE payload[r] = recorded
    BY <2>1, <2>2, <2>3, <2>4
  <2>5. ASSUME NEW r \in World, at'[r] = "apply" PROVE payload[r] = recorded
    BY <2>1, <2>2, <2>3, <2>5 DEF NumSlots
  <2> QED
    BY <2>1, <2>4, <2>5
<1>6. CASE Resume
  BY <1>6 DEF Resume, Move, Together, All
<1>7. CASE Restart
  BY <1>7 DEF Restart, Move, Together, All
<1>8. ASSUME NEW r \in World, WriteTemporary(r) PROVE Reading'
  BY <1>8 DEF WriteTemporary, Move, Together, All
<1>9. ASSUME NEW r \in World, PutInPlace(r) PROVE Reading'
  BY <1>9 DEF PutInPlace, Move, Together, All
<1>10. ASSUME NEW r \in World, Upload(r) PROVE Reading'
  BY <1>10 DEF Upload, Move, Together, All
<1>11. ASSUME NEW r \in World, FindShard(r) PROVE Reading'
  <2>1. /\ at[r] = "load" /\ UNCHANGED <<recorded, disk, slot, payload, have>>
        /\ at' = [at EXCEPT ![r] = IF disk[recorded.step][r] = None THEN "raised" ELSE "slots"]
    BY <1>11 DEF FindShard, Move
  <2>2. slot = 0 /\ SlotOf(r) \in Nat /\ recorded # None
    BY <2>1, SlotBound DEF NumSlots
  <2>3. ~(slot > SlotOf(r))
    BY <2>2
  <2>4. at'[r] = "slots" => disk[recorded.step][r] = recorded
    BY <2>1, <2>2 DEF DiskOf
  <2>5. at'[r] \in {"slots", "raised"} /\ \A q \in World : q # r => at'[q] = at[q]
    BY <2>1
  <2> QED
    BY <2>1, <2>2, <2>3, <2>4, <2>5
<1>12. ASSUME NEW r \in World, ReadShard(r) PROVE Reading'
  <2>1. /\ at[r] = "slots" /\ UNCHANGED <<recorded, disk, slot, have>>
        /\ at' = [at EXCEPT ![r] = "read"]
        /\ payload' = [payload EXCEPT ![r] = IF SlotOf(r) = slot THEN disk[recorded.step][r] ELSE payload[r]]
    BY <1>12 DEF ReadShard, Move
  <2>2. SlotOf(r) \in Nat
    BY SlotBound DEF NumSlots
  <2>3. slot >= SlotOf(r) => payload'[r] = recorded
    BY <2>1, <2>2
  <2>4. /\ at'[r] = "read" /\ recorded # None
        /\ \A q \in World : q # r => at'[q] = at[q] /\ payload'[q] = payload[q]
    BY <2>1
  <2> QED
    BY <2>1, <2>3, <2>4
<1>13. ASSUME NEW r \in World, Apply(r) PROVE Reading'
  BY <1>13 DEF Apply, Move, Together, All
<1>14. ASSUME NEW r \in World, UploadFails(r) PROVE Reading'
  BY <1>14 DEF UploadFails, Move, Together, All
<1>15. ASSUME NEW s \in Steps, NEW r \in World, RemoveShard(s, r) PROVE Reading'
  BY <1>15 DEF RemoveShard, Move, Together, All
<1>16. CASE UNCHANGED ckptvars
  BY <1>16 DEF ckptvars, All
<1> QED
  BY <1>1, <1>2, <1>3, <1>4, <1>5, <1>6, <1>7, <1>8, <1>9, <1>10, <1>11, <1>12, <1>13, <1>14, <1>15, <1>16, FlakyRanks DEF CkptNext, Proceed, RankStep

\* Only uploads raise, unless one checkpoint is kept.
LEMMA RaisesStep ==
  Types /\ InStep /\ HaveTogether /\ DiskOf /\ RecordKept /\ Reading /\ RaisesRightly /\ [CkptNext]_ckptvars => RaisesRightly'
<1> SUFFICES ASSUME Types, InStep, HaveTogether, DiskOf, RecordKept, Reading, RaisesRightly, [CkptNext]_ckptvars PROVE RaisesRightly'
  OBVIOUS
<1> USE Ranks DEF RaisesRightly, Types, InStep, Reading, RecordKept, Saving, Loading, Saves, Loads
<1>1. CASE TrainAndSave
  BY <1>1 DEF TrainAndSave, Move, Together, All
<1>2. CASE StartPrune
  BY <1>2 DEF StartPrune, Move, Together, All
<1>3. CASE Pruned
  BY <1>3 DEF Pruned, Move, Together, All
<1>4. CASE SaveEnds
  BY <1>4 DEF SaveEnds, Move, Together, All
<1>5. CASE NextSlot
  BY <1>5 DEF NextSlot, Move, Together, All
<1>6. CASE Resume
  BY <1>6 DEF Resume, Move, Together, All
<1>7. CASE Restart
  BY <1>7 DEF Restart, Move, Together, All
<1>8. ASSUME NEW r \in World, WriteTemporary(r) PROVE RaisesRightly'
  BY <1>8 DEF WriteTemporary, Move, Together, All
<1>9. ASSUME NEW r \in World, PutInPlace(r) PROVE RaisesRightly'
  BY <1>9 DEF PutInPlace, Move, Together, All
<1>10. ASSUME NEW r \in World, Upload(r) PROVE RaisesRightly'
  BY <1>10 DEF Upload, Move, Together, All
<1>11. ASSUME NEW r \in World, FindShard(r) PROVE RaisesRightly'
  BY <1>11 DEF FindShard, Move, Together, All
<1>12. ASSUME NEW r \in World, ReadShard(r) PROVE RaisesRightly'
  BY <1>12 DEF ReadShard, Move, Together, All
<1>13. ASSUME NEW r \in World, Apply(r) PROVE RaisesRightly'
  BY <1>13 DEF Apply, Move, Together, All
<1>14. ASSUME NEW r \in World, UploadFails(r) PROVE RaisesRightly'
  BY <1>14 DEF UploadFails, Move, Together, All
<1>15. ASSUME NEW s \in Steps, NEW r \in World, RemoveShard(s, r) PROVE RaisesRightly'
  BY <1>15 DEF RemoveShard, Move, Together, All
<1>16. CASE UNCHANGED ckptvars
  BY <1>16 DEF ckptvars, All
<1> QED
  BY <1>1, <1>2, <1>3, <1>4, <1>5, <1>6, <1>7, <1>8, <1>9, <1>10, <1>11, <1>12, <1>13, <1>14, <1>15, <1>16, FlakyRanks DEF CkptNext, Proceed, RankStep

\* Every step of a rank, and every restart, keeps Consistent.
LEMMA ConsistentStep == Consistent /\ [CkptNext]_ckptvars => Consistent'
  BY TypesStep, InStepStep, HaveStep, DiskStep, PruneStep, RecordStep, ReadingStep, RaisesStep
  DEF Consistent

\* Whenever the job is killed, all shards of one step, saved by one run, are on
\* the disk once a save was recorded; with more than one to keep, or all, they
\* are those of the recorded step.
THEOREM CanRecover == CkptSpec => []Recoverable
<1>1. ASSUME Consistent PROVE Recoverable
  <2>1. SUFFICES ASSUME recorded # None
                 PROVE  (\E s \in Steps : Whole(s)) /\ (keep # 1 => Whole(recorded.step))
    BY DEF Recoverable
  <2>2. CASE \A r \in World : disk[recorded.step][r] = recorded
    BY <1>1, <2>1, <2>2, Ranks DEF Consistent, Types, Whole
  <2>3. CASE keep = 1 /\ at[0] \in {"prune", "pruned"}
    <3>1. /\ Coming \in Steps
          /\ \A r \in World : disk[Coming][r] = [step |-> Coming, run |-> run]
      BY <1>1, <2>3, Ranks DEF Consistent, InStep, HaveTogether, Saves
    <3>2. [step |-> Coming, run |-> run] # None
      BY <3>1, StepsAreNat DEF None
    <3> QED
      BY <2>3, <3>1, <3>2, Ranks DEF Whole
  <2>4. CASE keep = 1 /\ Loading /\ Coming \in Steps /\ Whole(Coming)
    BY <2>4
  <2> QED
    BY <1>1, <2>1, <2>2, <2>3, <2>4 DEF Consistent, RecordKept
<1> QED
  BY <1>1, ConsistentInit, ConsistentStep, PTL DEF CkptSpec

\* A job that trains after a restart has the recorded state in every rank, and
\* with more than one checkpoint to keep no load misses a shard.
THEOREM ResumesWhatWasSaved == CkptSpec => []ResumesTheSave
<1>1. Consistent => ResumesTheSave
  BY DEF Consistent, HaveTogether, RaisesRightly, ResumesTheSave
<1> QED
  BY <1>1, ConsistentInit, ConsistentStep, PTL DEF CkptSpec

-----------------------------------------------------------------------------
(* The optimizer step.                                                       *)

IsSeq(q) == q \in Seq(ToSet(q))
Queue == ToSet(dma)
Count == Len(Chunks(group))
\* The chunks whose gradients were sent and that are yet to be stepped.
Sent == stepped + 1..queued
GradientOf(k, i) == [to |-> "host", param |-> Chunk(k)[i], buf |-> Buffer(k, i), at |-> steps]

StepTypes ==
  /\ mode \in {"cpu", "device", "offload"} /\ events \in BOOLEAN
  /\ pc \in {"idle", "step", "moved", "failed"} /\ steps \in Nat
  /\ DOMAIN host = BufferKeys /\ DOMAIN weight = Params /\ DOMAIN master = Params /\ DOMAIN due = Params
  /\ DOMAIN d2h = Slots /\ DOMAIN h2d = Slots /\ IsSeq(dma)
  /\ ~events => \A s \in Slots : ~d2h[s].set

\* Between two steps everything is in its place.
AtRest ==
  /\ pc \in {"idle", "failed"} => ~narrowed
  /\ pc = "idle" => /\ dma = <<>>
                    /\ \A p \in Params : weight[p] = due[p] /\ (master[p].bound => master[p].made = due[p])

\* Within one, where the engine's thread is.
Progress ==
  /\ group \in DOMAIN Groups /\ active \in ActiveSets /\ stepped \in 0..Count /\ queued \in Nat
  /\ mode = "cpu" => /\ pc = "step" /\ queued \in stepped..Count /\ queued <= stepped + 2 /\ hyper = group
                     /\ queued = 0 => dma = <<>>
  /\ mode # "cpu" => dma = <<>>
  /\ pc = "moved" => stepped < Count

\* The parameters that are still to be stepped, and the values of these and the others.
Pending(p) ==
  /\ p \in active
  /\ \/ GroupOf(p) > group
     \/ GroupOf(p) = group /\ \E k \in stepped + 1..Count : \E i \in DOMAIN Chunk(k) : Chunk(k)[i] = p
Leaving(p) == \E t \in Queue : t.to = "device" /\ t.param = p
Values ==
  \A p \in Params :
    IF Pending(p) THEN Bound(p) \cup {Update(p, steps, GroupOf(p))} = due[p]
    ELSE (weight[p] = due[p] \/ Leaving(p)) /\ (master[p].bound => master[p].made = due[p])

\* What is under way, and in the buffers.
Outgoing == \A t \in Queue : t.to # "host" =>
              /\ t.to = "device" /\ t.buf \in BufferKeys /\ t.param \in Params /\ ~Pending(t.param)
              /\ host[t.buf] = due[t.param]
Incoming == \A t \in Queue : t.to = "host" => \E k \in Sent : \E i \in DOMAIN Chunk(k) : t = GradientOf(k, i)
Gradients == \A k \in Sent : \A i \in DOMAIN Chunk(k) :
               GradientOf(k, i) \in Queue \/ host[Buffer(k, i)] = {Update(Chunk(k)[i], steps, 0)}

\* With events, a slot's transfers are behind its event, and no weights leave a slot
\* that gradients were sent to.  Without, weights leave before gradients come.
InSlots ==
  events => /\ \A t \in Queue : t \in (IF t.to = "host" THEN d2h ELSE h2d)[t.buf[1]].after
            /\ \A t \in Queue, k \in Sent : t.to = "device" => t.buf[1] # (k - 1) % 2
HostOrder == ~events => \A x, y \in DOMAIN dma : x < y /\ dma[x].to = "host" => dma[y].to = "host"

Underway == Progress /\ Values /\ Outgoing /\ Incoming /\ Gradients /\ InSlots /\ HostOrder
Exact == StepTypes /\ AtRest /\ (pc \in {"step", "moved"} => Underway)

\* A sequence, of which only places and elements are known.
LEMMA Listed ==
  ASSUME NEW f, NEW n \in Nat, DOMAIN f = 1..n, f = [i \in 1..n |-> f[i]]
  PROVE  IsSeq(f) /\ Len(f) = n
<1>1. \A i \in 1..n : f[i] \in ToSet(f)
  BY DEF ToSet
<1>2. f \in [1..n -> ToSet(f)]
  <2>1. \A S : (\A i \in 1..n : f[i] \in S) => [i \in 1..n |-> f[i]] \in [1..n -> S]
    OBVIOUS
  <2> QED
    BY <1>1, <2>1
<1>3. f \in Seq(ToSet(f)) /\ Len(f) = n
  BY <1>2
<1> QED
  BY <1>3 DEF IsSeq

\* Transfers that join the queue.
LEMMA Behind ==
  ASSUME NEW q, NEW r, IsSeq(q), IsSeq(r)
  PROVE  /\ IsSeq(q \o r) /\ ToSet(q \o r) = ToSet(q) \cup ToSet(r)
         /\ Len(q) \in Nat /\ DOMAIN q = 1..Len(q)
         /\ \A x \in DOMAIN (q \o r) : /\ x \in Nat
                                      /\ \/ x <= Len(q) /\ x \in DOMAIN q /\ (q \o r)[x] = q[x]
                                         \/ x > Len(q) /\ (q \o r)[x] \in ToSet(r)
<1> DEFINE S == ToSet(q) \cup ToSet(r)   qr == q \o r
<1>1. q \in Seq(S) /\ r \in Seq(S)
  BY DEF IsSeq
<1> HIDE DEF S
<1>2. /\ qr \in Seq(S) /\ Len(qr) = Len(q) + Len(r) /\ DOMAIN qr = 1..Len(q) + Len(r)
      /\ \A i \in 1..Len(q) + Len(r) : qr[i] = IF i <= Len(q) THEN q[i] ELSE r[i - Len(q)]
  BY <1>1
<1>3. Len(q) \in Nat /\ Len(r) \in Nat /\ DOMAIN q = 1..Len(q) /\ DOMAIN r = 1..Len(r)
  BY <1>1
<1> HIDE DEF qr
<1>4. IsSeq(qr)
  <2>1. qr = [i \in 1..Len(q) + Len(r) |-> qr[i]]
    BY <1>2, <1>3
  <2> QED
    BY <1>2, <1>3, <2>1, Listed
<1>5. \A x \in DOMAIN qr : /\ x \in Nat
                          /\ \/ x <= Len(q) /\ x \in DOMAIN q /\ qr[x] = q[x]
                             \/ x > Len(q) /\ x - Len(q) \in DOMAIN r /\ qr[x] = r[x - Len(q)]
  BY <1>2, <1>3
<1>6. /\ \A i \in DOMAIN q : i \in DOMAIN qr /\ qr[i] = q[i]
      /\ \A i \in DOMAIN r : i + Len(q) \in DOMAIN qr /\ qr[i + Len(q)] = r[i]
  BY <1>2, <1>3
<1>7. ToSet(qr) = ToSet(q) \cup ToSet(r)
  BY <1>5, <1>6 DEF ToSet
<1> QED
  BY <1>3, <1>4, <1>5, <1>7 DEF qr, ToSet

\* A transfer that is made leaves the queue.
LEMMA TakenFrom ==
  ASSUME NEW q, IsSeq(q), NEW n \in DOMAIN q
  PROVE  /\ IsSeq(RemoveAt(q, n)) /\ ToSet(RemoveAt(q, n)) \subseteq ToSet(q)
         /\ ToSet(q) \subseteq ToSet(RemoveAt(q, n)) \cup {q[n]} /\ q[n] \in ToSet(q)
         /\ \A x, y \in DOMAIN RemoveAt(q, n) : x < y =>
              \E i, j \in DOMAIN q : i < j /\ RemoveAt(q, n)[x] = q[i] /\ RemoveAt(q, n)[y] = q[j]
<1> DEFINE S == ToSet(q)   r == RemoveAt(q, n)
<1>1. q \in Seq(S) /\ n \in 1..Len(q) /\ Len(q) \in Nat /\ DOMAIN q = 1..Len(q)
  BY DEF IsSeq
<1> HIDE DEF S
<1> DEFINE a == SubSeq(q, 1, n - 1)   b == SubSeq(q, n + 1, Len(q))
<1>2. /\ a \in Seq(S) /\ Len(a) = n - 1 /\ b \in Seq(S) /\ Len(b) = Len(q) - n
      /\ \A i \in 1..n - 1 : a[i] = q[i]
      /\ \A i \in 1..Len(q) - n : b[i] = q[n + i]
  <2>1. ASSUME NEW l \in Int, l = n - 1
        PROVE  SubSeq(q, 1, l) \in Seq(S) /\ Len(SubSeq(q, 1, l)) = l /\ \A j \in 1..l : SubSeq(q, 1, l)[j] = q[j]
    BY <1>1, <2>1
  <2>2. ASSUME NEW m \in Int, m = n + 1, NEW l \in Int, l = Len(q), NEW d \in Int, d = l - n
        PROVE  /\ SubSeq(q, m, l) \in Seq(S) /\ Len(SubSeq(q, m, l)) = d
               /\ \A j \in 1..d : SubSeq(q, m, l)[j] = q[n + j]
    BY <1>1, <2>2
  <2>3. n - 1 \in Int /\ n + 1 \in Int /\ Len(q) \in Int /\ Len(q) - n \in Int
    BY <1>1
  <2> QED
    BY <2>1, <2>2, <2>3
<1>3. r = a \o b
  BY DEF RemoveAt
<1> HIDE DEF a, b, r
<1>4. /\ r \in Seq(S) /\ Len(r) = Len(q) - 1 /\ DOMAIN r = 1..Len(q) - 1
      /\ \A i \in 1..Len(q) - 1 : r[i] = IF i < n THEN a[i] ELSE b[i - (n - 1)]
  <2>1. /\ a \o b \in Seq(S) /\ Len(a \o b) = Len(a) + Len(b)
        /\ \A i \in 1..Len(a) + Len(b) : (a \o b)[i] = IF i <= Len(a) THEN a[i] ELSE b[i - Len(a)]
    BY <1>2
  <2>2. Len(a) + Len(b) = Len(q) - 1 /\ \A i \in Int : i <= Len(a) <=> i < n
    BY <1>1, <1>2
  <2>3. Len(r) = Len(q) - 1 /\ r \in Seq(S)
    BY <1>3, <2>1, <2>2
  <2>4. DOMAIN r = 1..Len(r)
    BY <2>3
  <2>5. ASSUME NEW i \in 1..Len(q) - 1 PROVE r[i] = IF i < n THEN a[i] ELSE b[i - (n - 1)]
    <3>1. i \in 1..Len(a) + Len(b) /\ (i <= Len(a) <=> i < n) /\ Len(a) = n - 1
      BY <1>1, <1>2, <2>2
    <3>2. r[i] = IF i <= Len(a) THEN a[i] ELSE b[i - Len(a)]
      BY <1>3, <2>1, <3>1
    <3> QED
      BY <3>1, <3>2
  <2> QED
    BY <2>3, <2>4, <2>5
<1>5. \A i \in 1..Len(q) - 1 : r[i] = IF i < n THEN q[i] ELSE q[i + 1]
  <2> SUFFICES ASSUME NEW i \in 1..Len(q) - 1 PROVE r[i] = IF i < n THEN q[i] ELSE q[i + 1]
    OBVIOUS
  <2>1. CASE i < n
    <3>1. i \in 1..n - 1
      BY <1>1, <2>1
    <3>2. a[i] = q[i]
      BY <1>2, <3>1
    <3> QED
      BY <1>4, <2>1, <3>2
  <2>2. CASE i >= n
    <3> DEFINE j == i - (n - 1)
    <3>1. j \in 1..Len(q) - n /\ n + j = i + 1 /\ ~(i < n)
      BY <1>1, <2>2
    <3> HIDE DEF j
    <3>2. b[j] = q[i + 1]
      BY <1>2, <3>1
    <3> QED
      BY <1>4, <3>1, <3>2 DEF j
  <2> QED
    BY <1>1, <2>1, <2>2
<1>6. IsSeq(r)
  <2>1. r = [i \in 1..Len(q) - 1 |-> r[i]] /\ Len(q) - 1 \in Nat
    BY <1>1, <1>4
  <2> QED
    BY <1>4, <2>1, Listed
<1>7. ToSet(r) \subseteq ToSet(q) /\ q[n] \in ToSet(q)
  <2>1. \A i \in DOMAIN q : q[i] \in ToSet(q)
    BY DEF ToSet
  <2>2. \A i \in 1..Len(q) - 1 : i \in DOMAIN q /\ i + 1 \in DOMAIN q
    BY <1>1
  <2>3. \A i \in DOMAIN r : r[i] \in ToSet(q)
    BY <1>4, <1>5, <2>1, <2>2
  <2> QED
    BY <2>1, <2>3 DEF ToSet
<1>8. ToSet(q) \subseteq ToSet(r) \cup {q[n]}
  <2> SUFFICES ASSUME NEW i \in 1..Len(q), i # n PROVE q[i] \in ToSet(r)
    BY <1>1 DEF ToSet
  <2>1. CASE i < n
    BY <1>1, <1>4, <1>5, <2>1 DEF ToSet
  <2>2. CASE i > n
    <3>1. i - 1 \in DOMAIN r /\ r[i - 1] = q[i]
      BY <1>1, <1>4, <1>5, <2>2
    <3> QED
      BY <3>1 DEF ToSet
  <2> QED
    BY <1>1, <2>1, <2>2
<1>9. ASSUME NEW x \in DOMAIN r, NEW y \in DOMAIN r, x < y
      PROVE  \E i, j \in DOMAIN q : i < j /\ r[x] = q[i] /\ r[y] = q[j]
  <2> DEFINE i == IF x < n THEN x ELSE x + 1   j == IF y < n THEN y ELSE y + 1
  <2>1. i \in DOMAIN q /\ j \in DOMAIN q /\ i < j /\ r[x] = q[i] /\ r[y] = q[j]
    BY <1>1, <1>4, <1>5, <1>9
  <2> QED
    BY <2>1
<1> QED
  BY <1>6, <1>7, <1>8, <1>9 DEF r

\* The chunks of a group.
LEMMA ChunksAre ==
  ASSUME NEW A \in ActiveSets, NEW g \in DOMAIN Groups
  PROVE  LET cs == ActiveChunks(g, A) IN
         /\ Len(cs) \in Nat /\ \A p \in A : p \in Params /\ GroupOf(p) \in DOMAIN Groups
         /\ \A k \in 1..Len(cs) :
              /\ Len(cs[k]) \in Nat /\ DOMAIN cs[k] = 1..Len(cs[k]) /\ DOMAIN cs[k] \subseteq Places
              /\ \A i \in DOMAIN cs[k] : cs[k][i] \in A /\ cs[k][i] \in Params /\ GroupOf(cs[k][i]) = g
         /\ \A p \in A : GroupOf(p) = g => \E k \in 1..Len(cs) : \E i \in DOMAIN cs[k] : cs[k][i] = p
         /\ \A k, l \in 1..Len(cs) : \A i \in DOMAIN cs[k], j \in DOMAIN cs[l] :
              cs[k][i] = cs[l][j] => k = l /\ i = j
<1> DEFINE cs == ActiveChunks(g, A)
           cells == {x \in (1..Len(cs)) \X Places : x[2] \in DOMAIN cs[x[1]]}
<1>1. /\ A \subseteq Params /\ cs \in Seq(Seq(Params)) /\ \A k \in DOMAIN cs : DOMAIN cs[k] \subseteq Places
      /\ {cs[x[1]][x[2]] : x \in cells} = A \cap ParamsOf(g)
      /\ \A x, y \in cells : cs[x[1]][x[2]] = cs[y[1]][y[2]] => x = y
  BY ChunksAssumption
<1>2. \A p \in Params, h \in DOMAIN Groups : GroupOf(p) \in DOMAIN Groups /\ p \in ParamsOf(GroupOf(p))
                                          /\ (p \in ParamsOf(h) => GroupOf(p) = h)
  <2>1. \A p : p \in Params <=> \E h \in DOMAIN Groups : p \in ParamsOf(h)
    BY DEF Params
  <2>2. \A p, h : p \in ParamsOf(h) <=> \E c \in DOMAIN Groups[h] : p \in ToSet(Groups[h][c])
    BY DEF ParamsOf
  <2>3. \A p \in Params : GroupOf(p) \in DOMAIN Groups /\ p \in ParamsOf(GroupOf(p))
    BY <2>1, <2>2 DEF GroupOf
  <2> QED
    BY <2>3, GroupsAssumption
<1> HIDE DEF cs
<1>3. Len(cs) \in Nat /\ DOMAIN cs = 1..Len(cs) /\ \A k \in 1..Len(cs) : cs[k] \in Seq(Params)
  BY <1>1
<1>4. \A k \in 1..Len(cs) : Len(cs[k]) \in Nat /\ DOMAIN cs[k] = 1..Len(cs[k]) /\ DOMAIN cs[k] \subseteq Places
  BY <1>1, <1>3
<1>5. ASSUME NEW k \in 1..Len(cs), NEW i \in DOMAIN cs[k]
      PROVE  <<k, i>> \in cells /\ cs[k][i] \in A /\ cs[k][i] \in Params /\ GroupOf(cs[k][i]) = g
  <2>1. <<k, i>> \in cells
    BY <1>4, <1>5
  <2>2. cs[k][i] \in {cs[x[1]][x[2]] : x \in cells}
    BY <2>1
  <2> QED
    BY <1>1, <1>2, <2>1, <2>2
<1>6. ASSUME NEW p \in A, GroupOf(p) = g PROVE \E k \in 1..Len(cs) : \E i \in DOMAIN cs[k] : cs[k][i] = p
  <2>1. p \in {cs[x[1]][x[2]] : x \in cells}
    BY <1>1, <1>2, <1>6
  <2>2. PICK x \in cells : cs[x[1]][x[2]] = p
    BY <2>1
  <2> QED
    BY <2>2
<1>7. ASSUME NEW k \in 1..Len(cs), NEW l \in 1..Len(cs), NEW i \in DOMAIN cs[k], NEW j \in DOMAIN cs[l],
             cs[k][i] = cs[l][j]
      PROVE  k = l /\ i = j
  <2>1. <<k, i>> \in cells /\ <<l, j>> \in cells
    BY <1>5
  <2>2. <<k, i>> = <<l, j>>
    BY <1>1, <1>7, <2>1
  <2> QED
    BY <2>2
<1> QED
  BY <1>1, <1>2, <1>3, <1>4, <1>5, <1>6, <1>7 DEF cs

\* What this says of the group at hand.
LEMMA AtHand ==
  ASSUME Exact, pc \in {"step", "moved"}
  PROVE  /\ Count \in Nat /\ \A p \in active : p \in Params /\ GroupOf(p) \in DOMAIN Groups
         /\ \A k \in 1..Count :
              /\ Len(Chunk(k)) \in Nat /\ DOMAIN Chunk(k) = 1..Len(Chunk(k))
              /\ \A i \in DOMAIN Chunk(k) : /\ Chunk(k)[i] \in active /\ Chunk(k)[i] \in Params
                                            /\ GroupOf(Chunk(k)[i]) = group /\ Buffer(k, i) \in BufferKeys
         /\ \A p \in active : GroupOf(p) = group => \E k \in 1..Count : \E i \in DOMAIN Chunk(k) : Chunk(k)[i] = p
         /\ \A k, l \in 1..Count : \A i \in DOMAIN Chunk(k), j \in DOMAIN Chunk(l) :
              Chunk(k)[i] = Chunk(l)[j] => k = l /\ i = j
<1>1. active \in ActiveSets /\ group \in DOMAIN Groups
  BY DEF Exact, Underway, Progress
<1>2. ASSUME NEW k \in 1..Count, NEW i \in DOMAIN Chunk(k), i \in Places, Chunk(k)[i] \in Params
      PROVE  Buffer(k, i) \in BufferKeys
  <2>1. Count \in Nat /\ (k - 1) % 2 \in Slots
    BY <1>1, ChunksAre DEF Count, Chunks, Slots
  <2> QED
    BY <1>2, <2>1 DEF Buffer, BufferKeys
<1>3. Chunks(group) = ActiveChunks(group, active)
  BY DEF Chunks
<1> DEFINE cs == ActiveChunks(group, active)
<1>4. /\ Len(cs) \in Nat /\ \A p \in active : p \in Params /\ GroupOf(p) \in DOMAIN Groups
      /\ \A k \in 1..Len(cs) :
           /\ Len(cs[k]) \in Nat /\ DOMAIN cs[k] = 1..Len(cs[k]) /\ DOMAIN cs[k] \subseteq Places
           /\ \A i \in DOMAIN cs[k] : cs[k][i] \in active /\ cs[k][i] \in Params /\ GroupOf(cs[k][i]) = group
      /\ \A p \in active : GroupOf(p) = group => \E k \in 1..Len(cs) : \E i \in DOMAIN cs[k] : cs[k][i] = p
      /\ \A k, l \in 1..Len(cs) : \A i \in DOMAIN cs[k], j \in DOMAIN cs[l] :
           cs[k][i] = cs[l][j] => k = l /\ i = j
  BY <1>1, ChunksAre
<1> HIDE DEF cs
<1>5. Count = Len(cs) /\ \A k : Chunk(k) = cs[k]
  BY <1>3 DEF Count, Chunk, cs
<1>6. \A k \in 1..Count : \A i \in DOMAIN Chunk(k) : Buffer(k, i) \in BufferKeys
  BY <1>2, <1>4, <1>5
<1>7. Count \in Nat /\ \A p \in active : p \in Params /\ GroupOf(p) \in DOMAIN Groups
  BY <1>4, <1>5
<1>8. ASSUME NEW k \in 1..Count
      PROVE  /\ Len(Chunk(k)) \in Nat /\ DOMAIN Chunk(k) = 1..Len(Chunk(k))
             /\ \A i \in DOMAIN Chunk(k) : /\ Chunk(k)[i] \in active /\ Chunk(k)[i] \in Params
                                           /\ GroupOf(Chunk(k)[i]) = group
  <2>1. k \in 1..Len(cs) /\ Chunk(k) = cs[k]
    BY <1>5
  <2> QED
    BY <1>4, <2>1
<1>9. ASSUME NEW p \in active, GroupOf(p) = group
      PROVE  \E k \in 1..Count : \E i \in DOMAIN Chunk(k) : Chunk(k)[i] = p
  <2>1. PICK k \in 1..Len(cs) : \E i \in DOMAIN cs[k] : cs[k][i] = p
    BY <1>4, <1>9
  <2>2. k \in 1..Count /\ Chunk(k) = cs[k]
    BY <1>5
  <2> QED
    BY <2>1, <2>2
<1>10. ASSUME NEW k \in 1..Count, NEW l \in 1..Count, NEW i \in DOMAIN Chunk(k), NEW j \in DOMAIN Chunk(l),
              Chunk(k)[i] = Chunk(l)[j]
       PROVE  k = l /\ i = j
  <2>1. k \in 1..Len(cs) /\ l \in 1..Len(cs) /\ Chunk(k) = cs[k] /\ Chunk(l) = cs[l]
    BY <1>5
  <2> QED
    BY <1>4, <1>10, <2>1
<1> QED
  BY <1>6, <1>7, <1>8, <1>9, <1>10

\* Skipping and beginning a step.
LEMMA Begins ==
  ASSUME Exact, SkipStep \/ \E A \in ActiveSets : BeginStep(A)
  PROVE  Exact'
<1>1. CASE SkipStep
  BY <1>1 DEF SkipStep, Exact, StepTypes, AtRest
<1>2. CASE \E A \in ActiveSets : BeginStep(A)
  <2>1. PICK A \in ActiveSets : BeginStep(A)
    BY <1>2
  <2>2. Groups # <<>> /\ DOMAIN Groups = 1..Len(Groups) /\ Len(Groups) \in Nat /\ 1 \in DOMAIN Groups
    BY GroupsAssumption
  <2>3. /\ pc = "idle" /\ dma = <<>> /\ \A p \in Params : weight[p] = due[p] /\ (master[p].bound => master[p].made = due[p])
    BY <2>1 DEF BeginStep, Exact, AtRest
  <2>4. StepTypes' /\ AtRest'
    BY <2>1 DEF BeginStep, Exact, StepTypes, AtRest
  <2>5. Queue' = {} /\ Sent' = {} /\ dma' = <<>>
    BY <2>1, <2>3 DEF BeginStep, Queue, Sent, ToSet
  <2>6. /\ Len(Chunks(1)') \in Nat /\ Chunks(1)' = ActiveChunks(1, A) /\ Count' = Len(Chunks(1)')
        /\ \A k : Chunk(k)' = ActiveChunks(1, A)[k]
    BY <2>1, <2>2, ChunksAre DEF BeginStep, Chunks, Count, Chunk
  <2>7. Progress'
    BY <2>1, <2>2, <2>5, <2>6 DEF BeginStep, Progress, Exact, StepTypes
  <2>8. ASSUME NEW p \in Params
        PROVE  IF Pending(p)' THEN Bound(p)' \cup {Update(p, steps', GroupOf(p))} = due'[p]
               ELSE (weight'[p] = due'[p] \/ Leaving(p)') /\ (master'[p].bound => master'[p].made = due'[p])
    <3>1. CASE p \in A
      <4>1. Pending(p)'
        <5>1. GroupOf(p) \in DOMAIN Groups /\ active' = A /\ group' = 1 /\ stepped' = 0
          BY <2>1, <2>2, <3>1, ChunksAre DEF BeginStep
        <5>2. GroupOf(p) = 1 => \E k \in 1..Len(Chunks(1)') : \E i \in DOMAIN Chunk(k)' : Chunk(k)'[i] = p
          BY <2>2, <2>6, <3>1, ChunksAre
        <5> QED
          BY <2>2, <2>6, <3>1, <5>1, <5>2 DEF Pending
      <4>2. Bound(p)' = due[p]
        BY <2>1, <2>3 DEF BeginStep, Bound
      <4> QED
        BY <2>1, <3>1, <4>1, <4>2 DEF BeginStep
    <3>2. CASE p \notin A
      BY <2>1, <2>3, <3>2 DEF BeginStep, Pending
    <3> QED
      BY <3>1, <3>2
  <2>9. Values'
    BY <2>8 DEF Values, Update
  <2>10. Outgoing' /\ Incoming' /\ Gradients' /\ InSlots' /\ HostOrder'
    BY <2>5 DEF Outgoing, Incoming, Gradients, InSlots, HostOrder
  <2> QED
    BY <2>4, <2>7, <2>9, <2>10 DEF Exact, Underway
<1> QED
  BY <1>1, <1>2

\* The end of a group.
LEMMA GroupEnds ==
  ASSUME Exact, pc = "step", stepped = Count, dma = <<>>, EndGroup,
         UNCHANGED <<mode, events, steps, active, master, weight, host, dma, d2h, due>>, DOMAIN h2d' = Slots
  PROVE  Exact'
<1>1. /\ DOMAIN Groups = 1..Len(Groups) /\ Len(Groups) \in Nat /\ group \in 1..Len(Groups) /\ active \in ActiveSets
  BY GroupsAssumption DEF Exact, Underway, Progress
<1>2. Queue = {}
  BY DEF Queue, ToSet
<1>3. ASSUME NEW p \in Params
      PROVE  /\ Pending(p) <=> p \in active /\ GroupOf(p) > group
             /\ ~Pending(p) => weight[p] = due[p] /\ (master[p].bound => master[p].made = due[p])
  <2>1. stepped + 1..Count = {}
    BY AtHand
  <2> QED
    BY <1>2, <2>1 DEF Pending, Exact, Underway, Values, Leaving
<1>4. StepTypes'
  BY DEF EndGroup, Exact, StepTypes
<1>5. CASE group = Len(Groups)
  <2>1. \A p \in Params : ~Pending(p)
    BY <1>1, <1>3, <1>5, AtHand
  <2> QED
    BY <1>1, <1>3, <1>4, <1>5, <2>1 DEF EndGroup, Exact, AtRest
<1>6. CASE group < Len(Groups)
  <2>1. /\ group' = group + 1 /\ group + 1 \in DOMAIN Groups /\ stepped' = 0 /\ queued' = 0 /\ pc' = pc /\ narrowed' = narrowed
        /\ mode = "cpu" => hyper' = group + 1
    BY <1>1, <1>6 DEF EndGroup
  <2>2. /\ Count' = Len(ActiveChunks(group + 1, active)) /\ Count' \in Nat
        /\ \A k : Chunk(k)' = ActiveChunks(group + 1, active)[k]
    BY <1>1, <2>1, ChunksAre DEF Chunks, Count, Chunk
  <2>3. Queue' = {} /\ Sent' = {}
    BY <1>2, <2>1 DEF Queue, Sent
  <2>4. Progress'
    BY <1>1, <2>1, <2>2 DEF Exact, Underway, Progress
  <2>5. ASSUME NEW p \in Params PROVE Pending(p)' <=> Pending(p)
    <3>1. GroupOf(p) = group + 1 /\ p \in active => \E k \in 1..Count' : \E i \in DOMAIN Chunk(k)' : Chunk(k)'[i] = p
      BY <1>1, <2>1, <2>2, ChunksAre
    <3>2. p \in active => GroupOf(p) \in Int
      BY <1>1, AtHand
    <3> QED
      BY <1>1, <1>3, <2>1, <3>1, <3>2 DEF Pending
  <2>6. Values'
    BY <1>2, <1>3, <2>5 DEF Exact, Underway, Values, Bound, Leaving, Update
  <2>7. Outgoing' /\ Incoming' /\ Gradients' /\ InSlots' /\ HostOrder'
    BY <2>3 DEF Outgoing, Incoming, Gradients, InSlots, HostOrder
  <2> QED
    BY <1>4, <2>1, <2>4, <2>6, <2>7 DEF Exact, Underway, AtRest
<1>7. group = Len(Groups) \/ group < Len(Groups)
  <2> DEFINE n == Len(Groups)
  <2>1. n \in Nat /\ group \in 1..n
    BY <1>1
  <2> HIDE DEF n
  <2>2. group = n \/ group < n
    BY <2>1
  <2> QED
    BY <2>2 DEF n
<1> QED
  BY <1>5, <1>6, <1>7

\* Finishing a group, and failing in one.
LEMMA Finishes ==
  ASSUME Exact, FinishCpuGroup \/ FinishDeviceGroup \/ StepRaises
  PROVE  Exact'
<1>1. CASE FinishCpuGroup
  <2>1. pc = "step" /\ stepped = Count /\ EndGroup /\ DOMAIN h2d' = Slots
    BY <1>1 DEF FinishCpuGroup, InCpuGroup, Count
  <2>2. dma = <<>>
    <3>1. CASE Chunks(group) # <<>>
      BY <1>1, <3>1 DEF FinishCpuGroup, GroupDrained
    <3>2. CASE Chunks(group) = <<>>
      <4>1. Count = 0
        BY <3>2 DEF Count
      <4> QED
        BY <1>1, <4>1 DEF FinishCpuGroup, InCpuGroup, Exact, Underway, Progress
    <3> QED
      BY <3>1, <3>2
  <2> QED
    BY <1>1, <2>1, <2>2, GroupEnds DEF FinishCpuGroup
<1>2. CASE FinishDeviceGroup
  <2>1. pc = "step" /\ stepped = Count /\ EndGroup /\ dma = <<>> /\ DOMAIN h2d' = Slots
    BY <1>2 DEF FinishDeviceGroup, OnDevice, Count, Exact, Underway, Progress, StepTypes
  <2> QED
    BY <1>2, <2>1, GroupEnds DEF FinishDeviceGroup
<1>3. CASE StepRaises
  BY <1>3 DEF StepRaises, Exact, StepTypes, AtRest
<1> QED
  BY <1>1, <1>2, <1>3

\* A step of the group at hand leaves its chunks as they are.
LEMMA SameChunks ==
  ASSUME active' = active, group' = group
  PROVE  Count' = Count /\ \A k : Chunk(k)' = Chunk(k) /\ \A i : Buffer(k, i)' = Buffer(k, i)
BY DEF Count, Chunk, Chunks, Buffer

\* A parameter of the next chunk is pending, and only until it is stepped.
LEMMA NextChunk ==
  ASSUME Exact, pc \in {"step", "moved"}, stepped < Count, stepped' = stepped + 1, UNCHANGED <<active, group>>
  PROVE  /\ stepped + 1 \in 1..Count
         /\ \A p \in ToSet(Chunk(stepped + 1)) : p \in Params /\ GroupOf(p) = group /\ Pending(p) /\ ~Pending(p)'
         /\ \A p : p \notin ToSet(Chunk(stepped + 1)) => (Pending(p)' <=> Pending(p))
<1>1. Count' = Count /\ (\A k : Chunk(k)' = Chunk(k)) /\ stepped \in Nat /\ Count \in Nat /\ stepped + 1 \in 1..Count
  BY SameChunks, AtHand DEF Exact, Underway, Progress
<1>2. ASSUME NEW p \in ToSet(Chunk(stepped + 1))
      PROVE  p \in Params /\ GroupOf(p) = group /\ Pending(p) /\ ~Pending(p)'
  <2>1. PICK i \in DOMAIN Chunk(stepped + 1) : p = Chunk(stepped + 1)[i]
    BY DEF ToSet
  <2>2. p \in active /\ p \in Params /\ GroupOf(p) = group
    BY <1>1, <2>1, AtHand
  <2>3. stepped + 1 \in stepped + 1..Count /\ ~(group > group)
    BY <1>1, GroupsAssumption DEF Exact, Underway, Progress
  <2>4. Pending(p)
    BY <2>1, <2>2, <2>3 DEF Pending
  <2>5. ASSUME NEW k \in stepped' + 1..Count', NEW j \in DOMAIN Chunk(k)', Chunk(k)'[j] = p PROVE FALSE
    <3>1. k \in 1..Count /\ k # stepped + 1 /\ Chunk(k)[j] = Chunk(stepped + 1)[i] /\ j \in DOMAIN Chunk(k)
      BY <1>1, <2>1, <2>5
    <3> QED
      BY <1>1, <3>1, AtHand
  <2> QED
    BY <2>2, <2>3, <2>4, <2>5 DEF Pending
<1>3. ASSUME NEW p, p \notin ToSet(Chunk(stepped + 1)) PROVE Pending(p)' <=> Pending(p)
  <2>1. ASSUME NEW k \in stepped + 1..Count, NEW i \in DOMAIN Chunk(k), Chunk(k)[i] = p PROVE k \in stepped' + 1..Count'
    <3>1. k # stepped + 1
      BY <1>3, <2>1 DEF ToSet
    <3> QED
      BY <1>1, <3>1
  <2>2. stepped' + 1..Count' \subseteq stepped + 1..Count
    BY <1>1
  <2> QED
    BY <1>1, <2>1, <2>2 DEF Pending
<1> QED
  BY <1>1, <1>2, <1>3

\* A chunk is stepped on the device.
LEMMA OnTheDevice ==
  ASSUME Exact, MoveIn \/ StepOnDevice
  PROVE  Exact'
<1>1. CASE MoveIn
  <2>1. Count' = Count /\ \A k : Chunk(k)' = Chunk(k) /\ \A i : Buffer(k, i)' = Buffer(k, i)
    BY <1>1, SameChunks DEF MoveIn
  <2>2. StepTypes' /\ AtRest'
    BY <1>1 DEF MoveIn, Exact, StepTypes, AtRest
  <2>3. Progress'
    BY <1>1, <2>1 DEF MoveIn, OnDevice, Count, Exact, Underway, Progress
  <2>4. Queue' = Queue /\ Sent' = Sent /\ \A p : (Pending(p)' <=> Pending(p)) /\ (Leaving(p)' <=> Leaving(p)) /\ Bound(p)' = Bound(p)
    BY <1>1, <2>1 DEF MoveIn, Queue, Sent, Pending, Leaving, Bound
  <2>5. Values' /\ Outgoing'
    BY <1>1, <2>4 DEF MoveIn, Exact, Underway, Values, Outgoing
  <2>6. \A k, i : GradientOf(k, i)' = GradientOf(k, i)
    BY <1>1, <2>1 DEF MoveIn, GradientOf
  <2>7. Incoming' /\ Gradients'
    BY <1>1, <2>1, <2>4, <2>6 DEF MoveIn, Exact, Underway, Incoming, Gradients
  <2>8. InSlots' /\ HostOrder'
    BY <1>1, <2>4 DEF MoveIn, Exact, Underway, InSlots, HostOrder
  <2> QED
    BY <2>2, <2>3, <2>5, <2>7, <2>8 DEF Exact, Underway
<1>2. CASE StepOnDevice
  <2>1. /\ mode # "cpu" /\ dma = <<>> /\ dma' = <<>> /\ pc = "moved" /\ pc' = "step" /\ stepped < Count /\ stepped' = stepped + 1
        /\ stepped \in Nat /\ Count \in Nat /\ queued \in Nat
    BY <1>2, AtHand DEF StepOnDevice, Exact, Underway, Progress
  <2>2. Queue = {} /\ Queue' = {} /\ DOMAIN dma' = {}
    BY <2>1 DEF Queue, ToSet
  <2>3. Count' = Count /\ \A k : Chunk(k)' = Chunk(k) /\ \A i : Buffer(k, i)' = Buffer(k, i)
    BY <1>2, SameChunks DEF StepOnDevice
  <2>4. StepTypes' /\ AtRest'
    BY <1>2, <2>1 DEF StepOnDevice, Exact, StepTypes, AtRest
  <2>5. Progress'
    BY <1>2, <2>1, <2>3 DEF StepOnDevice, Exact, Underway, Progress
  <2>6. ASSUME NEW p \in Params
        PROVE  IF Pending(p)' THEN Bound(p)' \cup {Update(p, steps', GroupOf(p))} = due'[p]
               ELSE (weight'[p] = due'[p] \/ Leaving(p)') /\ (master'[p].bound => master'[p].made = due'[p])
    <3>1. CASE p \in ToSet(Chunk(stepped + 1))
      <4>1. ~Pending(p)' /\ Pending(p) /\ GroupOf(p) = group
        BY <1>2, <2>1, <3>1, NextChunk DEF StepOnDevice
      <4>2. Bound(p) \cup {Update(p, steps, group)} = due[p]
        BY <2>1, <4>1 DEF Exact, Underway, Values
      <4> QED
        BY <1>2, <3>1, <4>1, <4>2 DEF StepOnDevice
    <3>2. CASE p \notin ToSet(Chunk(stepped + 1))
      <4>1. Pending(p)' <=> Pending(p)
        BY <1>2, <2>1, <3>2, NextChunk DEF StepOnDevice
      <4>2. ~Leaving(p)
        BY <2>2 DEF Leaving
      <4> QED
        BY <1>2, <2>1, <3>2, <4>1, <4>2 DEF StepOnDevice, Exact, Underway, Values, Bound
    <3> QED
      BY <3>1, <3>2
  <2>7. Values'
    BY <2>6 DEF Values, Update
  <2>8. Sent' \subseteq Sent
    BY <1>2, <2>1 DEF StepOnDevice, Sent
  <2>9. \A k, i : GradientOf(k, i)' = GradientOf(k, i)
    BY <1>2, <2>3 DEF StepOnDevice, GradientOf
  <2>10. Gradients'
    BY <1>2, <2>1, <2>2, <2>3, <2>8, <2>9 DEF StepOnDevice, Exact, Underway, Gradients
  <2>11. Outgoing' /\ Incoming' /\ InSlots' /\ HostOrder'
    BY <2>2 DEF Outgoing, Incoming, InSlots, HostOrder
  <2> QED
    BY <2>4, <2>5, <2>7, <2>10, <2>11 DEF Exact, Underway
<1> QED
  BY <1>1, <1>2

\* The two chunks that may be under way are in two slots.
LEMMA TwoSlots ==
  ASSUME Exact, pc \in {"step", "moved"}, mode = "cpu"
  PROVE  /\ stepped \in Nat /\ queued \in Nat /\ Count \in Nat /\ pc = "step" /\ hyper = group
         /\ Sent \subseteq 1..Count /\ \A k \in Sent : k \in Nat /\ (k - 1) % 2 \in Slots
         /\ \A k \in Sent : k = stepped + 1 \/ k = stepped + 2
         /\ \A k, l \in Sent : (k - 1) % 2 = (l - 1) % 2 => k = l
         /\ \A k \in Sent : \A i \in DOMAIN Chunk(k) : Chunk(k)[i] \in Params /\ Buffer(k, i) \in BufferKeys /\ GradientOf(k, i).to = "host"
         /\ \A k, i : Buffer(k, i)[1] = (k - 1) % 2 /\ Buffer(k, i)[2] = i
         /\ \A t \in Queue : t.buf[1] \in Slots
<1>1. /\ stepped \in Nat /\ queued \in Nat /\ Count \in Nat /\ pc = "step" /\ hyper = group
      /\ queued <= stepped + 2 /\ queued <= Count
  BY AtHand DEF Exact, Underway, Progress
<1>2. \A k \in Sent : k \in 1..Count /\ k \in Nat /\ (k - 1) % 2 \in Slots /\ (k = stepped + 1 \/ k = stepped + 2)
  BY <1>1 DEF Sent, Slots
<1>3. \A k, l \in Sent : (k - 1) % 2 = (l - 1) % 2 => k = l
  <2>1. stepped % 2 # (stepped + 1) % 2
    BY <1>1
  <2>2. stepped + 1 - 1 = stepped /\ stepped + 2 - 1 = stepped + 1
    BY <1>1
  <2> SUFFICES ASSUME NEW k \in Sent, NEW l \in Sent, (k - 1) % 2 = (l - 1) % 2, k # l PROVE FALSE
    OBVIOUS
  <2>3. CASE k = stepped + 1
    <3>1. k - 1 = stepped /\ l - 1 = stepped + 1
      BY <1>1, <1>2, <2>3
    <3> QED
      BY <2>1, <3>1
  <2>4. CASE k = stepped + 2
    <3>1. l - 1 = stepped /\ k - 1 = stepped + 1
      BY <1>1, <1>2, <2>4
    <3> QED
      BY <2>1, <3>1
  <2> QED
    BY <1>2, <2>3, <2>4
<1>4. \A k \in Sent : \A i \in DOMAIN Chunk(k) : Chunk(k)[i] \in Params /\ Buffer(k, i) \in BufferKeys /\ GradientOf(k, i).to = "host"
  BY <1>2, AtHand DEF GradientOf
<1>5. \A k, i : Buffer(k, i)[1] = (k - 1) % 2 /\ Buffer(k, i)[2] = i
  BY DEF Buffer
<1>6. ASSUME NEW t \in Queue PROVE t.buf[1] \in Slots
  <2>1. CASE t.to = "host"
    <3>1. PICK k \in Sent : \E i \in DOMAIN Chunk(k) : t = GradientOf(k, i)
      BY <2>1 DEF Exact, Underway, Incoming
    <3> QED
      BY <1>2, <1>5, <3>1 DEF GradientOf
  <2>2. CASE t.to # "host"
    BY <2>2 DEF Exact, Underway, Outgoing, BufferKeys
  <2> QED
    BY <2>1, <2>2
<1> QED
  BY <1>1, <1>2, <1>3, <1>4, <1>5, <1>6

\* Gradients are sent.
LEMMA Enqueues ==
  ASSUME Exact, EnqueueGradients
  PROVE  Exact'
<1> DEFINE k == queued + 1
           here == queued % 2
           copies == [i \in DOMAIN Chunk(k) |-> [to |-> "host", param |-> Chunk(k)[i], buf |-> Buffer(k, i), at |-> steps]]
<1>1. /\ pc = "step" /\ mode = "cpu" /\ queued < Ahead /\ Free(here) /\ queued' = k /\ dma' = dma \o copies
      /\ d2h' = [d2h EXCEPT ![here] = Record(dma')] /\ h2d' = [h2d EXCEPT ![here] = NoEvent]
      /\ UNCHANGED <<mode, events, pc, steps, active, group, stepped, hyper, narrowed, master, weight, host, home, due>>
  BY DEF EnqueueGradients, InCpuGroup
<1>2. /\ stepped \in Nat /\ queued \in Nat /\ Count \in Nat /\ here \in Slots /\ k \in 1..Count /\ k <= stepped + 2
      /\ stepped <= queued /\ (k - 1) % 2 = here
  BY <1>1, TwoSlots DEF Ahead, Count, Slots, Exact, Underway, Progress
<1>3. Count' = Count /\ (\A l : Chunk(l)' = Chunk(l) /\ \A i : Buffer(l, i)' = Buffer(l, i))
      /\ \A l, i : GradientOf(l, i)' = GradientOf(l, i)
  BY <1>1, SameChunks DEF GradientOf
<1>4. IsSeq(copies) /\ ToSet(copies) = {GradientOf(k, i) : i \in DOMAIN Chunk(k)}
  <2>1. Len(Chunk(k)) \in Nat /\ DOMAIN Chunk(k) = 1..Len(Chunk(k))
    BY <1>1, <1>2, AtHand
  <2>2. \A i \in DOMAIN copies : copies[i] = GradientOf(k, i)
    BY DEF GradientOf
  <2>3. DOMAIN copies = DOMAIN Chunk(k)
    OBVIOUS
  <2>4. ToSet(copies) = {GradientOf(k, i) : i \in DOMAIN Chunk(k)}
    BY <2>2, <2>3 DEF ToSet
  <2>5. DOMAIN copies = 1..Len(Chunk(k)) /\ copies = [i \in 1..Len(Chunk(k)) |-> copies[i]]
    BY <2>1
  <2> HIDE DEF copies
  <2> QED
    BY <2>1, <2>4, <2>5, Listed
<1> HIDE DEF copies
<1>5. /\ IsSeq(dma') /\ Queue' = Queue \cup {GradientOf(k, i) : i \in DOMAIN Chunk(k)} /\ Len(dma) \in Nat
      /\ \A x \in DOMAIN dma' : x \in Nat /\ \/ x <= Len(dma) /\ x \in DOMAIN dma /\ dma'[x] = dma[x]
                                             \/ x > Len(dma) /\ dma'[x] \in {GradientOf(k, i) : i \in DOMAIN Chunk(k)}
  BY <1>1, <1>4, Behind DEF Queue, Exact, StepTypes
<1>6. Sent' = Sent \cup {k}
  BY <1>1, <1>2 DEF Sent
<1>7. ASSUME NEW t \in Queue', t \notin Queue
      PROVE  t.to = "host" /\ t.buf[1] = here /\ \E i \in DOMAIN Chunk(k) : t = GradientOf(k, i)
  <2>1. PICK i \in DOMAIN Chunk(k) : t = GradientOf(k, i)
    BY <1>5, <1>7
  <2> QED
    BY <1>2, <2>1 DEF GradientOf, Buffer
<1>8. StepTypes'
  BY <1>1, <1>5 DEF Exact, StepTypes, Record, NoEvent
<1>9. AtRest'
  BY <1>1 DEF Exact, AtRest
<1>10. Progress'
  BY <1>1, <1>2, <1>3 DEF Exact, Underway, Progress
<1>11. Values'
  <2>1. \A p : (Pending(p)' <=> Pending(p)) /\ (Leaving(p) => Leaving(p)') /\ Bound(p)' = Bound(p)
    BY <1>1, <1>3, <1>5 DEF Pending, Leaving, Bound
  <2> QED
    BY <1>1, <2>1 DEF Exact, Underway, Values
<1>12. Outgoing'
  <2>1. \A p : Pending(p)' <=> Pending(p)
    BY <1>1, <1>3 DEF Pending
  <2> QED
    BY <1>1, <1>7, <2>1 DEF Exact, Underway, Outgoing
<1>13. Incoming'
  <2> SUFFICES ASSUME NEW t \in Queue', t.to = "host" PROVE \E l \in Sent' : \E i \in DOMAIN Chunk(l)' : t = GradientOf(l, i)'
    BY DEF Incoming
  <2>1. \E l \in Sent \cup {k} : \E i \in DOMAIN Chunk(l) : t = GradientOf(l, i)
    BY <1>1, <1>7 DEF Exact, Underway, Incoming
  <2> QED
    BY <1>3, <1>6, <2>1
<1>14. Gradients'
  <2> SUFFICES ASSUME NEW l \in Sent \cup {k}, NEW i \in DOMAIN Chunk(l)
               PROVE  GradientOf(l, i) \in Queue' \/ host[Buffer(l, i)] = {Update(Chunk(l)[i], steps, 0)}
    BY <1>1, <1>3, <1>6 DEF Gradients, Update
  <2>1. CASE l = k
    BY <1>5, <2>1
  <2>2. CASE l \in Sent
    <3>1. GradientOf(l, i) \in Queue \/ host[Buffer(l, i)] = {Update(Chunk(l)[i], steps, 0)}
      BY <1>1, <2>2 DEF Exact, Underway, Gradients
    <3> QED
      BY <1>5, <3>1
  <2> QED
    BY <2>1, <2>2
<1>15. InSlots'
  <2> SUFFICES ASSUME events PROVE InSlots'
    BY <1>1 DEF InSlots
  <2>1. \A t \in Queue : t.to # "host" => t.buf[1] # here
    BY <1>1 DEF Exact, Underway, InSlots, Free, Waited, Queue
  <2>2. d2h'[here].after = Queue' /\ h2d'[here].after = {} /\ \A s \in Slots : s # here => d2h'[s] = d2h[s] /\ h2d'[s] = h2d[s]
    BY <1>1, <1>2 DEF Record, NoEvent, Queue, Exact, StepTypes
  <2>3. ASSUME NEW t \in Queue' PROVE t \in (IF t.to = "host" THEN d2h' ELSE h2d')[t.buf[1]].after
    <3>1. CASE t.buf[1] = here
      BY <1>7, <2>1, <2>2, <2>3, <3>1
    <3>2. CASE t.buf[1] # here
      <4>1. t \in Queue /\ t.buf[1] \in Slots
        BY <1>1, <1>7, <3>2, TwoSlots
      <4>2. t \in (IF t.to = "host" THEN d2h ELSE h2d)[t.buf[1]].after
        BY <1>1, <4>1 DEF Exact, Underway, InSlots
      <4> QED
        BY <2>2, <3>2, <4>1, <4>2
    <3> QED
      BY <3>1, <3>2
  <2>4. ASSUME NEW t \in Queue', NEW l \in Sent', t.to = "device" PROVE t.buf[1] # (l - 1) % 2
    <3>1. t \in Queue
      BY <1>7, <2>4
    <3>2. l = k => (l - 1) % 2 = here
      BY <1>2
    <3>3. l \in Sent => t.buf[1] # (l - 1) % 2
      BY <1>1, <2>4, <3>1 DEF Exact, Underway, InSlots
    <3> QED
      BY <1>6, <2>1, <2>4, <3>1, <3>2, <3>3
  <2> QED
    BY <2>3, <2>4 DEF InSlots
<1>16. HostOrder'
  <2> SUFFICES ASSUME ~events, NEW x \in DOMAIN dma', NEW y \in DOMAIN dma', x < y, dma'[x].to = "host"
               PROVE  dma'[y].to = "host"
    BY <1>1 DEF HostOrder
  <2>1. CASE y > Len(dma)
    <3>1. dma'[y] \in {GradientOf(k, i) : i \in DOMAIN Chunk(k)}
      BY <1>5, <2>1
    <3> QED
      BY <3>1 DEF GradientOf
  <2>2. CASE y <= Len(dma)
    <3>1. x \in DOMAIN dma /\ y \in DOMAIN dma /\ dma'[x] = dma[x] /\ dma'[y] = dma[y]
      BY <1>5, <2>2
    <3>2. dma[y].to = "host"
      BY <1>1, <3>1 DEF Exact, Underway, HostOrder
    <3> QED
      BY <3>1, <3>2
  <2> QED
    BY <1>5, <2>1, <2>2
<1> QED
  BY <1>1, <1>8, <1>9, <1>10, <1>11, <1>12, <1>13, <1>14, <1>15, <1>16 DEF Exact, Underway

\* A queued transfer is made.
LEMMA Transfers ==
  ASSUME Exact, NEW n \in DOMAIN dma, Transfer(n)
  PROVE  Exact'
<1> DEFINE t == dma[n]
<1>1. /\ ~events => n = 1
      /\ dma' = RemoveAt(dma, n)
      /\ t.to = "host" => host' = [host EXCEPT ![t.buf] = {Update(t.param, t.at, 0)}] /\ weight' = weight
      /\ t.to # "host" => weight' = [weight EXCEPT ![t.param] = host[t.buf]] /\ host' = host
      /\ UNCHANGED <<mode, events, pc, steps, active, group, queued, stepped, hyper, narrowed, master, d2h, h2d,
                     home, due>>
  BY DEF Transfer
<1>2. /\ IsSeq(dma') /\ Queue' \subseteq Queue /\ Queue \subseteq Queue' \cup {t} /\ t \in Queue
      /\ \A x, y \in DOMAIN dma' : x < y => \E i, j \in DOMAIN dma : i < j /\ dma'[x] = dma[i] /\ dma'[y] = dma[j]
  BY <1>1, TakenFrom DEF Queue, Exact, StepTypes
<1>3. StepTypes'
  BY <1>1, <1>2 DEF Exact, StepTypes
<1>4. pc # "idle" /\ (pc = "failed" \/ (pc = "step" /\ mode = "cpu"))
  BY DEF Exact, AtRest, StepTypes, Underway, Progress
<1>5. AtRest'
  BY <1>1, <1>4 DEF Exact, AtRest
<1>6. CASE pc = "failed"
  BY <1>1, <1>3, <1>5, <1>6 DEF Exact
<1>7. CASE pc = "step" /\ mode = "cpu"
  <2>1. Count' = Count /\ (\A l : Chunk(l)' = Chunk(l) /\ \A i : Buffer(l, i)' = Buffer(l, i))
        /\ (\A l, i : GradientOf(l, i)' = GradientOf(l, i)) /\ Sent' = Sent
        /\ \A p : Pending(p)' <=> Pending(p)
    BY <1>1, SameChunks DEF GradientOf, Sent, Pending
  <2>2. Progress'
    BY <1>1, <1>7, <2>1 DEF Exact, Underway, Progress
  <2>3. Incoming'
    BY <1>2, <1>7, <2>1 DEF Exact, Underway, Incoming
  <2>4. InSlots'
    BY <1>1, <1>2, <1>7, <2>1 DEF Exact, Underway, InSlots
  <2>5. HostOrder'
    <3> SUFFICES ASSUME ~events, NEW x \in DOMAIN dma', NEW y \in DOMAIN dma', x < y, dma'[x].to = "host"
                 PROVE  dma'[y].to = "host"
      BY <1>1 DEF HostOrder
    <3>1. PICK i, j \in DOMAIN dma : i < j /\ dma'[x] = dma[i] /\ dma'[y] = dma[j]
      BY <1>2
    <3>2. dma[j].to = "host"
      BY <1>7, <3>1 DEF Exact, Underway, HostOrder
    <3> QED
      BY <3>1, <3>2
  <2>6. CASE t.to = "host"
    <3>1. PICK k \in Sent : \E i \in DOMAIN Chunk(k) : t = GradientOf(k, i)
      BY <1>2, <1>7, <2>6 DEF Exact, Underway, Incoming
    <3>2. PICK i \in DOMAIN Chunk(k) : t = GradientOf(k, i)
      BY <3>1
    <3>3. /\ t.param = Chunk(k)[i] /\ t.at = steps /\ t.buf = Buffer(k, i) /\ t.buf \in BufferKeys /\ t.buf[1] = (k - 1) % 2
          /\ t.buf[2] = i
      BY <1>7, <3>2, TwoSlots DEF GradientOf
    <3>4. host'[t.buf] = {Update(Chunk(k)[i], steps, 0)} /\ \A b \in BufferKeys : b # t.buf => host'[b] = host[b]
      BY <1>1, <2>6, <3>3 DEF Exact, StepTypes
    <3>5. \A u \in Queue : u.to # "host" => u.buf # t.buf
      <4>1. CASE events
        BY <1>7, <3>3, <4>1 DEF Exact, Underway, InSlots, Outgoing
      <4>2. CASE ~events
        <5>1. PICK m \in Nat : DOMAIN dma = 1..m
          BY DEF Exact, StepTypes, IsSeq
        <5>2. \A y \in DOMAIN dma : dma[y].to = "host"
          <6> SUFFICES ASSUME NEW y \in DOMAIN dma, y # n PROVE dma[y].to = "host"
            BY <2>6
          <6>1. n < y
            BY <1>1, <4>2, <5>1
          <6> QED
            BY <1>7, <2>6, <4>2, <6>1 DEF Exact, Underway, HostOrder
        <5> QED
          BY <5>2 DEF Queue, ToSet
      <4> QED
        BY <4>1, <4>2
    <3>6. Outgoing'
      BY <1>1, <1>2, <1>7, <2>1, <3>4, <3>5 DEF Exact, Underway, Outgoing
    <3>7. Values'
      <4>1. \A p : (Leaving(p) <=> Leaving(p)') /\ Bound(p)' = Bound(p)
        BY <1>1, <1>2, <2>6 DEF Leaving, Bound
      <4> QED
        BY <1>1, <1>7, <2>1, <2>6, <4>1 DEF Exact, Underway, Values
    <3>8. Gradients'
      <4> SUFFICES ASSUME NEW l \in Sent, NEW j \in DOMAIN Chunk(l)
                   PROVE  GradientOf(l, j) \in Queue' \/ host'[Buffer(l, j)] = {Update(Chunk(l)[j], steps, 0)}
        BY <1>1, <2>1 DEF Gradients, Update
      <4>1. GradientOf(l, j) \in Queue \/ host[Buffer(l, j)] = {Update(Chunk(l)[j], steps, 0)}
        BY <1>7 DEF Exact, Underway, Gradients
      <4>2. CASE Buffer(l, j) = Buffer(k, i)
        <5>1. l = k /\ j = i
          BY <1>7, <4>2, TwoSlots
        <5> QED
          BY <3>3, <3>4, <5>1
      <4>3. CASE Buffer(l, j) # Buffer(k, i)
        <5>1. GradientOf(l, j) # t
          BY <3>3, <4>3 DEF GradientOf
        <5>2. Buffer(l, j) \in BufferKeys
          BY <1>7, TwoSlots
        <5> QED
          BY <1>2, <3>3, <3>4, <4>1, <4>3, <5>1, <5>2
      <4> QED
        BY <4>2, <4>3
    <3> QED
      BY <1>3, <1>5, <2>2, <2>3, <2>4, <2>5, <3>6, <3>7, <3>8 DEF Exact, Underway
  <2>7. CASE t.to # "host"
    <3>1. t.to = "device" /\ t.param \in Params /\ ~Pending(t.param) /\ host[t.buf] = due[t.param]
      BY <1>2, <1>7, <2>7 DEF Exact, Underway, Outgoing
    <3>2. weight'[t.param] = due[t.param] /\ \A p \in Params : p # t.param => weight'[p] = weight[p]
      BY <1>1, <2>7, <3>1 DEF Exact, StepTypes
    <3>3. Outgoing'
      BY <1>1, <1>2, <1>7, <2>1, <2>7 DEF Exact, Underway, Outgoing
    <3>4. Gradients'
      <4>1. \A l, j : GradientOf(l, j) \in Queue => GradientOf(l, j) \in Queue'
        BY <1>2, <2>7 DEF GradientOf
      <4> QED
        BY <1>1, <1>7, <2>1, <2>7, <4>1 DEF Exact, Underway, Gradients, Update
    <3>5. Values'
      <4> SUFFICES ASSUME NEW p \in Params
                   PROVE  IF Pending(p)' THEN Bound(p)' \cup {Update(p, steps', GroupOf(p))} = due'[p]
                          ELSE (weight'[p] = due'[p] \/ Leaving(p)') /\ (master'[p].bound => master'[p].made = due'[p])
        BY DEF Values, Update
      <4>1. CASE p = t.param
        BY <1>1, <1>7, <2>1, <3>1, <3>2, <4>1 DEF Exact, Underway, Values
      <4>2. CASE p # t.param
        <5>1. (Leaving(p) => Leaving(p)') /\ Bound(p)' = Bound(p)
          BY <1>1, <1>2, <3>2, <4>2 DEF Leaving, Bound
        <5> QED
          BY <1>1, <1>7, <2>1, <3>2, <4>2, <5>1 DEF Exact, Underway, Values
      <4> QED
        BY <4>1, <4>2
    <3> QED
      BY <1>3, <1>5, <2>2, <2>3, <2>4, <2>5, <3>3, <3>4, <3>5 DEF Exact, Underway
  <2> QED
    BY <2>6, <2>7
<1> QED
  BY <1>4, <1>6, <1>7

\* The masters of a chunk are stepped, and the weights sent.
LEMMA MastersStep ==
  ASSUME Exact, StepMasters
  PROVE  Exact'
<1> DEFINE k == stepped + 1
           here == stepped % 2
           chunk == Chunk(k)
           ChunkIndex(p) == CHOOSE i \in DOMAIN chunk : chunk[i] = p
           Made(p) == Bound(p) \cup {[u EXCEPT !.by = hyper] : u \in host[Buffer(k, ChunkIndex(p))]}
           Weight(i) == [to |-> "device", param |-> chunk[i], buf |-> Buffer(k, i), at |-> steps]
           copies == [i \in DOMAIN chunk |-> [to |-> "device", param |-> chunk[i], buf |-> Buffer(k, i), at |-> steps]]
<1>1. /\ pc = "step" /\ mode = "cpu" /\ queued = Ahead /\ stepped < queued /\ SlotArrived(here) /\ stepped' = k
      /\ master' = [p \in Params |-> IF p \in ToSet(chunk) THEN [bound |-> TRUE, made |-> Made(p)] ELSE master[p]]
      /\ host' = [b \in BufferKeys |-> IF \E i \in DOMAIN chunk : b = Buffer(k, i) THEN Made(chunk[b[2]]) ELSE host[b]]
      /\ dma' = dma \o copies
      /\ h2d' = [h2d EXCEPT ![here] = Record(dma')] /\ d2h' = [d2h EXCEPT ![here] = NoEvent]
      /\ UNCHANGED <<mode, events, pc, steps, active, group, queued, hyper, narrowed, weight, home, due>>
  BY DEF StepMasters, InCpuGroup
<1>2. /\ stepped \in Nat /\ queued \in Nat /\ Count \in Nat /\ here \in Slots /\ k \in 1..Count /\ k \in Sent /\ k - 1 = stepped
      /\ (k - 1) % 2 = here /\ stepped < Count
  BY <1>1, TwoSlots DEF Sent, Slots, Exact, Underway, Progress
<1>3. Count' = Count /\ (\A l : Chunk(l)' = Chunk(l) /\ \A i : Buffer(l, i)' = Buffer(l, i))
      /\ \A l, i : GradientOf(l, i)' = GradientOf(l, i)
  BY <1>1, SameChunks DEF GradientOf
<1>4. Sent' \subseteq Sent \ {k} /\ Sent \ {k} \subseteq Sent'
  BY <1>1, <1>2 DEF Sent
<1>5. \A l \in Sent' : l \in Sent /\ l # k /\ (l - 1) % 2 # here
  BY <1>1, <1>2, <1>4, TwoSlots
<1>6. IsSeq(copies) /\ ToSet(copies) = {Weight(i) : i \in DOMAIN chunk}
  <2>1. Len(chunk) \in Nat /\ DOMAIN chunk = 1..Len(chunk)
    BY <1>1, <1>2, AtHand
  <2>2. DOMAIN copies = DOMAIN chunk /\ \A i \in DOMAIN copies : copies[i] = Weight(i)
    OBVIOUS
  <2>3. ToSet(copies) = {Weight(i) : i \in DOMAIN chunk}
    BY <2>2 DEF ToSet
  <2>4. DOMAIN copies = 1..Len(chunk) /\ copies = [i \in 1..Len(chunk) |-> copies[i]]
    BY <2>1
  <2> HIDE DEF copies
  <2> QED
    BY <2>1, <2>3, <2>4, Listed
<1> HIDE DEF copies
<1>7. /\ IsSeq(dma') /\ Queue' = Queue \cup {Weight(i) : i \in DOMAIN chunk} /\ Len(dma) \in Nat
      /\ \A x \in DOMAIN dma' : x \in Nat /\ \/ x <= Len(dma) /\ x \in DOMAIN dma /\ dma'[x] = dma[x]
                                             \/ x > Len(dma) /\ dma'[x] \in {Weight(i) : i \in DOMAIN chunk}
  BY <1>1, <1>6, Behind DEF Queue, Exact, StepTypes

\* The gradients are in the buffers.
<1>8. ASSUME ~events PROVE dma = <<>>
  BY <1>1, <1>2, <1>8 DEF SlotArrived, Exact, StepTypes
<1>9. ASSUME NEW t \in Queue, t.to = "host" PROVE t.buf[1] # here
  <2>1. CASE events
    <3>1. t \in d2h[t.buf[1]].after
      BY <1>1, <1>9, <2>1 DEF Exact, Underway, InSlots
    <3>2. dma # <<>> /\ SlotArrived(here)
      BY <1>1 DEF Queue, ToSet
    <3> QED
      BY <3>1, <3>2 DEF SlotArrived, Waited, Queue
  <2>2. CASE ~events
    BY <1>8, <1>9, <2>2 DEF Queue, ToSet
  <2> QED
    BY <2>1, <2>2
<1>10. ASSUME NEW i \in DOMAIN chunk
       PROVE  /\ host[Buffer(k, i)] = {Update(chunk[i], steps, 0)} /\ chunk[i] \in Params /\ Buffer(k, i) \in BufferKeys
              /\ ChunkIndex(chunk[i]) = i /\ Made(chunk[i]) = due[chunk[i]] /\ chunk[i] \in ToSet(chunk)
              /\ GroupOf(chunk[i]) = group
  <2>1. GradientOf(k, i).to = "host" /\ GradientOf(k, i).buf[1] = here
    BY <1>2 DEF GradientOf, Buffer
  <2>2. host[Buffer(k, i)] = {Update(chunk[i], steps, 0)}
    BY <1>1, <1>2, <1>9, <2>1 DEF Exact, Underway, Gradients
  <2>3. chunk[i] \in Params /\ Buffer(k, i) \in BufferKeys /\ GroupOf(chunk[i]) = group /\ \A j \in DOMAIN chunk : chunk[j] = chunk[i] => j = i
    BY <1>1, <1>2, AtHand
  <2>4. ChunkIndex(chunk[i]) = i
    BY <2>3
  <2>5. chunk[i] \in ToSet(chunk)
    BY DEF ToSet
  <2>6. Pending(chunk[i])
    BY <1>1, <1>2, <2>5, NextChunk
  <2>7. Bound(chunk[i]) \cup {Update(chunk[i], steps, group)} = due[chunk[i]]
    BY <1>1, <2>3, <2>6 DEF Exact, Underway, Values
  <2>8. hyper = group
    BY <1>1, TwoSlots
  <2>9. [Update(chunk[i], steps, 0) EXCEPT !.by = hyper] = Update(chunk[i], steps, group)
    BY <2>8 DEF Update
  <2>10. {[u EXCEPT !.by = hyper] : u \in host[Buffer(k, i)]} = {Update(chunk[i], steps, group)}
    BY <2>2, <2>9
  <2> QED
    BY <2>2, <2>3, <2>4, <2>5, <2>7, <2>10
<1> HIDE DEF ChunkIndex, Made

<1>11. \A b \in BufferKeys :
         /\ (\E i \in DOMAIN chunk : b = Buffer(k, i)) => b[1] = here
         /\ b[1] # here => host'[b] = host[b]
  <2>1. \A i : Buffer(k, i)[1] = here
    BY <1>2 DEF Buffer
  <2> QED
    BY <1>1, <2>1
<1>12. ASSUME NEW i \in DOMAIN chunk
       PROVE  host'[Buffer(k, i)] = due[chunk[i]] /\ master'[chunk[i]].made = due[chunk[i]]
  <2>1. Buffer(k, i)[2] = i
    BY DEF Buffer
  <2>2. host'[Buffer(k, i)] = due[chunk[i]]
    BY <1>1, <1>10, <2>1
  <2>3. master'[chunk[i]] = [bound |-> TRUE, made |-> Made(chunk[i])]
    BY <1>1, <1>10
  <2> QED
    BY <1>10, <2>2, <2>3
<1>13. ASSUME NEW t \in Queue' PROVE t \in Queue \/ (\E i \in DOMAIN chunk : t = Weight(i))
  BY <1>7, <1>13
<1>14. \A i : Weight(i).to = "device" /\ Weight(i).buf = Buffer(k, i) /\ Weight(i).param = chunk[i] /\ Buffer(k, i)[1] = here
  BY <1>2 DEF Buffer
<1>15. ASSUME NEW t \in Queue, t.to # "host" PROVE t.buf[1] # here
  <2>1. CASE events
    BY <1>1, <1>2, <1>15, <2>1 DEF Exact, Underway, InSlots, Outgoing
  <2>2. CASE ~events
    BY <1>8, <2>2 DEF Queue, ToSet
  <2> QED
    BY <2>1, <2>2
<1>16. \A p : Pending(p)' => Pending(p)
  BY <1>1, <1>2, NextChunk
<1> HIDE DEF Weight
<1>17. StepTypes'
  BY <1>1, <1>7 DEF Exact, StepTypes, Record, NoEvent
<1>18. AtRest'
  BY <1>1 DEF Exact, AtRest
<1>19. Progress'
  BY <1>1, <1>2, <1>3 DEF Exact, Underway, Progress
<1>20. ASSUME NEW p \in Params
       PROVE  IF Pending(p)' THEN Bound(p)' \cup {Update(p, steps', GroupOf(p))} = due'[p]
              ELSE (weight'[p] = due'[p] \/ Leaving(p)') /\ (master'[p].bound => master'[p].made = due'[p])
  <2>1. CASE p \in ToSet(chunk)
    <3>1. PICK i \in DOMAIN chunk : p = chunk[i]
      BY <2>1 DEF ToSet
    <3>2. ~Pending(p)'
      BY <1>1, <1>2, <2>1, NextChunk
    <3>3. Weight(i) \in Queue' /\ Weight(i).to = "device" /\ Weight(i).param = p
      BY <1>7, <1>14, <3>1
    <3>4. Leaving(p)'
      BY <3>3 DEF Leaving
    <3>5. due' = due
      BY <1>1
    <3>6. master'[p].made = due[p]
      BY <1>12, <3>1
    <3> QED
      BY <3>2, <3>4, <3>5, <3>6
  <2>2. CASE p \notin ToSet(chunk)
    <3>1. (Pending(p)' <=> Pending(p)) /\ master'[p] = master[p]
      BY <1>1, <1>2, <2>2, NextChunk
    <3>2. (Leaving(p) => Leaving(p)') /\ Bound(p)' = Bound(p)
      BY <1>1, <1>7, <3>1 DEF Leaving, Bound
    <3> QED
      BY <1>1, <3>1, <3>2 DEF Exact, Underway, Values
  <2> QED
    BY <2>1, <2>2
<1>21. Values'
  BY <1>20 DEF Values, Update
<1>22. Outgoing'
  <2> SUFFICES ASSUME NEW t \in Queue', t.to # "host"
               PROVE  /\ t.to = "device" /\ t.buf \in BufferKeys /\ t.param \in Params /\ ~Pending(t.param)'
                      /\ host'[t.buf] = due[t.param]
    BY <1>1 DEF Outgoing
  <2>1. CASE t \in Queue
    <3>1. t.to = "device" /\ t.buf \in BufferKeys /\ t.param \in Params /\ ~Pending(t.param) /\ host[t.buf] = due[t.param]
      BY <1>1, <2>1 DEF Exact, Underway, Outgoing
    <3>2. host'[t.buf] = host[t.buf]
      BY <1>11, <1>15, <2>1, <3>1
    <3>3. ~Pending(t.param)'
      BY <1>16, <3>1
    <3> QED
      BY <3>1, <3>2, <3>3
  <2>2. CASE \E i \in DOMAIN chunk : t = Weight(i)
    <3>1. PICK i \in DOMAIN chunk : t = Weight(i)
      BY <2>2
    <3>2. t.param = chunk[i] /\ t.to = "device" /\ t.buf = Buffer(k, i)
      BY <1>14, <3>1
    <3>3. ~Pending(t.param)'
      <4>1. t.param \in ToSet(chunk)
        BY <1>10, <3>2
      <4> QED
        BY <1>1, <1>2, <4>1, NextChunk
    <3> QED
      BY <1>10, <1>12, <3>2, <3>3
  <2> QED
    BY <1>13, <2>1, <2>2
<1>23. Incoming'
  <2> SUFFICES ASSUME NEW t \in Queue', t.to = "host" PROVE \E l \in Sent' : \E i \in DOMAIN Chunk(l)' : t = GradientOf(l, i)'
    BY DEF Incoming
  <2>1. t \in Queue
    BY <1>13, <1>14
  <2>2. PICK l \in Sent : \E i \in DOMAIN Chunk(l) : t = GradientOf(l, i)
    BY <1>1, <2>1 DEF Exact, Underway, Incoming
  <2>3. l # k
    BY <1>2, <1>9, <2>1, <2>2 DEF GradientOf, Buffer
  <2> QED
    BY <1>3, <1>4, <2>2, <2>3
<1>24. Gradients'
  <2>0. steps' = steps
    BY <1>1
  <2> SUFFICES ASSUME NEW l \in Sent', NEW i \in DOMAIN Chunk(l)
               PROVE  GradientOf(l, i) \in Queue' \/ host'[Buffer(l, i)] = {Update(Chunk(l)[i], steps, 0)}
    BY <2>0, <1>3 DEF Gradients, Update
  <2>1. GradientOf(l, i) \in Queue \/ host[Buffer(l, i)] = {Update(Chunk(l)[i], steps, 0)}
    BY <1>1, <1>5 DEF Exact, Underway, Gradients
  <2>2. Buffer(l, i) \in BufferKeys /\ Buffer(l, i)[1] # here
    BY <1>1, <1>5, TwoSlots
  <2>3. host'[Buffer(l, i)] = host[Buffer(l, i)]
    BY <1>11, <2>2
  <2> QED
    BY <1>7, <2>1, <2>3
<1>25. InSlots'
  <2> SUFFICES ASSUME events PROVE InSlots'
    BY <1>1 DEF InSlots
  <2>1. h2d'[here].after = Queue' /\ \A s \in Slots : s # here => d2h'[s] = d2h[s] /\ h2d'[s] = h2d[s]
    BY <1>1, <1>2 DEF Record, Queue, Exact, StepTypes
  <2>2. ASSUME NEW t \in Queue' PROVE t \in (IF t.to = "host" THEN d2h' ELSE h2d')[t.buf[1]].after
    <3>1. CASE t \in Queue
      <4>1. t.buf[1] # here /\ t.buf[1] \in Slots
        BY <1>1, <1>9, <1>15, <3>1, TwoSlots
      <4>2. t \in (IF t.to = "host" THEN d2h ELSE h2d)[t.buf[1]].after
        BY <1>1, <3>1 DEF Exact, Underway, InSlots
      <4> QED
        BY <2>1, <4>1, <4>2
    <3>2. CASE t \notin Queue
      BY <1>13, <1>14, <2>1, <3>2
    <3> QED
      BY <3>1, <3>2
  <2>3. ASSUME NEW t \in Queue', NEW l \in Sent', t.to = "device" PROVE t.buf[1] # (l - 1) % 2
    <3>1. CASE t \in Queue
      BY <1>1, <1>5, <2>3, <3>1 DEF Exact, Underway, InSlots
    <3>2. CASE t \notin Queue
      BY <1>5, <1>13, <1>14, <3>2
    <3> QED
      BY <3>1, <3>2
  <2> QED
    BY <2>2, <2>3 DEF InSlots
<1>26. HostOrder'
  <2> SUFFICES ASSUME ~events, NEW x \in DOMAIN dma' PROVE dma'[x].to # "host"
    BY <1>1 DEF HostOrder
  <2>1. dma'[x] \in {Weight(i) : i \in DOMAIN chunk}
    BY <1>7, <1>8
  <2> QED
    BY <1>14, <2>1
<1> QED
  BY <1>1, <1>17, <1>18, <1>19, <1>21, <1>22, <1>23, <1>24, <1>25, <1>26 DEF Exact, Underway

\* At first nothing is under way.
LEMMA Starts ==
  ASSUME StepInit
  PROVE  Exact
<1>1. dma = <<>> /\ IsSeq(dma)
  BY DEF StepInit, IsSeq
<1>2. StepTypes
  BY <1>1 DEF StepInit, StepTypes, NoEvent
<1>3. AtRest
  BY DEF StepInit, AtRest
<1> QED
  BY <1>2, <1>3 DEF StepInit, Exact

\* StepsAreExact: step_group_chunks_on_cpu, with its two slots of buffers, and the
\* step on the device give every parameter and master exactly its own updates.
THEOREM ExactSteps == StepSpec => []StepsAreExact
<1>1. StepInit => Exact
  BY Starts
<1>2. Exact /\ [StepNext]_stepvars => Exact'
  <2> SUFFICES ASSUME Exact, [StepNext]_stepvars PROVE Exact'
    OBVIOUS
  <2>1. CASE UNCHANGED stepvars
    <3>1. Count' = Count /\ (\A l : Chunk(l)' = Chunk(l) /\ \A i : Buffer(l, i)' = Buffer(l, i))
          /\ (\A l, i : GradientOf(l, i)' = GradientOf(l, i)) /\ Sent' = Sent /\ Queue' = Queue
      BY <2>1, SameChunks DEF stepvars, GradientOf, Sent, Queue
    <3>2. \A p : (Pending(p)' <=> Pending(p)) /\ (Leaving(p)' <=> Leaving(p)) /\ Bound(p)' = Bound(p)
      BY <2>1, <3>1 DEF stepvars, Pending, Leaving, Bound
    <3>3. StepTypes' /\ AtRest' /\ (Progress' <=> Progress)
      BY <2>1, <3>1 DEF stepvars, Exact, StepTypes, AtRest, Progress
    <3>4. (Values' <=> Values) /\ (Outgoing' <=> Outgoing)
      BY <2>1, <3>1, <3>2 DEF stepvars, Values, Outgoing, Update
    <3>5. (Incoming' <=> Incoming) /\ (Gradients' <=> Gradients)
      BY <2>1, <3>1 DEF stepvars, Incoming, Gradients, Update
    <3>6. (InSlots' <=> InSlots) /\ (HostOrder' <=> HostOrder)
      BY <2>1, <3>1 DEF stepvars, InSlots, HostOrder
    <3> QED
      BY <2>1, <3>3, <3>4, <3>5, <3>6 DEF stepvars, Exact, Underway
  <2>2. CASE SkipStep \/ \E A \in ActiveSets : BeginStep(A)
    BY <2>2, Begins
  <2>3. CASE EnqueueGradients
    BY <2>3, Enqueues
  <2>4. CASE StepMasters
    BY <2>4, MastersStep
  <2>5. CASE \E n \in DOMAIN dma : Transfer(n)
    BY <2>5, Transfers
  <2>6. CASE MoveIn \/ StepOnDevice
    BY <2>6, OnTheDevice
  <2>7. CASE FinishCpuGroup \/ FinishDeviceGroup \/ StepRaises
    BY <2>7, Finishes
  <2> QED
    BY <2>1, <2>2, <2>3, <2>4, <2>5, <2>6, <2>7 DEF StepNext, StepOn
<1>3. Exact => StepsAreExact
  BY DEF Exact, AtRest, StepsAreExact
<1> QED
  BY <1>1, <1>2, <1>3, PTL DEF StepSpec

-----------------------------------------------------------------------------
(* MoriEngines.                                                              *)

\* The variables' sets, as far as the proof needs them.
LifeTypes ==
  /\ stage \in {"prepare", "connect", "sync"}
  /\ engineOf \in [Members -> Nat] /\ made \in [Members -> Nat]
  /\ unusable \in [Members -> BOOLEAN] /\ busy \in [Members -> BOOLEAN]
  /\ peers \in [Members -> SUBSET (Members \X Nat)]
  /\ order \in Seq(Members) /\ \A i, j \in DOMAIN order : order[i] = order[j] => i = j
  /\ begun \subseteq Chain /\ (stage # "sync" => begun = {})

\* A worker's engine is open, and a chain's workers have one.
Opened ==
  /\ \A w \in Members : engineOf[w] # 0 => Key(w) \in open
  /\ stage # "prepare" => \A w \in Chain : engineOf[w] # 0

\* The ends of a write are engines that their workers still have.
Current ==
  \A x \in writes : \E a, b \in Members :
    x = <<Key(a), Key(b)>> /\ engineOf[a] # 0 /\ engineOf[b] # 0

\* A usable worker that is in no sync is no end of a write; one that is in a
\* sync is written to by the worker before it only.
Quiet ==
  \A w \in Members : ~unusable[w] =>
    \A x \in writes :
      /\ ~busy[w] => x[1] # Key(w) /\ x[2] # Key(w)
      /\ busy[w] /\ x[2] = Key(w) => \E p \in Prev(w) : x[1] = Key(p)

\* A busy worker that did not fail is in the current sync; one whose sync has
\* ended well has written, and so has the worker before it.
LifePlaces ==
  /\ \A w \in Members : ~unusable[w] /\ busy[w] => stage = "sync" /\ w \in begun
  /\ stage = "sync" => \A w \in begun : ~busy[w] => w \in wrote /\ Prev(w) \subseteq wrote

Life == LifeTypes /\ Opened /\ Current /\ Quiet /\ LifePlaces

\* During a sync every worker is connected to the engines that its neighbours
\* have now, not to ones they had before a replacement or restart.
HopsAreCurrent ==
  stage = "sync" => \A w \in Chain : peers[w] = {Key(v) : v \in Prev(w) \cup Nexts(w)}

-----------------------------------------------------------------------------
\* The worker after w in the chain has w before it.
LEMMA Links ==
  ASSUME LifeTypes, NEW w \in Chain, NEW n \in Nexts(w)
  PROVE  n \in Chain /\ n \in Members /\ w \in Members /\ w \in Prev(n) /\ n # w
<1>1. PosOf(w) \in DOMAIN order /\ order[PosOf(w)] = w
  BY DEF PosOf, Chain, ToSet
<1>2. PosOf(w) # Len(order) /\ n = order[PosOf(w) + 1]
  BY DEF Nexts
<1>3. DOMAIN order = 1 .. Len(order) /\ Len(order) \in Nat
  BY DEF LifeTypes
<1>4. PosOf(w) + 1 \in DOMAIN order /\ PosOf(w) \in Nat
  BY <1>1, <1>2, <1>3
<1>5. n \in Chain /\ n \in Members /\ w \in Members
  BY <1>1, <1>2, <1>4 DEF Chain, ToSet, LifeTypes
<1>6. PosOf(n) \in DOMAIN order /\ order[PosOf(n)] = n
  BY <1>5 DEF PosOf, Chain, ToSet
<1>7. PosOf(n) = PosOf(w) + 1
  BY <1>2, <1>4, <1>6 DEF LifeTypes
<1>8. w \in Prev(n)
  BY <1>1, <1>3, <1>4, <1>7 DEF Prev
<1>9. n # w
  BY <1>4, <1>7
<1> QED
  BY <1>5, <1>8, <1>9

\* The neighbours of a member of the chain are members of the group.
LEMMA Before ==
  ASSUME LifeTypes, NEW w \in Chain
  PROVE  Prev(w) \subseteq Members /\ Nexts(w) \subseteq Members /\ w \in Members
<1>1. PosOf(w) \in DOMAIN order /\ order[PosOf(w)] = w
  BY DEF PosOf, Chain, ToSet
<1>2. DOMAIN order = 1 .. Len(order) /\ Len(order) \in Nat
  BY DEF LifeTypes
<1>3. Prev(w) \subseteq Members
  BY <1>1, <1>2 DEF Prev, LifeTypes
<1> QED
  BY <1>1, <1>2, <1>3, Links DEF LifeTypes

\* Keys of different workers differ.
LEMMA KeysDiffer ==
  ASSUME NEW a, NEW b
  PROVE  Key(a) = Key(b) => a = b
  BY DEF Key

\* Life holds before the first sync.
LEMMA LifeInitial == LifeInit => Life
<1> SUFFICES ASSUME LifeInit PROVE Life
  OBVIOUS
<1>1. Chain = {}
  BY DEF LifeInit, Chain, ToSet
<1> QED
  BY <1>1 DEF LifeInit, Life, LifeTypes, Opened, Current, Quiet, LifePlaces

-----------------------------------------------------------------------------
\* The two ends of a write, by name.
LEMMA Ends ==
  ASSUME Life, NEW x \in writes
  PROVE  \E a, b \in Members : /\ x = <<Key(a), Key(b)>>
                               /\ x[1] = Key(a) /\ x[2] = Key(b)
                               /\ engineOf[a] # 0 /\ engineOf[b] # 0
  BY DEF Life, Current

\* A chain of the environment is a sequence without repetitions.
LEMMA Sequences ==
  ASSUME NEW o \in Topologies
  PROVE  /\ o \in Seq(Members) /\ ToSet(o) \subseteq Members
         /\ \A i, j \in DOMAIN o : o[i] = o[j] => i = j
<1>1. PICK n \in 2 .. Cardinality(Members) : o \in [1 .. n -> Members]
  BY DEF Topologies
<1>2. n \in Nat
  BY <1>1
<1> QED
  BY <1>1, <1>2 DEF Topologies, ToSet

-----------------------------------------------------------------------------
\* A new topology opens engines of idle workers, which no write names.
LEMMA PrepareKeeps ==
  ASSUME Life, NEW o \in Topologies, Prepare(o)
  PROVE  Life'
<1> DEFINE new == {w \in ToSet(o) : engineOf[w] = 0 \/ MustReplace(w)}
<1> USE DEF Life
<1>1. o \in Seq(Members) /\ ToSet(o) \subseteq Members
  BY Sequences
<1>2. \A w \in Members : ~(~unusable[w] /\ busy[w])
  BY DEF Prepare, LifePlaces
<1>3. \A w \in new : w \in Members /\ Usable(w) /\ engineOf'[w] = made[w] + 1 /\ engineOf'[w] # 0
  BY <1>1 DEF Prepare, LifeTypes
<1>4. \A w \in Members \ new : engineOf'[w] = engineOf[w] /\ Key(w)' = Key(w)
  BY DEF Prepare, Key
<1>5. Chain' = ToSet(o)
  BY DEF Prepare, Chain, ToSet
<1>6. LifeTypes'
  <2>1. engineOf' \in [Members -> Nat] /\ made' \in [Members -> Nat]
    BY DEF Prepare, LifeTypes
  <2>2. peers' \in [Members -> SUBSET (Members \X Nat)]
    BY DEF Prepare, LifeTypes
  <2>3. order' \in Seq(Members) /\ \A i, j \in DOMAIN order' : order'[i] = order'[j] => i = j
    BY Sequences DEF Prepare
  <2>4. begun' = {} /\ stage' = "connect"
    BY DEF Prepare, LifeTypes
  <2> QED
    BY <2>1, <2>2, <2>3, <2>4 DEF Prepare, LifeTypes
<1>7. Opened'
  <2>1. ASSUME NEW w \in new
        PROVE  Key(w)' \in open'
    BY <1>3, <2>1 DEF Prepare, Key
  <2>2. ASSUME NEW w \in Members \ new, engineOf'[w] # 0
        PROVE  Key(w)' \in open'
    <3>1. Key(w) \in open
      BY <1>4, <2>2 DEF Opened
    <3>2. Key(w) \notin {Key(v) : v \in new}
      BY <2>2, KeysDiffer
    <3> QED
      BY <1>4, <3>1, <3>2 DEF Prepare
  <2>3. \A w \in ToSet(o) : engineOf'[w] # 0
    BY <1>1, <1>3, <1>4
  <2> QED
    BY <1>5, <2>1, <2>2, <2>3 DEF Opened
<1>8. ASSUME NEW x \in writes'
      PROVE  \E a, b \in Members \ new : /\ x = <<Key(a)', Key(b)'>>
                                         /\ x[1] = Key(a)' /\ x[2] = Key(b)'
                                         /\ engineOf'[a] # 0 /\ engineOf'[b] # 0
  <2>1. x \in writes
    BY DEF Prepare
  <2>2. PICK a, b \in Members : /\ x = <<Key(a), Key(b)>>
                               /\ x[1] = Key(a) /\ x[2] = Key(b)
                               /\ engineOf[a] # 0 /\ engineOf[b] # 0
    BY <2>1, Ends
  <2>3. a \notin new /\ b \notin new
    BY <1>3, <2>1, <2>2 DEF Quiet, Usable
  <2> QED
    BY <1>4, <2>2, <2>3
<1>9. Current'
  BY <1>8 DEF Current
<1>10. Quiet'
  <2> SUFFICES ASSUME NEW w \in Members, ~unusable'[w], NEW x \in writes'
               PROVE  x[1] # Key(w)' /\ x[2] # Key(w)' /\ ~busy'[w]
    BY DEF Quiet
  <2>1. ~busy[w] /\ ~busy'[w] /\ x \in writes /\ ~unusable[w]
    BY <1>2 DEF Prepare
  <2>2. CASE w \in new
    BY <1>8, <2>1, <2>2 DEF Key
  <2>3. CASE w \notin new
    BY <1>4, <2>1, <2>3 DEF Quiet
  <2> QED
    BY <2>1, <2>2, <2>3
<1>11. LifePlaces'
  BY <1>2 DEF Prepare, LifePlaces
<1> QED
  BY <1>6, <1>7, <1>9, <1>10, <1>11

\* Nobody is in a sync while its processes are being joined.
LEMMA ConnectKeeps ==
  ASSUME Life, Connect
  PROVE  Life' /\ HopsAreCurrent'
<1> USE DEF Life
<1>1. \A w \in Members : ~(~unusable[w] /\ busy[w])
  BY DEF Connect, LifePlaces
<1>2. \A w \in Members : Key(w)' = Key(w)
  BY DEF Connect, Key
<1>3. Chain' = Chain /\ \A w \in Chain : HopsOf(w)' = HopsOf(w) /\ w \in Members
  <2>1. Chain' = Chain /\ \A w \in Chain : w \in Members
    BY Before DEF Connect, Chain, LifeTypes
  <2>2. \A w \in Chain : Prev(w)' = Prev(w) /\ Nexts(w)' = Nexts(w)
    BY DEF Connect, Prev, Nexts, PosOf
  <2>3. ASSUME NEW w \in Chain
        PROVE  HopsOf(w)' = HopsOf(w)
    BY <2>2 DEF Connect, HopsOf, Key
  <2> QED
    BY <2>1, <2>3
<1>4. LifeTypes'
  <2>1. \A w \in Chain : HopsOf(w) \subseteq Members \X Nat
    BY Before DEF HopsOf, Key, LifeTypes
  <2>2. peers' \in [Members -> SUBSET (Members \X Nat)]
    BY <2>1 DEF Connect, LifeTypes
  <2> QED
    BY <2>2 DEF Connect, LifeTypes
<1>5. Opened'
  BY <1>2, <1>3 DEF Connect, Opened
<1>6. Current'
  BY <1>2 DEF Connect, Current
<1>7. Quiet'
  BY <1>1, <1>2 DEF Connect, Quiet
<1>8. LifePlaces'
  BY <1>1 DEF Connect, LifePlaces
<1>9. HopsAreCurrent'
  BY <1>3 DEF Connect, HopsAreCurrent, HopsOf
<1> QED
  BY <1>4, <1>5, <1>6, <1>7, <1>8, <1>9

\* What a worker does in the sync leaves the chain and the engines alone.
Still == UNCHANGED <<order, engineOf, peers>>

\* A step that changes no member's place or engine leaves keys and neighbours as they are.
LEMMA StillKeeps ==
  ASSUME Still
  PROVE  /\ \A w : Key(w)' = Key(w) /\ Prev(w)' = Prev(w) /\ Nexts(w)' = Nexts(w)
         /\ Chain' = Chain
  BY DEF Still, Key, Prev, Nexts, PosOf, Chain

\* Such a step leaves a hop that is registered with the right engine so.
LEMMA HopsKeep ==
  ASSUME Still, HopsAreCurrent, stage' = stage
  PROVE  HopsAreCurrent'
<1>1. \A w \in Chain : {Key(v) : v \in Prev(w) \cup Nexts(w)}' = {Key(v) : v \in Prev(w) \cup Nexts(w)}
  BY StillKeeps
<1> QED
  BY <1>1, StillKeeps DEF HopsAreCurrent, Still

\* A worker that enters the sync is usable, and becomes busy with its engine as it is.
LEMMA BeginKeeps ==
  ASSUME Life, NEW w \in Members, Begin(w)
  PROVE  Life' /\ Still
<1> USE DEF Life
<1>1. Still
  BY DEF Begin, Still
<1>2. LifeTypes'
  BY <1>1, StillKeeps DEF Begin, LifeTypes
<1>3. Opened' /\ Current'
  BY <1>1, StillKeeps DEF Begin, Opened, Current, Still
<1>4. Quiet'
  <2> SUFFICES ASSUME NEW v \in Members, ~unusable'[v], NEW x \in writes'
               PROVE  /\ ~busy'[v] => x[1] # Key(v)' /\ x[2] # Key(v)'
                      /\ busy'[v] /\ x[2] = Key(v)' => \E p \in Prev(v)' : x[1] = Key(p)'
    BY DEF Quiet
  <2>1. x \in writes /\ ~unusable[v] /\ Key(v)' = Key(v) /\ Prev(v)' = Prev(v)
    BY <1>1, StillKeeps DEF Begin
  <2>2. CASE v = w
    BY <1>1, <2>1, <2>2, StillKeeps DEF Begin, Usable, Quiet, LifeTypes
  <2>3. CASE v # w
    BY <1>1, <2>1, <2>3, StillKeeps DEF Begin, Quiet, LifeTypes
  <2> QED
    BY <2>2, <2>3
<1>5. LifePlaces'
  BY <1>1, StillKeeps DEF Begin, LifePlaces, LifeTypes
<1> QED
  BY <1>1, <1>2, <1>3, <1>4, <1>5

\* The hop that a worker writes to is in the sync: one that had ended well
\* would have had this worker's writes already.
LEMMA WriteKeeps ==
  ASSUME Life, HopsAreCurrent, NEW w \in Members, Write(w)
  PROVE  Life' /\ Still
<1> USE DEF Life
<1>1. Still
  BY DEF Write, Still
<1>2. w \in Chain /\ stage = "sync"
  BY DEF Write, LifePlaces, LifeTypes
<1>3. LifeTypes'
  BY <1>1, StillKeeps DEF Write, LifeTypes
<1>4. Opened'
  BY <1>1, StillKeeps DEF Write, Opened, Still
<1>5. ASSUME NEW x \in writes', x \notin writes
      PROVE  \E n \in Nexts(w) : x = <<Key(w), Key(n)>>
  <2>1. PICK k \in peers[w] : k[1] \in Nexts(w) /\ x = <<Key(w), k>>
    BY <1>5 DEF Write, Targets
  <2>2. PICK v \in Prev(w) \cup Nexts(w) : k = Key(v)
    BY <1>2, <2>1 DEF HopsAreCurrent
  <2>3. k[1] = v
    BY <2>2 DEF Key
  <2> QED
    BY <2>1, <2>2, <2>3
<1>6. Current'
  <2> SUFFICES ASSUME NEW x \in writes'
               PROVE  \E a, b \in Members : /\ x = <<Key(a), Key(b)>>
                                            /\ engineOf[a] # 0 /\ engineOf[b] # 0
    BY <1>1, StillKeeps DEF Current, Still
  <2>1. CASE x \in writes
    BY <2>1, Ends
  <2>2. CASE x \notin writes
    <3>1. PICK n \in Nexts(w) : x = <<Key(w), Key(n)>>
      BY <1>5, <2>2
    <3>2. n \in Chain /\ n \in Members
      BY <1>2, Links
    <3>3. engineOf[w] # 0 /\ engineOf[n] # 0
      BY <1>2, <3>2 DEF Opened
    <3> QED
      BY <3>1, <3>2, <3>3
  <2> QED
    BY <2>1, <2>2
<1>7. Quiet'
  <2> SUFFICES ASSUME NEW v \in Members, ~unusable[v], NEW x \in writes'
               PROVE  /\ ~busy[v] => x[1] # Key(v) /\ x[2] # Key(v)
                      /\ busy[v] /\ x[2] = Key(v) => \E p \in Prev(v) : x[1] = Key(p)
    BY <1>1, StillKeeps DEF Quiet, Write
  <2>1. CASE x \in writes
    BY <2>1 DEF Quiet
  <2>2. CASE x \notin writes
    <3>1. PICK n \in Nexts(w) : x = <<Key(w), Key(n)>>
      BY <1>5, <2>2
    <3>2. x[1] = Key(w) /\ x[2] = Key(n) /\ w \in Prev(n) /\ n # w
      BY <1>2, <3>1, Links
    <3>3. unusable[n] \/ busy[n]
      <4> SUFFICES ASSUME ~unusable[n], ~busy[n] PROVE FALSE
        OBVIOUS
      <4>1. n \in begun /\ w \notin wrote
        BY DEF Write
      <4>2. Prev(n) \subseteq wrote
        BY <1>2, <4>1 DEF LifePlaces
      <4> QED
        BY <3>2, <4>1, <4>2
    <3>4. busy[w]
      BY DEF Write
    <3> QED
      BY <3>2, <3>3, <3>4, KeysDiffer
  <2> QED
    BY <2>1, <2>2
<1>8. LifePlaces'
  BY <1>1, StillKeeps DEF Write, LifePlaces
<1> QED
  BY <1>1, <1>3, <1>4, <1>6, <1>7, <1>8

\* A write that lands only leaves the set of writes.
LEMMA LandKeeps ==
  ASSUME Life, NEW x \in writes, Land(x)
  PROVE  Life' /\ Still
<1> USE DEF Life
<1>1. Still /\ writes' \subseteq writes
  BY DEF Land, Still
<1>2. LifeTypes' /\ Opened' /\ LifePlaces'
  BY <1>1, StillKeeps DEF Land, LifeTypes, Opened, LifePlaces
<1>3. Current'
  BY <1>1, StillKeeps DEF Current, Still
<1>4. Quiet'
  BY <1>1, StillKeeps DEF Land, Quiet
<1> QED
  BY <1>1, <1>2, <1>3, <1>4

\* A sync ends well when the worker's own writes are done and those of the
\* worker before it have landed.
LEMMA SucceedKeeps ==
  ASSUME Life, NEW w \in Members, Succeed(w)
  PROVE  Life' /\ Still
<1> USE DEF Life
<1>1. Still
  BY DEF Succeed, Still
<1>2. LifeTypes' /\ Opened' /\ Current'
  BY <1>1, StillKeeps DEF Succeed, LifeTypes, Opened, Current, Still
<1>3. Quiet'
  <2> SUFFICES ASSUME NEW v \in Members, ~unusable[v], NEW x \in writes
               PROVE  /\ ~busy'[v] => x[1] # Key(v) /\ x[2] # Key(v)
                      /\ busy'[v] /\ x[2] = Key(v) => \E p \in Prev(v) : x[1] = Key(p)
    BY <1>1, StillKeeps DEF Quiet, Succeed
  <2>1. CASE v = w
    <3>1. x[1] # Key(w)
      BY DEF Succeed, Drained
    <3>2. x[2] # Key(w)
      <4> SUFFICES ASSUME x[2] = Key(w) PROVE FALSE
        OBVIOUS
      <4>1. PICK p \in Prev(w) : x[1] = Key(p)
        BY <2>1 DEF Quiet, Succeed
      <4>2. x = <<Key(p), Key(w)>>
        BY <4>1, Ends
      <4> QED
        BY <4>1, <4>2 DEF Succeed, Arrived
    <3>3. ~busy'[w]
      BY DEF Succeed, LifeTypes
    <3> QED
      BY <2>1, <3>1, <3>2, <3>3
  <2>2. CASE v # w
    BY <2>2 DEF Succeed, Quiet, LifeTypes
  <2> QED
    BY <2>1, <2>2
<1>4. LifePlaces'
  <2>1. w \in wrote /\ Prev(w) \subseteq wrote
    BY DEF Succeed, Arrived
  <2> QED
    BY <1>1, <2>1, StillKeeps DEF Succeed, LifePlaces, LifeTypes
<1> QED
  BY <1>1, <1>2, <1>3, <1>4

\* A failure and a cancelled receive both leave a worker that nobody uses.
LEMMA FailKeeps ==
  ASSUME Life, NEW w \in Members, Fail(w) \/ Abandon(w)
  PROVE  Life' /\ Still
<1> USE DEF Life
<1>1. Still
  BY DEF Fail, Abandon, Still
<1>2. LifeTypes'
  <2>1. busy' \in [Members -> BOOLEAN] /\ unusable' \in [Members -> BOOLEAN]
    BY DEF Fail, Abandon, LifeTypes
  <2> QED
    BY <1>1, <2>1, StillKeeps DEF Fail, Abandon, LifeTypes, Still
<1>3. Opened' /\ Current'
  BY <1>1, StillKeeps DEF Fail, Abandon, Opened, Current, Still
<1>4. unusable'[w] /\ writes' = writes
      /\ \A v \in Members : v # w => unusable'[v] = unusable[v] /\ busy'[v] = busy[v]
  BY DEF Fail, Abandon, LifeTypes
<1>5. Quiet'
  BY <1>1, <1>4, StillKeeps DEF Quiet
<1>6. LifePlaces'
  <2>1. busy'[w] /\ stage' = "sync" /\ wrote' = wrote /\ begun' \in {begun, begun \cup {w}}
        /\ stage = "sync"
    BY DEF Fail, Abandon, LifeTypes
  <2>2. ASSUME NEW v \in Members, ~unusable'[v], busy'[v]
        PROVE  stage' = "sync" /\ v \in begun'
    BY <1>4, <2>1, <2>2 DEF LifePlaces
  <2>3. ASSUME NEW v \in begun', ~busy'[v]
        PROVE  v \in wrote' /\ Prev(v)' \subseteq wrote'
    <3>1. v \in begun /\ v # w /\ v \in Members
      BY <2>1, <2>3, Before DEF LifeTypes
    <3> QED
      BY <1>1, <1>4, <2>1, <2>3, <3>1, StillKeeps DEF LifePlaces
  <2> QED
    BY <2>2, <2>3 DEF LifePlaces
<1> QED
  BY <1>1, <1>2, <1>3, <1>5, <1>6

\* At the end of a sync only failed workers are still busy.
LEMMA EndSyncKeeps ==
  ASSUME Life, EndSync
  PROVE  Life'
<1> USE DEF Life
<1>1. Chain' = {}
  BY DEF EndSync, Chain, ToSet
<1>2. \A w : Key(w)' = Key(w)
  BY DEF EndSync, Key
<1>3. \A w \in Members : ~(~unusable[w] /\ busy[w])
  BY DEF EndSync, LifePlaces
<1>4. LifeTypes'
  BY <1>1 DEF EndSync, LifeTypes
<1>5. Opened' /\ Current'
  BY <1>1, <1>2 DEF EndSync, Opened, Current
<1>6. Quiet'
  BY <1>2, <1>3 DEF EndSync, Quiet
<1>7. LifePlaces'
  BY <1>3 DEF EndSync, LifePlaces
<1> QED
  BY <1>4, <1>5, <1>6, <1>7

\* Whatever takes one worker's engine away between syncs leaves no write to
\* it and no write of it.
Loses(w) ==
  /\ stage = "prepare" /\ stage' = "prepare"
  /\ open' = open \ {Key(w)}
  /\ engineOf' = [engineOf EXCEPT ![w] = 0]
  /\ writes' \subseteq writes
  /\ \A x \in writes' : x[1] # Key(w) /\ x[2] # Key(w)
  /\ \A v \in Members : ~(~unusable'[v] /\ busy'[v])
  /\ \A v \in Members : v # w => unusable'[v] = unusable[v] /\ busy'[v] = busy[v]
  /\ UNCHANGED <<order, begun, wrote, made>>

\* Losing an engine this way keeps Life: nothing that is left refers to it.
LEMMA LosingKeeps ==
  ASSUME Life, NEW w \in Members, Loses(w), LifeTypes'
  PROVE  Life'
<1> USE DEF Life
<1>1. \A v \in Members : v # w => Key(v)' = Key(v) /\ engineOf'[v] = engineOf[v]
  BY DEF Loses, Key, LifeTypes
<1>2. engineOf'[w] = 0 /\ Key(w)' = <<w, 0>>
  BY DEF Loses, Key, LifeTypes
<1>3. Opened'
  <2>1. ASSUME NEW v \in Members, engineOf'[v] # 0
        PROVE  Key(v)' \in open'
    BY <1>1, <1>2, <2>1, KeysDiffer DEF Loses, Opened
  <2> QED
    BY <2>1 DEF Loses, Opened
<1>4. ASSUME NEW x \in writes'
      PROVE  \E a, b \in Members \ {w} : /\ x = <<Key(a)', Key(b)'>>
                                         /\ x[1] = Key(a)' /\ x[2] = Key(b)'
                                         /\ engineOf'[a] # 0 /\ engineOf'[b] # 0
  <2>1. x \in writes /\ x[1] # Key(w) /\ x[2] # Key(w)
    BY DEF Loses
  <2> QED
    BY <1>1, <2>1, Ends
<1>5. Current'
  BY <1>4 DEF Current
<1>6. Quiet'
  <2> SUFFICES ASSUME NEW v \in Members, ~unusable'[v], NEW x \in writes'
               PROVE  x[1] # Key(v)' /\ x[2] # Key(v)'
    BY DEF Quiet, Loses
  <2>1. CASE v = w
    BY <1>2, <1>4, <2>1 DEF Key
  <2>2. CASE v # w
    BY <1>1, <2>2 DEF Quiet, Loses
  <2> QED
    BY <2>1, <2>2
<1>7. LifePlaces'
  BY DEF Loses, LifePlaces
<1> QED
  BY <1>3, <1>5, <1>6, <1>7

\* A worker that is recreated takes its engine, its peers and its writes with it.
LEMMA RecreateKeeps ==
  ASSUME Life, NEW w \in Members, Recreate(w)
  PROVE  Life'
<1> USE DEF Life
<1>1. LifeTypes'
  BY DEF Recreate, LifeTypes, Chain
<1>2. Loses(w)
  <2>1. \A v \in Members : ~(~unusable[v] /\ busy[v])
    BY DEF Recreate, LifePlaces
  <2> QED
    BY <2>1 DEF Recreate, Loses, LifeTypes
<1> QED
  BY <1>1, <1>2, LosingKeeps

\* An engine that is closed between syncs has no write under way.
LEMMA CloseKeeps ==
  ASSUME Life, NEW w \in Members, Close(w)
  PROVE  Life'
<1> USE DEF Life
<1>1. LifeTypes'
  BY DEF Close, LifeTypes, Chain
<1>2. Loses(w)
  <2>1. \A v \in Members : ~(~unusable[v] /\ busy[v])
    BY DEF Close, LifePlaces
  <2>2. \A x \in writes : x[1] # Key(w) /\ x[2] # Key(w)
    BY <2>1 DEF Close, Quiet
  <2> QED
    BY <2>1, <2>2 DEF Close, Loses
<1> QED
  BY <1>1, <1>2, LosingKeeps

-----------------------------------------------------------------------------
\* Every step of the life cycle keeps Life.
LEMMA LifeStep == Life /\ HopsAreCurrent /\ [LifeNext]_life => Life'
<1> SUFFICES ASSUME Life, HopsAreCurrent, [LifeNext]_life
             PROVE  Life'
  OBVIOUS
<1>1. CASE \E o \in Topologies : Prepare(o)
  BY <1>1, PrepareKeeps
<1>2. CASE Connect
  BY <1>2, ConnectKeeps
<1>3. ASSUME NEW w \in Members, Begin(w) \/ Write(w) \/ Succeed(w)
      PROVE  Life'
  BY <1>3, BeginKeeps, WriteKeeps, SucceedKeeps
<1>4. ASSUME NEW w \in Members, Fail(w) \/ Abandon(w)
      PROVE  Life'
  BY <1>4, FailKeeps
<1>5. ASSUME NEW x \in writes, Land(x)
      PROVE  Life'
  BY <1>5, LandKeeps
<1>6. CASE EndSync
  BY <1>6, EndSyncKeeps
<1>7. ASSUME NEW w \in Members, Recreate(w) \/ Close(w)
      PROVE  Life'
  BY <1>7, RecreateKeeps, CloseKeeps
<1>8. CASE UNCHANGED life
  <2>1. Still
    BY <1>8 DEF life, Still
  <2> QED
    BY <1>8, <2>1, StillKeeps
    DEF life, Life, LifeTypes, Opened, Current, Quiet, LifePlaces
<1> QED
  BY <1>1, <1>2, <1>3, <1>4, <1>5, <1>6, <1>7, <1>8 DEF LifeNext

\* Every step keeps HopsAreCurrent, given Life.
LEMMA HopsStep == Life /\ HopsAreCurrent /\ [LifeNext]_life => HopsAreCurrent'
<1> SUFFICES ASSUME Life, HopsAreCurrent, [LifeNext]_life
             PROVE  HopsAreCurrent'
  OBVIOUS
<1>1. CASE Connect
  BY <1>1, ConnectKeeps
<1>2. ASSUME NEW w \in Members, Begin(w) \/ Write(w) \/ Succeed(w) \/ Fail(w) \/ Abandon(w)
      PROVE  HopsAreCurrent'
  <2>1. Still
    BY <1>2, BeginKeeps, WriteKeeps, SucceedKeeps, FailKeeps
  <2>2. stage' = stage
    BY <1>2 DEF Begin, Write, Succeed, Fail, Abandon
  <2> QED
    BY <2>1, <2>2, HopsKeep
<1>3. CASE UNCHANGED life \/ \E x \in writes : Land(x)
  <2>1. Still /\ stage' = stage
    BY <1>3 DEF life, Still, Land
  <2> QED
    BY <2>1, HopsKeep
<1>4. ASSUME EndSync \/ (\E o \in Topologies : Prepare(o))
             \/ \E w \in Members : Recreate(w) \/ Close(w)
      PROVE  HopsAreCurrent'
  <2>1. stage' # "sync"
    BY <1>4 DEF EndSync, Prepare, Recreate, Close
  <2> QED
    BY <2>1 DEF HopsAreCurrent
<1> QED
  BY <1>1, <1>2, <1>3, <1>4 DEF LifeNext

\* A write in flight has both its ends, whatever fails, is recreated, closed
\* or replaced: the reason is Quiet, that an idle usable worker ends no write.
THEOREM WritesKeepTheirEnds == LifeSpec => []WritesHaveBothEnds
<1>1. Life => WritesHaveBothEnds
  BY Ends DEF Life, Opened, WritesHaveBothEnds
<1>2. LifeInit => HopsAreCurrent
  BY DEF LifeInit, HopsAreCurrent
<1> QED
  BY <1>1, <1>2, LifeInitial, LifeStep, HopsStep, PTL DEF LifeSpec

-----------------------------------------------------------------------------
(* TpuRuntime.                                                               *)

\* What a process believes is true of it, whoever's memory it came with: a
\* cached accelerator is registered, and a cached process id is that of a
\* process whose own runtime is up.
Beliefs ==
  /\ isTpu \in [Processes -> BOOLEAN] /\ upPid \in [Processes -> Processes \cup {NoPid}]
  /\ asked \in [Processes -> {"none", "zero", "runtime", "started"}]
  /\ running \subseteq registered
  /\ \A p \in Processes : /\ isTpu[p] => p \in registered
                          /\ upPid[p] \in running \cup {NoPid}

\* At first nothing is cached.
LEMMA BeliefsInit == RuntimeInit => Beliefs
  BY DEF RuntimeInit, Beliefs

\* Every query, registration and fork keeps Beliefs.
LEMMA BeliefsStep == Beliefs /\ [RuntimeNext]_runtimevars => Beliefs'
<1> SUFFICES ASSUME Beliefs, [RuntimeNext]_runtimevars PROVE Beliefs'
  OBVIOUS
<1>1. CASE UNCHANGED runtimevars
  BY <1>1 DEF Beliefs, runtimevars
<1>2. ASSUME NEW p \in Processes, Register(p) PROVE Beliefs'
  BY <1>2 DEF Beliefs, Register
<1>3. ASSUME NEW p \in Processes, StartRuntime(p) PROVE Beliefs'
  BY <1>3 DEF Beliefs, StartRuntime
\* A child inherits what its parent believes, and whether it is registered.
<1>4. ASSUME NEW p \in Processes, NEW q \in Processes, Fork(p, q) PROVE Beliefs'
  <2>1. /\ registered \subseteq registered' /\ running' = running /\ asked' = asked
        /\ p \in registered => q \in registered'
    BY <1>4 DEF Fork
  <2>2. \A r \in Processes : /\ isTpu'[r] = isTpu[IF r = q THEN p ELSE r]
                             /\ upPid'[r] = upPid[IF r = q THEN p ELSE r]
    BY <1>4 DEF Fork, Beliefs
  <2>3. isTpu' \in [Processes -> BOOLEAN] /\ upPid' \in [Processes -> Processes \cup {NoPid}]
    BY <1>4 DEF Fork, Beliefs
  <2> QED
    BY <2>1, <2>2, <2>3 DEF Beliefs
\* A process remembers its own id, and only when its runtime is up.
<1>5. ASSUME NEW p \in Processes, Query(p) PROVE Beliefs'
  <2>1. Reaches(p) => p \in running
    BY ProcessesAssumption DEF Reaches, RuntimeInitialized, KnownUp, Beliefs, NoPid
  <2>2. AcceleratorIsTpu(p) \in BOOLEAN /\ (AcceleratorIsTpu(p) => p \in registered)
    BY DEF AcceleratorIsTpu, Beliefs
  <2> QED
    BY <1>5, <2>1, <2>2 DEF Query, Beliefs
<1> QED
  BY <1>1, <1>2, <1>3, <1>4, <1>5 DEF RuntimeNext

\* What a query meets follows from the beliefs.
LEMMA QueryMeets ==
  ASSUME Beliefs, NEW p \in Processes
  PROVE  MeetsTheRuntime(p)
<1>1. Reaches(p) <=> p \in registered \cap running
  BY ProcessesAssumption DEF Reaches, AcceleratorIsTpu, RuntimeInitialized, KnownUp, Beliefs, NoPid
<1> QED
  BY <1>1 DEF MeetsTheRuntime, Query, Beliefs

\* No process starts a TPU runtime by asking, not even a child that has its
\* parent's cached answers; and none misses the runtime that it has.
THEOREM QueriesMeet == RuntimeSpec => QueriesMeetTheRuntime
<1>1. Beliefs /\ [RuntimeNext]_runtimevars => [\A p \in Processes : MeetsTheRuntime(p)]_runtimevars
  BY QueryMeets
<1> QED
  BY <1>1, BeliefsInit, BeliefsStep, PTL DEF RuntimeSpec, QueriesMeetTheRuntime
-----------------------------------------------------------------------------
(* XpuPatches.                                                               *)

\* What a wrapper of the native all_reduce makes of a call, or one of another wrapper.
Once == [c \in Calls |-> IF c.op = "AVG" /\ c.ours THEN [call |-> Summed(c), divided |-> 1]
                         ELSE [call |-> c, divided |-> 0]]

\* However many wrappers there are, one of them divides.
LEMMA WrappedOnce == Wrapper(Native) = Once /\ Wrapper(Once) = Once
<1>1. ASSUME NEW f, \A c \in Calls : ~(c.op = "AVG" /\ c.ours) => f[c] = [call |-> c, divided |-> 0]
      PROVE  Wrapper(f) = Once
  <2>1. ASSUME NEW c \in Calls, c.op = "AVG", c.ours
        PROVE  [f[Summed(c)] EXCEPT !.divided = @ + 1] = [call |-> Summed(c), divided |-> 1]
    <3>1. Summed(c) \in Calls /\ Summed(c).op = "SUM"
      BY DEF Calls, Summed
    <3>2. f[Summed(c)] = [call |-> Summed(c), divided |-> 0]
      BY <1>1, <3>1
    <3> QED
      BY <3>2
  <2> QED
    BY <1>1, <2>1 DEF Wrapper, Once
<1>2. \A c \in Calls : ~(c.op = "AVG" /\ c.ours) =>
        Native[c] = [call |-> c, divided |-> 0] /\ Once[c] = [call |-> c, divided |-> 0]
  BY DEF Native, Once
<1> QED
  BY <1>1, <1>2

\* The function that pins under XPU; replacing it again does not change what it does.
OnXpu == Pinning(Core)
LEMMA BindingsDiffer == /\ Pinning(OnXpu) = OnXpu /\ OnXpu # Core
                  /\ Unimported # Core /\ Unimported # OnXpu
                  /\ OnXpu["xpu"] = "xpu" /\ Core["other"] = "core" /\ OnXpu["other"] = "core"
<1>1. OnXpu = [p \in {"xpu", "other"} |-> IF p = "xpu" THEN "xpu" ELSE "core"]
  BY DEF OnXpu, Pinning, Core
<1>2. Pinning(OnXpu) = OnXpu
  BY <1>1 DEF Pinning
<1>3. /\ OnXpu["xpu"] = "xpu" /\ Core["xpu"] = "core" /\ Unimported["xpu"] = "none"
      /\ Core["other"] = "core" /\ OnXpu["other"] = "core"
  BY <1>1 DEF Core, Unimported
<1> QED
  BY <1>2, <1>3

\* Whether get_platform installs the patches, and then pins the workers.
Installs == env # "other"
Chosen == Selected = "xpu"

\* Where a thread is in the patches; and past the first, the second, the third.
PastReduce == {"ray", "numa", "original", "replace", "rebind", "applied", "select"}
PastPin == PastReduce \ {"ray"}
Patching == {"reduce", "read", "wrap", "mark"} \cup (PastReduce \ {"select"})

\* Types; a thread other than Main is in get_platform between two workers only;
\* a platform once selected stays, and no worker is complete before.
Selecting ==
  /\ builder \in [Threads -> {"no", "select"} \cup Patching]
  /\ \A t \in Threads : t # Main /\ ~At(t, "no") => phase = "out"
  /\ \A t \in Threads : builder[t] \in Patching => Installs
  /\ built \in {"no", Selected}
  /\ phase \in {"out", "setup", "middle", "configure"} /\ worker \in 0..NumWorkers
  /\ phase # "out" => worker # 0
  /\ built = "no" => Constructed = {}

\* What the names are bound to, and what a thread has read of them.
Bindings ==
  /\ read \in [Threads -> [reduce : {Native, Once}, numa : {Core, OnXpu}]]
  /\ allReduce \in {Native, Once} /\ distributed \in {Core, OnXpu}
  /\ importer \in {Unimported, Core, OnXpu}

\* A patch is marked only when it is in effect, and whoever is past it has
\* seen it marked.
Reduced ==
  /\ reduceApplied => allReduce = Once
  /\ \A t \in Threads : At(t, "mark") => allReduce = Once
  /\ Installs /\ present =>
       /\ \A t \in Threads : builder[t] \in PastReduce => reduceApplied
       /\ built # "no" => reduceApplied

\* The first thread to replace the function of the engine worker has read core's;
\* a module that still has core's then has it until that thread rebinds it.
NumaBound ==
  /\ \A t \in Threads : At(t, "replace") /\ read[t].numa = OnXpu => distributed = OnXpu
  /\ \A t \in Threads : At(t, "rebind") \/ At(t, "applied") => distributed = OnXpu
  /\ numaApplied => distributed = OnXpu
  /\ importer = Core /\ distributed = OnXpu => \E t \in Threads : At(t, "rebind") /\ read[t].numa = Core
  /\ Installs => /\ \A t \in Threads : At(t, "select") => numaApplied
                 /\ built # "no" => numaApplied

\* Where the pin of the worker at hand comes from, once a method was wrapped:
\* it is there, or it comes with a method still to be called.
Pinned == stored = index /\ device = index
PinComes ==
  /\ rayApplied => setup \/ configure
  /\ phase = "setup" => (rayApplied => via \/ configure)
  /\ phase = "middle" => (rayApplied => Pinned \/ configure)
  /\ phase = "configure" => (rayApplied => Pinned \/ (worker \in inFlight /\ env = ""))
  /\ \A w \in Constructed : got[w] = [rank |-> index, on |-> index] \/ (w \in inFlight /\ env = "")
PinKept ==
  /\ got \in [1..NumWorkers -> [rank : {Unpinned, index}, on : {Unpinned, index}]]
  /\ setup \in BOOLEAN /\ configure \in BOOLEAN /\ rayApplied \in BOOLEAN /\ via \in BOOLEAN
  /\ Installs => /\ \A t \in Threads : builder[t] \in PastPin => rayApplied
                 /\ built # "no" => rayApplied
  /\ stored \in {Unpinned, index} /\ device \in {Unpinned, index} /\ localRank \in {Unpinned, index}
  /\ ~Chosen => /\ stored = Unpinned /\ device = Unpinned /\ localRank = Unpinned
                /\ \A w \in 1..NumWorkers : got[w] = [rank |-> Unpinned, on |-> Unpinned]
  /\ Chosen /\ present /\ index # Unpinned => PinComes

Patched == Selecting /\ Bindings /\ Reduced /\ NumaBound /\ PinKept

\* At first nothing is patched and no worker is constructed.
LEMMA PatchedInit == XpuInit => Patched
<1> SUFFICES ASSUME XpuInit PROVE Patched
  OBVIOUS
<1>0. Constructed = {} /\ worker \in 0..NumWorkers
  <2>1. 1..0 = {} /\ 0 \in 0..NumWorkers
    BY XpuAssumption
  <2> QED
    BY <2>1 DEF XpuInit, Constructed
<1>1. Selecting
  BY <1>0 DEF XpuInit, Selecting, Patching, PastReduce, At
<1>2. Bindings
  BY DEF XpuInit, Bindings, Unread
<1>3. Reduced
  BY DEF XpuInit, Reduced, PastReduce, At
<1>4. NumaBound
  BY BindingsDiffer DEF XpuInit, NumaBound, At
<1>5. PinKept
  BY <1>0 DEF XpuInit, PinKept, PinComes, Unpinned, PastPin, PastReduce
<1> QED
  BY <1>1, <1>2, <1>3, <1>4, <1>5 DEF Patched

\* Only Main is in get_platform while a worker is constructed.
LEMMA SelectingStep == Selecting /\ [XpuNext]_xpuvars => Selecting'
<1> SUFFICES ASSUME Selecting, [XpuNext]_xpuvars PROVE Selecting'
  OBVIOUS
<1> USE XpuAssumption DEF Selecting, Selected, Installs, Constructed, Patching, PastReduce
<1>1. ASSUME NEW t \in Threads, GetPlatform(t) PROVE Selecting'
  BY <1>1 DEF GetPlatform, Go, At, hostvars, patchvars, workervars
<1>2. ASSUME NEW t \in Threads, CheckReduce(t) PROVE Selecting'
  BY <1>2 DEF CheckReduce, Go, At, hostvars, patchvars, workervars
<1>3. ASSUME NEW t \in Threads, ReadReduce(t) PROVE Selecting'
  BY <1>3 DEF ReadReduce, Go, At, hostvars, patchvars, workervars
<1>4. ASSUME NEW t \in Threads, WrapReduce(t) PROVE Selecting'
  BY <1>4 DEF WrapReduce, Go, At, hostvars, patchvars, workervars
<1>5. ASSUME NEW t \in Threads, MarkReduce(t) PROVE Selecting'
  BY <1>5 DEF MarkReduce, Go, At, hostvars, patchvars, workervars
<1>6. ASSUME NEW t \in Threads, ApplyRayPin(t) PROVE Selecting'
  BY <1>6 DEF ApplyRayPin, Go, At, hostvars, patchvars, workervars
<1>7. ASSUME NEW t \in Threads, CheckNuma(t) PROVE Selecting'
  BY <1>7 DEF CheckNuma, Go, At, hostvars, patchvars, workervars
<1>8. ASSUME NEW t \in Threads, ReadNuma(t) PROVE Selecting'
  BY <1>8 DEF ReadNuma, Go, At, hostvars, patchvars, workervars
<1>9. ASSUME NEW t \in Threads, ReplaceNuma(t) PROVE Selecting'
  BY <1>9 DEF ReplaceNuma, Go, At, hostvars, patchvars, workervars
<1>10. ASSUME NEW t \in Threads, RebindNuma(t) PROVE Selecting'
  BY <1>10 DEF RebindNuma, Go, At, hostvars, patchvars, workervars
<1>11. ASSUME NEW t \in Threads, MarkNuma(t) PROVE Selecting'
  BY <1>11 DEF MarkNuma, Go, At, hostvars, patchvars, workervars
<1>12. ASSUME NEW t \in Threads, Select(t) PROVE Selecting'
  BY <1>12 DEF Select, Go, At, hostvars, patchvars, workervars
<1>13. CASE StartWorker
  <2>1. Constructed' = Constructed /\ phase = "out" /\ phase' = "setup" /\ worker' = worker + 1 /\ worker < NumWorkers
    <3>1. phase = "out" /\ phase' = "setup" /\ worker' = worker + 1 /\ worker < NumWorkers
      BY <1>13 DEF StartWorker
    <3>2. worker \in 0..NumWorkers
      OBVIOUS
    <3>3. worker' - 1 = worker
      BY ONLY <3>1, <3>2, XpuAssumption
    <3> QED
      BY ONLY <3>1, <3>3 DEF Constructed
  <2>2. \A t \in Threads : At(t, "no")
    BY <1>13 DEF StartWorker
  <2>3. UNCHANGED <<builder, built, env, present, rival>>
    BY <1>13 DEF StartWorker, hostvars
  <2>4. worker' \in 0..NumWorkers /\ worker' # 0
    <3>1. worker \in 0..NumWorkers
      OBVIOUS
    <3> QED
      BY ONLY <2>1, <3>1, XpuAssumption
  <2>5. \A t \in Threads : builder[t] = "no"
    BY <2>2 DEF At
  <2> HIDE DEF Constructed
  <2> QED
    BY <2>1, <2>3, <2>4, <2>5 DEF At
<1>14. CASE EndSetup
  BY <1>14 DEF EndSetup, Go, At, hostvars, patchvars, workervars
<1>15. CASE Configure
  BY <1>15 DEF Configure, Go, At, hostvars, patchvars, workervars
<1>16. CASE EndConfigure
  BY <1>16 DEF EndConfigure, Go, At, hostvars, patchvars, workervars
<1>17. CASE ImportEngineWorker
  BY <1>17 DEF ImportEngineWorker, Go, At, hostvars, patchvars, workervars
<1>18. CASE StartEngineWorker
  BY <1>18 DEF StartEngineWorker, Go, At, hostvars, patchvars, workervars
<1>19. CASE UNCHANGED xpuvars
  BY <1>19 DEF xpuvars, At, hostvars, patchvars, workervars
<1> QED
  BY <1>1, <1>2, <1>3, <1>4, <1>5, <1>6, <1>7, <1>8, <1>9, <1>10,
     <1>11, <1>12, <1>13, <1>14, <1>15, <1>16, <1>17, <1>18, <1>19 DEF XpuNext

\* A name is bound to the function itself or to a patch of it.
LEMMA BoundStep == Bindings /\ [XpuNext]_xpuvars => Bindings'
<1> SUFFICES ASSUME Bindings, [XpuNext]_xpuvars PROVE Bindings'
  OBVIOUS
<1> USE DEF Bindings
<1>1. ASSUME NEW t \in Threads, GetPlatform(t) PROVE Bindings'
  BY <1>1 DEF GetPlatform, Go, At, hostvars, patchvars, workervars
<1>2. ASSUME NEW t \in Threads, CheckReduce(t) PROVE Bindings'
  BY <1>2 DEF CheckReduce, Go, At, hostvars, patchvars, workervars
<1>3. ASSUME NEW t \in Threads, ReadReduce(t) PROVE Bindings'
  BY <1>3 DEF ReadReduce, Go, At, hostvars, patchvars, workervars
<1>4. ASSUME NEW t \in Threads, WrapReduce(t) PROVE Bindings'
  <2>1. allReduce' = Once
    BY <1>4, WrappedOnce DEF WrapReduce
  <2> QED
    BY <1>4, <2>1 DEF WrapReduce
<1>5. ASSUME NEW t \in Threads, MarkReduce(t) PROVE Bindings'
  BY <1>5 DEF MarkReduce, Go, At, hostvars, patchvars, workervars
<1>6. ASSUME NEW t \in Threads, ApplyRayPin(t) PROVE Bindings'
  BY <1>6 DEF ApplyRayPin, Go, At, hostvars, patchvars, workervars
<1>7. ASSUME NEW t \in Threads, CheckNuma(t) PROVE Bindings'
  BY <1>7 DEF CheckNuma, Go, At, hostvars, patchvars, workervars
<1>8. ASSUME NEW t \in Threads, ReadNuma(t) PROVE Bindings'
  BY <1>8 DEF ReadNuma, Go, At, hostvars, patchvars, workervars
<1>9. ASSUME NEW t \in Threads, ReplaceNuma(t) PROVE Bindings'
  <2>1. distributed' = OnXpu
    BY <1>9, BindingsDiffer DEF ReplaceNuma, OnXpu
  <2> QED
    BY <1>9, <2>1 DEF ReplaceNuma
<1>10. ASSUME NEW t \in Threads, RebindNuma(t) PROVE Bindings'
  <2>1. importer' \in {Unimported, Core, OnXpu}
    BY <1>10, BindingsDiffer DEF RebindNuma, OnXpu
  <2> QED
    BY <1>10, <2>1 DEF RebindNuma
<1>11. ASSUME NEW t \in Threads, MarkNuma(t) PROVE Bindings'
  BY <1>11 DEF MarkNuma, Go, At, hostvars, patchvars, workervars
<1>12. ASSUME NEW t \in Threads, Select(t) PROVE Bindings'
  BY <1>12 DEF Select, Go, At, hostvars, patchvars, workervars
<1>13. CASE StartWorker
  BY <1>13 DEF StartWorker, Go, At, hostvars, patchvars, workervars
<1>14. CASE EndSetup
  BY <1>14 DEF EndSetup, Go, At, hostvars, patchvars, workervars
<1>15. CASE Configure
  BY <1>15 DEF Configure, Go, At, hostvars, patchvars, workervars
<1>16. CASE EndConfigure
  BY <1>16 DEF EndConfigure, Go, At, hostvars, patchvars, workervars
<1>17. CASE ImportEngineWorker
  BY <1>17 DEF ImportEngineWorker, Go, At, hostvars, patchvars, workervars
<1>18. CASE StartEngineWorker
  BY <1>18 DEF StartEngineWorker, Go, At, hostvars, patchvars, workervars
<1>19. CASE UNCHANGED xpuvars
  BY <1>19 DEF xpuvars, At, hostvars, patchvars, workervars
<1> QED
  BY <1>1, <1>2, <1>3, <1>4, <1>5, <1>6, <1>7, <1>8, <1>9, <1>10,
     <1>11, <1>12, <1>13, <1>14, <1>15, <1>16, <1>17, <1>18, <1>19 DEF XpuNext

\* Two threads may both wrap the native all_reduce, or one the other's wrapper.
LEMMA ReducedStep == Selecting /\ Bindings /\ Reduced /\ [XpuNext]_xpuvars => Reduced'
<1> SUFFICES ASSUME Selecting, Bindings, Reduced, [XpuNext]_xpuvars PROVE Reduced'
  OBVIOUS
<1> USE DEF Selecting, Reduced, Installs, PastReduce, Patching
<1>1. ASSUME NEW t \in Threads, GetPlatform(t) PROVE Reduced'
  BY <1>1 DEF GetPlatform, Go, At, hostvars, patchvars, workervars
<1>2. ASSUME NEW t \in Threads, CheckReduce(t) PROVE Reduced'
  BY <1>2 DEF CheckReduce, Go, At, hostvars, patchvars, workervars
<1>3. ASSUME NEW t \in Threads, ReadReduce(t) PROVE Reduced'
  BY <1>3 DEF ReadReduce, Go, At, hostvars, patchvars, workervars
<1>4. ASSUME NEW t \in Threads, WrapReduce(t) PROVE Reduced'
  <2>1. allReduce' = Once
    BY <1>4, WrappedOnce DEF WrapReduce, Bindings
  <2>2. builder' = [builder EXCEPT ![t] = "mark"] /\ UNCHANGED <<env, present, built, reduceApplied>>
    BY <1>4 DEF WrapReduce, Go, hostvars
  <2> QED
    BY <2>1, <2>2 DEF At
<1>5. ASSUME NEW t \in Threads, MarkReduce(t) PROVE Reduced'
  BY <1>5 DEF MarkReduce, Go, At, hostvars, patchvars, workervars
<1>6. ASSUME NEW t \in Threads, ApplyRayPin(t) PROVE Reduced'
  BY <1>6 DEF ApplyRayPin, Go, At, hostvars, patchvars, workervars
<1>7. ASSUME NEW t \in Threads, CheckNuma(t) PROVE Reduced'
  BY <1>7 DEF CheckNuma, Go, At, hostvars, patchvars, workervars
<1>8. ASSUME NEW t \in Threads, ReadNuma(t) PROVE Reduced'
  BY <1>8 DEF ReadNuma, Go, At, hostvars, patchvars, workervars
<1>9. ASSUME NEW t \in Threads, ReplaceNuma(t) PROVE Reduced'
  BY <1>9 DEF ReplaceNuma, Go, At, hostvars, patchvars, workervars
<1>10. ASSUME NEW t \in Threads, RebindNuma(t) PROVE Reduced'
  BY <1>10 DEF RebindNuma, Go, At, hostvars, patchvars, workervars
<1>11. ASSUME NEW t \in Threads, MarkNuma(t) PROVE Reduced'
  BY <1>11 DEF MarkNuma, Go, At, hostvars, patchvars, workervars
<1>12. ASSUME NEW t \in Threads, Select(t) PROVE Reduced'
  BY <1>12 DEF Select, Go, At, hostvars, patchvars, workervars
<1>13. CASE StartWorker
  BY <1>13 DEF StartWorker, Go, At, hostvars, patchvars, workervars
<1>14. CASE EndSetup
  BY <1>14 DEF EndSetup, Go, At, hostvars, patchvars, workervars
<1>15. CASE Configure
  BY <1>15 DEF Configure, Go, At, hostvars, patchvars, workervars
<1>16. CASE EndConfigure
  BY <1>16 DEF EndConfigure, Go, At, hostvars, patchvars, workervars
<1>17. CASE ImportEngineWorker
  BY <1>17 DEF ImportEngineWorker, Go, At, hostvars, patchvars, workervars
<1>18. CASE StartEngineWorker
  BY <1>18 DEF StartEngineWorker, Go, At, hostvars, patchvars, workervars
<1>19. CASE UNCHANGED xpuvars
  BY <1>19 DEF xpuvars, At, hostvars, patchvars, workervars
<1> QED
  BY <1>1, <1>2, <1>3, <1>4, <1>5, <1>6, <1>7, <1>8, <1>9, <1>10,
     <1>11, <1>12, <1>13, <1>14, <1>15, <1>16, <1>17, <1>18, <1>19 DEF XpuNext

\* A module that was imported before the function was replaced is rebound.
LEMMA NumaStep == Selecting /\ Bindings /\ NumaBound /\ [XpuNext]_xpuvars => NumaBound'
<1> SUFFICES ASSUME Selecting, Bindings, NumaBound, [XpuNext]_xpuvars PROVE NumaBound'
  OBVIOUS
<1> USE DEF Selecting, Selected, NumaBound, Installs, Patching, PastReduce
<1>1. ASSUME NEW t \in Threads, GetPlatform(t) PROVE NumaBound'
  BY <1>1 DEF GetPlatform, Go, At, hostvars, patchvars, workervars
<1>2. ASSUME NEW t \in Threads, CheckReduce(t) PROVE NumaBound'
  BY <1>2 DEF CheckReduce, Go, At, hostvars, patchvars, workervars
<1>3. ASSUME NEW t \in Threads, ReadReduce(t) PROVE NumaBound'
  <2>1. /\ At(t, "read") /\ builder' = [builder EXCEPT ![t] = "wrap"]
        /\ read' = [read EXCEPT ![t].reduce = allReduce]
        /\ UNCHANGED <<env, present, rival, built, distributed, importer, numaApplied>>
    BY <1>3 DEF ReadReduce, Go, hostvars, patchvars
  <2>2. \A u \in Threads \ {t} : read'[u] = read[u] /\ builder'[u] = builder[u]
    BY <2>1 DEF Bindings
  <2> QED
    BY <2>1, <2>2 DEF At
<1>4. ASSUME NEW t \in Threads, WrapReduce(t) PROVE NumaBound'
  BY <1>4 DEF WrapReduce, Go, At, hostvars, patchvars, workervars
<1>5. ASSUME NEW t \in Threads, MarkReduce(t) PROVE NumaBound'
  BY <1>5 DEF MarkReduce, Go, At, hostvars, patchvars, workervars
<1>6. ASSUME NEW t \in Threads, ApplyRayPin(t) PROVE NumaBound'
  BY <1>6 DEF ApplyRayPin, Go, At, hostvars, patchvars, workervars
<1>7. ASSUME NEW t \in Threads, CheckNuma(t) PROVE NumaBound'
  BY <1>7 DEF CheckNuma, Go, At, hostvars, patchvars, workervars
<1>8. ASSUME NEW t \in Threads, ReadNuma(t) PROVE NumaBound'
  <2>1. /\ At(t, "original") /\ builder' = [builder EXCEPT ![t] = "replace"]
        /\ read' = [read EXCEPT ![t].numa = distributed]
        /\ UNCHANGED <<env, present, rival, built, distributed, importer, numaApplied>>
    BY <1>8 DEF ReadNuma, Go, hostvars, patchvars
  <2>2. /\ \A u \in Threads \ {t} : read'[u] = read[u] /\ builder'[u] = builder[u]
        /\ read'[t].numa = distributed
    BY <2>1 DEF Bindings
  <2> QED
    BY <2>1, <2>2 DEF At
<1>9. ASSUME NEW t \in Threads, ReplaceNuma(t) PROVE NumaBound'
  <2>1. distributed' = OnXpu
    BY <1>9, BindingsDiffer DEF ReplaceNuma, Bindings, OnXpu
  <2>2. /\ At(t, "replace") /\ builder' = [builder EXCEPT ![t] = "rebind"]
        /\ UNCHANGED <<env, present, rival, built, importer, numaApplied, read>>
    BY <1>9 DEF ReplaceNuma, Go, hostvars
  <2>3. At(t, "rebind")' /\ \A u \in Threads \ {t} : At(u, "rebind") => At(u, "rebind")'
    BY <2>2 DEF At
  <2>4. distributed # OnXpu => read[t].numa = Core
    BY <2>2 DEF Bindings
  <2>5. importer' = Core => \E u \in Threads : At(u, "rebind")' /\ read'[u].numa = Core
    BY <2>2, <2>3, <2>4 DEF At
  <2> QED
    BY <2>1, <2>2, <2>5 DEF At
<1>10. ASSUME NEW t \in Threads, RebindNuma(t) PROVE NumaBound'
  <2>1. /\ At(t, "rebind") /\ builder' = [builder EXCEPT ![t] = "applied"]
        /\ importer' = (IF importer = read[t].numa THEN Pinning(read[t].numa) ELSE importer)
        /\ UNCHANGED <<env, present, rival, built, distributed, numaApplied, read>>
    BY <1>10 DEF RebindNuma, Go, hostvars
  <2>2. Pinning(read[t].numa) = OnXpu
    BY BindingsDiffer DEF Bindings, OnXpu
  <2>3. importer' = Core => importer = Core /\ read[t].numa # Core
    BY <2>1, <2>2, BindingsDiffer
  <2>4. importer' = Core => \E u \in Threads : At(u, "rebind")' /\ read'[u].numa = Core
    BY <2>1, <2>3 DEF At
  <2> QED
    BY <2>1, <2>4 DEF At
<1>11. ASSUME NEW t \in Threads, MarkNuma(t) PROVE NumaBound'
  BY <1>11 DEF MarkNuma, Go, At, hostvars, patchvars, workervars
<1>12. ASSUME NEW t \in Threads, Select(t) PROVE NumaBound'
  BY <1>12 DEF Select, Go, At, hostvars, patchvars, workervars
<1>13. CASE StartWorker
  BY <1>13 DEF StartWorker, Go, At, hostvars, patchvars, workervars
<1>14. CASE EndSetup
  BY <1>14 DEF EndSetup, Go, At, hostvars, patchvars, workervars
<1>15. CASE Configure
  BY <1>15 DEF Configure, Go, At, hostvars, patchvars, workervars
<1>16. CASE EndConfigure
  BY <1>16 DEF EndConfigure, Go, At, hostvars, patchvars, workervars
<1>17. CASE ImportEngineWorker
  BY <1>17, BindingsDiffer DEF ImportEngineWorker, Go, At, hostvars, patchvars, workervars
<1>18. CASE StartEngineWorker
  BY <1>18 DEF StartEngineWorker, Go, At, hostvars, patchvars, workervars
<1>19. CASE UNCHANGED xpuvars
  BY <1>19 DEF xpuvars, At, hostvars, patchvars, workervars
<1> QED
  BY <1>1, <1>2, <1>3, <1>4, <1>5, <1>6, <1>7, <1>8, <1>9, <1>10,
     <1>11, <1>12, <1>13, <1>14, <1>15, <1>16, <1>17, <1>18, <1>19 DEF XpuNext

\* The pin comes with the method that the worker at hand still has to call.
LEMMA PinStep == Selecting /\ PinKept /\ [XpuNext]_xpuvars => PinKept'
<1> SUFFICES ASSUME Selecting, PinKept, [XpuNext]_xpuvars PROVE PinKept'
  OBVIOUS
<1> USE XpuAssumption DEF Selecting, PinKept, PinComes, Pinned, Installs, Chosen, Selected, Constructed, Xpu,
        PastPin, PastReduce, Patching
<1>1. ASSUME NEW t \in Threads, GetPlatform(t) PROVE PinKept'
  BY <1>1 DEF GetPlatform, Go, At, hostvars, patchvars, workervars
<1>2. ASSUME NEW t \in Threads, CheckReduce(t) PROVE PinKept'
  BY <1>2 DEF CheckReduce, Go, At, hostvars, patchvars, workervars
<1>3. ASSUME NEW t \in Threads, ReadReduce(t) PROVE PinKept'
  BY <1>3 DEF ReadReduce, Go, At, hostvars, patchvars, workervars
<1>4. ASSUME NEW t \in Threads, WrapReduce(t) PROVE PinKept'
  BY <1>4 DEF WrapReduce, Go, At, hostvars, patchvars, workervars
<1>5. ASSUME NEW t \in Threads, MarkReduce(t) PROVE PinKept'
  BY <1>5 DEF MarkReduce, Go, At, hostvars, patchvars, workervars
<1>6. ASSUME NEW t \in Threads, ApplyRayPin(t) PROVE PinKept'
  <2>1. /\ builder' = [builder EXCEPT ![t] = "numa"] /\ rayApplied' = TRUE
        /\ UNCHANGED <<env, present, rival, index, built, worker, phase, via, localRank, got>>
        /\ inFlight \subseteq inFlight'
    BY <1>6 DEF ApplyRayPin, Go, hostvars
  <2>2. CASE rayApplied
    <3>1. UNCHANGED <<stored, device, inFlight, setup, configure>>
      BY <1>6, <2>2 DEF ApplyRayPin
    <3> QED
      BY <2>1, <2>2, <3>1
  <2>3. CASE ~rayApplied
    <3>1. /\ setup' = (setup \/ ~Late(t)) /\ configure' = (configure \/ Late(t))
          /\ IF PinsInFlight(t) THEN stored' = index /\ device' = index ELSE UNCHANGED <<stored, device>>
          /\ Configuring(t) => worker \in inFlight'
      BY <1>6, <2>3 DEF ApplyRayPin
    <3>2. setup' \in BOOLEAN /\ configure' \in BOOLEAN /\ (setup' \/ configure')
      BY <3>1
    <3>3. stored' \in {Unpinned, index} /\ device' \in {Unpinned, index}
      BY <3>1
    <3>4. ~Chosen => ~PinsInFlight(t)
      BY DEF PinsInFlight
    <3>5. phase # "out" => t = Main /\ Late(t) /\ configure'
      BY <1>6, <3>1 DEF ApplyRayPin, Late, At
    <3>6. phase = "configure" /\ Chosen /\ present /\ index # Unpinned =>
            (stored' = index /\ device' = index) \/ (worker \in inFlight' /\ env = "")
      BY <3>1, <3>5 DEF PinsInFlight, Configuring
    <3> HIDE DEF Constructed
    <3>7. Constructed' = Constructed
      BY <2>1 DEF Constructed
    <3> QED
      BY <2>1, <2>3, <3>1, <3>2, <3>3, <3>4, <3>5, <3>6, <3>7
  <2> QED
    BY <2>2, <2>3
<1>7. ASSUME NEW t \in Threads, CheckNuma(t) PROVE PinKept'
  BY <1>7 DEF CheckNuma, Go, At, hostvars, patchvars, workervars
<1>8. ASSUME NEW t \in Threads, ReadNuma(t) PROVE PinKept'
  BY <1>8 DEF ReadNuma, Go, At, hostvars, patchvars, workervars
<1>9. ASSUME NEW t \in Threads, ReplaceNuma(t) PROVE PinKept'
  BY <1>9 DEF ReplaceNuma, Go, At, hostvars, patchvars, workervars
<1>10. ASSUME NEW t \in Threads, RebindNuma(t) PROVE PinKept'
  BY <1>10 DEF RebindNuma, Go, At, hostvars, patchvars, workervars
<1>11. ASSUME NEW t \in Threads, MarkNuma(t) PROVE PinKept'
  BY <1>11 DEF MarkNuma, Go, At, hostvars, patchvars, workervars
<1>12. ASSUME NEW t \in Threads, Select(t) PROVE PinKept'
  BY <1>12 DEF Select, Go, At, hostvars, patchvars, workervars
<1>13. CASE StartWorker
  <2>1. Constructed' = Constructed /\ phase = "out" /\ phase' = "setup" /\ worker' = worker + 1 /\ worker < NumWorkers
    <3>1. phase = "out" /\ phase' = "setup" /\ worker' = worker + 1 /\ worker < NumWorkers
      BY <1>13 DEF StartWorker
    <3>2. worker \in 0..NumWorkers
      OBVIOUS
    <3>3. worker' - 1 = worker
      BY ONLY <3>1, <3>2, XpuAssumption
    <3> QED
      BY ONLY <3>1, <3>3 DEF Constructed
  <2>2. UNCHANGED <<env, present, rival, index, built, builder, setup, configure, rayApplied, inFlight,
                    localRank, stored, device, got>> /\ via' = setup
    BY <1>13 DEF StartWorker, hostvars, patchvars
  <2> HIDE DEF Constructed
  <2> QED
    BY <2>1, <2>2
<1>14. CASE EndSetup
  <2>1. /\ phase = "setup" /\ phase' = "middle" /\ (via => built # "no")
        /\ localRank' = (IF Pins THEN index ELSE localRank) /\ stored' = localRank'
        /\ device' = (IF Pins THEN index ELSE device)
        /\ UNCHANGED <<env, present, rival, index, built, builder, setup, configure, rayApplied, via,
                       inFlight, got, worker>>
    BY <1>14 DEF EndSetup, hostvars, patchvars
  <2>2. Constructed' = Constructed
    BY ONLY <2>1 DEF Constructed
  <2>3. Pins => Chosen
    BY DEF Pins
  <2>4. Chosen /\ index # Unpinned /\ via => Pins
    BY <2>1 DEF Pins
  <2> HIDE DEF Constructed
  <2> QED
    BY <2>1, <2>2, <2>3, <2>4
<1>15. CASE Configure
  BY <1>15 DEF Configure, Go, At, MainRuns, hostvars, patchvars, workervars
<1>16. CASE EndConfigure
  <2>1. /\ phase = "configure" /\ phase' = "out" /\ built # "no" /\ localRank' = stored
        /\ got' = [got EXCEPT ![worker] = [rank |-> stored, on |-> device]]
        /\ UNCHANGED <<env, present, rival, index, built, builder, setup, configure, rayApplied, via,
                       inFlight, stored, device, worker>>
    BY <1>16 DEF EndConfigure, hostvars, patchvars
  <2> HIDE DEF Constructed
  <2>a. worker \in 0..NumWorkers /\ worker # 0
    BY <2>1
  <2>2. worker \in 1..NumWorkers /\ Constructed' = 1..worker /\ Constructed = 1..(worker - 1)
    BY ONLY <2>1, <2>a, XpuAssumption DEF Constructed
  <2>3. \A w \in 1..NumWorkers : got'[w] = IF w = worker THEN [rank |-> stored, on |-> device] ELSE got[w]
    BY <2>1
  <2>4. \A w \in Constructed' : w = worker \/ w \in Constructed
    BY ONLY <2>2
  <2>5. Constructed' \subseteq 1..NumWorkers
    BY ONLY <2>2, XpuAssumption
  <2>6. got' \in [1..NumWorkers -> [rank : {Unpinned, index}, on : {Unpinned, index}]]
    BY <2>1
  <2>7. Chosen /\ present /\ index # Unpinned => rayApplied
    BY <2>1
  <2>8. ASSUME Chosen, present, index # Unpinned PROVE PinComes'
    <3>1. Pinned \/ (worker \in inFlight /\ env = "")
      BY <2>1, <2>7, <2>8
    <3> QED
      BY <2>1, <2>3, <2>4, <2>5, <2>7, <2>8, <3>1
  <2>9. ~Chosen => \A w \in 1..NumWorkers : got'[w] = [rank |-> Unpinned, on |-> Unpinned]
    BY <2>3
  <2> HIDE DEF PinComes
  <2> QED
    BY <2>1, <2>6, <2>8, <2>9
<1>17. CASE ImportEngineWorker
  BY <1>17 DEF ImportEngineWorker, Go, At, hostvars, patchvars, workervars
<1>18. CASE StartEngineWorker
  BY <1>18 DEF StartEngineWorker, Go, At, hostvars, patchvars, workervars
<1>19. CASE UNCHANGED xpuvars
  BY <1>19 DEF xpuvars, At, hostvars, patchvars, workervars
<1> QED
  BY <1>1, <1>2, <1>3, <1>4, <1>5, <1>6, <1>7, <1>8, <1>9, <1>10,
     <1>11, <1>12, <1>13, <1>14, <1>15, <1>16, <1>17, <1>18, <1>19 DEF XpuNext

\* Every step keeps Patched.
LEMMA PatchedStep == Patched /\ [XpuNext]_xpuvars => Patched'
  BY SelectingStep, BoundStep, ReducedStep, NumaStep, PinStep DEF Patched

\* Every worker constructed under an XPU platform has the rank and the device
\* that Ray assigned it, wherever in its constructor the platform was built
\* and whichever thread built it; under another platform none was pinned.
THEOREM WorkersArePinned == XpuSpec => []PinnedToRaysDevice
<1>1. Patched => PinnedToRaysDevice
  <2> SUFFICES ASSUME Patched, present, NEW w \in Constructed
               PROVE  IF Xpu /\ index # Unpinned /\ ~(w \in inFlight /\ env = "")
                      THEN got[w] = [rank |-> index, on |-> index]
                      ELSE ~Xpu => got[w] = [rank |-> Unpinned, on |-> Unpinned]
    BY DEF PinnedToRaysDevice
  <2>1. w \in 1..NumWorkers /\ built = Selected
    BY XpuAssumption DEF Patched, Selecting, Constructed
  <2>2. CASE Xpu
    BY <2>1, <2>2 DEF Xpu, Patched, PinKept, PinComes, Chosen
  <2>3. CASE ~Xpu
    BY <2>1, <2>3 DEF Xpu, Patched, PinKept, Chosen, Selected
  <2> QED
    BY <2>2, <2>3
<1> QED
  BY <1>1, PatchedInit, PatchedStep, PTL DEF XpuSpec

\* With any number of threads in get_platform at once an average over an XPU
\* group is one sum and one division, and every other call is left alone.
THEOREM AveragesAreDividedOnce == XpuSpec => []AveragesDivideOnce
<1>1. Patched => AveragesDivideOnce
  <2> SUFFICES ASSUME Patched, NEW c \in Calls
               PROVE  IF c.op = "AVG" /\ c.ours
                      THEN Xpu /\ present => allReduce[c] = [call |-> Summed(c), divided |-> 1]
                      ELSE allReduce[c] = [call |-> c, divided |-> 0]
    BY DEF AveragesDivideOnce
  <2>1. Xpu /\ present => allReduce = Once
    BY DEF Xpu, Patched, Selecting, Selected, Reduced, Installs
  <2>2. allReduce \in {Native, Once}
    BY DEF Patched, Bindings
  <2> QED
    BY <2>1, <2>2 DEF Native, Once
<1> QED
  BY <1>1, PatchedInit, PatchedStep, PTL DEF XpuSpec

\* The engine worker is bound to the NUMA node of its XPU whenever its module
\* was imported, unless a thread has yet to rebind what it has replaced.
THEOREM NumaBindingHolds == XpuSpec => NumaBindingTakesEffect
<1>1. Patched /\ [XpuNext]_xpuvars =>
        [affinity' # affinity /\ ~Rebinding => affinity' = IF Xpu THEN "xpu" ELSE "core"]_xpuvars
  <2> SUFFICES ASSUME Patched, [XpuNext]_xpuvars, affinity' # affinity, ~Rebinding
               PROVE  affinity' = IF Xpu THEN "xpu" ELSE "core"
    OBVIOUS
  <2>1. StartEngineWorker
    BY DEF XpuNext, xpuvars, workervars, GetPlatform, CheckReduce, ReadReduce, WrapReduce, MarkReduce, ApplyRayPin,
           CheckNuma, ReadNuma, ReplaceNuma, RebindNuma, MarkNuma, Select, StartWorker, EndSetup, Configure,
           EndConfigure, ImportEngineWorker
  <2>2. built = Selected /\ importer \in {Core, OnXpu} /\ affinity' = importer[built]
    BY <2>1 DEF StartEngineWorker, Patched, Selecting, Bindings
  <2>3. CASE Xpu
    <3>1. distributed = OnXpu
      BY <2>2, <2>3 DEF Xpu, Selected, Installs, Patched, NumaBound
    <3>2. importer # Core
      BY <3>1 DEF Patched, NumaBound, Rebinding
    <3> QED
      BY <2>2, <2>3, <3>2, BindingsDiffer DEF Xpu
  <2>4. CASE ~Xpu
    BY <2>2, <2>4, BindingsDiffer DEF Xpu, Selected
  <2> QED
    BY <2>3, <2>4
<1> QED
  BY <1>1, PatchedInit, PatchedStep, PTL DEF XpuSpec, NumaBindingTakesEffect

-----------------------------------------------------------------------------
(* The platform's pools: numbers and topologies.                             *)

\* A set of numbers that is not empty has a least one.
LEMMA LeastNat == ASSUME NEW T \in SUBSET Nat, T # {} PROVE \E n \in T : \A m \in T : n <= m
<1> DEFINE R == OpToRel(<, Nat)
<1>1. IsWellFoundedOn(R, Nat)
  BY NatLessThanWellFounded
<1>2. \A m \in Nat, n \in Nat : m < n => <<m, n>> \in R
  BY DEF OpToRel
<1> HIDE DEF R
<1>3. PICK n \in T : \A m \in T : ~(<<m, n>> \in R)
  BY <1>1, WFMin
<1>4. \A m \in T : ~(m < n)
  BY <1>2, <1>3
<1> QED
  BY <1>4

\* Induction over the numbers, stated of a set.
LEMMA NatSets ==
  ASSUME NEW S \in SUBSET Nat, 0 \in S, \A n \in S : n + 1 \in S
  PROVE  S = Nat
<1>1. SUFFICES ASSUME Nat \ S # {} PROVE FALSE
  OBVIOUS
<1>2. PICK n \in Nat \ S : \A m \in Nat \ S : n <= m
  <2>1. Nat \ S \in SUBSET Nat
    OBVIOUS
  <2> QED
    BY <1>1, <2>1, LeastNat
<1>3. n # 0 /\ n - 1 \in Nat
  BY <1>2
<1>4. n - 1 \in S
  BY <1>2, <1>3
<1>5. (n - 1) + 1 \in S
  BY <1>4
<1> QED
  BY <1>2, <1>5

\* Quotient and remainder.
LEMMA DivMod ==
  ASSUME NEW a \in Nat, NEW n \in Nat \ {0}
  PROVE  a \div n \in Nat /\ a % n \in 0 .. n - 1 /\ a = n * (a \div n) + (a % n)
OBVIOUS

\* Quotient and remainder are unique.
LEMMA DivOf ==
  ASSUME NEW n \in Nat \ {0}, NEW q \in Nat, NEW r \in 0 .. n - 1
  PROVE  (n * q + r) \div n = q /\ (n * q + r) % n = r
<1> DEFINE a == n * q + r
           d == a \div n
           m == a % n
<1>1. a \in Nat
  OBVIOUS
<1>2. d \in Nat /\ m \in 0 .. n - 1 /\ a = n * d + m
  BY <1>1, DivMod
<1>3. n * q + r = n * d + m
  BY <1>2
<1> HIDE DEF a, d, m
<1>4. n * (q - d) = m - r
  BY <1>2, <1>3
<1>5. ~(q - d >= 1)
  <2> SUFFICES ASSUME q - d >= 1 PROVE FALSE
    OBVIOUS
  <2>1. n * (q - d) >= n
    BY <1>2
  <2> QED
    BY <1>2, <1>4, <2>1
<1>6. ~(d - q >= 1)
  <2> SUFFICES ASSUME d - q >= 1 PROVE FALSE
    OBVIOUS
  <2>1. n * (d - q) >= n
    BY <1>2
  <2>2. n * (d - q) = r - m
    BY <1>2, <1>3
  <2> QED
    BY <1>2, <2>1, <2>2
<1>7. q = d
  BY <1>2, <1>5, <1>6
<1>8. r = m
  BY <1>2, <1>3, <1>7
<1> QED
  BY <1>7, <1>8 DEF a, d, m


\* f is the product of the first sizes of s, for every number of them up to k.
IsProduct(s, k, f) == f = [i \in 0 .. k |-> IF i = 0 THEN 1 ELSE f[i - 1] * s[i]]

\* There is such a product.
LEMMA ProductExists ==
  ASSUME NEW s, NEW k \in Nat
  PROVE  \E f : IsProduct(s, k, f)
<1> DEFINE S == {i \in Nat : \E f : IsProduct(s, i, f)}
<1>1. 0 \in S
  <2> DEFINE f == [i \in {0} |-> 1]
  <2>1. f = [i \in 0 .. 0 |-> IF i = 0 THEN 1 ELSE f[i - 1] * s[i]]
    OBVIOUS
  <2> QED
    BY <2>1 DEF IsProduct
<1>2. ASSUME NEW n \in S PROVE n + 1 \in S
  <2>1. PICK f : IsProduct(s, n, f)
    OBVIOUS
  <2> DEFINE g == [i \in 0 .. n + 1 |-> IF i \in 0 .. n THEN f[i] ELSE f[n] * s[n + 1]]
             d(i) == IF i = 0 THEN 1 ELSE g[i - 1] * s[i]
             h == [i \in 0 .. n + 1 |-> d(i)]
  <2>2. \A i \in 0 .. n : f[i] = IF i = 0 THEN 1 ELSE f[i - 1] * s[i]
    BY <2>1 DEF IsProduct
  <2>3. ASSUME NEW i \in 0 .. n + 1 PROVE g[i] = d(i)
    <3>1. CASE i = 0
      BY <2>2, <3>1
    <3>2. CASE i \in 1 .. n
      <4>1. i \in 0 .. n /\ i - 1 \in 0 .. n /\ i # 0
        BY <3>2
      <4>2. g[i] = f[i] /\ g[i - 1] = f[i - 1]
        BY <4>1
      <4> QED
        BY <2>2, <4>1, <4>2
    <3>3. CASE i = n + 1
      <4>1. i \notin 0 .. n /\ i - 1 = n /\ n \in 0 .. n /\ i # 0 /\ n \in 0 .. n + 1
        BY <3>3
      <4>2. g[i] = f[n] * s[n + 1] /\ g[n] = f[n]
        BY <4>1
      <4> QED
        BY <3>3, <4>1, <4>2
    <3> QED
      BY <3>1, <3>2, <3>3
  <2>4. g = h
    <3> DEFINE e(i) == IF i \in 0 .. n THEN f[i] ELSE f[n] * s[n + 1]
    <3>1. g = [i \in 0 .. n + 1 |-> e(i)] /\ h = [i \in 0 .. n + 1 |-> d(i)]
      OBVIOUS
    <3>2. \A i \in 0 .. n + 1 : e(i) = d(i)
      BY <2>3
    <3> HIDE DEF e, d, g, h
    <3> QED
      BY <3>1, <3>2
  <2>5. IsProduct(s, n + 1, g)
    BY <2>4 DEF IsProduct
  <2> HIDE DEF g
  <2> QED
    BY <2>5
<1> HIDE DEF S
<1>3. S = Nat
  <2>1. S \in SUBSET Nat
    BY DEF S
  <2> QED
    BY <1>1, <1>2, <2>1, NatSets
<1> QED
  BY <1>3 DEF S

\* The devices of a topology are such a product.
LEMMA DevicesOf ==
  ASSUME NEW s, Len(s) \in Nat
  PROVE  \E f : IsProduct(s, Len(s), f) /\ Devices(s) = f[Len(s)]
<1> DEFINE P(f) == f = [i \in 0 .. Len(s) |-> IF i = 0 THEN 1 ELSE f[i - 1] * s[i]]
           g == CHOOSE f : P(f)
<1>1. \E f : P(f)
  BY ProductExists DEF IsProduct
<1>2. P(g)
  <2> HIDE DEF P
  <2> QED
    BY <1>1
<1>3. Devices(s) = g[Len(s)]
  BY DEF Devices
<1>4. IsProduct(s, Len(s), g)
  <2> HIDE DEF g
  <2> QED
    BY <1>2 DEF IsProduct
<1> QED
  BY <1>3, <1>4

\* The devices of three dimensions.
LEMMA DevicesThree ==
  ASSUME NEW a \in Nat, NEW b \in Nat, NEW c \in Nat
  PROVE  Devices(<<a, b, c>>) = a * b * c
<1> DEFINE s == <<a, b, c>>
<1>1. Len(s) = 3 /\ s[1] = a /\ s[2] = b /\ s[3] = c
  OBVIOUS
<1> HIDE DEF s
<1>2. PICK f : IsProduct(s, 3, f) /\ Devices(s) = f[3]
  <2>1. Len(s) \in Nat
    BY <1>1
  <2>2. PICK f : IsProduct(s, Len(s), f) /\ Devices(s) = f[Len(s)]
    BY <2>1, DevicesOf
  <2> QED
    BY <1>1, <2>2
<1>3. \A i \in 0 .. 3 : f[i] = IF i = 0 THEN 1 ELSE f[i - 1] * s[i]
  BY <1>2 DEF IsProduct
<1>4. f[0] = 1 /\ f[1] = f[0] * a /\ f[2] = f[1] * b /\ f[3] = f[2] * c
  <2>1. 0 \in 0 .. 3 /\ 1 \in 0 .. 3 /\ 2 \in 0 .. 3 /\ 3 \in 0 .. 3
    OBVIOUS
  <2> QED
    BY <1>1, <1>3, <2>1
<1> QED
  BY <1>2, <1>4 DEF s

\* The devices of four dimensions.
LEMMA DevicesFour ==
  ASSUME NEW a \in Nat, NEW b \in Nat, NEW c \in Nat, NEW d \in Nat
  PROVE  Devices(<<a, b, c, d>>) = a * b * c * d
<1> DEFINE s == <<a, b, c, d>>
<1>1. Len(s) = 4 /\ s[1] = a /\ s[2] = b /\ s[3] = c /\ s[4] = d
  OBVIOUS
<1> HIDE DEF s
<1>2. PICK f : IsProduct(s, 4, f) /\ Devices(s) = f[4]
  <2>1. Len(s) \in Nat
    BY <1>1
  <2>2. PICK f : IsProduct(s, Len(s), f) /\ Devices(s) = f[Len(s)]
    BY <2>1, DevicesOf
  <2> QED
    BY <1>1, <2>2
<1>3. \A i \in 0 .. 4 : f[i] = IF i = 0 THEN 1 ELSE f[i - 1] * s[i]
  BY <1>2 DEF IsProduct
<1>4. f[0] = 1 /\ f[1] = f[0] * a /\ f[2] = f[1] * b /\ f[3] = f[2] * c /\ f[4] = f[3] * d
  <2>1. 0 \in 0 .. 4 /\ 1 \in 0 .. 4 /\ 2 \in 0 .. 4 /\ 3 \in 0 .. 4 /\ 4 \in 0 .. 4
    OBVIOUS
  <2> QED
    BY <1>1, <1>3, <2>1
<1> QED
  BY <1>2, <1>4 DEF s

\* One more dimension multiplies the devices.
LEMMA DevicesAppend ==
  ASSUME NEW s \in Seq(Nat), NEW x \in Nat
  PROVE  Devices(Append(s, x)) = Devices(s) * x
<1> DEFINE n == Len(s)
           u == Append(s, x)
<1>1. n \in Nat /\ Len(u) = n + 1 /\ u[n + 1] = x /\ \A i \in 1 .. n : u[i] = s[i]
  OBVIOUS
<1> HIDE DEF n, u
<1>2. PICK f : IsProduct(s, n, f) /\ Devices(s) = f[n]
  BY <1>1, DevicesOf DEF n
<1>3. PICK g : IsProduct(u, n + 1, g) /\ Devices(u) = g[n + 1]
  BY <1>1, DevicesOf
<1>4. \A i \in 0 .. n : f[i] = IF i = 0 THEN 1 ELSE f[i - 1] * s[i]
  BY <1>2 DEF IsProduct
<1>5. \A i \in 0 .. n + 1 : g[i] = IF i = 0 THEN 1 ELSE g[i - 1] * u[i]
  BY <1>3 DEF IsProduct
<1> DEFINE S == {i \in Nat : i \in 0 .. n => g[i] = f[i]}
<1>6. 0 \in S
  <2>1. 0 \in 0 .. n /\ 0 \in 0 .. n + 1
    BY <1>1
  <2> QED
    BY <1>4, <1>5, <2>1
<1>7. ASSUME NEW i \in S PROVE i + 1 \in S
  <2>1. SUFFICES ASSUME i + 1 \in 0 .. n PROVE g[i + 1] = f[i + 1]
    OBVIOUS
  <2>2. i \in 0 .. n /\ i + 1 \in 1 .. n /\ i + 1 \in 0 .. n + 1 /\ i + 1 # 0 /\ (i + 1) - 1 = i
    BY <1>1, <2>1
  <2>3. g[i] = f[i] /\ u[i + 1] = s[i + 1]
    BY <1>1, <2>2
  <2>4. f[i + 1] = f[i] * s[i + 1]
    BY <1>4, <2>1, <2>2
  <2>5. g[i + 1] = g[i] * u[i + 1]
    BY <1>5, <2>2
  <2> QED
    BY <2>3, <2>4, <2>5
<1>8. S = Nat
  <2> HIDE DEF S
  <2>1. S \in SUBSET Nat
    BY DEF S
  <2> QED
    BY <1>6, <1>7, <2>1, NatSets
<1>9. g[n] = f[n]
  <2>1. n \in S /\ n \in 0 .. n
    BY <1>1, <1>8
  <2> QED
    BY <2>1
<1>10. g[n + 1] = g[n] * u[n + 1]
  <2>1. n + 1 \in 0 .. n + 1 /\ n + 1 # 0 /\ (n + 1) - 1 = n
    BY <1>1
  <2> QED
    BY <1>5, <2>1
<1> QED
  BY <1>1, <1>2, <1>3, <1>9, <1>10 DEF u

-----------------------------------------------------------------------------
(* The mesh of a pool.                                                       *)

\* The topologies of the tables.
LEMMA Tables ==
  /\ \A e \in ByChips \cup ByDevices : e[2] \in Seq(Nat) /\ Devices(e[2]) = e[1]
  /\ \A e \in ByPodType : e[2] \in Seq(Nat)
<1>1. \A a, b, c \in Nat : <<a, b, c>> \in Seq(Nat)
  OBVIOUS
<1>2. \A a, b, c, d \in Nat : <<a, b, c, d>> \in Seq(Nat)
  OBVIOUS
<1>3. ASSUME NEW e \in ByChips PROVE e[2] \in Seq(Nat) /\ Devices(e[2]) = e[1]
  <2>1. \E a, b, c \in Nat : e[2] = <<a, b, c>> /\ e[1] = a * b * c
    BY <1>3 DEF ByChips
  <2> QED
    BY <1>1, <2>1, DevicesThree
<1>4. ASSUME NEW e \in ByDevices PROVE e[2] \in Seq(Nat) /\ Devices(e[2]) = e[1]
  <2>1. \E a, b, c, d \in Nat : e[2] = <<a, b, c, d>> /\ e[1] = a * b * c * d
    BY <1>4 DEF ByDevices
  <2> QED
    BY <1>2, <2>1, DevicesFour
<1>5. ASSUME NEW e \in ByPodType PROVE e[2] \in Seq(Nat)
  <2>1. \E a, b, c \in Nat : e[2] = <<a, b, c>>
    BY <1>5 DEF ByPodType
  <2> QED
    BY <1>1, <2>1
<1> QED
  BY <1>3, <1>4, <1>5

\* What a table has for a key is nothing, or a row's topology.
LEMMA Looked ==
  ASSUME NEW table, NEW key
  PROVE  Lookup(table, key) = <<>> \/ \E e \in table : e[1] = key /\ e[2] = Lookup(table, key)
<1> DEFINE hits == {e \in table : e[1] = key}
<1>1. CASE hits = {}
  BY <1>1 DEF Lookup
<1>2. CASE hits # {}
  <2> DEFINE e == CHOOSE e \in hits : TRUE
  <2>1. e \in hits
    BY <1>2
  <2>2. Lookup(table, key) = e[2]
    BY <1>2 DEF Lookup
  <2> HIDE DEF e
  <2> QED
    BY <2>1, <2>2
<1> QED
  BY <1>1, <1>2

\* A driver's variables.
Variables == [topology : Seq(Nat), accelerator : STRING, hostBounds : Seq(Nat), chipBounds : Seq(Nat)]

\* The slice that GKE describes is a topology.
LEMMA GkeTopology == environ \in Variables => GkeSlice \in Seq(Nat)
<1> SUFFICES ASSUME environ \in Variables PROVE GkeSlice \in Seq(Nat)
  OBVIOUS
<1>1. environ.hostBounds \in Seq(Nat) /\ environ.chipBounds \in Seq(Nat)
  BY DEF Variables
<1> DEFINE a == environ.hostBounds
           b == environ.chipBounds
<1>2. CASE Len(a) = Len(b)
  <2>1. GkeSlice = Times(a, b)
    BY <1>2 DEF GkeSlice
  <2> HIDE DEF a, b
  <2>2. a \in Seq(Nat) /\ b \in Seq(Nat)
    BY <1>1 DEF a, b
  <2>3. Times(a, b) = [i \in 1 .. Len(a) |-> a[i] * b[i]]
    BY <2>2 DEF Times
  <2>4. \A i \in 1 .. Len(a) : a[i] * b[i] \in Nat
    BY <1>2, <2>2
  <2> QED
    BY <2>1, <2>2, <2>3, <2>4
<1>3. CASE Len(a) # Len(b)
  BY <1>3 DEF GkeSlice
<1> QED
  BY <1>2, <1>3

\* The topology of a pool is that of a table, a variable's or GKE's, and has the
\* pool's devices but for the table by pod types.
LEMMA TopologyFits ==
  ASSUME environ \in Variables, NEW total \in Nat, NEW nodes, NEW type, Topology(total, nodes, type) # <<>>
  PROVE  /\ Topology(total, nodes, type) \in Seq(Nat)
         /\ type \notin {e[1] : e \in ByPodType} => Devices(Topology(total, nodes, type)) = total
<1> DEFINE Fits(t) == t = <<>> \/ (t \in Seq(Nat) /\ Devices(t) = total)
<1>1. Fits(Override(total))
  BY DEF Override, Variables
<1>2. Fits(Lookup(ByDevices, total)) /\ Fits(Lookup(ByChips, total))
  BY Looked, Tables
<1>3. Lookup(ByPodType, type) = <<>> \/ Lookup(ByPodType, type) \in Seq(Nat)
  BY Looked, Tables
<1>4. type \notin {e[1] : e \in ByPodType} => Lookup(ByPodType, type) = <<>>
  BY Looked
<1>5. Devices(GkeSlice) * CoresPerChip = total => Fits(Append(GkeSlice, CoresPerChip))
  BY GkeTopology, DevicesAppend DEF CoresPerChip
<1>6. CASE IsV7x(type)
  <2>1. Topology(total, nodes, type) = TopologyV7x(total, nodes)
    BY <1>6 DEF Topology
  <2>2. Fits(TopologyV7x(total, nodes))
    <3> HIDE DEF Fits
    <3> QED
      BY <1>1, <1>2, <1>5 DEF TopologyV7x, Or
  <2> QED
    BY <2>1, <2>2
<1>7. CASE ~IsV7x(type)
  <2>1. Topology(total, nodes, type) = Or(Override(total), Or(Lookup(ByPodType, type), Lookup(ByChips, total)))
    BY <1>7 DEF Topology
  <2>2. CASE Override(total) # <<>>
    BY <1>1, <2>1, <2>2 DEF Or
  <2>3. CASE Override(total) = <<>> /\ Lookup(ByPodType, type) # <<>>
    BY <1>3, <1>4, <2>1, <2>3 DEF Or
  <2>4. CASE Override(total) = <<>> /\ Lookup(ByPodType, type) = <<>>
    BY <1>2, <2>1, <2>4 DEF Or
  <2> QED
    BY <2>2, <2>3, <2>4
<1> QED
  BY <1>6, <1>7

\* Ones leave a topology of as many dimensions as it is.
LEMMA TimesOnes ==
  ASSUME NEW t \in Seq(Nat), NEW u, DOMAIN u = DOMAIN t, \A i \in DOMAIN u : u[i] = 1
  PROVE  Times(t, u) = t /\ Times(u, t) = t
<1>1. t = [i \in 1 .. Len(t) |-> t[i]] /\ DOMAIN t = 1 .. Len(t) /\ \A i \in 1 .. Len(t) : t[i] \in Nat
  OBVIOUS
<1>2. \A i \in 1 .. Len(t) : t[i] * u[i] = t[i] /\ u[i] * t[i] = t[i]
  BY <1>1
<1>3. Times(t, u) = [i \in 1 .. Len(t) |-> t[i] * u[i]] /\ Times(u, t) = [i \in 1 .. Len(t) |-> u[i] * t[i]]
  BY <1>1 DEF Times
<1> QED
  BY <1>1, <1>2, <1>3

\* The bounds of the hosts times those of a host's chips make the mesh.
LEMMA BoundsMakeTheMesh ==
  ASSUME environ \in Variables, NEW total \in Nat, NEW nodes, NEW type, Topology(total, nodes, type) # <<>>,
         nodes = 1 \/ total > SingleHostMaxChips,
         DOMAIN Mesh(total, nodes, type).topology = DOMAIN Mesh(total, nodes, type).hosts,
         DOMAIN Mesh(total, nodes, type).topology = DOMAIN Mesh(total, nodes, type).chips
  PROVE  LET m == Mesh(total, nodes, type) IN Times(m.hosts, m.chips) = m.topology
<1> DEFINE t == Topology(total, nodes, type)
           m == Mesh(total, nodes, type)
<1>1. t \in Seq(Nat)
  BY TopologyFits
<1>2. DOMAIN m.topology = DOMAIN m.hosts /\ DOMAIN m.topology = DOMAIN m.chips
  OBVIOUS
<1>3. \A i \in DOMAIN <<1, 1, 1>> : <<1, 1, 1>>[i] = 1
  OBVIOUS
<1>4. \A i \in DOMAIN <<1, 1, 1, 1>> : <<1, 1, 1, 1>>[i] = 1
  OBVIOUS
<1>5. CASE IsV7x(type)
  <2>1. m = [topology |-> t, hosts |-> t, chips |-> <<1, 1, 1, 1>>]
    BY <1>5 DEF Mesh
  <2> HIDE DEF t, m
  <2>2. m.topology = t /\ m.hosts = t /\ m.chips = <<1, 1, 1, 1>>
    BY <2>1
  <2>3. Times(t, <<1, 1, 1, 1>>) = t
    BY <1>1, <1>2, <1>4, <2>2, TimesOnes
  <2> QED
    BY <2>2, <2>3 DEF m
<1>6. CASE ~IsV7x(type) /\ total <= SingleHostMaxChips
  <2>1. nodes = 1
    BY <1>6 DEF SingleHostMaxChips
  <2>2. m = [topology |-> t, hosts |-> <<1, 1, 1>>, chips |-> t]
    BY <1>6, <2>1 DEF Mesh
  <2> HIDE DEF t, m
  <2>3. m.topology = t /\ m.hosts = <<1, 1, 1>> /\ m.chips = t
    BY <2>2
  <2>4. Times(<<1, 1, 1>>, t) = t
    BY <1>1, <1>2, <1>3, <2>3, TimesOnes
  <2> QED
    BY <2>3, <2>4 DEF m
<1>7. CASE ~IsV7x(type) /\ ~(total <= SingleHostMaxChips)
  <2>1. m = [topology |-> t, hosts |-> t, chips |-> <<1, 1, 1>>]
    BY <1>7 DEF Mesh
  <2> HIDE DEF t, m
  <2>2. m.topology = t /\ m.hosts = t /\ m.chips = <<1, 1, 1>>
    BY <2>1
  <2>3. Times(t, <<1, 1, 1>>) = t
    BY <1>1, <1>2, <1>3, <2>2, TimesOnes
  <2> QED
    BY <2>2, <2>3 DEF m
<1> QED
  BY <1>5, <1>6, <1>7

\* The mesh of a pool has its topology.
LEMMA MeshTopology ==
  ASSUME NEW total, NEW nodes, NEW type
  PROVE  Mesh(total, nodes, type).topology = Topology(total, nodes, type)
BY DEF Mesh

-----------------------------------------------------------------------------
(* The places of a pool.                                                     *)

\* n hosts with k workers each, host by host.
Placed(bundles, n, k, hosts) ==
  /\ n \in Nat \ {0} /\ k \in Nat \ {0}
  /\ DOMAIN hosts = 1 .. n /\ \A i, j \in 1 .. n : i # j => hosts[i] # hosts[j]
  /\ bundles = [r \in 1 .. n * k |-> hosts[(r - 1) \div k + 1]]

\* The ranks before a rank on its host, and the addresses of N ranks.
EarlierOnHost(bundles, N, rank) == {q \in 1 .. N : q < rank /\ bundles[q] = bundles[rank]}
Addresses(bundles, N, k) == [b \in 1 .. N |-> <<bundles[b], Port(b, k)>>]

\* A rank's host and its place there.
LEMMA BlockOf ==
  ASSUME NEW n \in Nat \ {0}, NEW k \in Nat \ {0}, NEW q \in 1 .. n * k
  PROVE  /\ (q - 1) \div k \in 0 .. n - 1 /\ (q - 1) % k \in 0 .. k - 1
         /\ q - 1 = k * ((q - 1) \div k) + ((q - 1) % k)
<1> DEFINE p == q - 1
           e == p \div k
           r == p % k
<1>1. n * k \in Nat
  OBVIOUS
<1>2. p \in Nat /\ p < n * k
  BY <1>1
<1>3. e \in Nat /\ r \in 0 .. k - 1 /\ p = k * e + r
  <2> HIDE DEF p
  <2> QED
    BY <1>2, DivMod
<1> HIDE DEF p, e, r
<1>4. e < n
  <2> SUFFICES ASSUME e >= n PROVE FALSE
    BY <1>3
  <2> DEFINE c == e - n
  <2>1. c \in Nat /\ e = n + c
    BY <1>3
  <2> HIDE DEF c
  <2>2. k * e = k * n + k * c
    BY <2>1
  <2>3. k * c \in Nat /\ k * n = n * k
    BY <2>1
  <2>4. k * e \in Nat /\ k * n \in Nat
    BY <1>3
  <2> QED
    BY <1>2, <1>3, <2>2, <2>3, <2>4
<1> QED
  BY <1>3, <1>4 DEF p, e, r

\* The ranks of a host follow each other, and differ in their places.
LEMMA RanksOfHost ==
  ASSUME NEW bundles, NEW n, NEW k, NEW hosts, Placed(bundles, n, k, hosts),
         NEW rank \in 1 .. n * k
  PROVE  /\ \A q \in 1 .. n * k : bundles[q] = bundles[rank] /\ q # rank => (q - 1) % k # (rank - 1) % k
         /\ Cardinality(EarlierOnHost(bundles, n * k, rank)) = (rank - 1) % k
<1> DEFINE N == n * k
           d(q) == (q - 1) \div k
           m(q) == (q - 1) % k
<1>1. n \in Nat \ {0} /\ k \in Nat \ {0} /\ N \in Nat
  BY DEF Placed
<1>2. \A q \in 1 .. N : d(q) \in 0 .. n - 1 /\ m(q) \in 0 .. k - 1 /\ q - 1 = k * d(q) + m(q)
  BY <1>1, BlockOf
<1>3. \A q \in 1 .. N : bundles[q] = hosts[d(q) + 1]
  BY DEF Placed
<1>4. \A i, j \in 1 .. n : hosts[i] = hosts[j] => i = j
  BY DEF Placed
<1>5. rank \in 1 .. N
  OBVIOUS
<1> HIDE DEF N, d, m
<1> DEFINE x == k * d(rank)
<1>6. \A q \in 1 .. N : bundles[q] = bundles[rank] <=> d(q) = d(rank)
  <2> SUFFICES ASSUME NEW q \in 1 .. N PROVE bundles[q] = bundles[rank] <=> d(q) = d(rank)
    OBVIOUS
  <2>1. d(q) \in 0 .. n - 1 /\ d(rank) \in 0 .. n - 1
    BY <1>2, <1>5
  <2>2. d(q) + 1 \in 1 .. n /\ d(rank) + 1 \in 1 .. n
    BY <1>1, <2>1
  <2>3. bundles[q] = hosts[d(q) + 1] /\ bundles[rank] = hosts[d(rank) + 1]
    BY <1>3, <1>5
  <2>4. bundles[q] = bundles[rank] => d(q) + 1 = d(rank) + 1
    BY <1>4, <2>2, <2>3
  <2> QED
    BY <1>1, <2>1, <2>3, <2>4
<1>7. d(rank) \in Nat /\ x \in Nat /\ rank - 1 = x + m(rank) /\ m(rank) \in 0 .. k - 1
  <2>1. d(rank) \in Nat /\ rank - 1 = x + m(rank) /\ m(rank) \in 0 .. k - 1
    BY <1>1, <1>2, <1>5
  <2> QED
    BY <1>1, <2>1
<1>8. \A q \in 1 .. N : d(q) = d(rank) => q - 1 = x + m(q) /\ m(q) \in 0 .. k - 1
  BY <1>2
<1>9. \A r \in 0 .. k - 1 : (x + r) \div k = d(rank)
  BY <1>1, <1>7, DivOf
<1> HIDE DEF x
<1>10. ASSUME NEW q \in 1 .. N, bundles[q] = bundles[rank], q # rank PROVE m(q) # m(rank)
  <2>1. q - 1 = x + m(q)
    BY <1>6, <1>8, <1>10
  <2> QED
    BY <1>1, <1>5, <1>7, <1>10, <2>1
<1> DEFINE S == {q \in 1 .. N : q < rank /\ bundles[q] = bundles[rank]}
<1>11. S = x + 1 .. rank - 1
  <2>1. ASSUME NEW q \in 1 .. N, q < rank PROVE d(q) = d(rank) <=> x + 1 <= q
    <3>1. d(q) = d(rank) => x + 1 <= q
      BY <1>1, <1>7, <1>8
    <3>2. ASSUME x + 1 <= q PROVE d(q) = d(rank)
      <4> DEFINE r == q - 1 - x
      <4>1. r \in 0 .. k - 1 /\ q - 1 = x + r
        BY <1>1, <1>5, <1>7, <2>1, <3>2
      <4> HIDE DEF r
      <4> QED
        BY <1>9, <4>1 DEF d
    <3> QED
      BY <3>1, <3>2
  <2>2. \A q \in x + 1 .. rank - 1 : q \in 1 .. N /\ q < rank
    BY <1>1, <1>5, <1>7
  <2>3. \A q \in S : q \in x + 1 .. rank - 1
    <3> SUFFICES ASSUME NEW q \in S PROVE q \in x + 1 .. rank - 1
      OBVIOUS
    <3>1. q \in 1 .. N /\ q < rank /\ d(q) = d(rank)
      BY <1>6
    <3>2. x + 1 <= q
      BY <2>1, <3>1
    <3> QED
      BY <1>1, <1>5, <1>7, <3>1, <3>2
  <2>4. \A q \in x + 1 .. rank - 1 : q \in S
    <3> SUFFICES ASSUME NEW q \in x + 1 .. rank - 1 PROVE q \in S
      OBVIOUS
    <3>1. q \in 1 .. N /\ q < rank
      BY <2>2
    <3>2. d(q) = d(rank)
      BY <1>7, <2>1, <3>1
    <3> QED
      BY <1>6, <3>1, <3>2
  <2> HIDE DEF S
  <2> QED
    BY <2>3, <2>4
<1>12. Cardinality(x + 1 .. rank - 1) = m(rank)
  <2>1. x + 1 \in Int /\ rank - 1 \in Int
    BY <1>1, <1>5, <1>7
  <2>2. Cardinality(x + 1 .. rank - 1) = IF x + 1 > rank - 1 THEN 0 ELSE (rank - 1) - (x + 1) + 1
    BY <2>1, FS_Interval
  <2> QED
    BY <1>1, <1>5, <1>7, <2>2
<1>13. Cardinality(EarlierOnHost(bundles, N, rank)) = m(rank)
  BY <1>11, <1>12 DEF EarlierOnHost
<1> QED
  BY <1>10, <1>13 DEF N, m

\* In order, the ranks of a pool whose hosts are all alive are those of the pool.
LEMMA AllInOrder ==
  ASSUME NEW n \in Nat
  PROVE  InOrder(1 .. n) = [b \in 1 .. n |-> b]
<1>1. Cardinality(1 .. n) = n
  BY FS_Interval
<1>2. ASSUME NEW b \in 1 .. n
      PROVE  (CHOOSE r \in 1 .. n : Cardinality({q \in 1 .. n : q <= r}) = b) = b
  <2>1. \A r \in 1 .. n : Cardinality({q \in 1 .. n : q <= r}) = r
    <3> SUFFICES ASSUME NEW r \in 1 .. n PROVE Cardinality({q \in 1 .. n : q <= r}) = r
      OBVIOUS
    <3>1. {q \in 1 .. n : q <= r} = 1 .. r
      OBVIOUS
    <3>2. Cardinality(1 .. r) = r
      BY FS_Interval
    <3> QED
      BY <3>1, <3>2
  <2> DEFINE P(r) == r \in 1 .. n /\ Cardinality({q \in 1 .. n : q <= r}) = b
  <2>2. \A r : P(r) <=> r = b
    BY <2>1
  <2>3. (CHOOSE r : P(r)) = b
    <3> HIDE DEF P
    <3>1. P(b)
      BY <2>2
    <3>2. P(CHOOSE r : P(r))
      BY <3>1
    <3> QED
      BY <2>2, <3>2
  <2> QED
    BY <2>3
<1> DEFINE e(b) == CHOOSE r \in 1 .. n : Cardinality({q \in 1 .. n : q <= r}) = b
<1>3. InOrder(1 .. n) = [b \in 1 .. n |-> e(b)]
  BY <1>1 DEF InOrder
<1>4. \A b \in 1 .. n : e(b) = b
  BY <1>2
<1> HIDE DEF e
<1> QED
  BY <1>3, <1>4

-----------------------------------------------------------------------------
(* What a worker is told.                                                    *)

\* The answer t is right for a worker of pool.
RightFor(t, pool) ==
  LET own   == t.addresses[t.rank]
      ranks == DOMAIN pool.bundles
      nodes == Cardinality(ValuesOf(pool.bundles))
      whole == Len(t.addresses) = Len(pool.bundles)
      other == pool.launcher = "torchrun"
  IN  /\ whole => /\ own[1] = pool.bundles[t.rank]
                  /\ \A q \in ranks \ {t.rank} : t.addresses[q] # own
                  /\ own[2] - BasePort = Cardinality({q \in ranks : q < t.rank /\ pool.bundles[q] = own[1]})
      /\ ~other /\ t.type \notin {e[1] : e \in ByPodType} => Devices(t.mesh.topology) = Cardinality(ranks)
      /\ /\ ~other /\ whole /\ (nodes = 1 \/ Cardinality(ranks) > SingleHostMaxChips)
         /\ DOMAIN t.mesh.topology = DOMAIN t.mesh.hosts /\ DOMAIN t.mesh.topology = DOMAIN t.mesh.chips
         => Times(t.mesh.hosts, t.mesh.chips) = t.mesh.topology

\* A pool's workers are placed host by host.
IsPool(pool) == \E n, k, hosts : Placed(pool.bundles, n, k, hosts) /\ pool.perHost = k

\* The pools are placed, and every answer is right for its pool.
TopologyInv ==
  /\ environ \in Variables
  /\ \E S : pools \in Seq(S)
  /\ \A p \in DOMAIN pools : IsPool(pools[p])
  /\ \A t \in told : t.pool \in DOMAIN pools /\ RightFor(t, pools[t.pool])

\* With all its hosts alive a worker is told its own place, and no other rank is.
LEMMA OwnAddress ==
  ASSUME NEW B, NEW n, NEW k, NEW hosts, Placed(B, n, k, hosts), NEW rank \in 1 .. n * k,
         NEW addresses, addresses = Addresses(B, n * k, k)
  PROVE  /\ addresses[rank][1] = B[rank]
         /\ \A q \in 1 .. n * k \ {rank} : addresses[q] # addresses[rank]
         /\ addresses[rank][2] - BasePort = Cardinality(EarlierOnHost(B, n * k, rank))
<1> DEFINE N == n * k
           m(q) == (q - 1) % k
<1>1. \A q \in 1 .. N : m(q) \in Nat
  <2>1. n \in Nat \ {0} /\ k \in Nat \ {0}
    BY DEF Placed
  <2> QED
    BY <2>1, BlockOf
<1>2. \A q \in 1 .. N : addresses[q] = <<B[q], BasePort + m(q)>>
  BY DEF Port, Addresses
<1> HIDE DEF m, N
<1>3. \A q \in 1 .. N : B[q] = B[rank] /\ q # rank => m(q) # m(rank)
  BY RanksOfHost DEF m, N
<1>4. Cardinality(EarlierOnHost(B, N, rank)) = m(rank)
  BY RanksOfHost DEF m, N
<1>5. rank \in 1 .. N
  BY DEF N
<1>6. addresses[rank] = <<B[rank], BasePort + m(rank)>> /\ m(rank) \in Nat
  BY <1>1, <1>2, <1>5
<1>7. addresses[rank][1] = B[rank] /\ addresses[rank][2] = BasePort + m(rank)
  BY <1>6
<1>8. addresses[rank][2] - BasePort = m(rank)
  BY <1>6, <1>7 DEF BasePort
<1>9. ASSUME NEW q \in 1 .. N \ {rank} PROVE addresses[q] # addresses[rank]
  <2>1. addresses[q] = <<B[q], BasePort + m(q)>> /\ m(q) \in Nat
    BY <1>1, <1>2
  <2>2. B[q] = B[rank] => m(q) # m(rank)
    BY <1>3
  <2>3. B[q] = B[rank] => BasePort + m(q) # BasePort + m(rank)
    BY <1>6, <2>1, <2>2 DEF BasePort
  <2> QED
    BY <1>6, <2>1, <2>3
<1> QED
  BY <1>4, <1>7, <1>8, <1>9 DEF N

\* The ranks of a pool.
LEMMA RanksOf ==
  ASSUME NEW B, NEW n, NEW k, NEW hosts, Placed(B, n, k, hosts)
  PROVE  n * k \in Nat /\ DOMAIN B = 1 .. n * k /\ Len(B) = n * k /\ Cardinality(DOMAIN B) = n * k
<1>1. n * k \in Nat
  BY DEF Placed
<1>2. DOMAIN B = 1 .. n * k
  BY DEF Placed
<1>3. Cardinality(1 .. n * k) = n * k
  <2> DEFINE N == n * k
  <2> HIDE DEF N
  <2>1. N \in Nat
    BY <1>1 DEF N
  <2>2. Cardinality(1 .. N) = N
    BY <2>1, FS_Interval
  <2> QED
    BY <2>2 DEF N
<1> QED
  BY <1>1, <1>2, <1>3

\* A pool of hosts that differ is placed.
LEMMA PoolIsPlaced ==
  ASSUME NEW launcher, NEW slice, NEW from, NEW n \in Nat \ {0}, NEW k \in Nat \ {0}, NEW hosts \in Different(n, from)
  PROVE  LET pool == PoolOf(launcher, slice, hosts, k) IN
         Len(hosts) = n /\ Placed(pool.bundles, n, k, hosts) /\ pool.perHost = k /\ pool.launcher = launcher
<1>1. Len(hosts) = n /\ DOMAIN hosts = 1 .. n /\ \A i, j \in 1 .. n : i # j => hosts[i] # hosts[j]
  BY DEF Different
<1>2. PoolOf(launcher, slice, hosts, k).bundles = [r \in 1 .. n * k |-> hosts[(r - 1) \div k + 1]]
  BY <1>1 DEF PoolOf
<1>3. PoolOf(launcher, slice, hosts, k).perHost = k /\ PoolOf(launcher, slice, hosts, k).launcher = launcher
  BY DEF PoolOf
<1> QED
  BY <1>1, <1>2, <1>3 DEF Placed

-----------------------------------------------------------------------------
\* Before the first pool nothing is told.
LEMMA TopologyInitial == ASSUME NEW c \in Clusters, NEW e \in Environs, TopologyInit(c, e)
  PROVE  TopologyInv
<1>1. environ \in Variables
  BY TopologyAssumption DEF TopologyInit, Variables
<1>2. pools = <<>> /\ told = {}
  BY DEF TopologyInit
<1>3. pools \in Seq(Nat) /\ DOMAIN pools = {}
  BY <1>2
<1> QED
  BY <1>1, <1>2, <1>3 DEF TopologyInv

\* A pool that is added is placed, and the others stay.
LEMMA AddPoolKeeps ==
  ASSUME TopologyInv, NEW given, NEW n \in Nat \ {0}, NEW k \in Nat \ {0}, AddPool(given, n, k)
  PROVE  TopologyInv'
<1>1. PICK launcher, slice, from, hosts :
        hosts \in Different(n, from) /\ pools' = Append(pools, PoolOf(launcher, slice, hosts, k))
  BY DEF AddPool
<1> DEFINE new == PoolOf(launcher, slice, hosts, k)
<1>2. IsPool(new)
  <2>1. Placed(new.bundles, n, k, hosts) /\ new.perHost = k
    BY <1>1, PoolIsPlaced
  <2> HIDE DEF new
  <2> QED
    BY <2>1 DEF IsPool
<1> HIDE DEF new
<1>3. PICK S : pools \in Seq(S)
  BY DEF TopologyInv
<1>4. pools \in Seq(S \cup {new}) /\ new \in S \cup {new}
  BY <1>3
<1>5. pools' = Append(pools, new)
  BY <1>1 DEF new
<1>6. pools' \in Seq(S \cup {new}) /\ DOMAIN pools' = 1 .. Len(pools) + 1 /\ DOMAIN pools = 1 .. Len(pools)
      /\ Len(pools) \in Nat /\ pools'[Len(pools) + 1] = new /\ \A p \in 1 .. Len(pools) : pools'[p] = pools[p]
  BY <1>4, <1>5
<1>7. \A p \in DOMAIN pools : p \in DOMAIN pools' /\ pools'[p] = pools[p]
  BY <1>6
<1>8. \A p \in DOMAIN pools' : p \in DOMAIN pools \/ p = Len(pools) + 1
  BY <1>6
<1>9. \A p \in DOMAIN pools' : IsPool(pools'[p])
  BY <1>2, <1>6, <1>7, <1>8 DEF TopologyInv
<1>10. environ' = environ /\ told' = told
  BY DEF AddPool
<1>11. \A t \in told' : t.pool \in DOMAIN pools' /\ RightFor(t, pools'[t.pool])
  BY <1>7, <1>10 DEF TopologyInv
<1> QED
  BY <1>6, <1>9, <1>10, <1>11 DEF TopologyInv

\* What a worker is told is right for its pool.
LEMMA TellWorkerKeeps ==
  ASSUME TopologyInv, NEW p \in DOMAIN pools, NEW rank \in DOMAIN pools[p].bundles, TellWorker(p, rank)
  PROVE  TopologyInv'
<1> DEFINE pool == pools[p]
           B == pool.bundles
           A == {r \in DOMAIN B : B[r] \in Alive}
           listed == InOrder(A)
           ips == [b \in DOMAIN listed |-> B[listed[b]]]
           nodes == Cardinality(ValuesOf(ips))
           addresses == [b \in 1 .. Len(ips) |-> <<ips[b], Port(b, pool.perHost)>>]
           answer(type) == [pool |-> p, rank |-> rank, addresses |-> addresses,
                            type |-> type, mesh |-> Mesh(Len(B), nodes, type)]
<1>1. PICK type : Topology(Len(B), nodes, type) # <<>> /\ told' = told \cup {answer(type)}
  BY DEF TellWorker
<1>2. PICK n, k, hosts : Placed(B, n, k, hosts) /\ pool.perHost = k
  BY DEF TopologyInv, IsPool
<1> DEFINE N == n * k
<1>3. N \in Nat /\ DOMAIN B = 1 .. N /\ Len(B) = N /\ Cardinality(DOMAIN B) = N
  BY <1>2, RanksOf
<1>4. Cardinality(A) \in Nat /\ (Cardinality(A) = N => A = 1 .. N)
  <2> HIDE DEF B, N
  <2>1. IsFiniteSet(1 .. N) /\ A \in SUBSET (1 .. N)
    BY <1>3, FS_Interval
  <2> HIDE DEF A
  <2>2. IsFiniteSet(A) /\ (Cardinality(1 .. N) = Cardinality(A) => 1 .. N = A)
    BY <2>1, FS_Subset
  <2>3. Cardinality(A) \in Nat
    BY <2>2, FS_CardinalityType
  <2> QED
    BY <1>3, <2>2, <2>3
<1>5. DOMAIN ips = 1 .. Cardinality(A) /\ Len(ips) = Cardinality(A)
  <2>1. DOMAIN listed = 1 .. Cardinality(A)
    BY DEF InOrder
  <2> HIDE DEF A, listed, B
  <2> QED
    BY <1>4, <2>1
<1>6. Len(addresses) = Cardinality(A)
  <2> HIDE DEF ips, A
  <2> QED
    BY <1>4, <1>5
<1>7. Cardinality(A) = N => ips = B
  <2> SUFFICES ASSUME Cardinality(A) = N PROVE ips = B
    OBVIOUS
  <2>1. A = 1 .. N
    BY <1>4
  <2> HIDE DEF A, B, N
  <2>2. listed = [b \in 1 .. N |-> b]
    BY <1>3, <2>1, AllInOrder
  <2>3. DOMAIN listed = 1 .. N /\ \A b \in 1 .. N : listed[b] = b
    BY <2>2
  <2> HIDE DEF listed
  <2>4. ips = [b \in 1 .. N |-> B[b]]
    BY <2>3
  <2>5. B = [b \in 1 .. N |-> B[b]]
    BY <1>2, <1>3 DEF Placed
  <2> QED
    BY <2>4, <2>5
<1>8. rank \in 1 .. N
  BY <1>3
<1>9. environ \in Variables
  BY DEF TopologyInv
<1> DEFINE t == answer(type)
<1>10. t.pool = p /\ t.rank = rank /\ t.addresses = addresses /\ t.type = type /\ t.mesh = Mesh(N, nodes, type)
  BY <1>3
<1>11. RightFor(t, pool)
  <2> HIDE DEF N, A, ips, listed, addresses, answer, t
  <2>1. ASSUME Len(addresses) = Len(B)
        PROVE  /\ addresses[rank][1] = B[rank]
               /\ \A q \in DOMAIN B \ {rank} : addresses[q] # addresses[rank]
               /\ addresses[rank][2] - BasePort = Cardinality({q \in DOMAIN B : q < rank /\ B[q] = addresses[rank][1]})
    <3>1. ips = B /\ Len(ips) = N
      BY <1>3, <1>5, <1>6, <1>7, <2>1
    <3>2. addresses = Addresses(B, N, k)
      BY <1>2, <3>1 DEF addresses, Addresses
    <3> HIDE DEF B, pool
    <3>3. addresses = Addresses(B, n * k, k) /\ rank \in 1 .. n * k /\ DOMAIN B = 1 .. n * k
      BY <1>3, <1>8, <3>2 DEF N
    <3>4. /\ addresses[rank][1] = B[rank]
          /\ \A q \in 1 .. n * k \ {rank} : addresses[q] # addresses[rank]
          /\ addresses[rank][2] - BasePort = Cardinality(EarlierOnHost(B, n * k, rank))
      <4>1. Placed(B, n, k, hosts)
        BY <1>2
      <4> HIDE DEF addresses
      <4>2. rank \in 1 .. n * k
        BY <3>3
      <4>3. \A r \in 1 .. n * k : \A a : a = Addresses(B, n * k, k) =>
              /\ a[r][1] = B[r]
              /\ \A q \in 1 .. n * k \ {r} : a[q] # a[r]
              /\ a[r][2] - BasePort = Cardinality(EarlierOnHost(B, n * k, r))
        BY <4>1, OwnAddress
      <4> QED
        BY <3>3, <4>2, <4>3, Zenon
    <3>5. EarlierOnHost(B, n * k, rank) = {q \in DOMAIN B : q < rank /\ B[q] = addresses[rank][1]}
      BY <3>3, <3>4, Zenon DEF EarlierOnHost
    <3> QED
      BY <3>3, <3>4, <3>5, Zenon
  <2>2. Topology(N, nodes, type) # <<>>
    BY <1>1, <1>3
  <2>3. type \notin {e[1] : e \in ByPodType} => Devices(t.mesh.topology) = Cardinality(DOMAIN B)
    BY <1>3, <1>9, <1>10, <2>2, MeshTopology, TopologyFits
  <2>4. ASSUME Len(addresses) = Len(B),
               Cardinality(ValuesOf(B)) = 1 \/ Cardinality(DOMAIN B) > SingleHostMaxChips,
               DOMAIN t.mesh.topology = DOMAIN t.mesh.hosts, DOMAIN t.mesh.topology = DOMAIN t.mesh.chips
        PROVE  Times(t.mesh.hosts, t.mesh.chips) = t.mesh.topology
    <3>1. ips = B
      BY <1>3, <1>6, <1>7, <2>4
    <3>2. nodes = 1 \/ N > SingleHostMaxChips
      BY <1>3, <2>4, <3>1
    <3> HIDE DEF nodes
    <3> DEFINE m == Mesh(N, nodes, type)
    <3>3. t.mesh = m
      BY <1>10
    <3>4. DOMAIN m.topology = DOMAIN m.hosts /\ DOMAIN m.topology = DOMAIN m.chips
      BY <2>4, <3>3
    <3>5. Times(m.hosts, m.chips) = m.topology
      BY <1>3, <1>9, <2>2, <3>2, <3>4, BoundsMakeTheMesh
    <3> HIDE DEF m
    <3> QED
      BY <3>3, <3>5
  <2> HIDE DEF nodes
  <2> QED
    BY <1>10, <2>1, <2>3, <2>4 DEF RightFor
<1>12. UNCHANGED <<environ, pools>>
  BY DEF TellWorker
<1>13. \A u \in told' : u.pool \in DOMAIN pools' /\ RightFor(u, pools'[u.pool])
  <2> HIDE DEF answer
  <2> QED
    BY <1>1, <1>10, <1>11, <1>12 DEF TopologyInv
<1> QED
  BY <1>12, <1>13 DEF TopologyInv

\* Torchrun's workers are told the places of their pool.
LEMMA TorchrunKeeps ==
  ASSUME TopologyInv, NEW n \in Nat \ {0}, NEW k \in Nat \ {0}, NEW hosts \in Different(n, Alive), Torchrun(hosts, k)
  PROVE  TopologyInv'
<1> DEFINE new == PoolOf("torchrun", 0, hosts, k)
           B == new.bundles
<1>1. Len(hosts) = n /\ Placed(B, n, k, hosts) /\ new.perHost = k /\ new.launcher = "torchrun"
  BY PoolIsPlaced
<1>2. pools' = <<new>>
  BY DEF Torchrun
<1> HIDE DEF new
<1>3. DOMAIN pools' = {1} /\ pools'[1] = new /\ pools' \in Seq({new})
  BY <1>2
<1>4. PICK mesh : told' = {[pool |-> 1, rank |-> r, type |-> environ.accelerator, mesh |-> mesh,
                            addresses |-> [b \in 1 .. n * k |-> <<B[b], Port(b, k)>>]] : r \in 1 .. n * k}
  <2> DEFINE total == Len(hosts) * k
             type  == environ.accelerator
             found == Mesh(total, Len(hosts), type)
             mesh  == IF Topology(total, Len(hosts), type) = <<>> THEN NoMesh
                      ELSE IF ~IsV7x(type) /\ environ.topology # <<>>
                           THEN [found EXCEPT !.topology = environ.topology] ELSE found
  <2>1. told' = {[pool |-> 1, rank |-> r, type |-> type, mesh |-> mesh,
                  addresses |-> [b \in 1 .. total |-> <<pools'[1].bundles[b], Port(b, k)>>]] : r \in 1 .. total}
    BY Zenon DEF Torchrun
  <2>2. total = n * k /\ pools'[1].bundles = B
    BY <1>1, <1>3
  <2> HIDE DEF mesh, total, B
  <2> QED
    BY <2>1, <2>2, Zenon
<1>5. n * k \in Nat /\ DOMAIN B = 1 .. n * k /\ Len(B) = n * k
  BY <1>1, RanksOf
<1>6. ASSUME NEW t \in told' PROVE t.pool \in DOMAIN pools' /\ RightFor(t, pools'[t.pool])
  <2> DEFINE addresses == [b \in 1 .. n * k |-> <<B[b], Port(b, k)>>]
  <2>1. PICK r \in 1 .. n * k : t.pool = 1 /\ t.rank = r /\ t.addresses = addresses
    <3> HIDE DEF addresses, B
    <3>1. PICK r \in 1 .. n * k : t = [pool |-> 1, rank |-> r, type |-> environ.accelerator, mesh |-> mesh,
                                       addresses |-> addresses]
      BY <1>4, <1>6, Zenon DEF addresses
    <3> QED
      BY <3>1
  <2>2. /\ addresses[r][1] = B[r]
        /\ \A q \in 1 .. n * k \ {r} : addresses[q] # addresses[r]
        /\ addresses[r][2] - BasePort = Cardinality({q \in 1 .. n * k : q < r /\ B[q] = addresses[r][1]})
    <3> HIDE DEF B, addresses
    <3>1. addresses = Addresses(B, n * k, k)
      BY Zenon DEF addresses, Addresses
    <3>2. Placed(B, n, k, hosts)
      BY <1>1
    <3>3. /\ addresses[r][1] = B[r]
          /\ \A q \in 1 .. n * k \ {r} : addresses[q] # addresses[r]
          /\ addresses[r][2] - BasePort = Cardinality(EarlierOnHost(B, n * k, r))
      BY <3>1, <3>2, OwnAddress
    <3>4. EarlierOnHost(B, n * k, r) = {q \in 1 .. n * k : q < r /\ B[q] = addresses[r][1]}
      BY <3>3, Zenon DEF EarlierOnHost
    <3> QED
      BY <3>3, <3>4, Zenon
  <2> HIDE DEF addresses
  <2>3. RightFor(t, new)
    BY <1>1, <1>5, <2>1, <2>2 DEF RightFor
  <2> QED
    BY <1>3, <2>1, <2>3
<1>7. IsPool(new)
  BY <1>1 DEF IsPool
<1>8. environ' = environ
  BY DEF Torchrun
<1> QED
  BY <1>3, <1>6, <1>7, <1>8 DEF TopologyInv

\* Every step keeps the answers right.
LEMMA TopologyStep == TopologyInv /\ [TopologyNext]_topologyvars => TopologyInv'
<1> SUFFICES ASSUME TopologyInv, [TopologyNext]_topologyvars PROVE TopologyInv'
  OBVIOUS
<1>1. \A s \in PoolSizes : s[1] \in Nat \ {0} /\ s[2] \in Nat \ {0}
  BY TopologyAssumption
<1>2. ASSUME NEW s \in PoolSizes, NEW given \in {0} \cup SlicesOf(Alive), AddPool(given, s[1], s[2])
      PROVE  TopologyInv'
  BY <1>1, <1>2, AddPoolKeeps
<1>3. ASSUME NEW p \in DOMAIN pools, NEW r \in DOMAIN pools[p].bundles, TellWorker(p, r)
      PROVE  TopologyInv'
  BY <1>3, TellWorkerKeeps
<1>4. ASSUME NEW s \in PoolSizes, NEW hosts \in Different(s[1], Alive), Torchrun(hosts, s[2])
      PROVE  TopologyInv'
  BY <1>1, <1>4, TorchrunKeeps
<1>5. ASSUME NEW h \in DOMAIN cluster, HostChanges(h) PROVE TopologyInv'
  BY <1>5 DEF HostChanges, TopologyInv
<1>6. CASE UNCHANGED topologyvars
  BY <1>6 DEF topologyvars, TopologyInv
<1> QED
  BY <1>2, <1>3, <1>4, <1>5, <1>6 DEF TopologyNext

\* For any cluster, driver's variables and sizes of pools, and however hosts leave
\* and join between two workers' questions, each is told its own place, and a mesh
\* with the devices of its pool.
THEOREM MeshesFitTheirPools == TopologySpec => []MeshIsThePool
<1>1. (\E c \in Clusters, e \in Environs : TopologyInit(c, e)) => TopologyInv
  BY TopologyInitial
<1>2. TopologyInv => MeshIsThePool
  BY DEF TopologyInv, MeshIsThePool, RightFor
<1> QED
  BY <1>1, <1>2, TopologyStep, PTL DEF TopologySpec
=============================================================================
