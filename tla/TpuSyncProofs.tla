---------------------------- MODULE TpuSyncProofs ----------------------------
(***************************************************************************)
(* Theorems about TpuSync, for every set of ranks and replicas, any number *)
(* of training steps and all options: its types, and, for the faults of    *)
(* FaultsCovered, the invariant Sound, from which it follows that replicas *)
(* serve the weights their tags say, that they are paused while weights    *)
(* are installed, that they are synced after a wait, and that the sync     *)
(* implements the promise of RolloutVersions.                              *)
(***************************************************************************)
EXTENDS TpuSyncInv, TLAPS

\* The types hold at the start.
LEMMA TypeInit == Init => TypeOK
<1> SUFFICES ASSUME Init PROVE TypeOK
  OBVIOUS
<1> USE BoundsAssumption DEF Init, Steps, Versions, None, Garbage
<1>1. trained \in Steps /\ faults \in 0..MaxFaults /\ last \in Steps \cup {None}
  OBVIOUS
<1>2. recv \in [Replicas -> [Ranks -> Versions]] /\ params \in [Replicas -> [Ranks -> Versions]]
  BY DEF Checkpoint, Whole
<1>3. /\ at \in [Tails -> Places]
      /\ job \in [Tails -> [step : Steps \cup {None}, dst : SUBSET Replicas, staged : BOOLEAN]]
  BY DEF Places
<1>4. host \in [Ranks -> [v : Versions, plan : SUBSET Replicas]]
  OBVIOUS
<1>5. /\ sig \in [Ranks -> Sigs] /\ regsig \in [Ranks -> Sigs \cup {NoSig}]
      /\ tag \in [Replicas -> Steps \cup {None}] /\ bound \in [Ranks -> Steps \cup {None}]
  BY DEF Sigs
<1>6. QED
  BY <1>1, <1>2, <1>3, <1>4, <1>5 DEF TypeOK

\* A fault stays within the bound.
LEMMA FaultType == ASSUME NEW kind, Fault(kind), faults \in 0..MaxFaults
                   PROVE  faults' \in 0..MaxFaults
  BY BoundsAssumption DEF Fault

\* Every step keeps the types.
LEMMA TypeStep == TypeOK /\ [Next]_vars => TypeOK'
<1> SUFFICES ASSUME TypeOK, [Next]_vars PROVE TypeOK'
  OBVIOUS
<1> USE BoundsAssumption
       DEF TypeOK, Tails, Places, Steps, None, run, driver, tailv, trainer, wire, rollout
<1>1. CASE Train
  BY <1>1 DEF Train
<1>2. ASSUME NEW r \in Ranks, Relayout(r) PROVE TypeOK'
  <2>1. faults' \in 0..MaxFaults
    BY <1>2, FaultType DEF Relayout
  <2>2. 1 - sig[r] \in Sigs
    <3>1. sig[r] = 0 \/ sig[r] = 1
      BY <1>2 DEF Sigs
    <3>2. QED
      BY <3>1 DEF Sigs
  <2>3. sig' \in [Ranks -> Sigs]
    BY <1>2, <2>2 DEF Relayout
  <2>4. QED
    BY <1>2, <2>1, <2>3 DEF Relayout
<1>3. ASSUME NEW p \in Replicas, AddReplica(p) PROVE TypeOK'
  BY <1>3 DEF AddReplica, Elastic, Fault, Checkpoint, Whole, Versions
<1>4. ASSUME NEW p \in Replicas, RemoveReplica(p) PROVE TypeOK'
  BY <1>4 DEF RemoveReplica, Elastic, Fault
<1>5. CASE BeginWait
  BY <1>5 DEF BeginWait
<1>6. CASE BeginSync
  BY <1>6 DEF BeginSync
<1>7. CASE WaitDone
  BY <1>7 DEF WaitDone, Joined, PreviousEnded, PreviousFailed
<1>8. CASE JoinFails
  BY <1>8 DEF JoinFails, Joined, PreviousEnded, PreviousFailed
<1>9. CASE CallSend
  BY <1>9 DEF CallSend, Joined, PreviousEnded, PreviousFailed, StageWanted
<1>10. CASE SendFails
  BY <1>10 DEF SendFails, AllSent, StagedAlike, StagedRanks
<1>11. CASE TailInCaller
  BY <1>11 DEF TailInCaller, AllSent, StagedAlike, StagedRanks, StartTail
<1>12. CASE TailInBackground
  BY <1>12 DEF TailInBackground, AllSent, StagedAlike, StagedRanks, StartTail
<1>13. ASSUME NEW r \in Ranks, Bind(r) PROVE TypeOK'
  BY <1>13 DEF Bind, Rebound, StagesItself
<1>14. ASSUME NEW r \in Ranks, Recreate(r) PROVE TypeOK'
  <2>1. faults' \in 0..MaxFaults /\ shapes' \in BOOLEAN
    BY <1>14, FaultType DEF Recreate
  <2>2. /\ host' \in [Ranks -> [v : Versions, plan : SUBSET Replicas]]
        /\ bound' \in [Ranks -> Steps \cup {None}]
    BY <1>14 DEF Recreate, Versions
  <2>3. /\ ws' \in [Ranks -> BOOLEAN] /\ regsig' \in [Ranks -> Sigs \cup {NoSig}]
        /\ plan' \in [Ranks -> SUBSET Replicas]
    BY <1>14 DEF Recreate
  <2>4. registered' \in SUBSET Units
    BY <1>14 DEF Recreate, Units
  <2>5. QED
    BY <1>14, <2>1, <2>2, <2>3, <2>4 DEF Recreate
<1>15. ASSUME NEW r \in Ranks, CopiedToHost(r) PROVE TypeOK'
  BY <1>15 DEF CopiedToHost, Versions
<1>16. ASSUME NEW r \in Ranks, Return(r) PROVE TypeOK'
  BY <1>16 DEF Return, Unbinds, Fault
<1>17. ASSUME NEW r \in Ranks, RankFails(r) PROVE TypeOK'
  BY <1>17 DEF RankFails, Fault
<1>18. ASSUME NEW r \in Ranks, ReleaseBuffers(r) PROVE TypeOK'
  <2>1. CASE ~opt["release"] \/ ~ws[r]
    BY <1>18, <2>1 DEF ReleaseBuffers
  <2>2. CASE opt["release"] /\ ws[r]
    <3>1. bound' = [bound EXCEPT ![r] = None]
      BY <1>18, <2>2 DEF ReleaseBuffers, Freed
    <3>2. CASE opt["unbind"]
      BY <1>18, <2>2, <3>1, <3>2 DEF ReleaseBuffers
    <3>3. CASE ~opt["unbind"]
      <4>1. /\ ws' = [ws EXCEPT ![r] = FALSE] /\ regsig' = [regsig EXCEPT ![r] = NoSig]
            /\ host' = [host EXCEPT ![r] = [v |-> Garbage, plan |-> {}]]
            /\ plan' = [plan EXCEPT ![r] = {}]
        BY <1>18, <2>2, <3>3 DEF ReleaseBuffers
      <4>2. /\ ws' \in [Ranks -> BOOLEAN] /\ regsig' \in [Ranks -> Sigs \cup {NoSig}]
            /\ plan' \in [Ranks -> SUBSET Replicas]
        BY <4>1
      <4>3. host' \in [Ranks -> [v : Versions, plan : SUBSET Replicas]]
        BY <4>1 DEF Versions
      <4>4. QED
        BY <1>18, <3>1, <4>2, <4>3 DEF ReleaseBuffers
    <3>4. QED
      BY <3>2, <3>3
  <2>3. QED
    BY <2>1, <2>2
<1>19. ASSUME NEW c \in Tails, InitRollout(c) PROVE TypeOK'
  BY <1>19 DEF InitRollout, Goto, Call
<1>20. ASSUME NEW p \in Replicas, WorkerInit(p) PROVE TypeOK'
  <2>1. faults' \in 0..MaxFaults
    BY <1>20, FaultType DEF WorkerInit
  <2>2. rpc' \in [Replicas -> {"none", "init", "install", "installing", "error"}]
    BY <1>20 DEF WorkerInit
  <2>3. registered' \in SUBSET Units /\ inited' \in [Replicas -> BOOLEAN]
    BY <1>20 DEF WorkerInit, Units
  <2>4. QED
    BY <1>20, <2>1, <2>2, <2>3 DEF WorkerInit
<1>21. ASSUME NEW c \in Tails, InitDone(c) PROVE TypeOK'
  BY <1>21 DEF InitDone, Goto, AllAnswered
<1>22. ASSUME NEW c \in Tails, CallFails(c) PROVE TypeOK'
  BY <1>22 DEF CallFails, Goto, TailFails
<1>23. ASSUME NEW c \in Tails, Barrier(c) PROVE TypeOK'
  BY <1>23 DEF Barrier, AllRegistered, Goto, Whole
<1>24. ASSUME NEW c \in Tails, BarrierTimesOut(c) PROVE TypeOK'
  BY <1>24 DEF BarrierTimesOut, AllRegistered, Goto, TailFails
<1>25. ASSUME NEW c \in Tails, NEW r \in Ranks, ReadDevice(c, r) PROVE TypeOK'
  BY <1>25 DEF ReadDevice, Versions
<1>26. ASSUME NEW c \in Tails, NEW r \in Ranks, PushShard(c, r) PROVE TypeOK'
  <2>1. faults' \in 0..MaxFaults
    BY <1>26, FaultType DEF PushShard
  <2>2. PICK v \in Versions : recv' = [q \in Replicas |->
           IF q \in job[c].dst /\ inited[q] THEN [recv[q] EXCEPT ![r] = v] ELSE recv[q]]
    <3>1. \A v \in {Received(c, r), Garbage} : v \in Versions
      BY DEF Received, Versions
    <3>2. QED
      BY <1>26, <3>1 DEF PushShard
  <2>3. recv' \in [Replicas -> [Ranks -> Versions]]
    BY <2>2
  <2>4. QED
    BY <1>26, <2>1, <2>3 DEF PushShard
<1>27. ASSUME NEW c \in Tails, TransferFails(c) PROVE TypeOK'
  BY <1>27 DEF TransferFails, Fault, Goto, TailFails, Whole
<1>28. ASSUME NEW c \in Tails, TransferDone(c) PROVE TypeOK'
  BY <1>28 DEF TransferDone, TransferOver, Goto, Whole
<1>29. ASSUME NEW c \in Tails, Quiesce(c) PROVE TypeOK'
  BY <1>29 DEF Quiesce, Goto, Call, Pauses, Fault
<1>30. ASSUME NEW p \in Replicas, InstallBegins(p) PROVE TypeOK'
  <2>1. CASE ~inited[p]
    BY <1>30, <2>1 DEF InstallBegins
  <2>2. CASE inited[p]
    <3>1. [r \in Ranks |-> IF params[p][r] = recv[p][r] THEN recv[p][r] ELSE Garbage]
            \in [Ranks -> Versions]
      BY <1>30 DEF Versions
    <3>2. params' \in [Replicas -> [Ranks -> Versions]]
      BY <1>30, <2>2, <3>1 DEF InstallBegins
    <3>3. QED
      BY <1>30, <2>2, <3>2 DEF InstallBegins
  <2>3. QED
    BY <2>1, <2>2
<1>31. ASSUME NEW p \in Replicas, InstallEnds(p) PROVE TypeOK'
  BY <1>31 DEF InstallEnds
<1>32. ASSUME NEW p \in Replicas, InstallFails(p) PROVE TypeOK'
  BY <1>32 DEF InstallFails, Fault
<1>33. ASSUME NEW c \in Tails, TagReplicas(c) PROVE TypeOK'
  BY <1>33 DEF TagReplicas, Installed, AllAnswered, Goto
<1>34. ASSUME NEW c \in Tails, ResumeRollout(c) PROVE TypeOK'
  BY <1>34 DEF ResumeRollout, ParityHolds, NormsChecked, Goto
<1>35. ASSUME NEW c \in Tails, ParityFails(c) PROVE TypeOK'
  BY <1>35 DEF ParityFails, Goto, TailFails
<1>36. ASSUME NEW c \in Tails, TailEnds(c) PROVE TypeOK'
  BY <1>36 DEF TailEnds, Released, Goto
<1>37. CASE UNCHANGED vars
  BY <1>37 DEF vars
<1> QED
  BY <1>1, <1>2, <1>3, <1>4, <1>5, <1>6, <1>7, <1>8, <1>9, <1>10, <1>11, <1>12, <1>13, <1>14,
     <1>15, <1>16, <1>17, <1>18, <1>19, <1>20, <1>21, <1>22, <1>23, <1>24, <1>25, <1>26, <1>27,
     <1>28, <1>29, <1>30, <1>31, <1>32, <1>33, <1>34, <1>35, <1>36, <1>37 DEF Next, Loop, Progress,
     Upset, Stopped, Driver, Rank, Tail, Worker

\* The types hold, whatever goes wrong.
THEOREM TypeCorrect == Spec => []TypeOK
  BY TypeInit, TypeStep, PTL DEF Spec

--------------------------------------------------------------------------------
(* Control. *)

\* The faults for which the other theorems hold.  Replicas do not change while a
\* sync ends in the background and no abort fails: with these the properties do
\* not hold.  Nor do they with three faults by which a replica leaves, comes back
\* under the name that the controller still knows, and then finds no model to
\* register: the barrier does not notice, and the replica is tagged without an
\* install.
FaultsCovered == /\ FaultKinds \cap {"late", "abort"} = {}
                 /\ {"elastic", "init"} \subseteq FaultKinds => MaxFaults <= 2

\* There is one tail at most (_BackgroundSync.join).
LEMMA OneTailStep ==
    ASSUME TypeOK, OneTail, [Next]_vars PROVE OneTail'
<1> USE DEF TypeOK, OneTail, Tails, Places, run, driver, tailv, trainer, wire, rollout
<1>1. CASE UNCHANGED <<pc, future, at, rank>>
  BY <1>1 DEF OneTail
<1>2. CASE Train
  BY <1>2 DEF Train
<1>3. CASE BeginWait
  BY <1>3 DEF BeginWait
<1>4. CASE BeginSync
  BY <1>4 DEF BeginSync
<1>5. CASE WaitDone
  BY <1>5 DEF WaitDone, Joined, PreviousEnded, PreviousFailed
<1>6. CASE JoinFails
  BY <1>6 DEF JoinFails, Joined, PreviousEnded, PreviousFailed
<1>7. CASE CallSend
  BY <1>7 DEF CallSend, Joined, PreviousEnded, PreviousFailed, StageWanted
<1>8. CASE SendFails
  BY <1>8 DEF SendFails, AllSent, StagedAlike, StagedRanks
<1>9. CASE TailInCaller
  BY <1>9 DEF TailInCaller, AllSent, StagedAlike, StagedRanks, StartTail
<1>10. CASE TailInBackground
  BY <1>10 DEF TailInBackground, AllSent, StagedAlike, StagedRanks, StartTail
<1>11. ASSUME NEW r \in Ranks, Bind(r) PROVE OneTail'
  BY <1>11 DEF Bind, Rebound, StagesItself
<1>12. ASSUME NEW r \in Ranks, Recreate(r) PROVE OneTail'
  BY <1>12 DEF Recreate, Rebound, Fault
<1>13. ASSUME NEW r \in Ranks, CopiedToHost(r) PROVE OneTail'
  BY <1>13 DEF CopiedToHost
<1>14. ASSUME NEW r \in Ranks, Return(r) PROVE OneTail'
  BY <1>14 DEF Return, Unbinds, Fault
<1>15. ASSUME NEW r \in Ranks, RankFails(r) PROVE OneTail'
  BY <1>15 DEF RankFails, Fault
<1>16. ASSUME NEW c \in Tails, InitRollout(c) PROVE OneTail'
  BY <1>16 DEF InitRollout, Goto, Call
<1>17. ASSUME NEW c \in Tails, InitDone(c) PROVE OneTail'
  BY <1>17 DEF InitDone, Goto, AllAnswered
<1>18. ASSUME NEW c \in Tails, CallFails(c) PROVE OneTail'
  BY <1>18 DEF CallFails, Goto, TailFails
<1>19. ASSUME NEW c \in Tails, Barrier(c) PROVE OneTail'
  BY <1>19 DEF Barrier, AllRegistered, Goto
<1>20. ASSUME NEW c \in Tails, BarrierTimesOut(c) PROVE OneTail'
  BY <1>20 DEF BarrierTimesOut, AllRegistered, Goto, TailFails
<1>21. ASSUME NEW c \in Tails, TransferFails(c) PROVE OneTail'
  BY <1>21 DEF TransferFails, Fault, Goto, TailFails
<1>22. ASSUME NEW c \in Tails, TransferDone(c) PROVE OneTail'
  BY <1>22 DEF TransferDone, TransferOver, Goto
<1>23. ASSUME NEW c \in Tails, Quiesce(c) PROVE OneTail'
  BY <1>23 DEF Quiesce, Goto, Call, Pauses, Fault
<1>24. ASSUME NEW c \in Tails, TagReplicas(c) PROVE OneTail'
  BY <1>24 DEF TagReplicas, Installed, AllAnswered, Goto
<1>25. ASSUME NEW c \in Tails, ResumeRollout(c) PROVE OneTail'
  BY <1>25 DEF ResumeRollout, ParityHolds, NormsChecked, Goto
<1>26. ASSUME NEW c \in Tails, ParityFails(c) PROVE OneTail'
  BY <1>26 DEF ParityFails, Goto, TailFails
<1>27. ASSUME NEW c \in Tails, TailEnds(c) PROVE OneTail'
  BY <1>27 DEF TailEnds, Released, Goto
<1> QED
  BY <1>1, <1>2, <1>3, <1>4, <1>5, <1>6, <1>7, <1>8, <1>9, <1>10, <1>11, <1>12, <1>13, <1>14,
     <1>15, <1>16, <1>17, <1>18, <1>19, <1>20, <1>21, <1>22, <1>23, <1>24, <1>25, <1>26, <1>27
     DEF Next, Loop, Progress, Upset, Stopped, Driver, Rank, Tail, Worker, vars, Relayout, AddReplica,
     RemoveReplica, ReleaseBuffers, WorkerInit, ReadDevice, PushShard, InstallBegins,
     InstallEnds, InstallFails

\* A tail works for the sync started last, and for the replicas there are.
LEMMA SyncOfStep ==
    ASSUME TypeOK, OneTail, SyncOf, "late" \notin FaultKinds, [Next]_vars PROVE SyncOf'
<1> USE DEF TypeOK, OneTail, SyncOf, Steps, None, Tails, Places, run, driver, tailv, trainer,
        wire, rollout
<1>1. CASE UNCHANGED <<pc, last, trained, opt, dst, replicas, at, job>>
  BY <1>1 DEF SyncOf
<1>2. CASE Train
  BY <1>2 DEF Train
<1>3. ASSUME NEW p \in Replicas, AddReplica(p) PROVE SyncOf'
  BY <1>3 DEF AddReplica, Elastic, Fault, Checkpoint, FaultsCovered
<1>4. ASSUME NEW p \in Replicas, RemoveReplica(p) PROVE SyncOf'
  BY <1>4 DEF RemoveReplica, Elastic, Fault
<1>5. CASE BeginWait
  BY <1>5 DEF BeginWait
<1>6. CASE BeginSync
  BY <1>6 DEF BeginSync
<1>7. CASE WaitDone
  BY <1>7 DEF WaitDone, Joined, PreviousEnded, PreviousFailed
<1>8. CASE JoinFails
  BY <1>8 DEF JoinFails, Joined, PreviousEnded, PreviousFailed
<1>9. CASE CallSend
  BY <1>9 DEF CallSend, Joined, PreviousEnded, PreviousFailed, StageWanted
<1>10. CASE SendFails
  BY <1>10 DEF SendFails, AllSent, StagedAlike, StagedRanks
<1>11. CASE TailInCaller
  BY <1>11 DEF TailInCaller, AllSent, StagedAlike, StagedRanks, StartTail
<1>12. CASE TailInBackground
  BY <1>12 DEF TailInBackground, AllSent, StagedAlike, StagedRanks, StartTail
<1>13. ASSUME NEW c \in Tails, InitRollout(c) PROVE SyncOf'
  BY <1>13 DEF InitRollout, Goto, Call
<1>14. ASSUME NEW c \in Tails, InitDone(c) PROVE SyncOf'
  BY <1>14 DEF InitDone, Goto, AllAnswered
<1>15. ASSUME NEW c \in Tails, CallFails(c) PROVE SyncOf'
  BY <1>15 DEF CallFails, Goto, TailFails
<1>16. ASSUME NEW c \in Tails, Barrier(c) PROVE SyncOf'
  BY <1>16 DEF Barrier, AllRegistered, Goto
<1>17. ASSUME NEW c \in Tails, BarrierTimesOut(c) PROVE SyncOf'
  BY <1>17 DEF BarrierTimesOut, AllRegistered, Goto, TailFails
<1>18. ASSUME NEW c \in Tails, TransferFails(c) PROVE SyncOf'
  BY <1>18 DEF TransferFails, Fault, Goto, TailFails
<1>19. ASSUME NEW c \in Tails, TransferDone(c) PROVE SyncOf'
  BY <1>19 DEF TransferDone, TransferOver, Goto
<1>20. ASSUME NEW c \in Tails, Quiesce(c) PROVE SyncOf'
  BY <1>20 DEF Quiesce, Goto, Call, Pauses, Fault
<1>21. ASSUME NEW c \in Tails, TagReplicas(c) PROVE SyncOf'
  BY <1>21 DEF TagReplicas, Installed, AllAnswered, Goto
<1>22. ASSUME NEW c \in Tails, ResumeRollout(c) PROVE SyncOf'
  BY <1>22 DEF ResumeRollout, ParityHolds, NormsChecked, Goto
<1>23. ASSUME NEW c \in Tails, ParityFails(c) PROVE SyncOf'
  BY <1>23 DEF ParityFails, Goto, TailFails
<1>24. ASSUME NEW c \in Tails, TailEnds(c) PROVE SyncOf'
  BY <1>24 DEF TailEnds, Released, Goto
<1> QED
  BY <1>1, <1>2, <1>3, <1>4, <1>5, <1>6, <1>7, <1>8, <1>9, <1>10, <1>11, <1>12, <1>13, <1>14,
     <1>15, <1>16, <1>17, <1>18, <1>19, <1>20, <1>21, <1>22, <1>23, <1>24 DEF Next, Loop, Progress,
     Upset, Stopped, Driver, Rank, Tail, Worker, vars, Relayout, Bind, Recreate, CopiedToHost,
     Return, RankFails, ReleaseBuffers, WorkerInit, ReadDevice, PushShard, InstallBegins,
     InstallEnds, InstallFails

\* Only a tail that waits for them, or an error, leaves calls running.
LEMMA CallsAwaitedStep ==
    ASSUME TypeOK, OneTail, SyncOf, CallsAwaited, "late" \notin FaultKinds, [Next]_vars
    PROVE  CallsAwaited'
<1> USE DEF TypeOK, OneTail, CallsAwaited, Broken, Tails, Places, run, driver, tailv, trainer,
        wire, rollout
<1>1. CASE UNCHANGED <<rpc, pc, future, replicas, at>>
  BY <1>1 DEF CallsAwaited
<1>2. CASE Train
  BY <1>2 DEF Train
<1>3. ASSUME NEW p \in Replicas, AddReplica(p) PROVE CallsAwaited'
  BY <1>3 DEF AddReplica, Elastic, Fault, Checkpoint, FaultsCovered
<1>4. ASSUME NEW p \in Replicas, RemoveReplica(p) PROVE CallsAwaited'
  BY <1>4 DEF RemoveReplica, Elastic, Fault
<1>5. CASE BeginWait
  BY <1>5 DEF BeginWait
<1>6. CASE BeginSync
  BY <1>6 DEF BeginSync
<1>7. CASE WaitDone
  BY <1>7 DEF WaitDone, Joined, PreviousEnded, PreviousFailed
<1>8. CASE JoinFails
  BY <1>8 DEF JoinFails, Joined, PreviousEnded, PreviousFailed
<1>9. CASE CallSend
  BY <1>9 DEF CallSend, Joined, PreviousEnded, PreviousFailed, StageWanted
<1>10. CASE SendFails
  BY <1>10 DEF SendFails, AllSent, StagedAlike, StagedRanks
<1>11. CASE TailInCaller
  BY <1>11 DEF TailInCaller, AllSent, StagedAlike, StagedRanks, StartTail
<1>12. CASE TailInBackground
  BY <1>12 DEF TailInBackground, AllSent, StagedAlike, StagedRanks, StartTail
<1>13. ASSUME NEW c \in Tails, InitRollout(c) PROVE CallsAwaited'
  BY <1>13 DEF InitRollout, Goto, Call
<1>14. ASSUME NEW p \in Replicas, WorkerInit(p) PROVE CallsAwaited'
  BY <1>14 DEF WorkerInit, Fault
<1>15. ASSUME NEW c \in Tails, InitDone(c) PROVE CallsAwaited'
  BY <1>15 DEF InitDone, Goto, AllAnswered
<1>16. ASSUME NEW c \in Tails, CallFails(c) PROVE CallsAwaited'
  BY <1>16 DEF CallFails, Goto, TailFails
<1>17. ASSUME NEW c \in Tails, Barrier(c) PROVE CallsAwaited'
  BY <1>17 DEF Barrier, AllRegistered, Goto
<1>18. ASSUME NEW c \in Tails, BarrierTimesOut(c) PROVE CallsAwaited'
  BY <1>18 DEF BarrierTimesOut, AllRegistered, Goto, TailFails
<1>19. ASSUME NEW c \in Tails, TransferFails(c) PROVE CallsAwaited'
  BY <1>19 DEF TransferFails, Fault, Goto, TailFails
<1>20. ASSUME NEW c \in Tails, TransferDone(c) PROVE CallsAwaited'
  BY <1>20 DEF TransferDone, TransferOver, Goto
<1>21. ASSUME NEW c \in Tails, Quiesce(c) PROVE CallsAwaited'
  BY <1>21 DEF Quiesce, Goto, Call, Pauses, Fault
<1>22. ASSUME NEW p \in Replicas, InstallBegins(p) PROVE CallsAwaited'
  BY <1>22 DEF InstallBegins
<1>23. ASSUME NEW p \in Replicas, InstallEnds(p) PROVE CallsAwaited'
  BY <1>23 DEF InstallEnds
<1>24. ASSUME NEW p \in Replicas, InstallFails(p) PROVE CallsAwaited'
  BY <1>24 DEF InstallFails, Fault
<1>25. ASSUME NEW c \in Tails, TagReplicas(c) PROVE CallsAwaited'
  BY <1>25 DEF TagReplicas, Installed, AllAnswered, Goto
<1>26. ASSUME NEW c \in Tails, ResumeRollout(c) PROVE CallsAwaited'
  BY <1>26 DEF ResumeRollout, ParityHolds, NormsChecked, Goto
<1>27. ASSUME NEW c \in Tails, ParityFails(c) PROVE CallsAwaited'
  BY <1>27 DEF ParityFails, Goto, TailFails
<1>28. ASSUME NEW c \in Tails, TailEnds(c) PROVE CallsAwaited'
  BY <1>28 DEF TailEnds, Released, Goto
<1> QED
  BY <1>1, <1>2, <1>3, <1>4, <1>5, <1>6, <1>7, <1>8, <1>9, <1>10, <1>11, <1>12, <1>13, <1>14,
     <1>15, <1>16, <1>17, <1>18, <1>19, <1>20, <1>21, <1>22, <1>23, <1>24, <1>25, <1>26, <1>27,
     <1>28 DEF Next, Loop, Progress, Upset, Stopped, Driver, Rank, Tail, Worker, vars, Relayout, Bind,
     Recreate, CopiedToHost, Return, RankFails, ReleaseBuffers, ReadDevice, PushShard

\* No rank is called to free its buffers before the transfer has read them.
LEMMA ReleasedLateStep ==
    ASSUME TypeOK, OneTail, SyncOf, ReleasedLate, [Next]_vars PROVE ReleasedLate'
<1> USE DEF TypeOK, OneTail, ReleasedLate, Tails, Places, run, driver, tailv, trainer, wire,
        rollout
<1>1. CASE UNCHANGED <<releasing, pc, at>>
  BY <1>1 DEF ReleasedLate
<1>2. CASE Train
  BY <1>2 DEF Train
<1>3. CASE BeginWait
  BY <1>3 DEF BeginWait
<1>4. CASE BeginSync
  BY <1>4 DEF BeginSync
<1>5. CASE WaitDone
  BY <1>5 DEF WaitDone, Joined, PreviousEnded, PreviousFailed
<1>6. CASE JoinFails
  BY <1>6 DEF JoinFails, Joined, PreviousEnded, PreviousFailed
<1>7. CASE CallSend
  BY <1>7 DEF CallSend, Joined, PreviousEnded, PreviousFailed, StageWanted
<1>8. CASE SendFails
  BY <1>8 DEF SendFails, AllSent, StagedAlike, StagedRanks
<1>9. CASE TailInCaller
  BY <1>9 DEF TailInCaller, AllSent, StagedAlike, StagedRanks, StartTail
<1>10. CASE TailInBackground
  BY <1>10 DEF TailInBackground, AllSent, StagedAlike, StagedRanks, StartTail
<1>11. ASSUME NEW r \in Ranks, ReleaseBuffers(r) PROVE ReleasedLate'
  BY <1>11 DEF ReleaseBuffers, Freed
<1>12. ASSUME NEW c \in Tails, InitRollout(c) PROVE ReleasedLate'
  BY <1>12 DEF InitRollout, Goto, Call
<1>13. ASSUME NEW c \in Tails, InitDone(c) PROVE ReleasedLate'
  BY <1>13 DEF InitDone, Goto, AllAnswered
<1>14. ASSUME NEW c \in Tails, CallFails(c) PROVE ReleasedLate'
  BY <1>14 DEF CallFails, Goto, TailFails
<1>15. ASSUME NEW c \in Tails, Barrier(c) PROVE ReleasedLate'
  BY <1>15 DEF Barrier, AllRegistered, Goto
<1>16. ASSUME NEW c \in Tails, BarrierTimesOut(c) PROVE ReleasedLate'
  BY <1>16 DEF BarrierTimesOut, AllRegistered, Goto, TailFails
<1>17. ASSUME NEW c \in Tails, TransferFails(c) PROVE ReleasedLate'
  BY <1>17 DEF TransferFails, Fault, Goto, TailFails
<1>18. ASSUME NEW c \in Tails, TransferDone(c) PROVE ReleasedLate'
  BY <1>18 DEF TransferDone, TransferOver, Goto, SyncOf
<1>19. ASSUME NEW c \in Tails, Quiesce(c) PROVE ReleasedLate'
  BY <1>19 DEF Quiesce, Goto, Call, Pauses, Fault
<1>20. ASSUME NEW c \in Tails, TagReplicas(c) PROVE ReleasedLate'
  BY <1>20 DEF TagReplicas, Installed, AllAnswered, Goto
<1>21. ASSUME NEW c \in Tails, ResumeRollout(c) PROVE ReleasedLate'
  BY <1>21 DEF ResumeRollout, ParityHolds, NormsChecked, Goto
<1>22. ASSUME NEW c \in Tails, ParityFails(c) PROVE ReleasedLate'
  BY <1>22 DEF ParityFails, Goto, TailFails
<1>23. ASSUME NEW c \in Tails, TailEnds(c) PROVE ReleasedLate'
  BY <1>23 DEF TailEnds, Released, Goto
<1> QED
  BY <1>1, <1>2, <1>3, <1>4, <1>5, <1>6, <1>7, <1>8, <1>9, <1>10, <1>11, <1>12, <1>13, <1>14,
     <1>15, <1>16, <1>17, <1>18, <1>19, <1>20, <1>21, <1>22, <1>23 DEF Next, Loop, Progress, Upset,
     Stopped, Driver, Rank, Tail, Worker, vars, Relayout, AddReplica, RemoveReplica, Bind,
     Recreate, CopiedToHost, Return, RankFails, WorkerInit, ReadDevice, PushShard,
     InstallBegins, InstallEnds, InstallFails

--------------------------------------------------------------------------------
(* The trainer ranks and the transfer. *)

\* A live synchronizer has the plan of the last transfer.
LEMMA PlanKeptStep ==
    ASSUME TypeOK, OneTail, SyncOf, StagedForThese, PlanKept, [Next]_vars PROVE PlanKept'
<1> USE DEF TypeOK, OneTail, PlanKept, Tails, Places, run, driver, tailv, trainer, wire, rollout
<1>1. CASE UNCHANGED <<ws, pc, rank, at, plan, transferred>>
  BY <1>1 DEF PlanKept
<1>2. CASE Train
  BY <1>2 DEF Train
<1>3. CASE BeginWait
  BY <1>3 DEF BeginWait
<1>4. CASE BeginSync
  BY <1>4 DEF BeginSync
<1>5. CASE WaitDone
  BY <1>5 DEF WaitDone, Joined, PreviousEnded, PreviousFailed
<1>6. CASE JoinFails
  BY <1>6 DEF JoinFails, Joined, PreviousEnded, PreviousFailed
<1>7. CASE CallSend
  BY <1>7 DEF CallSend, Joined, PreviousEnded, PreviousFailed, StageWanted
<1>8. CASE SendFails
  BY <1>8 DEF SendFails, AllSent, StagedAlike, StagedRanks
<1>9. CASE TailInCaller
  BY <1>9 DEF TailInCaller, AllSent, StagedAlike, StagedRanks, StartTail
<1>10. CASE TailInBackground
  BY <1>10 DEF TailInBackground, AllSent, StagedAlike, StagedRanks, StartTail
<1>11. ASSUME NEW r \in Ranks, Bind(r) PROVE PlanKept'
  BY <1>11 DEF Bind, Rebound, StagesItself
<1>12. ASSUME NEW r \in Ranks, Recreate(r) PROVE PlanKept'
  BY <1>12 DEF Recreate, Rebound, Fault
<1>13. ASSUME NEW r \in Ranks, CopiedToHost(r) PROVE PlanKept'
  BY <1>13 DEF CopiedToHost
<1>14. ASSUME NEW r \in Ranks, Return(r) PROVE PlanKept'
  BY <1>14 DEF Return, Unbinds, Fault
<1>15. ASSUME NEW r \in Ranks, RankFails(r) PROVE PlanKept'
  BY <1>15 DEF RankFails, Fault
<1>16. ASSUME NEW r \in Ranks, ReleaseBuffers(r) PROVE PlanKept'
  <2>1. CASE ~opt["release"] \/ ~ws[r] \/ opt["unbind"]
    <3>1. UNCHANGED <<ws, plan>>
      BY <1>16, <2>1 DEF ReleaseBuffers
    <3>2. QED
      BY <1>16, <3>1 DEF ReleaseBuffers
  <2>2. CASE opt["release"] /\ ws[r] /\ ~opt["unbind"]
    <3>1. ws' = [ws EXCEPT ![r] = FALSE] /\ plan' = [plan EXCEPT ![r] = {}]
      BY <1>16, <2>2 DEF ReleaseBuffers
    <3>2. \A q \in Ranks : ws'[q] => ws[q] /\ plan'[q] = plan[q]
      BY <3>1
    <3>3. QED
      BY <1>16, <3>2 DEF ReleaseBuffers
  <2>3. QED
    BY <2>1, <2>2
<1>17. ASSUME NEW c \in Tails, InitRollout(c) PROVE PlanKept'
  BY <1>17 DEF InitRollout, Goto, Call
<1>18. ASSUME NEW c \in Tails, InitDone(c) PROVE PlanKept'
  BY <1>18 DEF InitDone, Goto, AllAnswered
<1>19. ASSUME NEW c \in Tails, CallFails(c) PROVE PlanKept'
  BY <1>19 DEF CallFails, Goto, TailFails
<1>20. ASSUME NEW c \in Tails, Barrier(c) PROVE PlanKept'
  BY <1>20 DEF Barrier, AllRegistered, Goto
<1>21. ASSUME NEW c \in Tails, BarrierTimesOut(c) PROVE PlanKept'
  BY <1>21 DEF BarrierTimesOut, AllRegistered, Goto, TailFails
<1>22. ASSUME NEW c \in Tails, TransferFails(c) PROVE PlanKept'
  BY <1>22 DEF TransferFails, Fault, Goto, TailFails
<1>23. ASSUME NEW c \in Tails, TransferDone(c) PROVE PlanKept'
  BY <1>23 DEF TransferDone, TransferOver, Goto, SyncOf, Whole
<1>24. ASSUME NEW c \in Tails, Quiesce(c) PROVE PlanKept'
  BY <1>24 DEF Quiesce, Goto, Call, Pauses, Fault
<1>25. ASSUME NEW c \in Tails, TagReplicas(c) PROVE PlanKept'
  BY <1>25 DEF TagReplicas, Installed, AllAnswered, Goto
<1>26. ASSUME NEW c \in Tails, ResumeRollout(c) PROVE PlanKept'
  BY <1>26 DEF ResumeRollout, ParityHolds, NormsChecked, Goto
<1>27. ASSUME NEW c \in Tails, ParityFails(c) PROVE PlanKept'
  BY <1>27 DEF ParityFails, Goto, TailFails
<1>28. ASSUME NEW c \in Tails, TailEnds(c) PROVE PlanKept'
  BY <1>28 DEF TailEnds, Released, Goto
<1> QED
  BY <1>1, <1>2, <1>3, <1>4, <1>5, <1>6, <1>7, <1>8, <1>9, <1>10, <1>11, <1>12, <1>13, <1>14,
     <1>15, <1>16, <1>17, <1>18, <1>19, <1>20, <1>21, <1>22, <1>23, <1>24, <1>25, <1>26, <1>27,
     <1>28 DEF Next, Loop, Progress, Upset, Stopped, Driver, Rank, Tail, Worker, vars, Relayout,
     AddReplica, RemoveReplica, WorkerInit, ReadDevice, PushShard, InstallBegins, InstallEnds,
     InstallFails

\* A rank stages only for the units of the last transfer.
LEMMA StagedForTheseStep ==
    ASSUME TypeOK, OneTail, ReleasedLate, StagedForThese, [Next]_vars PROVE StagedForThese'
<1> USE DEF TypeOK, OneTail, StagedForThese, Tails, Places, run, driver, tailv, trainer, wire,
        rollout
<1>1. CASE UNCHANGED <<stage, stageOn, pc, transferred, replicas, rank, ws>>
  BY <1>1 DEF StagedForThese
<1>2. CASE Train
  BY <1>2 DEF Train
<1>3. ASSUME NEW p \in Replicas, AddReplica(p) PROVE StagedForThese'
  BY <1>3 DEF AddReplica, Elastic, Fault, Checkpoint, FaultsCovered
<1>4. ASSUME NEW p \in Replicas, RemoveReplica(p) PROVE StagedForThese'
  BY <1>4 DEF RemoveReplica, Elastic, Fault
<1>5. CASE BeginWait
  BY <1>5 DEF BeginWait
<1>6. CASE BeginSync
  BY <1>6 DEF BeginSync
<1>7. CASE WaitDone
  BY <1>7 DEF WaitDone, Joined, PreviousEnded, PreviousFailed
<1>8. CASE JoinFails
  BY <1>8 DEF JoinFails, Joined, PreviousEnded, PreviousFailed
<1>9. CASE CallSend
  BY <1>9 DEF CallSend, Joined, PreviousEnded, PreviousFailed, StageWanted
<1>10. CASE SendFails
  BY <1>10 DEF SendFails, AllSent, StagedAlike, StagedRanks
<1>11. CASE TailInCaller
  BY <1>11 DEF TailInCaller, AllSent, StagedAlike, StagedRanks, StartTail
<1>12. CASE TailInBackground
  BY <1>12 DEF TailInBackground, AllSent, StagedAlike, StagedRanks, StartTail
<1>13. ASSUME NEW r \in Ranks, Bind(r) PROVE StagedForThese'
  BY <1>13 DEF Bind, Rebound, StagesItself
<1>14. ASSUME NEW r \in Ranks, Recreate(r) PROVE StagedForThese'
  BY <1>14 DEF Recreate, Rebound, Fault
<1>15. ASSUME NEW r \in Ranks, CopiedToHost(r) PROVE StagedForThese'
  BY <1>15 DEF CopiedToHost
<1>16. ASSUME NEW r \in Ranks, Return(r) PROVE StagedForThese'
  BY <1>16 DEF Return, Unbinds, Fault
<1>17. ASSUME NEW r \in Ranks, RankFails(r) PROVE StagedForThese'
  BY <1>17 DEF RankFails, Fault
<1>18. ASSUME NEW r \in Ranks, ReleaseBuffers(r) PROVE StagedForThese'
  BY <1>18 DEF ReleaseBuffers, Freed, ReleasedLate
<1>19. ASSUME NEW c \in Tails, CallFails(c) PROVE StagedForThese'
  BY <1>19 DEF CallFails, Goto, TailFails
<1>20. ASSUME NEW c \in Tails, BarrierTimesOut(c) PROVE StagedForThese'
  BY <1>20 DEF BarrierTimesOut, AllRegistered, Goto, TailFails
<1>21. ASSUME NEW c \in Tails, TransferFails(c) PROVE StagedForThese'
  BY <1>21 DEF TransferFails, Fault, Goto, TailFails
<1>22. ASSUME NEW c \in Tails, TransferDone(c) PROVE StagedForThese'
  BY <1>22 DEF TransferDone, TransferOver, Goto
<1>23. ASSUME NEW c \in Tails, ParityFails(c) PROVE StagedForThese'
  BY <1>23 DEF ParityFails, Goto, TailFails
<1>24. ASSUME NEW c \in Tails, TailEnds(c) PROVE StagedForThese'
  BY <1>24 DEF TailEnds, Released, Goto
<1> QED
  BY <1>1, <1>2, <1>3, <1>4, <1>5, <1>6, <1>7, <1>8, <1>9, <1>10, <1>11, <1>12, <1>13, <1>14,
     <1>15, <1>16, <1>17, <1>18, <1>19, <1>20, <1>21, <1>22, <1>23, <1>24 DEF Next, Loop, Progress,
     Upset, Stopped, Driver, Rank, Tail, Worker, vars, Relayout, InitRollout, WorkerInit,
     InitDone, Barrier, ReadDevice, PushShard, Quiesce, InstallBegins, InstallEnds,
     InstallFails, TagReplicas, ResumeRollout

\* What a transfer reads is of its sync, and laid out for its units.
LEMMA OfferedStep ==
    ASSUME TypeOK, Control, PlanKept, StagedForThese, Offered, "late" \notin FaultKinds,
           [Next]_vars PROVE Offered'
<1> USE DEF TypeOK, Control, OneTail, SyncOf, Offered, Tails, Places, run, driver, tailv,
        trainer, wire, rollout
<1>1. CASE UNCHANGED <<pc, rank, bound, host, last, replicas, at, xfer>>
  BY <1>1 DEF Offered
<1>2. CASE Train
  BY <1>2 DEF Train
<1>3. ASSUME NEW p \in Replicas, AddReplica(p) PROVE Offered'
  BY <1>3 DEF AddReplica, Elastic, Fault, Checkpoint, FaultsCovered
<1>4. ASSUME NEW p \in Replicas, RemoveReplica(p) PROVE Offered'
  BY <1>4 DEF RemoveReplica, Elastic, Fault
<1>5. CASE BeginWait
  BY <1>5 DEF BeginWait
<1>6. CASE BeginSync
  BY <1>6 DEF BeginSync
<1>7. CASE WaitDone
  BY <1>7 DEF WaitDone, Joined, PreviousEnded, PreviousFailed
<1>8. CASE JoinFails
  BY <1>8 DEF JoinFails, Joined, PreviousEnded, PreviousFailed
<1>9. CASE CallSend
  BY <1>9 DEF CallSend, Joined, PreviousEnded, PreviousFailed, StageWanted
<1>10. CASE SendFails
  BY <1>10 DEF SendFails, AllSent, StagedAlike, StagedRanks
<1>11. CASE TailInCaller
  BY <1>11 DEF TailInCaller, AllSent, StagedAlike, StagedRanks, StartTail
<1>12. CASE TailInBackground
  BY <1>12 DEF TailInBackground, AllSent, StagedAlike, StagedRanks, StartTail
<1>13. ASSUME NEW r \in Ranks, Bind(r) PROVE Offered'
  BY <1>13 DEF Bind, Rebound, StagesItself
<1>14. ASSUME NEW r \in Ranks, Recreate(r) PROVE Offered'
  BY <1>14 DEF Recreate, Rebound, Fault
<1>15. ASSUME NEW r \in Ranks, CopiedToHost(r) PROVE Offered'
  BY <1>15 DEF CopiedToHost, StagedForThese, PlanKept
<1>16. ASSUME NEW r \in Ranks, Return(r) PROVE Offered'
  BY <1>16 DEF Return, Unbinds, Fault
<1>17. ASSUME NEW r \in Ranks, RankFails(r) PROVE Offered'
  BY <1>17 DEF RankFails, Fault
<1>18. ASSUME NEW r \in Ranks, ReleaseBuffers(r) PROVE Offered'
  BY <1>18 DEF ReleaseBuffers, Freed, ReleasedLate
<1>19. ASSUME NEW c \in Tails, InitRollout(c) PROVE Offered'
  BY <1>19 DEF InitRollout, Goto, Call
<1>20. ASSUME NEW c \in Tails, InitDone(c) PROVE Offered'
  BY <1>20 DEF InitDone, Goto, AllAnswered
<1>21. ASSUME NEW c \in Tails, CallFails(c) PROVE Offered'
  BY <1>21 DEF CallFails, Goto, TailFails
<1>22. ASSUME NEW c \in Tails, Barrier(c) PROVE Offered'
  BY <1>22 DEF Barrier, AllRegistered, Goto, Whole
<1>23. ASSUME NEW c \in Tails, BarrierTimesOut(c) PROVE Offered'
  BY <1>23 DEF BarrierTimesOut, AllRegistered, Goto, TailFails
<1>24. ASSUME NEW c \in Tails, NEW r \in Ranks, ReadDevice(c, r) PROVE Offered'
  BY <1>24 DEF ReadDevice
<1>25. ASSUME NEW c \in Tails, NEW r \in Ranks, PushShard(c, r) PROVE Offered'
  BY <1>25 DEF PushShard, Received, NormsChecked, Fault
<1>26. ASSUME NEW c \in Tails, TransferFails(c) PROVE Offered'
  BY <1>26 DEF TransferFails, Fault, Goto, TailFails, Whole
<1>27. ASSUME NEW c \in Tails, TransferDone(c) PROVE Offered'
  BY <1>27 DEF TransferDone, TransferOver, Goto
<1>28. ASSUME NEW c \in Tails, Quiesce(c) PROVE Offered'
  BY <1>28 DEF Quiesce, Goto, Call, Pauses, Fault
<1>29. ASSUME NEW c \in Tails, TagReplicas(c) PROVE Offered'
  BY <1>29 DEF TagReplicas, Installed, AllAnswered, Goto
<1>30. ASSUME NEW c \in Tails, ResumeRollout(c) PROVE Offered'
  BY <1>30 DEF ResumeRollout, ParityHolds, NormsChecked, Goto
<1>31. ASSUME NEW c \in Tails, ParityFails(c) PROVE Offered'
  BY <1>31 DEF ParityFails, Goto, TailFails
<1>32. ASSUME NEW c \in Tails, TailEnds(c) PROVE Offered'
  BY <1>32 DEF TailEnds, Released, Goto
<1> QED
  BY <1>1, <1>2, <1>3, <1>4, <1>5, <1>6, <1>7, <1>8, <1>9, <1>10, <1>11, <1>12, <1>13, <1>14,
     <1>15, <1>16, <1>17, <1>18, <1>19, <1>20, <1>21, <1>22, <1>23, <1>24, <1>25, <1>26, <1>27,
     <1>28, <1>29, <1>30, <1>31, <1>32 DEF Next, Loop, Progress, Upset, Stopped, Driver, Rank, Tail,
     Worker, vars, Relayout, WorkerInit, InstallBegins, InstallEnds, InstallFails

--------------------------------------------------------------------------------
(* The rollout. *)

\* What arrived from the first sync of a job that starts afresh is what it started with.
LEMMA ArrivedFirst ==
    ASSUME TypeOK, SyncOf, NEW p \in Replicas, \A r \in Ranks : Arrived(p, r),
           last # None, last <= 0
    PROVE  recv[p] = Whole(0) /\ last = 0 /\ ~opt["resumed"]
<1>1. last = 0
  BY DEF TypeOK, Steps, None
<1>2. recv[p] \in [Ranks -> Versions]
  BY DEF TypeOK
<1>3. \A r \in Ranks : recv[p][r] = 0
  BY <1>1 DEF Arrived
<1>4. recv[p] = Whole(0)
  BY <1>2, <1>3 DEF Whole
<1>5. QED
  BY <1>1, <1>4 DEF SyncOf

\* What passes the parity check is this sync's.
LEMMA ParityShows ==
    ASSUME TypeOK, SyncOf, ReceivedThis, NEW c \in Tails, at[c] = "parity", ParityHolds(c),
           NEW p \in replicas
    PROVE  recv[p] = Whole(last)
<1>1. job[c].step = last /\ p \in Replicas
  BY DEF SyncOf, TypeOK
<1>2. CASE NormsChecked(c)
  BY <1>1, <1>2 DEF ParityHolds
<1>3. CASE ~NormsChecked(c)
  <2>1. recv[p] \in [Ranks -> Versions]
    BY <1>1 DEF TypeOK
  <2>2. \A r \in Ranks : recv[p][r] = last
    BY <1>1, <1>3 DEF NormsChecked, ReceivedThis, Arrived
  <2>3. QED
    BY <2>1, <2>2 DEF Whole
<1>4. QED
  BY <1>2, <1>3

\* A unit is registered without having receive buffers only after its replica left
\* and came back.
LEMMA OldRegistrationStep ==
    ASSUME TypeOK, OneTail, OldRegistration, [Next]_vars PROVE OldRegistration'
<1> USE SetsAssumption DEF TypeOK, OneTail, OldRegistration, Tails, Places, run, driver, tailv,
        trainer, wire, rollout
<1>1. CASE UNCHANGED <<replicas, rpc, registered, inited, faults>>
  BY <1>1 DEF OldRegistration
<1>2. ASSUME NEW r \in Ranks, Relayout(r) PROVE OldRegistration'
  BY <1>2 DEF Relayout, Fault
<1>3. ASSUME NEW p \in Replicas, AddReplica(p) PROVE OldRegistration'
  BY <1>3 DEF AddReplica, Elastic, Fault, Checkpoint, FaultsCovered
<1>4. ASSUME NEW p \in Replicas, RemoveReplica(p) PROVE OldRegistration'
  BY <1>4 DEF RemoveReplica, Elastic, Fault
<1>5. ASSUME NEW r \in Ranks, Recreate(r) PROVE OldRegistration'
  BY <1>5 DEF Recreate, Rebound, Fault, Units
<1>6. ASSUME NEW r \in Ranks, Return(r) PROVE OldRegistration'
  BY <1>6 DEF Return, Unbinds, Fault
<1>7. ASSUME NEW r \in Ranks, RankFails(r) PROVE OldRegistration'
  BY <1>7 DEF RankFails, Fault
<1>8. ASSUME NEW c \in Tails, InitRollout(c) PROVE OldRegistration'
  BY <1>8 DEF InitRollout, Goto, Call
<1>9. ASSUME NEW p \in Replicas, WorkerInit(p) PROVE OldRegistration'
  BY <1>9 DEF WorkerInit, Fault
<1>10. ASSUME NEW c \in Tails, CallFails(c) PROVE OldRegistration'
  BY <1>10 DEF CallFails, Goto, TailFails
<1>11. ASSUME NEW c \in Tails, NEW r \in Ranks, PushShard(c, r) PROVE OldRegistration'
  BY <1>11 DEF PushShard, Received, NormsChecked, Fault
<1>12. ASSUME NEW c \in Tails, TransferFails(c) PROVE OldRegistration'
  BY <1>12 DEF TransferFails, Fault, Goto, TailFails
<1>13. ASSUME NEW c \in Tails, Quiesce(c) PROVE OldRegistration'
  BY <1>13 DEF Quiesce, Goto, Call, Pauses, Fault
<1>14. ASSUME NEW p \in Replicas, InstallBegins(p) PROVE OldRegistration'
  BY <1>14 DEF InstallBegins
<1>15. ASSUME NEW p \in Replicas, InstallEnds(p) PROVE OldRegistration'
  BY <1>15 DEF InstallEnds
<1>16. ASSUME NEW p \in Replicas, InstallFails(p) PROVE OldRegistration'
  BY <1>16 DEF InstallFails, Fault
<1> HIDE DEF TypeOK, OneTail, OldRegistration
<1> QED
  BY <1>1, <1>2, <1>3, <1>4, <1>5, <1>6, <1>7, <1>8, <1>9, <1>10, <1>11, <1>12, <1>13, <1>14,
     <1>15, <1>16 DEF Next, Loop, Progress, Upset, Stopped, Driver, Rank, Tail, Worker, vars, Train,
     BeginWait, BeginSync, WaitDone, JoinFails, CallSend, SendFails, TailInCaller,
     TailInBackground, Bind, CopiedToHost, ReleaseBuffers, InitDone, Barrier, BarrierTimesOut,
     ReadDevice, TransferDone, TagReplicas, ResumeRollout, ParityFails, TailEnds

\* The barrier lets only replicas pass that have receive buffers.
LEMMA AllInitedStep ==
    ASSUME FaultsCovered, TypeOK, OneTail, SyncOf, CallsAwaited, OldRegistration, AllInited,
           [Next]_vars PROVE AllInited'
<1> USE DEF TypeOK, OneTail, SyncOf, CallsAwaited, AllInited, Broken, Tails, Places, run,
        driver, tailv, trainer, wire, rollout
<1>1. CASE UNCHANGED <<replicas, at, rpc, registered, inited>>
  BY <1>1 DEF AllInited
<1>2. ASSUME NEW p \in Replicas, AddReplica(p) PROVE AllInited'
  BY <1>2 DEF AddReplica, Elastic, Fault, Checkpoint, FaultsCovered
<1>3. ASSUME NEW p \in Replicas, RemoveReplica(p) PROVE AllInited'
  BY <1>3 DEF RemoveReplica, Elastic, Fault
<1>4. CASE TailInCaller
  BY <1>4 DEF TailInCaller, AllSent, StagedAlike, StagedRanks, StartTail
<1>5. CASE TailInBackground
  BY <1>5 DEF TailInBackground, AllSent, StagedAlike, StagedRanks, StartTail
<1>6. ASSUME NEW r \in Ranks, Recreate(r) PROVE AllInited'
  BY <1>6 DEF Recreate, Rebound, Fault
<1>7. ASSUME NEW c \in Tails, InitRollout(c) PROVE AllInited'
  BY <1>7 DEF InitRollout, Goto, Call
<1>8. ASSUME NEW p \in Replicas, WorkerInit(p) PROVE AllInited'
  <2>1. \A q \in Replicas : inited[q] => inited'[q]
    <3>1. inited' = inited \/ inited' = [inited EXCEPT ![p] = TRUE]
      BY <1>8 DEF WorkerInit
    <3>2. ASSUME inited' = [inited EXCEPT ![p] = TRUE], NEW q \in Replicas, inited[q]
          PROVE  inited'[q]
      <4>1. inited \in [Replicas -> BOOLEAN]
        OBVIOUS
      <4>2. QED
        BY <3>2, <4>1
    <3>3. QED
      BY <3>1, <3>2
  <2>2. \A q \in Replicas : q # p => rpc'[q] = rpc[q] /\ (q \in registered' <=> q \in registered)
    <3>1. \/ rpc' = [rpc EXCEPT ![p] = "none"] \/ rpc' = [rpc EXCEPT ![p] = "error"]
      BY <1>8 DEF WorkerInit
    <3>2. registered' = registered \/ registered' = registered \cup {p}
      BY <1>8 DEF WorkerInit
    <3>3. QED
      BY <3>1, <3>2
  <2>3. rpc'[p] = "none" => inited'[p] \/ p \notin registered'
    <3>1. CASE inited[p]
      BY <1>8, <3>1 DEF WorkerInit
    <3>2. CASE ~inited[p] /\ p \in registered
      <4>1. faults >= 2 /\ "elastic" \in FaultKinds
        BY <1>8, <3>2 DEF OldRegistration
      <4>2. ~Fault("init")
        BY <4>1, BoundsAssumption DEF Fault, FaultsCovered
      <4>3. QED
        BY <1>8, <3>2, <4>2 DEF WorkerInit
    <3>3. CASE ~inited[p] /\ p \notin registered
      BY <1>8, <3>3 DEF WorkerInit
    <3>4. QED
      BY <3>1, <3>2, <3>3
  <2>4. QED
    BY <1>8, <2>1, <2>2, <2>3 DEF WorkerInit
<1>9. ASSUME NEW c \in Tails, InitDone(c) PROVE AllInited'
  BY <1>9 DEF InitDone, Goto, AllAnswered
<1>10. ASSUME NEW c \in Tails, CallFails(c) PROVE AllInited'
  BY <1>10 DEF CallFails, Goto, TailFails
<1>11. ASSUME NEW c \in Tails, Barrier(c) PROVE AllInited'
  <2>1. \A q \in replicas : q \in registered /\ rpc[q] = "none"
    BY <1>11 DEF Barrier, AllRegistered
  <2>2. QED
    BY <1>11, <2>1 DEF Barrier, Goto
<1>12. ASSUME NEW c \in Tails, BarrierTimesOut(c) PROVE AllInited'
  BY <1>12 DEF BarrierTimesOut, AllRegistered, Goto, TailFails
<1>13. ASSUME NEW c \in Tails, TransferFails(c) PROVE AllInited'
  BY <1>13 DEF TransferFails, Fault, Goto, TailFails
<1>14. ASSUME NEW c \in Tails, TransferDone(c) PROVE AllInited'
  BY <1>14 DEF TransferDone, TransferOver, Goto
<1>15. ASSUME NEW c \in Tails, Quiesce(c) PROVE AllInited'
  BY <1>15 DEF Quiesce, Goto, Call, Pauses, Fault
<1>16. ASSUME NEW p \in Replicas, InstallBegins(p) PROVE AllInited'
  BY <1>16 DEF InstallBegins
<1>17. ASSUME NEW p \in Replicas, InstallEnds(p) PROVE AllInited'
  BY <1>17 DEF InstallEnds
<1>18. ASSUME NEW p \in Replicas, InstallFails(p) PROVE AllInited'
  BY <1>18 DEF InstallFails, Fault
<1>19. ASSUME NEW c \in Tails, TagReplicas(c) PROVE AllInited'
  BY <1>19 DEF TagReplicas, Installed, AllAnswered, Goto
<1>20. ASSUME NEW c \in Tails, ResumeRollout(c) PROVE AllInited'
  BY <1>20 DEF ResumeRollout, ParityHolds, NormsChecked, Goto
<1>21. ASSUME NEW c \in Tails, ParityFails(c) PROVE AllInited'
  BY <1>21 DEF ParityFails, Goto, TailFails
<1>22. ASSUME NEW c \in Tails, TailEnds(c) PROVE AllInited'
  BY <1>22 DEF TailEnds, Released, Goto
<1> HIDE DEF TypeOK, OneTail, SyncOf, CallsAwaited, AllInited, Broken
<1> QED
  BY <1>1, <1>2, <1>3, <1>4, <1>5, <1>6, <1>7, <1>8, <1>9, <1>10, <1>11, <1>12, <1>13, <1>14,
     <1>15, <1>16, <1>17, <1>18, <1>19, <1>20, <1>21, <1>22 DEF Next, Loop, Progress, Upset, Stopped,
     Driver, Rank, Tail, Worker, vars, Train, Relayout, BeginWait, BeginSync, WaitDone,
     JoinFails, CallSend, SendFails, Bind, CopiedToHost, Return, RankFails, ReleaseBuffers,
     ReadDevice, PushShard

\* What a replica received is of this sync.
LEMMA ReceivedThisStep ==
    ASSUME FaultsCovered, TypeOK, OneTail, SyncOf, AllInited, Offered, ReceivedThis, [Next]_vars
    PROVE  ReceivedThis'
<1> USE DEF TypeOK, FaultsCovered, OneTail, SyncOf, Offered, AllInited, ReceivedThis, Arrived,
        Tails, Places, run, driver, tailv, trainer, wire, rollout
<1>1. CASE UNCHANGED <<at, replicas, xfer, recv, last, opt>>
  BY <1>1 DEF ReceivedThis
<1>2. ASSUME NEW p \in Replicas, AddReplica(p) PROVE ReceivedThis'
  BY <1>2 DEF AddReplica, Elastic, Fault, Checkpoint, FaultsCovered
<1>3. ASSUME NEW p \in Replicas, RemoveReplica(p) PROVE ReceivedThis'
  BY <1>3 DEF RemoveReplica, Elastic, Fault
<1>4. CASE CallSend
  BY <1>4 DEF CallSend, Joined, PreviousEnded, PreviousFailed, StageWanted
<1>5. CASE TailInCaller
  BY <1>5 DEF TailInCaller, AllSent, StagedAlike, StagedRanks, StartTail
<1>6. CASE TailInBackground
  BY <1>6 DEF TailInBackground, AllSent, StagedAlike, StagedRanks, StartTail
<1>7. ASSUME NEW c \in Tails, InitRollout(c) PROVE ReceivedThis'
  BY <1>7 DEF InitRollout, Goto, Call
<1>8. ASSUME NEW c \in Tails, InitDone(c) PROVE ReceivedThis'
  BY <1>8 DEF InitDone, Goto, AllAnswered
<1>9. ASSUME NEW c \in Tails, CallFails(c) PROVE ReceivedThis'
  BY <1>9 DEF CallFails, Goto, TailFails
<1>10. ASSUME NEW c \in Tails, Barrier(c) PROVE ReceivedThis'
  BY <1>10 DEF Barrier, AllRegistered, Goto, Whole
<1>11. ASSUME NEW c \in Tails, BarrierTimesOut(c) PROVE ReceivedThis'
  BY <1>11 DEF BarrierTimesOut, AllRegistered, Goto, TailFails
<1>12. ASSUME NEW c \in Tails, NEW r \in Ranks, ReadDevice(c, r) PROVE ReceivedThis'
  BY <1>12 DEF ReadDevice
<1>13. ASSUME NEW c \in Tails, NEW r \in Ranks, PushShard(c, r) PROVE ReceivedThis'
  BY <1>13 DEF PushShard, Received, NormsChecked, Fault
<1>14. ASSUME NEW c \in Tails, TransferFails(c) PROVE ReceivedThis'
  BY <1>14 DEF TransferFails, Fault, Goto, TailFails
<1>15. ASSUME NEW c \in Tails, TransferDone(c) PROVE ReceivedThis'
  BY <1>15 DEF TransferDone, TransferOver, Goto
<1>16. ASSUME NEW c \in Tails, Quiesce(c) PROVE ReceivedThis'
  BY <1>16 DEF Quiesce, Goto, Call, Pauses, Fault
<1>17. ASSUME NEW c \in Tails, TagReplicas(c) PROVE ReceivedThis'
  BY <1>17 DEF TagReplicas, Installed, AllAnswered, Goto
<1>18. ASSUME NEW c \in Tails, ResumeRollout(c) PROVE ReceivedThis'
  BY <1>18 DEF ResumeRollout, ParityHolds, NormsChecked, Goto
<1>19. ASSUME NEW c \in Tails, ParityFails(c) PROVE ReceivedThis'
  BY <1>19 DEF ParityFails, Goto, TailFails
<1>20. ASSUME NEW c \in Tails, TailEnds(c) PROVE ReceivedThis'
  BY <1>20 DEF TailEnds, Released, Goto
<1> HIDE DEF TypeOK, FaultsCovered, OneTail, SyncOf, Offered, AllInited, ReceivedThis, Arrived
<1> QED
  BY <1>1, <1>2, <1>3, <1>4, <1>5, <1>6, <1>7, <1>8, <1>9, <1>10, <1>11, <1>12, <1>13, <1>14,
     <1>15, <1>16, <1>17, <1>18, <1>19, <1>20 DEF Next, Loop, Progress, Upset, Stopped, Driver, Rank,
     Tail, Worker, vars, Train, Relayout, BeginWait, BeginSync, WaitDone, JoinFails, SendFails,
     Bind, Recreate, CopiedToHost, Return, RankFails, ReleaseBuffers, WorkerInit, InstallBegins,
     InstallEnds, InstallFails

\* An install changes nothing at a replica that generates.
LEMMA InstallsQuietlyStep ==
    ASSUME FaultsCovered, TypeOK, OneTail, SyncOf, CallsAwaited, ReceivedThis, StartsEqual,
           InstallsQuietly, [Next]_vars PROVE InstallsQuietly'
<1> USE DEF TypeOK, OneTail, SyncOf, CallsAwaited, ReceivedThis, InstallsQuietly, Broken,
        Arrived, Tails, Places, run, driver, tailv, trainer, wire, rollout
<1>1. CASE UNCHANGED <<rpc, last, recv, generating, params, opt>>
  BY <1>1 DEF InstallsQuietly
<1>2. ASSUME NEW p \in Replicas, AddReplica(p) PROVE InstallsQuietly'
  BY <1>2 DEF AddReplica, Elastic, Fault, Checkpoint, FaultsCovered
<1>3. CASE CallSend
  BY <1>3 DEF CallSend, Joined, PreviousEnded, PreviousFailed, StageWanted
<1>4. ASSUME NEW c \in Tails, InitRollout(c) PROVE InstallsQuietly'
  BY <1>4 DEF InitRollout, Goto, Call
<1>5. ASSUME NEW p \in Replicas, WorkerInit(p) PROVE InstallsQuietly'
  BY <1>5 DEF WorkerInit, Fault
<1>6. ASSUME NEW c \in Tails, CallFails(c) PROVE InstallsQuietly'
  BY <1>6 DEF CallFails, Goto, TailFails
<1>7. ASSUME NEW c \in Tails, NEW r \in Ranks, PushShard(c, r) PROVE InstallsQuietly'
  BY <1>7 DEF PushShard, Received, NormsChecked, Fault
<1>8. ASSUME NEW c \in Tails, Quiesce(c) PROVE InstallsQuietly'
  <2>1. rpc' = [q \in Replicas |-> IF q \in replicas THEN "install" ELSE rpc[q]]
    BY <1>8 DEF Quiesce, Call
  <2>2. UNCHANGED <<last, opt, recv, params>> /\ at[c] = "quiesce" /\ last # None
    BY <1>8 DEF Quiesce
  <2>3. ASSUME NEW q \in replicas, generating'[q] PROVE params[q] = recv[q]
    <3>1. q \in Replicas /\ \A r \in Ranks : Arrived(q, r)
      BY <2>2
    <3>2. last <= 0
      <4>1. Pauses(c) => ~generating'[q]
        BY <1>8, <3>1 DEF Quiesce, Fault, FaultsCovered
      <4>2. QED
        BY <1>8, <2>3, <4>1 DEF Quiesce, Pauses, Steps, None
    <3>3. recv[q] = Whole(0) /\ ~opt["resumed"]
      BY <2>2, <3>1, <3>2, ArrivedFirst
    <3>4. QED
      BY <3>2, <3>3 DEF StartsEqual
  <2>4. \A q \in Replicas : generating'[q] => generating[q]
    BY <1>8 DEF Quiesce
  <2>5. QED
    BY <1>8, <2>1, <2>2, <2>3, <2>4
<1>9. ASSUME NEW p \in Replicas, InstallBegins(p) PROVE InstallsQuietly'
  BY <1>9 DEF InstallBegins
<1>10. ASSUME NEW p \in Replicas, InstallEnds(p) PROVE InstallsQuietly'
  BY <1>10 DEF InstallEnds
<1>11. ASSUME NEW p \in Replicas, InstallFails(p) PROVE InstallsQuietly'
  BY <1>11 DEF InstallFails, Fault
<1>12. ASSUME NEW c \in Tails, ResumeRollout(c) PROVE InstallsQuietly'
  BY <1>12 DEF ResumeRollout, ParityHolds, NormsChecked, Goto
<1> HIDE DEF TypeOK, OneTail, SyncOf, CallsAwaited, ReceivedThis, InstallsQuietly, Broken,
         Arrived
<1> QED
  BY <1>1, <1>2, <1>3, <1>4, <1>5, <1>6, <1>7, <1>8, <1>9, <1>10, <1>11, <1>12 DEF Next,
     Loop, Progress, Upset, Stopped, Driver, Rank, Tail, Worker, vars, Train, Relayout, RemoveReplica,
     BeginWait, BeginSync, WaitDone, JoinFails, SendFails, TailInCaller, TailInBackground, Bind,
     Recreate, CopiedToHost, Return, RankFails, ReleaseBuffers, InitDone, Barrier,
     BarrierTimesOut, ReadDevice, TransferFails, TransferDone, TagReplicas, ParityFails,
     TailEnds

\* The first sync of a fresh job sends what the replicas hold.
LEMMA StartsEqualStep ==
    ASSUME FaultsCovered, TypeOK, OneTail, SyncOf, InstallsQuietly, StartsEqual, [Next]_vars
    PROVE  StartsEqual'
<1> USE DEF TypeOK, StartsEqual, Whole, Tails, Places, run, driver, tailv, trainer, wire,
        rollout
<1>1. CASE UNCHANGED <<opt, last, replicas, params>>
  BY <1>1 DEF StartsEqual
<1>2. ASSUME NEW p \in Replicas, AddReplica(p) PROVE StartsEqual'
  BY <1>2 DEF AddReplica, Elastic, Fault, Checkpoint, FaultsCovered, None
<1>3. ASSUME NEW p \in Replicas, RemoveReplica(p) PROVE StartsEqual'
  BY <1>3 DEF RemoveReplica, Elastic, Fault
<1>4. CASE CallSend
  BY <1>4 DEF CallSend, Joined, PreviousEnded, PreviousFailed, StageWanted, SyncOf, Steps, None
<1>5. ASSUME NEW p \in Replicas, InstallBegins(p) PROVE StartsEqual'
  <2>1. UNCHANGED <<last, opt, replicas>> /\ rpc[p] \in {"install", "installing"}
    BY <1>5 DEF InstallBegins
  <2>2. ASSUME ~opt["resumed"], last <= 0, p \in replicas PROVE params'[p] = Whole(0)
    <3>1. recv[p] = Whole(0)
      BY <2>1, <2>2, ArrivedFirst DEF InstallsQuietly
    <3>2. params[p] = Whole(0)
      BY <2>2
    <3>3. QED
      BY <1>5, <3>1, <3>2 DEF InstallBegins
  <2>3. \A q \in Replicas : q # p => params'[q] = params[q]
    BY <1>5 DEF InstallBegins
  <2>4. QED
    BY <2>1, <2>2, <2>3
<1>6. ASSUME NEW p \in Replicas, InstallEnds(p) PROVE StartsEqual'
  <2>1. UNCHANGED <<last, opt, replicas>> /\ rpc[p] \in {"install", "installing"}
    BY <1>6 DEF InstallEnds
  <2>2. ASSUME ~opt["resumed"], last <= 0, p \in replicas PROVE params'[p] = Whole(0)
    <3>1. recv[p] = Whole(0)
      BY <2>1, <2>2, ArrivedFirst DEF InstallsQuietly
    <3>2. params[p] = Whole(0)
      BY <2>2
    <3>3. QED
      BY <1>6, <3>1, <3>2 DEF InstallEnds
  <2>3. \A q \in Replicas : q # p => params'[q] = params[q]
    BY <1>6 DEF InstallEnds
  <2>4. QED
    BY <2>1, <2>2, <2>3
<1> HIDE DEF TypeOK, StartsEqual, Whole
<1> QED
  BY <1>1, <1>2, <1>3, <1>4, <1>5, <1>6 DEF Next, Loop, Progress, Upset, Stopped, Driver, Rank, Tail,
     Worker, vars, Train, Relayout, BeginWait, BeginSync, WaitDone, JoinFails, SendFails,
     TailInCaller, TailInBackground, Bind, Recreate, CopiedToHost, Return, RankFails,
     ReleaseBuffers, InitRollout, WorkerInit, InitDone, CallFails, Barrier, BarrierTimesOut,
     ReadDevice, PushShard, TransferFails, TransferDone, Quiesce, InstallFails, TagReplicas,
     ResumeRollout, ParityFails, TailEnds

\* Every replica holds what it received when the tail goes on.
LEMMA InstalledAllStep ==
    ASSUME FaultsCovered, TypeOK, OneTail, SyncOf, CallsAwaited, AllInited, ReceivedThis,
           InstallsQuietly, InstalledAll, [Next]_vars PROVE InstalledAll'
<1> USE DEF TypeOK, OneTail, SyncOf, CallsAwaited, AllInited, InstalledAll, Broken, Tails,
        Places, run, driver, tailv, trainer, wire, rollout
<1>1. CASE UNCHANGED <<at, replicas, rpc, params, recv, tag, generating, last>>
  BY <1>1 DEF InstalledAll
<1>2. ASSUME NEW p \in Replicas, AddReplica(p) PROVE InstalledAll'
  BY <1>2 DEF AddReplica, Elastic, Fault, Checkpoint, FaultsCovered
<1>3. ASSUME NEW p \in Replicas, RemoveReplica(p) PROVE InstalledAll'
  BY <1>3 DEF RemoveReplica, Elastic, Fault
<1>4. CASE CallSend
  BY <1>4 DEF CallSend, Joined, PreviousEnded, PreviousFailed, StageWanted
<1>5. CASE TailInCaller
  BY <1>5 DEF TailInCaller, AllSent, StagedAlike, StagedRanks, StartTail
<1>6. CASE TailInBackground
  BY <1>6 DEF TailInBackground, AllSent, StagedAlike, StagedRanks, StartTail
<1>7. ASSUME NEW c \in Tails, InitRollout(c) PROVE InstalledAll'
  BY <1>7 DEF InitRollout, Goto, Call
<1>8. ASSUME NEW p \in Replicas, WorkerInit(p) PROVE InstalledAll'
  BY <1>8 DEF WorkerInit, Fault
<1>9. ASSUME NEW c \in Tails, InitDone(c) PROVE InstalledAll'
  BY <1>9 DEF InitDone, Goto, AllAnswered
<1>10. ASSUME NEW c \in Tails, CallFails(c) PROVE InstalledAll'
  BY <1>10 DEF CallFails, Goto, TailFails
<1>11. ASSUME NEW c \in Tails, Barrier(c) PROVE InstalledAll'
  BY <1>11 DEF Barrier, AllRegistered, Goto
<1>12. ASSUME NEW c \in Tails, BarrierTimesOut(c) PROVE InstalledAll'
  BY <1>12 DEF BarrierTimesOut, AllRegistered, Goto, TailFails
<1>13. ASSUME NEW c \in Tails, NEW r \in Ranks, PushShard(c, r) PROVE InstalledAll'
  BY <1>13 DEF PushShard, Received, NormsChecked, Fault
<1>14. ASSUME NEW c \in Tails, TransferFails(c) PROVE InstalledAll'
  BY <1>14 DEF TransferFails, Fault, Goto, TailFails
<1>15. ASSUME NEW c \in Tails, TransferDone(c) PROVE InstalledAll'
  BY <1>15 DEF TransferDone, TransferOver, Goto
<1>16. ASSUME NEW c \in Tails, Quiesce(c) PROVE InstalledAll'
  BY <1>16 DEF Quiesce, Goto, Call, Pauses, Fault
<1>17. ASSUME NEW p \in Replicas, InstallBegins(p) PROVE InstalledAll'
  BY <1>17 DEF InstallBegins
<1>18. ASSUME NEW p \in Replicas, InstallEnds(p) PROVE InstalledAll'
  BY <1>18 DEF InstallEnds
<1>19. ASSUME NEW p \in Replicas, InstallFails(p) PROVE InstalledAll'
  BY <1>19 DEF InstallFails, Fault
<1>20. ASSUME NEW c \in Tails, TagReplicas(c) PROVE InstalledAll'
  BY <1>20 DEF TagReplicas, Installed, AllAnswered, Goto
<1>21. ASSUME NEW c \in Tails, ResumeRollout(c) PROVE InstalledAll'
  <2>1. \A q \in replicas : recv[q] = Whole(last)
    BY <1>21, ParityShows DEF ResumeRollout
  <2>2. QED
    BY <1>21, <2>1 DEF ResumeRollout, Goto
<1>22. ASSUME NEW c \in Tails, ParityFails(c) PROVE InstalledAll'
  BY <1>22 DEF ParityFails, Goto, TailFails
<1>23. ASSUME NEW c \in Tails, TailEnds(c) PROVE InstalledAll'
  BY <1>23 DEF TailEnds, Released, Goto
<1> HIDE DEF TypeOK, OneTail, SyncOf, CallsAwaited, AllInited, InstalledAll, Broken
<1> QED
  BY <1>1, <1>2, <1>3, <1>4, <1>5, <1>6, <1>7, <1>8, <1>9, <1>10, <1>11, <1>12, <1>13, <1>14,
     <1>15, <1>16, <1>17, <1>18, <1>19, <1>20, <1>21, <1>22, <1>23 DEF Next, Loop, Progress, Upset,
     Stopped, Driver, Rank, Tail, Worker, vars, Train, Relayout, BeginWait, BeginSync, WaitDone,
     JoinFails, SendFails, Bind, Recreate, CopiedToHost, Return, RankFails, ReleaseBuffers,
     ReadDevice

\* Between two syncs all replicas hold the weights of the last one.
LEMMA SettledStep ==
    ASSUME FaultsCovered, TypeOK, OneTail, SyncOf, CallsAwaited, InstalledAll, Settled, [Next]_vars
    PROVE  Settled'
<1> USE DEF TypeOK, OneTail, SyncOf, CallsAwaited, Broken, InstalledAll, Settled, Tails, Places,
        run, driver, tailv, trainer, wire, rollout
<1>1. CASE UNCHANGED <<pc, future, replicas, generating, params, last>>
  BY <1>1 DEF Settled
<1>2. CASE Train
  BY <1>2 DEF Train
<1>3. ASSUME NEW p \in Replicas, AddReplica(p) PROVE Settled'
  BY <1>3 DEF AddReplica, Elastic, Fault, Checkpoint, FaultsCovered
<1>4. ASSUME NEW p \in Replicas, RemoveReplica(p) PROVE Settled'
  BY <1>4 DEF RemoveReplica, Elastic, Fault
<1>5. CASE BeginWait
  BY <1>5 DEF BeginWait
<1>6. CASE BeginSync
  BY <1>6 DEF BeginSync
<1>7. CASE WaitDone
  BY <1>7 DEF WaitDone, Joined, PreviousEnded, PreviousFailed
<1>8. CASE JoinFails
  BY <1>8 DEF JoinFails, Joined, PreviousEnded, PreviousFailed
<1>9. CASE CallSend
  BY <1>9 DEF CallSend, Joined, PreviousEnded, PreviousFailed, StageWanted
<1>10. CASE SendFails
  BY <1>10 DEF SendFails, AllSent, StagedAlike, StagedRanks
<1>11. CASE TailInCaller
  BY <1>11 DEF TailInCaller, AllSent, StagedAlike, StagedRanks, StartTail
<1>12. CASE TailInBackground
  BY <1>12 DEF TailInBackground, AllSent, StagedAlike, StagedRanks, StartTail
<1>13. ASSUME NEW c \in Tails, CallFails(c) PROVE Settled'
  BY <1>13 DEF CallFails, Goto, TailFails
<1>14. ASSUME NEW c \in Tails, BarrierTimesOut(c) PROVE Settled'
  BY <1>14 DEF BarrierTimesOut, AllRegistered, Goto, TailFails
<1>15. ASSUME NEW c \in Tails, TransferFails(c) PROVE Settled'
  BY <1>15 DEF TransferFails, Fault, Goto, TailFails
<1>16. ASSUME NEW c \in Tails, Quiesce(c) PROVE Settled'
  BY <1>16 DEF Quiesce, Goto, Call, Pauses, Fault
<1>17. ASSUME NEW p \in Replicas, InstallBegins(p) PROVE Settled'
  BY <1>17 DEF InstallBegins
<1>18. ASSUME NEW p \in Replicas, InstallEnds(p) PROVE Settled'
  BY <1>18 DEF InstallEnds
<1>19. ASSUME NEW c \in Tails, ResumeRollout(c) PROVE Settled'
  BY <1>19 DEF ResumeRollout, ParityHolds, NormsChecked, Goto
<1>20. ASSUME NEW c \in Tails, ParityFails(c) PROVE Settled'
  BY <1>20 DEF ParityFails, Goto, TailFails
<1>21. ASSUME NEW c \in Tails, TailEnds(c) PROVE Settled'
  BY <1>21 DEF TailEnds, Released, Goto
<1> HIDE DEF TypeOK, OneTail, SyncOf, CallsAwaited, Broken, InstalledAll, Settled
<1> QED
  BY <1>1, <1>2, <1>3, <1>4, <1>5, <1>6, <1>7, <1>8, <1>9, <1>10, <1>11, <1>12, <1>13, <1>14,
     <1>15, <1>16, <1>17, <1>18, <1>19, <1>20, <1>21 DEF Next, Loop, Progress, Upset, Stopped, Driver,
     Rank, Tail, Worker, vars, Relayout, Bind, Recreate, CopiedToHost, Return, RankFails,
     ReleaseBuffers, InitRollout, WorkerInit, InitDone, Barrier, ReadDevice, PushShard,
     TransferDone, InstallFails, TagReplicas

\* The rollout is paused from before the install until the parity check has passed.
LEMMA PausedWhileInstallingStep ==
    ASSUME FaultsCovered, TypeOK, OneTail, SyncOf, PausedWhileInstalling, [Next]_vars
    PROVE  PausedWhileInstalling'
<1> USE DEF TypeOK, OneTail, SyncOf, PausedWhileInstalling, Tails, Places, run, driver, tailv,
        trainer, wire, rollout
<1>1. CASE UNCHANGED <<at, job, replicas, generating>>
  BY <1>1 DEF PausedWhileInstalling
<1>2. ASSUME NEW p \in Replicas, AddReplica(p) PROVE PausedWhileInstalling'
  BY <1>2 DEF AddReplica, Elastic, Fault, Checkpoint, FaultsCovered
<1>3. ASSUME NEW p \in Replicas, RemoveReplica(p) PROVE PausedWhileInstalling'
  BY <1>3 DEF RemoveReplica, Elastic, Fault
<1>4. CASE TailInCaller
  BY <1>4 DEF TailInCaller, AllSent, StagedAlike, StagedRanks, StartTail
<1>5. CASE TailInBackground
  BY <1>5 DEF TailInBackground, AllSent, StagedAlike, StagedRanks, StartTail
<1>6. ASSUME NEW c \in Tails, InitRollout(c) PROVE PausedWhileInstalling'
  BY <1>6 DEF InitRollout, Goto, Call
<1>7. ASSUME NEW c \in Tails, InitDone(c) PROVE PausedWhileInstalling'
  BY <1>7 DEF InitDone, Goto, AllAnswered
<1>8. ASSUME NEW c \in Tails, CallFails(c) PROVE PausedWhileInstalling'
  BY <1>8 DEF CallFails, Goto, TailFails
<1>9. ASSUME NEW c \in Tails, Barrier(c) PROVE PausedWhileInstalling'
  BY <1>9 DEF Barrier, AllRegistered, Goto
<1>10. ASSUME NEW c \in Tails, BarrierTimesOut(c) PROVE PausedWhileInstalling'
  BY <1>10 DEF BarrierTimesOut, AllRegistered, Goto, TailFails
<1>11. ASSUME NEW c \in Tails, TransferFails(c) PROVE PausedWhileInstalling'
  BY <1>11 DEF TransferFails, Fault, Goto, TailFails
<1>12. ASSUME NEW c \in Tails, TransferDone(c) PROVE PausedWhileInstalling'
  BY <1>12 DEF TransferDone, TransferOver, Goto
<1>13. ASSUME NEW c \in Tails, Quiesce(c) PROVE PausedWhileInstalling'
  <2>1. \A q \in replicas : Pauses(c) => ~generating'[q]
    BY <1>13 DEF Quiesce, Fault, FaultsCovered
  <2>2. QED
    BY <1>13, <2>1 DEF Quiesce, Goto, Pauses
<1>14. ASSUME NEW c \in Tails, TagReplicas(c) PROVE PausedWhileInstalling'
  BY <1>14 DEF TagReplicas, Installed, AllAnswered, Goto
<1>15. ASSUME NEW c \in Tails, ResumeRollout(c) PROVE PausedWhileInstalling'
  BY <1>15 DEF ResumeRollout, ParityHolds, NormsChecked, Goto
<1>16. ASSUME NEW c \in Tails, ParityFails(c) PROVE PausedWhileInstalling'
  BY <1>16 DEF ParityFails, Goto, TailFails
<1>17. ASSUME NEW c \in Tails, TailEnds(c) PROVE PausedWhileInstalling'
  BY <1>17 DEF TailEnds, Released, Goto
<1> HIDE DEF TypeOK, OneTail, SyncOf, PausedWhileInstalling
<1> QED
  BY <1>1, <1>2, <1>3, <1>4, <1>5, <1>6, <1>7, <1>8, <1>9, <1>10, <1>11, <1>12, <1>13, <1>14,
     <1>15, <1>16, <1>17 DEF Next, Loop, Progress, Upset, Stopped, Driver, Rank, Tail, Worker, vars,
     Train, Relayout, BeginWait, BeginSync, WaitDone, JoinFails, CallSend, SendFails, Bind,
     Recreate, CopiedToHost, Return, RankFails, ReleaseBuffers, WorkerInit, ReadDevice,
     PushShard, InstallBegins, InstallEnds, InstallFails

\* A replica that generates holds the weights that its tag says.
LEMMA ServesWhatItsTagSaysStep ==
    ASSUME FaultsCovered, TypeOK, OneTail, SyncOf, AllInited, ReceivedThis, InstallsQuietly,
           StartsEqual, InstalledAll, PausedWhileInstalling, ServesWhatItsTagSays, [Next]_vars
    PROVE  ServesWhatItsTagSays'
<1> USE DEF TypeOK, ServesWhatItsTagSays, Tails, Places, run, driver, tailv, trainer, wire,
        rollout
<1>1. CASE UNCHANGED <<replicas, generating, tag, params>>
  BY <1>1 DEF ServesWhatItsTagSays
<1>2. ASSUME NEW p \in Replicas, AddReplica(p) PROVE ServesWhatItsTagSays'
  BY <1>2 DEF AddReplica, Elastic, Fault, Checkpoint, FaultsCovered
<1>3. ASSUME NEW p \in Replicas, RemoveReplica(p) PROVE ServesWhatItsTagSays'
  BY <1>3 DEF RemoveReplica, Elastic, Fault
<1>4. ASSUME NEW c \in Tails, Quiesce(c) PROVE ServesWhatItsTagSays'
  BY <1>4 DEF Quiesce, Goto, Call, Pauses, Fault
<1>5. ASSUME NEW p \in Replicas, InstallBegins(p) PROVE ServesWhatItsTagSays'
  BY <1>5 DEF InstallBegins, InstallsQuietly
<1>6. ASSUME NEW p \in Replicas, InstallEnds(p) PROVE ServesWhatItsTagSays'
  BY <1>6 DEF InstallEnds, InstallsQuietly
<1>7. ASSUME NEW c \in Tails, TagReplicas(c) PROVE ServesWhatItsTagSays'
  <2>1. /\ at[c] = "installing" /\ job[c].step = last /\ last # None
        /\ \A q \in replicas : q \in Replicas /\ tag'[q] = last
        /\ UNCHANGED <<replicas, generating, params>>
    BY <1>7 DEF TagReplicas, Installed, SyncOf
  <2>2. ASSUME NEW q \in replicas, generating[q] PROVE params[q] = Whole(last)
    <3>1. last = 0
      BY <2>1, <2>2 DEF PausedWhileInstalling, Steps, None
    <3>2. QED
      BY <3>1 DEF SyncOf, StartsEqual
  <2>3. QED
    BY <2>1, <2>2
<1>8. ASSUME NEW c \in Tails, ResumeRollout(c) PROVE ServesWhatItsTagSays'
  <2>1. \A q \in replicas : recv[q] = Whole(last) /\ params[q] = recv[q] /\ tag[q] = last
    BY <1>8, ParityShows DEF ResumeRollout, InstalledAll
  <2>2. QED
    BY <1>8, <2>1 DEF ResumeRollout
<1> HIDE DEF TypeOK, ServesWhatItsTagSays
<1> QED
  BY <1>1, <1>2, <1>3, <1>4, <1>5, <1>6, <1>7, <1>8 DEF Next, Loop, Progress, Upset, Stopped, Driver,
     Rank, Tail, Worker, vars, Train, Relayout, BeginWait, BeginSync, WaitDone, JoinFails,
     CallSend, SendFails, TailInCaller, TailInBackground, Bind, Recreate, CopiedToHost, Return,
     RankFails, ReleaseBuffers, InitRollout, WorkerInit, InitDone, CallFails, Barrier,
     BarrierTimesOut, ReadDevice, PushShard, TransferFails, TransferDone, InstallFails,
     ParityFails, TailEnds

--------------------------------------------------------------------------------
(* The invariant, and what follows from it. *)

\* It holds at the start.
LEMMA SoundInit == Init => Sound
<1> SUFFICES ASSUME Init PROVE Sound
  OBVIOUS
<1>1. TypeOK
  BY TypeInit
<1>2. Control
  BY BoundsAssumption
     DEF Init, Control, OneTail, SyncOf, CallsAwaited, ReleasedLate, Tails, None
<1>3. Trainer
  BY DEF Init, Trainer, PlanKept, StagedForThese, Offered, Tails
<1>4. OldRegistration /\ AllInited /\ ReceivedThis /\ InstallsQuietly /\ InstalledAll /\ Settled
  BY DEF Init, OldRegistration, AllInited, ReceivedThis, InstallsQuietly, InstalledAll,
     Settled, Tails
<1>5. StartsEqual
  BY <1>1 DEF Init, StartsEqual, Checkpoint, TypeOK
<1>6. ServesWhatItsTagSays /\ PausedWhileInstalling
  BY <1>1 DEF Init, ServesWhatItsTagSays, PausedWhileInstalling, TypeOK, Tails
<1>7. QED
  BY <1>1, <1>2, <1>3, <1>4, <1>5, <1>6 DEF Sound, Rollout

\* Every step keeps it.
LEMMA SoundStep == ASSUME FaultsCovered PROVE Sound /\ [Next]_vars => Sound'
<1> SUFFICES ASSUME Sound, [Next]_vars PROVE Sound'
  OBVIOUS
<1> USE DEF Sound
<1>1. TypeOK'
  BY TypeStep
<1>2. Control'
  BY OneTailStep, SyncOfStep, CallsAwaitedStep, ReleasedLateStep DEF Control, FaultsCovered
<1>3. Trainer'
  BY PlanKeptStep, StagedForTheseStep, OfferedStep DEF Trainer, Control, FaultsCovered
<1>4. Rollout'
  BY OldRegistrationStep, AllInitedStep, ReceivedThisStep, InstallsQuietlyStep, StartsEqualStep,
     InstalledAllStep, SettledStep, PausedWhileInstallingStep, ServesWhatItsTagSaysStep
     DEF Rollout, Trainer, Control
<1>5. QED
  BY <1>1, <1>2, <1>3, <1>4

\* Sound is an invariant of the tpu-sync weight sync.
THEOREM SoundHolds == ASSUME FaultsCovered PROVE Spec => []Sound
  BY SoundInit, SoundStep, PTL DEF Spec

\* A replica that generates uses the weights that its tag says, whole
\* (_finish_tpu_sync).
THEOREM Serves == ASSUME FaultsCovered PROVE Spec => []ServesWhatItsTagSays
<1>1. Sound => ServesWhatItsTagSays
  BY DEF Sound, Rollout
<1>2. QED
  BY <1>1, SoundHolds, PTL

\* No replica generates during an install or while it waits for the parity check
\* (_quiesce_rollout).
THEOREM PausedForInstall == ASSUME FaultsCovered PROVE Spec => []PausedWhileInstalling
<1>1. Sound => PausedWhileInstalling
  BY DEF Sound, Rollout
<1>2. QED
  BY <1>1, SoundHolds, PTL

\* After wait_for_tpu_sync_update every replica generates with the last weights.
THEOREM SyncedAfter == ASSUME FaultsCovered PROVE Spec => []SyncedAfterWait
<1>1. Sound => SyncedAfterWait
  BY DEF Sound, Control, OneTail, Rollout, Settled, SyncedAfterWait
<1>2. QED
  BY <1>1, SoundHolds, PTL

--------------------------------------------------------------------------------
(* The sync implements the promise, step by step. *)

\* The version of whole parameters, and of parameters that are not.
LEMMA VersionOfWhole == ASSUME NEW v \in Steps \cup {None} PROVE Version(Whole(v)) = v
<1>1. \A w : Whole(v) = Whole(w) => v = w
  <2>1. PICK r \in Ranks : TRUE
    BY SetsAssumption
  <2>2. \A w : Whole(w)[r] = w
    BY DEF Whole
  <2>3. QED
    BY <2>2
<1>2. QED
  BY <1>1 DEF Version

\* What an install leaves is the version of the sync, or parts.
LEMMA VersionOfParts ==
    ASSUME NEW f \in [Ranks -> Versions], NEW v \in Steps,
           \A r \in Ranks : f[r] \in {v, Garbage}
    PROVE  Version(f) \in {v, Garbage}
<1>1. CASE \A r \in Ranks : f[r] = v
  <2>1. f = Whole(v)
    BY <1>1 DEF Whole
  <2>2. QED
    BY <2>1, VersionOfWhole
<1>2. CASE \E r \in Ranks : f[r] = Garbage
  <2>1. \A w \in Steps \cup {None} : f # Whole(w)
    BY <1>2 DEF Whole, Steps, None, Garbage
  <2>2. QED
    BY <2>1 DEF Version
<1>3. QED
  BY <1>1, <1>2

\* A replica starts with one version.
LEMMA VersionOfCheckpoint == Version(Checkpoint) \in Steps \cup {None}
<1>1. CASE opt["resumed"]
  BY <1>1, VersionOfWhole DEF Checkpoint
<1>2. CASE ~opt["resumed"]
  <2>1. 0 \in Steps
    BY BoundsAssumption DEF Steps
  <2>2. QED
    BY <1>2, <2>1, VersionOfWhole DEF Checkpoint
<1>3. QED
  BY <1>1, <1>2

\* The sync starts as the promise does.
LEMMA PromiseInit == Init => Promise!Init
<1> SUFFICES ASSUME Init PROVE Promise!Init
  OBVIOUS
<1>1. \A p \in Replicas : Version(params[p]) \in Steps \cup {None}
  BY VersionOfCheckpoint DEF Init
<1>2. QED
  BY <1>1 DEF Init, Promise!Init, None, Promise!None

\* Every step of the sync is a step of the promise or leaves it alone.
LEMMA PromiseStep ==
    ASSUME FaultsCovered, Sound, [Next]_vars PROVE [Promise!Next]_Promise!vars
<1> USE DEF Promise!vars, rollout, driver
<1>1. CASE UNCHANGED <<last, params, tag, generating>>
  BY <1>1 DEF Promise!vars
<1>2. ASSUME NEW p \in Replicas, AddReplica(p) PROVE [Promise!Next]_Promise!vars
  <2>1. Version(Checkpoint) \in Steps \cup {None}
    BY VersionOfCheckpoint
  <2>2. [q \in Replicas |-> Version(params'[q])]
          = [[q \in Replicas |-> Version(params[q])] EXCEPT ![p] = Version(Checkpoint)]
    BY <1>2 DEF AddReplica, Sound, TypeOK
  <2>3. Promise!Replace(p)
    BY <1>2, <2>1, <2>2 DEF AddReplica, Promise!Replace, None, Promise!None
  <2>4. QED
    BY <2>3 DEF Promise!Next
<1>3. CASE CallSend
  <2>1. last' = trained /\ trained \in Steps /\ last < trained
    BY <1>3 DEF CallSend, Sound, TypeOK, Control, SyncOf
  <2>2. Promise!Publish
    BY <1>3, <2>1 DEF CallSend, Promise!Publish, Steps, None, Sound, TypeOK
  <2>3. QED
    BY <2>2 DEF Promise!Next
<1>4. ASSUME NEW c \in Tails, Quiesce(c) PROVE [Promise!Next]_Promise!vars
  <2>1. generating' \in [Replicas -> BOOLEAN] /\ \A q \in Replicas : generating'[q] => generating[q]
    BY <1>4 DEF Quiesce
  <2>2. Promise!Pause
    BY <1>4, <2>1 DEF Quiesce, Promise!Pause
  <2>3. QED
    BY <2>2 DEF Promise!Next
<1>5. ASSUME NEW p \in Replicas, InstallBegins(p) PROVE [Promise!Next]_Promise!vars
  <2>1. UNCHANGED <<last, tag, generating>> /\ rpc[p] \in {"install", "installing"}
    BY <1>5 DEF InstallBegins
  <2>2. CASE generating[p]
    <3>1. params[p] = recv[p]
      BY <2>1, <2>2 DEF Sound, Rollout, InstallsQuietly
    <3>2. params' = params
      BY <1>5, <3>1 DEF InstallBegins, Sound, TypeOK
    <3>3. QED
      BY <2>1, <3>2
  <2>3. CASE ~generating[p]
    <3>1. /\ last \in Steps /\ recv[p] \in [Ranks -> Versions]
          /\ \A r \in Ranks : recv[p][r] \in {last, Garbage}
      BY <2>1 DEF Sound, Rollout, InstallsQuietly, Arrived, TypeOK
    <3>2. \/ params' = params
          \/ \E f \in [Ranks -> Versions] :
                /\ \A r \in Ranks : f[r] \in {last, Garbage}
                /\ params' = [params EXCEPT ![p] = f]
      <4>1. CASE inited[p]
        <5>1. DEFINE f == [r \in Ranks |-> IF params[p][r] = recv[p][r] THEN recv[p][r]
                                                                     ELSE Garbage]
        <5>2. f \in [Ranks -> Versions] /\ \A r \in Ranks : f[r] \in {last, Garbage}
          BY <3>1 DEF Versions
        <5>3. params' = [params EXCEPT ![p] = f]
          BY <1>5, <4>1 DEF InstallBegins
        <5>4. QED
          BY <5>2, <5>3
      <4>2. QED
        BY <1>5, <4>1 DEF InstallBegins
    <3>3. CASE params' = params
      BY <2>1, <3>3
    <3>4. ASSUME NEW f \in [Ranks -> Versions], \A r \in Ranks : f[r] \in {last, Garbage},
                 params' = [params EXCEPT ![p] = f]
          PROVE  Promise!Install(p)
      <4>1. Version(f) \in {last, Garbage}
        BY <3>1, <3>4, VersionOfParts
      <4>2. [q \in Replicas |-> Version(params'[q])]
              = [[q \in Replicas |-> Version(params[q])] EXCEPT ![p] = Version(f)]
        BY <3>4 DEF Sound, TypeOK
      <4>3. QED
        BY <2>1, <2>3, <4>1, <4>2 DEF Promise!Install, Promise!Torn, Garbage
    <3>5. QED
      BY <3>2, <3>3, <3>4 DEF Promise!Next
  <2>4. QED
    BY <2>2, <2>3
<1>6. ASSUME NEW p \in Replicas, InstallEnds(p) PROVE [Promise!Next]_Promise!vars
  <2>1. UNCHANGED <<last, tag, generating>> /\ rpc[p] \in {"install", "installing"}
    BY <1>6 DEF InstallEnds
  <2>2. CASE generating[p]
    <3>1. params[p] = recv[p]
      BY <2>1, <2>2 DEF Sound, Rollout, InstallsQuietly
    <3>2. params' = params
      BY <1>6, <3>1 DEF InstallEnds, Sound, TypeOK
    <3>3. QED
      BY <2>1, <3>2
  <2>3. CASE ~generating[p]
    <3>1. /\ last \in Steps /\ recv[p] \in [Ranks -> Versions]
          /\ \A r \in Ranks : recv[p][r] \in {last, Garbage}
      BY <2>1 DEF Sound, Rollout, InstallsQuietly, Arrived, TypeOK
    <3>2. \/ params' = params
          \/ \E f \in [Ranks -> Versions] :
                /\ \A r \in Ranks : f[r] \in {last, Garbage}
                /\ params' = [params EXCEPT ![p] = f]
      BY <1>6, <3>1 DEF InstallEnds
    <3>3. CASE params' = params
      BY <2>1, <3>3
    <3>4. ASSUME NEW f \in [Ranks -> Versions], \A r \in Ranks : f[r] \in {last, Garbage},
                 params' = [params EXCEPT ![p] = f]
          PROVE  Promise!Install(p)
      <4>1. Version(f) \in {last, Garbage}
        BY <3>1, <3>4, VersionOfParts
      <4>2. [q \in Replicas |-> Version(params'[q])]
              = [[q \in Replicas |-> Version(params[q])] EXCEPT ![p] = Version(f)]
        BY <3>4 DEF Sound, TypeOK
      <4>3. QED
        BY <2>1, <2>3, <4>1, <4>2 DEF Promise!Install, Promise!Torn, Garbage
    <3>5. QED
      BY <3>2, <3>3, <3>4 DEF Promise!Next
  <2>4. QED
    BY <2>2, <2>3
<1>7. ASSUME NEW c \in Tails, TagReplicas(c) PROVE [Promise!Next]_Promise!vars
  <2>1. /\ at[c] = "installing" /\ job[c].step = last /\ last \in Steps
        /\ tag' = [q \in Replicas |-> IF q \in replicas THEN last ELSE tag[q]]
        /\ UNCHANGED <<last, generating, params>>
    BY <1>7 DEF TagReplicas, Installed, Sound, Control, SyncOf, TypeOK
  <2>2. ASSUME NEW q \in replicas, generating[q] PROVE Version(params[q]) = last
    <3>1. last = 0
      BY <2>1, <2>2 DEF Sound, Rollout, PausedWhileInstalling, Steps
    <3>2. params[q] = Whole(0)
      BY <3>1 DEF Sound, Control, SyncOf, Rollout, StartsEqual
    <3>3. QED
      BY <2>1, <3>1, <3>2, VersionOfWhole
  <2>3. Promise!Tag
    <3>1. tag' \in [Replicas -> Steps \cup {None}]
      BY <2>1 DEF Sound, TypeOK
    <3>2. QED
      BY <2>1, <2>2, <3>1 DEF Promise!Tag, None, Promise!None
  <2>4. QED
    BY <2>3 DEF Promise!Next
<1>8. ASSUME NEW c \in Tails, ResumeRollout(c) PROVE [Promise!Next]_Promise!vars
  <2>1. /\ at[c] = "parity" /\ UNCHANGED <<last, tag, params>>
        /\ generating' = [q \in Replicas |-> generating[q] \/ q \in replicas]
    BY <1>8 DEF ResumeRollout
  <2>2. ASSUME NEW q \in replicas PROVE Version(params[q]) = tag[q]
    <3>1. recv[q] = Whole(last) /\ params[q] = recv[q] /\ tag[q] = last
      BY <1>8, <2>1, ParityShows DEF ResumeRollout, Sound, Control, Rollout, InstalledAll
    <3>2. QED
      BY <3>1, VersionOfWhole DEF Sound, TypeOK
  <2>3. Promise!Resume
    BY <2>1, <2>2 DEF Promise!Resume
  <2>4. QED
    BY <2>3 DEF Promise!Next
<1> QED
  BY <1>1, <1>2, <1>3, <1>4, <1>5, <1>6, <1>7, <1>8 DEF Next, Loop, Progress, Upset, Stopped, Driver,
     Rank, Tail, Worker, vars, run, tailv, trainer, wire, Train, Relayout, RemoveReplica,
     BeginWait, BeginSync, WaitDone, JoinFails, SendFails, TailInCaller, TailInBackground, Bind, Recreate, CopiedToHost, Return,
     RankFails, ReleaseBuffers, InitRollout, WorkerInit, InitDone, CallFails, Barrier,
     BarrierTimesOut, ReadDevice, PushShard, TransferFails, TransferDone, InstallFails,
     ParityFails, TailEnds

\* The tpu-sync weight sync implements what any weight sync promises.
THEOREM PromiseKept == ASSUME FaultsCovered PROVE Spec => ImplementsPromise
  BY PromiseInit, PromiseStep, SoundHolds, PTL DEF Spec, ImplementsPromise, Promise!Spec
================================================================================
