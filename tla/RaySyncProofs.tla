----------------------------- MODULE RaySyncProofs -----------------------------
(***************************************************************************)
(* Theorems about RaySync, for every set of workers and hosts, every       *)
(* number of steps and every set of faults: its types, that the lock file  *)
(* gives each host one writer, that the caches hold nothing of other       *)
(* weights after a sync, and, without the faults of Excluded, that a       *)
(* replica serves the weights that its tag says.                           *)
(***************************************************************************)
EXTENDS RaySync, FiniteSetTheorems, TLAPS

\* A set of one element at most has that cardinality.
LEMMA SmallSets == Cardinality({}) <= 1 /\ \A x : Cardinality({x}) <= 1
<1>1. Cardinality({}) = 0 /\ \A x : Cardinality({x}) = 1
  BY FS_EmptySet, FS_Singleton
<1>2. QED
  BY <1>1

\* A set without two different members has one at most.
LEMMA AtMostOne == ASSUME NEW S, \A x, y \in S : x = y PROVE Cardinality(S) <= 1
<1>1. CASE S = {}
  BY <1>1, SmallSets
<1>2. CASE S # {}
  <2>1. PICK x \in S : TRUE
    BY <1>2
  <2>2. S = {x}
    BY <2>1
  <2>3. QED
    BY <2>2, SmallSets
<1>3. QED
  BY <1>1, <1>2

\* The types hold at first.
LEMMA TypeInit == Init => TypeOK
  BY SmallSets, BoundsAssumption
  DEF Init, TypeOK, NoFiles, None, Garbage, Steps, Contents, MasterPlaces

\* A fault stays within the bound.
LEMMA FaultType == ASSUME NEW kind, Fault(kind), faults \in 0..MaxFaults
                   PROVE  faults' \in 0..MaxFaults
  BY BoundsAssumption DEF Fault

\* What a replica holds is a content of a file.
LEMMA HoldsType == ASSUME NEW p \in Replicas PROVE Holds(p) \in Contents
  BY DEF Holds, Contents

\* Every worker is on a host.
LEMMA HostType == ASSUME NEW w \in Workers PROVE HostOf[w] \in Hosts
  BY WorkersAssumption

\* Every step keeps the types.
LEMMA TypeStep == TypeOK /\ [Next]_vars => TypeOK'
<1> SUFFICES ASSUME TypeOK, [Next]_vars PROVE TypeOK'
  OBVIOUS
<1> USE DEF TypeOK
<1>1. CASE Train
  BY <1>1, BoundsAssumption DEF Steps, Train, disk, workers, servers
<1>2. CASE AbortReplicas
  <2>1. faults' \in 0..MaxFaults
    BY <1>2, FaultType DEF AbortReplicas
  <2>2. QED
    BY <1>2, <2>1 DEF AbortReplicas, disk, workers
<1>3. CASE SendWeights
  <2>1. faults' \in 0..MaxFaults
    BY <1>3, FaultType DEF SendWeights
  <2>2. Cardinality(registry') <= 1 /\ registry' \subseteq Steps
    BY <1>3, SmallSets DEF SendWeights, Registered
  <2>3. QED
    BY <1>3, <2>1, <2>2 DEF SendWeights, disk, workers, servers
<1>4. CASE CallWorkers
  BY <1>4 DEF CallWorkers, disk, servers
<1>5. CASE LoadRaises
  BY <1>5 DEF LoadRaises, disk, workers, servers
<1>6. CASE Tag
  BY <1>6 DEF Tag, Cleared, disk, workers
<1>7. CASE Finish
  <2>1. faults' \in 0..MaxFaults
    BY <1>7, FaultType DEF Finish
  <2>2. Cardinality(registry') <= 1 /\ registry' \subseteq Steps
    BY <1>7, SmallSets DEF Finish
  <2>3. QED
    BY <1>7, <2>1, <2>2 DEF Finish, disk, workers
<1>8. ASSUME NEW w \in Workers, TakeLock(w) PROVE TypeOK'
  <2>1. locks' \in [Hosts -> SUBSET Steps]
    BY <1>8, HostType DEF TakeLock
  <2>2. at' = [at EXCEPT ![w] = "wait"] \/ at' = [at EXCEPT ![w] = "clean"]
    BY <1>8 DEF TakeLock, Goto
  <2>3. QED
    BY <1>8, <2>1, <2>2 DEF TakeLock, MasterPlaces, servers
<1>9. ASSUME NEW w \in Workers, Clean(w) PROVE TypeOK'
  BY <1>9, HostType DEF Clean, Goto, MasterPlaces, FilesKept, LocksKept, Contents, servers
<1>10. ASSUME NEW w \in Workers, Fetch(w) PROVE TypeOK'
  BY <1>10, HostType DEF Fetch, Goto, MasterPlaces, Unlocked, servers
<1>11. ASSUME NEW w \in Workers, Save(w) PROVE TypeOK'
  BY <1>11, HostType DEF Save, Goto, MasterPlaces, Contents, servers
<1>12. ASSUME NEW w \in Workers, MarkReady(w) PROVE TypeOK'
  BY <1>12, HostType DEF MarkReady, Goto, MasterPlaces, servers
<1>13. ASSUME NEW w \in Workers, Unlock(w) PROVE TypeOK'
  BY <1>13, HostType DEF Unlock, Goto, Unlocked, servers
<1>14. ASSUME NEW w \in Workers, SeeReady(w) PROVE TypeOK'
  BY <1>14 DEF SeeReady, Goto, disk, servers
<1>15. ASSUME NEW w \in Workers, TimeOut(w) PROVE TypeOK'
  <2>1. faults' \in 0..MaxFaults
    BY <1>15, FaultType DEF TimeOut, GivesUp
  <2>2. QED
    BY <1>15, <2>1 DEF TimeOut, Goto, disk, servers
<1>16. ASSUME NEW w \in Workers, Map(w) PROVE TypeOK'
  <2>1. pt[HostOf[w]][trained] \in Contents
    BY HostType
  <2>2. QED
    BY <1>16, <2>1 DEF Map, Goto, Contents, disk, servers
<1>17. ASSUME NEW w \in Workers, Copied(w) PROVE TypeOK'
  BY <1>17 DEF Copied, Goto, Contents, disk, servers
<1>18. ASSUME NEW w \in Workers, WorkerFails(w) PROVE TypeOK'
  <2>1. faults' \in 0..MaxFaults
    BY <1>18, FaultType DEF WorkerFails
  <2>2. locks' \in [Hosts -> SUBSET Steps]
    BY <1>18, HostType DEF WorkerFails, Unlocked
  <2>3. QED
    BY <1>18, <2>1, <2>2 DEF WorkerFails, Goto, servers
<1>19. ASSUME NEW p \in Replicas, Generate(p) PROVE TypeOK'
  BY <1>19, HoldsType DEF Generate, disk, workers
<1>20. CASE Restart
  <2>1. faults' \in 0..MaxFaults
    BY <1>20, FaultType DEF Restart
  <2>2. trained' \in Steps /\ pt' \in [Hosts -> [Steps -> Contents]]
    BY <1>20, BoundsAssumption DEF Restart, Steps, Contents, None, Garbage
  <2>3. QED
    BY <1>20, <2>1, <2>2, SmallSets DEF Restart, MasterPlaces, Contents
<1>21. CASE UNCHANGED vars
  BY <1>21 DEF vars, disk, workers, servers
<1>22. QED
  BY <1>1, <1>2, <1>3, <1>4, <1>5, <1>6, <1>7, <1>8, <1>9, <1>10, <1>11, <1>12, <1>13, <1>14,
     <1>15, <1>16, <1>17, <1>18, <1>19, <1>20, <1>21
  DEF Next, Progress, Driver, Worker, Stopped

\* The types hold in every state; the registry holds one step at most.
THEOREM TypeCorrect == Spec => []TypeOK
  BY TypeInit, TypeStep, PTL DEF Spec

--------------------------------------------------------------------------------

\* Why there is one writer: a master has the lock of the running step, no two
\* masters share a host, and outside the load no worker is at work, so that
\* the step does not change under a master.
Locked ==
    /\ \A w \in Workers : at[w] \in MasterPlaces => trained \in locks[HostOf[w]]
    /\ \A v, w \in Workers :
          at[v] \in MasterPlaces /\ at[w] \in MasterPlaces /\ HostOf[v] = HostOf[w] => v = w
    /\ pc \in {"train", "trained", "send", "sent", "tagged"} => Quiet

\* At first nobody has a lock.
LEMMA LockedInit == Init => Locked
  BY DEF Init, Locked, Quiet, MasterPlaces

\* A master that goes to another place of its work keeps it; one that leaves
\* gives its lock back or not.
LEMMA LockedMove ==
    ASSUME TypeOK, Locked, NEW w \in Workers, at[w] \in MasterPlaces, NEW place,
           at' = [at EXCEPT ![w] = place], pc' = pc, trained' = trained,
           \/ UNCHANGED locks
           \/ place \notin MasterPlaces /\ locks' = Unlocked(w)
    PROVE  Locked'
<1>1. ~(pc \in {"train", "trained", "send", "sent", "tagged"})
  BY DEF Locked, Quiet, MasterPlaces
<1>2. \A v \in Workers : v # w => at'[v] = at[v]
  BY DEF TypeOK
<1>3. at'[w] = place
  BY DEF TypeOK
<1>4. \A v \in Workers : at'[v] \in MasterPlaces => at[v] \in MasterPlaces
  BY <1>2
<1>5. ASSUME NEW v \in Workers, at'[v] \in MasterPlaces PROVE trained \in locks'[HostOf[v]]
  <2>1. trained \in locks[HostOf[v]]
    BY <1>4, <1>5 DEF Locked
  <2>2. CASE UNCHANGED locks
    BY <2>1, <2>2
  <2>3. CASE place \notin MasterPlaces /\ locks' = Unlocked(w)
    <3>1. v # w
      BY <1>3, <1>5, <2>3
    <3>2. HostOf[v] # HostOf[w]
      BY <1>4, <1>5, <3>1 DEF Locked
    <3>3. QED
      BY <2>1, <2>3, <3>2, HostType DEF Unlocked, TypeOK
  <2>4. QED
    BY <2>2, <2>3
<1>6. QED
  BY <1>1, <1>4, <1>5 DEF Locked

\* Every step keeps it.
LEMMA LockedStep == TypeOK /\ Locked /\ [Next]_vars => Locked'
<1> SUFFICES ASSUME TypeOK, Locked, [Next]_vars PROVE Locked'
  OBVIOUS
<1> USE DEF TypeOK, Locked, Quiet, MasterPlaces
<1>1. CASE Train
  BY <1>1 DEF Train, disk, workers
<1>2. CASE AbortReplicas
  BY <1>2 DEF AbortReplicas, disk, workers
<1>3. CASE SendWeights
  BY <1>3 DEF SendWeights, disk, workers
<1>4. CASE CallWorkers
  BY <1>4 DEF CallWorkers, disk
<1>5. CASE LoadRaises
  BY <1>5 DEF LoadRaises, disk, workers
<1>6. CASE Tag
  BY <1>6 DEF Tag, disk, workers
<1>7. CASE Finish
  BY <1>7 DEF Finish, disk, workers
<1>8. ASSUME NEW w \in Workers, TakeLock(w) PROVE Locked'
  <2>1. CASE trained \in locks[HostOf[w]]
    BY <1>8, <2>1 DEF TakeLock, Goto
  <2>2. CASE trained \notin locks[HostOf[w]]
    <3>1. \A v \in Workers : at[v] \in MasterPlaces => HostOf[v] # HostOf[w]
      BY <2>2
    <3>2. /\ at' = [at EXCEPT ![w] = "clean"] /\ pc' = pc /\ trained' = trained
          /\ locks' = [locks EXCEPT ![HostOf[w]] = locks[HostOf[w]] \cup {trained}]
      BY <1>8, <2>2 DEF TakeLock, Goto
    <3>3. pc \notin {"train", "trained", "send", "sent", "tagged"}
      BY <1>8 DEF TakeLock
    <3>4. QED
      BY <3>1, <3>2, <3>3, HostType
  <2>3. QED
    BY <2>1, <2>2
<1>9. ASSUME NEW w \in Workers, Clean(w) PROVE Locked'
  BY <1>9, HostType DEF Clean, Goto, LocksKept
<1>10. ASSUME NEW w \in Workers, Fetch(w) PROVE Locked'
  <2>1. CASE trained \in registry
    BY <1>10, <2>1, LockedMove DEF Fetch, Goto
  <2>2. CASE trained \notin registry
    <3>1. /\ at[w] \in MasterPlaces /\ at' = [at EXCEPT ![w] = "done"]
          /\ pc' = pc /\ trained' = trained /\ locks' = Unlocked(w)
      BY <1>10, <2>2 DEF Fetch, Goto
    <3>2. "done" \notin MasterPlaces
      OBVIOUS
    <3>3. QED
      BY ONLY <3>1, <3>2, LockedMove, TypeOK, Locked, w \in Workers
  <2>3. QED
    BY <2>1, <2>2
<1>11. ASSUME NEW w \in Workers, Save(w) PROVE Locked'
  BY <1>11 DEF Save, Goto
<1>12. ASSUME NEW w \in Workers, MarkReady(w) PROVE Locked'
  BY <1>12 DEF MarkReady, Goto
<1>13. ASSUME NEW w \in Workers, Unlock(w) PROVE Locked'
  <2>1. /\ at[w] \in MasterPlaces /\ at' = [at EXCEPT ![w] = "map"]
        /\ pc' = pc /\ trained' = trained /\ locks' = Unlocked(w)
    BY <1>13 DEF Unlock, Goto
  <2>2. "map" \notin MasterPlaces
    OBVIOUS
  <2>3. QED
    BY ONLY <2>1, <2>2, LockedMove, TypeOK, Locked, w \in Workers
<1>14. ASSUME NEW w \in Workers, SeeReady(w) PROVE Locked'
  BY <1>14 DEF SeeReady, Goto, disk
<1>15. ASSUME NEW w \in Workers, TimeOut(w) PROVE Locked'
  BY <1>15 DEF TimeOut, Goto, disk
<1>16. ASSUME NEW w \in Workers, Map(w) PROVE Locked'
  BY <1>16 DEF Map, Goto, disk
<1>17. ASSUME NEW w \in Workers, Copied(w) PROVE Locked'
  BY <1>17 DEF Copied, Goto, disk
<1>18. ASSUME NEW w \in Workers, WorkerFails(w) PROVE Locked'
  BY <1>18, HostType DEF WorkerFails, Goto, Unlocked
<1>19. ASSUME NEW p \in Replicas, Generate(p) PROVE Locked'
  BY <1>19 DEF Generate, disk, workers
<1>20. CASE Restart
  BY <1>20 DEF Restart
<1>21. CASE UNCHANGED vars
  BY <1>21 DEF vars, disk, workers
<1>22. QED
  BY <1>1, <1>2, <1>3, <1>4, <1>5, <1>6, <1>7, <1>8, <1>9, <1>10, <1>11, <1>12, <1>13, <1>14,
     <1>15, <1>16, <1>17, <1>18, <1>19, <1>20, <1>21
  DEF Next, Progress, Driver, Worker, Stopped

\* Locked gives OneWriterPerHost: two masters of a host would hold one lock.
LEMMA LockedSuffices == Locked => OneWriterPerHost
<1> SUFFICES ASSUME Locked, NEW h \in Hosts PROVE Cardinality(Masters(h)) <= 1
  BY DEF OneWriterPerHost
<1>1. \A v, w \in Masters(h) : v = w
  BY DEF Locked, Masters
<1>2. QED
  BY <1>1, AtMostOne

\* No two workers of a host write the shared file at the same time, whoever
\* dies, gives up or is restarted.
THEOREM OneWriter == Spec => []OneWriterPerHost
<1>1. Init => Locked
  BY LockedInit
<1>2. TypeOK /\ Locked /\ [Next]_vars => Locked'
  BY LockedStep
<1>3. Locked => OneWriterPerHost
  BY LockedSuffices
<1>4. QED
  BY <1>1, <1>2, <1>3, TypeCorrect, PTL DEF Spec
--------------------------------------------------------------------------------

\* What makes a sync deliver its own step on every host, as long as workers
\* wait for the file (no "slow"), none dies in the middle of its work ("crash",
\* "kill"), the aborts succeed, and the files are of this model.

\* A file of a step up to this one holds that step, and a step is ready only
\* with its file.
Files ==
    \A w \in Workers, s \in Steps :
        /\ s <= trained => pt[HostOf[w]][s] \in {None, s}
        /\ s \in ready[HostOf[w]] => pt[HostOf[w]][s] # None

\* What a worker has done at its place; a lock belongs to a master at work.
Places ==
    \A w \in Workers :
        /\ at[w] \in {"mark", "unlock"} => pt[HostOf[w]][trained] = trained
        /\ at[w] = "unlock" => trained \in ready[HostOf[w]]
        /\ at[w] = "copy" => held[w] = trained
        /\ locks[HostOf[w]] \subseteq {trained}
        /\ trained \in locks[HostOf[w]] => Masters(HostOf[w]) # {}

\* No file of another step is on host h.
Tidy(h) == \A s \in Steps : s # trained => pt[h][s] = None
Served(h) == pt[h][trained] = trained /\ trained \in ready[h]

\* During a load in which no worker has failed, whoever has begun finds a host
\* without files of other steps, or one that is about to be; a worker that
\* waits has a master or the file; whoever maps the file finds it; and whoever
\* is done holds the step.
OnCourse(w) ==
    /\ at[w] # "idle"
    /\ at[w] # "called" =>
         Tidy(HostOf[w]) \/ \E v \in Workers : HostOf[v] = HostOf[w] /\ at[v] = "clean"
    /\ at[w] = "wait" => Served(HostOf[w]) \/ Masters(HostOf[w]) # {}
    /\ at[w] \in {"map", "copy"} => pt[HostOf[w]][trained] = trained
    /\ at[w] = "done" => params[w] = trained
Unharmed == \A w \in Workers : at[w] # "error"
Loading == pc = "load" => /\ trained \in registry
                          /\ Unharmed => \A w \in Workers : OnCourse(w)

\* After a load every worker holds the step of the tags; the rollout is paused
\* during a sync, except at step 0.
After ==
    /\ pc \in {"tagged", "train"} =>
         /\ \A w \in Workers : params[w] = trained /\ Tidy(HostOf[w])
         /\ \A p \in Replicas : tag[p] = trained
    /\ pc = "trained" =>
         \A w \in Workers : tag[ReplicaOf[w]] # None => params[w] = tag[ReplicaOf[w]]
    /\ trained > 0 /\ pc \in {"send", "sent", "load", "tagged", "failed"} =>
         \A p \in Replicas : ~generating[p]

Delivery == Files /\ Places /\ Loading /\ After

\* The faults that the theorem leaves out.
Excluded == {"slow", "crash", "kill", "newjob", "abort"}

\* Delivery holds at first: nothing is on its way.
LEMMA DeliveryInit == Init => Delivery
<1> SUFFICES ASSUME Init PROVE Delivery
  OBVIOUS
<1>1. Files
  BY HostType DEF Init, Files, NoFiles, Steps, None
<1>2. Places
  BY HostType DEF Init, Places
<1>3. Loading /\ After
  BY WorkersAssumption DEF Init, Loading, After
<1>4. QED
  BY <1>1, <1>2, <1>3 DEF Delivery

\* Train needs the hosts tidy, MarkReady the file.
LEMMA FilesStep ==
    ASSUME TypeOK, Locked, Delivery, [Next]_vars, FaultKinds \cap Excluded = {}
    PROVE  Files'
<1> USE BoundsAssumption DEF TypeOK, Delivery, Files, Steps, None, Garbage, Excluded
<1>1. CASE Train
  BY <1>1 DEF Train, disk, After, Tidy, Steps
<1>2. CASE AbortReplicas
  BY <1>2 DEF AbortReplicas, disk
<1>3. CASE SendWeights
  BY <1>3 DEF SendWeights, disk
<1>4. CASE CallWorkers
  BY <1>4 DEF CallWorkers, disk
<1>5. CASE LoadRaises
  BY <1>5 DEF LoadRaises, disk
<1>6. CASE Tag
  BY <1>6 DEF Tag, disk
<1>7. CASE Finish
  BY <1>7 DEF Finish, disk
<1>8. ASSUME NEW w \in Workers, TakeLock(w) PROVE Files'
  BY <1>8 DEF TakeLock
<1>9. ASSUME NEW w \in Workers, Clean(w) PROVE Files'
  BY <1>9, HostType DEF Clean, FilesKept
<1>10. ASSUME NEW w \in Workers, Fetch(w) PROVE Files'
  BY <1>10 DEF Fetch
<1>11. ASSUME NEW w \in Workers, Save(w) PROVE Files'
  BY <1>11, HostType DEF Save
<1>12. ASSUME NEW w \in Workers, MarkReady(w) PROVE Files'
  BY <1>12, HostType DEF MarkReady, Places
<1>13. ASSUME NEW w \in Workers, Unlock(w) PROVE Files'
  BY <1>13 DEF Unlock
<1>14. ASSUME NEW w \in Workers, SeeReady(w) PROVE Files'
  BY <1>14 DEF SeeReady, disk
<1>15. ASSUME NEW w \in Workers, TimeOut(w) PROVE Files'
  BY <1>15 DEF TimeOut, disk
<1>16. ASSUME NEW w \in Workers, Map(w) PROVE Files'
  BY <1>16 DEF Map, disk
<1>17. ASSUME NEW w \in Workers, Copied(w) PROVE Files'
  BY <1>17 DEF Copied, disk
<1>18. ASSUME NEW w \in Workers, WorkerFails(w) PROVE Files'
  BY <1>18 DEF WorkerFails
<1>19. ASSUME NEW p \in Replicas, Generate(p) PROVE Files'
  BY <1>19 DEF Generate, disk
<1>20. CASE Restart
  BY <1>20, HostType DEF Restart
<1>21. CASE UNCHANGED vars
  BY <1>21 DEF vars, disk
<1>22. QED
  BY <1>1, <1>2, <1>3, <1>4, <1>5, <1>6, <1>7, <1>8, <1>9, <1>10, <1>11, <1>12, <1>13, <1>14,
     <1>15, <1>16, <1>17, <1>18, <1>19, <1>20, <1>21
  DEF Next, Progress, Driver, Worker, Stopped

\* Nobody at work leaves no lock.
LEMMA QuietUnlocked ==
    ASSUME TypeOK, Places, Quiet PROVE \A w \in Workers : locks[HostOf[w]] = {}
<1> SUFFICES ASSUME NEW w \in Workers PROVE locks[HostOf[w]] = {}
  OBVIOUS
<1>1. Masters(HostOf[w]) = {}
  BY DEF Quiet, Masters, MasterPlaces
<1>2. QED
  BY <1>1 DEF Places

\* A master that leaves and gives its lock back leaves a host without a lock.
LEMMA PlacesUnlock ==
    ASSUME TypeOK, Locked, Places, NEW w \in Workers, at[w] \in MasterPlaces,
           NEW place \in {"done", "map", "error"}, at' = [at EXCEPT ![w] = place],
           trained' = trained, pt' = pt, ready' = ready, held' = held, locks' = Unlocked(w)
    PROVE  Places'
<1>1. \A v \in Workers : HostOf[v] = HostOf[w] => locks'[HostOf[v]] = {}
  BY HostType DEF Unlocked, Places, TypeOK
<1>2. ASSUME NEW v \in Workers, HostOf[v] # HostOf[w]
      PROVE  locks'[HostOf[v]] = locks[HostOf[v]] /\ Masters(HostOf[v])' = Masters(HostOf[v])
  <2>1. \A u \in Workers : HostOf[u] = HostOf[v] => at'[u] = at[u]
    BY <1>2 DEF TypeOK
  <2>2. QED
    BY <1>2, <2>1, HostType DEF Unlocked, Masters, TypeOK
<1>3. \A v \in Workers : at'[v] \in {"mark", "unlock", "copy"} => at'[v] = at[v]
  BY DEF TypeOK
<1>4. QED
  BY <1>1, <1>2, <1>3 DEF Places

\* Every step keeps Places: what a worker has done where it is.
LEMMA PlacesStep ==
    ASSUME TypeOK, Locked, Delivery, [Next]_vars, FaultKinds \cap Excluded = {}
    PROVE  Places'
<1> USE DEF TypeOK, Locked, Delivery, Places, Masters, Excluded
<1>1. CASE Train
  <2>1. Quiet
    BY <1>1 DEF Train
  <2>2. \A w \in Workers : locks'[HostOf[w]] = {} /\ at'[w] \in {"idle", "done", "error"}
    BY <1>1, <2>1, QuietUnlocked DEF Train, disk, workers, Quiet
  <2>3. QED
    BY <2>2
<1>2. CASE AbortReplicas
  BY <1>2 DEF AbortReplicas, disk, workers
<1>3. CASE SendWeights
  BY <1>3 DEF SendWeights, disk, workers
<1>4. CASE CallWorkers
  BY <1>4 DEF CallWorkers, disk, Quiet, MasterPlaces
<1>5. CASE LoadRaises
  BY <1>5 DEF LoadRaises, disk, workers
<1>6. CASE Tag
  BY <1>6 DEF Tag, disk, workers
<1>7. CASE Finish
  BY <1>7 DEF Finish, disk, workers
<1>8. ASSUME NEW w \in Workers, TakeLock(w) PROVE Places'
  BY <1>8, HostType DEF TakeLock, Goto, MasterPlaces
<1>9. ASSUME NEW w \in Workers, Clean(w) PROVE Places'
  BY <1>9, HostType DEF Clean, Goto, FilesKept, LocksKept, MasterPlaces
<1>10. ASSUME NEW w \in Workers, Fetch(w) PROVE Places'
  <2>1. /\ at[w] = "fetch"
        /\ trained' = trained /\ pt' = pt /\ ready' = ready /\ held' = held
    BY <1>10 DEF Fetch
  <2>2. CASE trained \in registry
    <3>1. at' = [at EXCEPT ![w] = "save"] /\ locks' = locks
      BY <1>10, <2>2 DEF Fetch, Goto
    <3>2. \A h : Masters(h)' = Masters(h)
      <4>1. \A v \in Workers : at'[v] \in MasterPlaces <=> at[v] \in MasterPlaces
        BY <2>1, <3>1 DEF MasterPlaces
      <4>2. QED
        BY <4>1
    <3>3. \A v \in Workers : at'[v] \in {"mark", "unlock", "copy"} => at'[v] = at[v]
      BY <3>1
    <3>4. QED
      BY ONLY <2>1, <3>1, <3>2, <3>3, Places DEF Places
  <2>3. CASE trained \notin registry
    <3>1. at' = [at EXCEPT ![w] = "done"] /\ locks' = Unlocked(w)
      BY <1>10, <2>3 DEF Fetch, Goto
    <3>2. at[w] \in MasterPlaces
      BY <2>1 DEF MasterPlaces
    <3>3. QED
      BY ONLY <2>1, <3>1, <3>2, PlacesUnlock, TypeOK, Locked, Places, w \in Workers
  <2>4. QED
    BY <2>2, <2>3
<1>11. ASSUME NEW w \in Workers, Save(w) PROVE Places'
  BY <1>11, HostType DEF Save, Goto, MasterPlaces
<1>12. ASSUME NEW w \in Workers, MarkReady(w) PROVE Places'
  BY <1>12, HostType DEF MarkReady, Goto, MasterPlaces
<1>13. ASSUME NEW w \in Workers, Unlock(w) PROVE Places'
  <2>1. /\ at[w] \in MasterPlaces /\ at' = [at EXCEPT ![w] = "map"]
        /\ trained' = trained /\ pt' = pt /\ ready' = ready /\ held' = held
        /\ locks' = Unlocked(w)
    BY <1>13 DEF Unlock, Goto, MasterPlaces
  <2>2. QED
    BY ONLY <2>1, PlacesUnlock, TypeOK, Locked, Places, w \in Workers
<1>14. ASSUME NEW w \in Workers, SeeReady(w) PROVE Places'
  <2>1. /\ at' = [at EXCEPT ![w] = "map"] /\ at[w] = "wait"
        /\ UNCHANGED <<trained, pt, ready, locks, held>>
    BY <1>14 DEF SeeReady, Goto, disk
  <2>2. \A v \in Workers : at'[v] \in MasterPlaces <=> at[v] \in MasterPlaces
    BY <2>1 DEF MasterPlaces
  <2>3. \A h : Masters(h)' = Masters(h)
    BY <2>2
  <2>4. \A v \in Workers : at'[v] \in {"mark", "unlock", "copy"} => at'[v] = at[v]
    BY <2>1
  <2>5. QED
    BY ONLY <2>1, <2>3, <2>4, Places DEF Places
<1>15. ASSUME NEW w \in Workers, TimeOut(w) PROVE Places'
  <2>1. /\ at' = [at EXCEPT ![w] = "map"] /\ at[w] = "wait"
        /\ UNCHANGED <<trained, pt, ready, locks, held>>
    BY <1>15 DEF TimeOut, Goto, disk
  <2>2. \A v \in Workers : at'[v] \in MasterPlaces <=> at[v] \in MasterPlaces
    BY <2>1 DEF MasterPlaces
  <2>3. \A h : Masters(h)' = Masters(h)
    BY <2>2
  <2>4. \A v \in Workers : at'[v] \in {"mark", "unlock", "copy"} => at'[v] = at[v]
    BY <2>1
  <2>5. QED
    BY ONLY <2>1, <2>3, <2>4, Places DEF Places
<1>16. ASSUME NEW w \in Workers, Map(w) PROVE Places'
  BY <1>16, HostType DEF Map, Goto, disk, MasterPlaces, Files, Steps
<1>17. ASSUME NEW w \in Workers, Copied(w) PROVE Places'
  BY <1>17 DEF Copied, Goto, disk, MasterPlaces
<1>18. ASSUME NEW w \in Workers, WorkerFails(w) PROVE Places'
  <2>1. at' = [at EXCEPT ![w] = "error"] /\ UNCHANGED <<trained, pt, ready, held>>
    BY <1>18 DEF WorkerFails, Goto
  <2>2. CASE at[w] \in {"fetch", "save", "mark"} /\ locks' = Unlocked(w)
    <3>1. at[w] \in MasterPlaces
      BY <2>2 DEF MasterPlaces
    <3>2. QED
      BY ONLY <2>1, <2>2, <3>1, PlacesUnlock, TypeOK, Locked, Places, w \in Workers
  <2>3. CASE at[w] = "copy" /\ UNCHANGED locks
    <3>1. \A v \in Workers : at'[v] \in MasterPlaces <=> at[v] \in MasterPlaces
      BY <2>1, <2>3 DEF MasterPlaces
    <3>2. \A h : Masters(h)' = Masters(h)
      BY <3>1
    <3>3. \A v \in Workers : at'[v] \in {"mark", "unlock", "copy"} => at'[v] = at[v]
      BY <2>1
    <3>4. QED
      BY ONLY <2>1, <2>3, <3>2, <3>3, Places DEF Places
  <2>4. QED
    BY <1>18, <2>2, <2>3 DEF WorkerFails, Fault
<1>19. ASSUME NEW p \in Replicas, Generate(p) PROVE Places'
  BY <1>19 DEF Generate, disk, workers
<1>20. CASE Restart
  <2>1. Quiet
    BY <1>20 DEF Restart, Fault
  <2>2. \A w \in Workers : locks'[HostOf[w]] = {} /\ at'[w] = "idle"
    BY <1>20, <2>1, QuietUnlocked DEF Restart
  <2>3. QED
    BY <2>2
<1>21. CASE UNCHANGED vars
  BY <1>21 DEF vars, disk, workers
<1>22. QED
  BY <1>1, <1>2, <1>3, <1>4, <1>5, <1>6, <1>7, <1>8, <1>9, <1>10, <1>11, <1>12, <1>13, <1>14,
     <1>15, <1>16, <1>17, <1>18, <1>19, <1>20, <1>21
  DEF Next, Progress, Driver, Worker, Stopped

\* Every step keeps Loading: a load is on course while nobody is harmed.
LEMMA LoadingStep ==
    ASSUME TypeOK, Locked, Delivery, [Next]_vars, FaultKinds \cap Excluded = {}
    PROVE  Loading'
<1> USE DEF TypeOK, Locked, Delivery, Places, Loading, Unharmed, OnCourse, Masters, Tidy, Served
<1>1. CASE Train
  BY <1>1 DEF Train
<1>2. CASE AbortReplicas
  BY <1>2 DEF AbortReplicas
<1>3. CASE SendWeights
  BY <1>3 DEF SendWeights
<1>4. CASE CallWorkers
  BY <1>4 DEF CallWorkers, disk
<1>5. CASE LoadRaises
  BY <1>5 DEF LoadRaises
<1>6. CASE Tag
  BY <1>6 DEF Tag
<1>7. CASE Finish
  BY <1>7 DEF Finish
<1>8. ASSUME NEW w \in Workers, TakeLock(w) PROVE Loading'
  <2>1. SUFFICES ASSUME pc = "load", Unharmed, NEW x \in Workers PROVE OnCourse(x)'
    BY <1>8 DEF TakeLock, Goto
  <2>2. CASE trained \in locks[HostOf[w]]
    <3>1. Masters(HostOf[w]) # {}
      BY <2>2
    <3>2. /\ at' = [at EXCEPT ![w] = "wait"] /\ at[w] = "called"
          /\ UNCHANGED <<trained, pt, ready, params>>
      BY <1>8, <2>2 DEF TakeLock, Goto
    <3>3. Masters(HostOf[w])' # {}
      BY <3>1, <3>2 DEF MasterPlaces
    <3>4. PICK v \in Workers : HostOf[v] = HostOf[w] /\ at[v] \in MasterPlaces
      BY <3>1
    <3>5. Tidy(HostOf[w]) \/ at[v] = "clean"
      BY <2>1, <3>4 DEF MasterPlaces
    <3>6. v # w
      BY <3>2, <3>4 DEF MasterPlaces
    <3>7. CASE x = w
      BY <3>2, <3>3, <3>4, <3>5, <3>6, <3>7
    <3>8. CASE x # w
      BY <2>1, <3>2, <3>8 DEF MasterPlaces
    <3>9. QED
      BY <3>7, <3>8
  <2>3. CASE trained \notin locks[HostOf[w]]
    <3>1. /\ at' = [at EXCEPT ![w] = "clean"] /\ at[w] = "called"
          /\ UNCHANGED <<trained, pt, ready, params>>
      BY <1>8, <2>3 DEF TakeLock, Goto
    <3>2. CASE x = w
      BY <3>1, <3>2
    <3>3. CASE x # w
      BY <2>1, <3>1, <3>3 DEF MasterPlaces
    <3>4. QED
      BY <3>2, <3>3
  <2>4. QED
    BY <2>2, <2>3
<1>9. ASSUME NEW w \in Workers, Clean(w) PROVE Loading'
  <2>2. /\ at' = [at EXCEPT ![w] = "fetch"] /\ at[w] = "clean"
        /\ UNCHANGED <<pc, registry, trained, params>>
    BY <1>9 DEF Clean, Goto
  <2>1. SUFFICES ASSUME pc = "load", Unharmed, NEW x \in Workers PROVE OnCourse(x)'
    BY <2>2
  <2>3. /\ Tidy(HostOf[w])'
        /\ \A h \in Hosts : /\ Tidy(h) => Tidy(h)'
                            /\ Served(h) => Served(h)'
                            /\ pt'[h][trained] = pt[h][trained]
    BY <1>9, <2>2, HostType DEF Clean, FilesKept, None
  <2>4. \A v \in Workers : at'[v] \in MasterPlaces <=> at[v] \in MasterPlaces
    BY <2>2 DEF MasterPlaces
  <2>5. CASE HostOf[x] = HostOf[w]
    BY <2>1, <2>2, <2>3, <2>4, <2>5, HostType
  <2>6. CASE HostOf[x] # HostOf[w]
    <3>1. /\ x # w /\ at'[x] = at[x] /\ HostOf[x] \in Hosts
          /\ \A v \in Workers : HostOf[v] = HostOf[x] => at'[v] = at[v]
      BY <2>2, <2>6, HostType
    <3>2. /\ Tidy(HostOf[x]) => Tidy(HostOf[x])'
          /\ Served(HostOf[x]) => Served(HostOf[x])'
          /\ pt'[HostOf[x]][trained] = pt[HostOf[x]][trained]
          /\ trained' = trained /\ params' = params
      <4>1. trained' = trained /\ params' = params
        BY <2>2
      <4>2. HostOf[x] \in Hosts
        BY <3>1
      <4>3. QED
        BY ONLY <2>3, <4>1, <4>2
    <3>3. Masters(HostOf[x])' = Masters(HostOf[x])
      BY <2>4
    <3>4. OnCourse(x)
      BY <2>1
    <3>5. QED
      BY <3>1, <3>2, <3>3, <3>4
  <2>7. QED
    BY <2>5, <2>6
<1>10. ASSUME NEW w \in Workers, Fetch(w) PROVE Loading'
  <2>1. /\ at[w] = "fetch" /\ UNCHANGED <<pc, registry, trained, pt, ready, params>>
        /\ trained \in registry => at' = [at EXCEPT ![w] = "save"]
        /\ \A v \in Workers : v # w => at'[v] = at[v]
        /\ at'[w] # "error"
    BY <1>10 DEF Fetch, Goto
  <2>2. SUFFICES ASSUME pc = "load", Unharmed, NEW x \in Workers PROVE OnCourse(x)'
    BY <2>1
  <2>3. at' = [at EXCEPT ![w] = "save"]
    BY <2>1, <2>2
  <2>4. \A v \in Workers : at'[v] \in MasterPlaces <=> at[v] \in MasterPlaces
    BY <2>1, <2>3 DEF MasterPlaces
  <2>5. CASE x = w
    BY <2>1, <2>2, <2>3, <2>5
  <2>6. CASE x # w
    BY <2>1, <2>2, <2>3, <2>4, <2>6
  <2>7. QED
    BY <2>5, <2>6
<1>11. ASSUME NEW w \in Workers, Save(w) PROVE Loading'
  <2>1. SUFFICES ASSUME pc = "load", Unharmed, NEW x \in Workers PROVE OnCourse(x)'
    BY <1>11 DEF Save, Goto
  <2>2. /\ at' = [at EXCEPT ![w] = "mark"] /\ at[w] = "save"
        /\ UNCHANGED <<trained, ready, params>>
        /\ pt' = [pt EXCEPT ![HostOf[w]][trained] = trained]
    BY <1>11 DEF Save, Goto
  <2>3. \A h \in Hosts : /\ Tidy(h) => Tidy(h)'
                         /\ Served(h) => Served(h)'
                         /\ pt[h][trained] = trained => pt'[h][trained] = trained
    BY <2>2, HostType
  <2>4. \A v \in Workers : at'[v] \in MasterPlaces <=> at[v] \in MasterPlaces
    BY <2>2 DEF MasterPlaces
  <2>5. CASE x = w
    BY <2>1, <2>2, <2>3, <2>5, HostType
  <2>6. CASE x # w
    BY <2>1, <2>2, <2>3, <2>4, <2>6, HostType
  <2>7. QED
    BY <2>5, <2>6
<1>12. ASSUME NEW w \in Workers, MarkReady(w) PROVE Loading'
  <2>1. SUFFICES ASSUME pc = "load", Unharmed, NEW x \in Workers PROVE OnCourse(x)'
    BY <1>12 DEF MarkReady, Goto
  <2>2. /\ at' = [at EXCEPT ![w] = "unlock"] /\ at[w] = "mark"
        /\ UNCHANGED <<trained, pt, params>>
        /\ ready' = [ready EXCEPT ![HostOf[w]] = ready[HostOf[w]] \cup {trained}]
    BY <1>12 DEF MarkReady, Goto
  <2>3. \A h \in Hosts : Served(h) => Served(h)'
    BY <2>2, HostType
  <2>4. \A v \in Workers : at'[v] \in MasterPlaces <=> at[v] \in MasterPlaces
    BY <2>2 DEF MasterPlaces
  <2>5. CASE x = w
    BY <2>1, <2>2, <2>5
  <2>6. CASE x # w
    BY <2>1, <2>2, <2>3, <2>4, <2>6, HostType
  <2>7. QED
    BY <2>5, <2>6
<1>13. ASSUME NEW w \in Workers, Unlock(w) PROVE Loading'
  BY <1>13, HostType DEF Unlock, Goto, Unlocked, MasterPlaces
<1>14. ASSUME NEW w \in Workers, SeeReady(w) PROVE Loading'
  <2>1. SUFFICES ASSUME pc = "load", Unharmed, NEW x \in Workers PROVE OnCourse(x)'
    BY <1>14 DEF SeeReady, Goto
  <2>2. /\ at' = [at EXCEPT ![w] = "map"] /\ at[w] = "wait"
        /\ UNCHANGED <<trained, pt, ready, params>>
    BY <1>14 DEF SeeReady, Goto, disk
  <2>3. pt[HostOf[w]][trained] = trained
    BY <1>14 DEF SeeReady, Files, Steps
  <2>4. \A v \in Workers : at'[v] \in MasterPlaces <=> at[v] \in MasterPlaces
    BY <2>2 DEF MasterPlaces
  <2>5. CASE x = w
    BY <2>1, <2>2, <2>3, <2>5
  <2>6. CASE x # w
    BY <2>1, <2>2, <2>4, <2>6
  <2>7. QED
    BY <2>5, <2>6
<1>15. ASSUME NEW w \in Workers, TimeOut(w) PROVE Loading'
  BY <1>15 DEF TimeOut, Goto, disk, MasterPlaces, GivesUp, Fault, Excluded
<1>16. ASSUME NEW w \in Workers, Map(w) PROVE Loading'
  <2>1. SUFFICES ASSUME pc = "load", Unharmed, NEW x \in Workers PROVE OnCourse(x)'
    BY <1>16 DEF Map, Goto
  <2>2. pt[HostOf[w]][trained] = trained /\ trained # None
    BY <1>16, <2>1, BoundsAssumption DEF Map, Steps, None
  <2>3. /\ at' = [at EXCEPT ![w] = "copy"] /\ at[w] = "map"
        /\ UNCHANGED <<trained, pt, ready>>
        /\ \A v \in Workers : v # w => params'[v] = params[v]
    BY <1>16, <2>2 DEF Map, Goto, disk
  <2>4. \A v \in Workers : at'[v] \in MasterPlaces <=> at[v] \in MasterPlaces
    BY <2>3 DEF MasterPlaces
  <2>5. CASE x = w
    BY <2>1, <2>2, <2>3, <2>5
  <2>6. CASE x # w
    BY <2>1, <2>3, <2>4, <2>6
  <2>7. QED
    BY <2>5, <2>6
<1>17. ASSUME NEW w \in Workers, Copied(w) PROVE Loading'
  BY <1>17 DEF Copied, Goto, disk, MasterPlaces
<1>18. ASSUME NEW w \in Workers, WorkerFails(w) PROVE Loading'
  BY <1>18 DEF WorkerFails, Goto
<1>19. ASSUME NEW p \in Replicas, Generate(p) PROVE Loading'
  BY <1>19 DEF Generate, disk, workers
<1>20. CASE Restart
  BY <1>20 DEF Restart
<1>21. CASE UNCHANGED vars
  BY <1>21 DEF vars, disk, workers
<1>22. QED
  BY <1>1, <1>2, <1>3, <1>4, <1>5, <1>6, <1>7, <1>8, <1>9, <1>10, <1>11, <1>12, <1>13, <1>14,
     <1>15, <1>16, <1>17, <1>18, <1>19, <1>20, <1>21
  DEF Next, Progress, Driver, Worker, Stopped

\* Every step keeps After: what everybody holds after a load.
LEMMA AfterStep ==
    ASSUME TypeOK, Locked, Delivery, [Next]_vars, FaultKinds \cap Excluded = {}
    PROVE  After'
<1> USE DEF TypeOK, Delivery, After, Tidy
<1>1. CASE Train
  BY <1>1, WorkersAssumption DEF Train, disk, workers, servers
<1>2. CASE AbortReplicas
  <2>1. trained > 0 => \A p \in Replicas : ~generating'[p]
    <3>1. "abort" \notin FaultKinds
      BY DEF Excluded
    <3>2. PICK left \in SUBSET Replicas :
             /\ left # {} => Fault("abort")
             /\ generating' = [p \in Replicas |-> generating[p] /\ (trained = 0 \/ p \in left)]
      BY <1>2 DEF AbortReplicas
    <3>3. left = {}
      BY <3>1, <3>2 DEF Fault
    <3>4. trained > 0 => trained # 0
      OBVIOUS
    <3>5. QED
      BY <3>2, <3>3, <3>4
  <2>2. QED
    BY <1>2, <2>1 DEF AbortReplicas, disk, workers
<1>3. CASE SendWeights
  BY <1>3 DEF SendWeights, disk, workers, servers
<1>4. CASE CallWorkers
  BY <1>4 DEF CallWorkers, disk, servers
<1>5. CASE LoadRaises
  BY <1>5 DEF LoadRaises, disk, workers, servers
<1>6. CASE Tag
  BY <1>6 DEF Tag, disk, workers, Loading, Unharmed, OnCourse
<1>7. CASE Finish
  BY <1>7 DEF Finish, disk, workers
<1>8. ASSUME NEW w \in Workers, TakeLock(w) PROVE After'
  BY <1>8 DEF TakeLock, servers, Locked, Quiet
<1>9. ASSUME NEW w \in Workers, Clean(w) PROVE After'
  BY <1>9 DEF Clean, servers, Locked, Quiet
<1>10. ASSUME NEW w \in Workers, Fetch(w) PROVE After'
  BY <1>10 DEF Fetch, servers, Locked, Quiet
<1>11. ASSUME NEW w \in Workers, Save(w) PROVE After'
  BY <1>11 DEF Save, servers, Locked, Quiet
<1>12. ASSUME NEW w \in Workers, MarkReady(w) PROVE After'
  BY <1>12 DEF MarkReady, servers, Locked, Quiet
<1>13. ASSUME NEW w \in Workers, Unlock(w) PROVE After'
  BY <1>13 DEF Unlock, servers, Locked, Quiet
<1>14. ASSUME NEW w \in Workers, SeeReady(w) PROVE After'
  BY <1>14 DEF SeeReady, disk, servers, Locked, Quiet
<1>15. ASSUME NEW w \in Workers, TimeOut(w) PROVE After'
  BY <1>15 DEF TimeOut, disk, servers, Locked, Quiet
<1>16. ASSUME NEW w \in Workers, Map(w) PROVE After'
  BY <1>16 DEF Map, disk, servers, Locked, Quiet
<1>17. ASSUME NEW w \in Workers, Copied(w) PROVE After'
  BY <1>17 DEF Copied, disk, servers, Locked, Quiet
<1>18. ASSUME NEW w \in Workers, WorkerFails(w) PROVE After'
  BY <1>18 DEF WorkerFails, servers, Locked, Quiet, MasterPlaces
<1>19. ASSUME NEW p \in Replicas, Generate(p) PROVE After'
  BY <1>19 DEF Generate, disk, workers
<1>20. CASE Restart
  BY <1>20, WorkersAssumption DEF Restart
<1>21. CASE UNCHANGED vars
  BY <1>21 DEF vars, disk, workers, servers
<1>22. QED
  BY <1>1, <1>2, <1>3, <1>4, <1>5, <1>6, <1>7, <1>8, <1>9, <1>10, <1>11, <1>12, <1>13, <1>14,
     <1>15, <1>16, <1>17, <1>18, <1>19, <1>20, <1>21
  DEF Next, Progress, Driver, Worker, Stopped

\* A rollout worker of each replica has the replica's tag.
LEMMA DeliverySuffices ==
    ASSUME TypeOK, Delivery PROVE ServesWhatItsTagSays
<1> SUFFICES ASSUME trained > 0 \/ pc \in {"train", "trained"},
                    NEW p \in Replicas, generating[p], tag[p] # None
             PROVE  Holds(p) = tag[p]
  BY DEF ServesWhatItsTagSays
<1>1. pc \in {"train", "trained"}
  BY DEF TypeOK, Delivery, After
<1>2. \A w \in Workers : ReplicaOf[w] = p => params[w] = tag[p]
  BY <1>1 DEF Delivery, After
<1>3. PICK v \in Workers : ReplicaOf[v] = p
  BY WorkersAssumption
<1>4. tag[p] \in Steps \cup {None}
  BY DEF TypeOK
<1>5. \A s \in Steps \cup {None} :
         (\A w \in Workers : ReplicaOf[w] = p => params[w] = s) => s = tag[p]
  BY <1>2, <1>3
<1>6. QED
  BY <1>2, <1>4, <1>5 DEF Holds

\* A replica that generates has, in every worker, the step that its tag says,
\* whatever raises, whatever the workers' order and however often the job is
\* resumed over the files of the run before; excluded are the faults of
\* Excluded, with which it does not hold.
THEOREM Serves ==
    ASSUME FaultKinds \cap Excluded = {} PROVE Spec => []ServesWhatItsTagSays
<1>1. Init => TypeOK /\ Locked /\ Delivery
  BY TypeInit, LockedInit, DeliveryInit
<1>2. TypeOK /\ Locked /\ Delivery /\ [Next]_vars => (TypeOK /\ Locked /\ Delivery)'
  BY TypeStep, LockedStep, FilesStep, PlacesStep, LoadingStep, AfterStep DEF Delivery
<1>3. TypeOK /\ Delivery => ServesWhatItsTagSays
  BY DeliverySuffices
<1>4. QED
  BY <1>1, <1>2, <1>3, PTL DEF Spec
--------------------------------------------------------------------------------

\* The cache is dropped after the last copy of the sync and before the training
\* loop goes on, and until the next load no worker writes parameters.
CacheKept == pc \in {"tagged", "train"} => \A p \in Replicas : cache[p] \subseteq {Holds(p)}

\* A step that writes no parameters leaves what every replica computes with.
LEMMA HoldsStays == ASSUME params' = params PROVE \A p : Holds(p)' = Holds(p)
  BY DEF Holds

\* One of the actions of a worker: none is at work after the load.
LEMMA CacheInLoad ==
    ASSUME TypeOK, Locked, NEW w \in Workers, Worker(w) \/ WorkerFails(w) PROVE CacheKept'
<1>1. at[w] \notin {"idle", "done", "error"}
  BY DEF Worker, WorkerFails, TakeLock, Clean, Fetch, Save, MarkReady, Unlock, SeeReady, TimeOut,
         Map, Copied, MasterPlaces
<1>2. pc \notin {"tagged", "train"}
  BY <1>1 DEF Locked, Quiet
<1>3. pc' = pc
  BY DEF Worker, WorkerFails, TakeLock, Clean, Fetch, Save, MarkReady, Unlock, SeeReady, TimeOut,
         Map, Copied
<1>4. QED
  BY <1>2, <1>3 DEF CacheKept

\* Every step keeps it, whatever goes wrong.
LEMMA CacheStep == TypeOK /\ Locked /\ CacheKept /\ [Next]_vars => CacheKept'
<1> SUFFICES ASSUME TypeOK, Locked, CacheKept, [Next]_vars PROVE CacheKept'
  OBVIOUS
<1>1. CASE Train \/ AbortReplicas \/ SendWeights \/ CallWorkers \/ LoadRaises \/ Restart
  <2>1. pc' \notin {"tagged", "train"}
    BY <1>1 DEF Train, AbortReplicas, SendWeights, CallWorkers, LoadRaises, Restart
  <2>2. QED
    BY <2>1 DEF CacheKept
<1>2. CASE Tag
  BY <1>2 DEF Tag, Cleared, CacheKept, TypeOK
<1>3. CASE Finish
  <2>1. pc = "tagged" /\ UNCHANGED <<params, cache>>
    BY <1>3 DEF Finish, workers
  <2>2. QED
    BY <2>1, HoldsStays DEF CacheKept
<1>4. ASSUME NEW w \in Workers, Worker(w) \/ WorkerFails(w) PROVE CacheKept'
  BY <1>4, CacheInLoad
<1>5. ASSUME NEW p \in Replicas, Generate(p) PROVE CacheKept'
  <2>1. /\ UNCHANGED <<pc, params>>
        /\ cache' = [cache EXCEPT ![p] = cache[p] \cup {Holds(p)}]
    BY <1>5 DEF Generate, workers
  <2>2. \A q \in Replicas : cache'[q] = IF q = p THEN cache[p] \cup {Holds(p)} ELSE cache[q]
    BY <2>1 DEF TypeOK
  <2>3. QED
    BY <2>1, <2>2, HoldsStays DEF CacheKept
<1>6. CASE UNCHANGED vars
  BY <1>6, HoldsStays DEF vars, workers, servers, CacheKept
<1>7. QED
  BY <1>1, <1>2, <1>3, <1>4, <1>5, <1>6 DEF Next, Progress, Driver, Stopped

\* When the training loop goes on, no replica has keys or values in its cache
\* that other weights than its own computed: with every fault of the model, also
\* when replicas were not aborted and generated while their weights were copied.
THEOREM CacheIsCurrent == Spec => []CacheOfTheseWeights
<1>1. Init => CacheKept
  BY DEF Init, CacheKept
<1>2. TypeOK /\ Locked /\ CacheKept /\ [Next]_vars => CacheKept'
  BY CacheStep
<1>3. CacheKept => CacheOfTheseWeights
  BY DEF CacheKept, CacheOfTheseWeights
<1>4. QED
  BY <1>1, <1>2, <1>3, LockedInit, LockedStep, TypeCorrect, PTL DEF Spec
================================================================================
