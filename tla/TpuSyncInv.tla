------------------------------ MODULE TpuSyncInv ------------------------------
(***************************************************************************)
(* The inductive invariants of TpuSync.  Control relates the driver, the   *)
(* tail and the calls it has made; Trainer says what the ranks offer to a  *)
(* transfer, and Rollout what the replicas received and installed.         *)
(***************************************************************************)
EXTENDS TpuSync

Places == {"off", "init", "initing", "barrier", "transfer", "quiesce", "installing", "parity",
           "releasing"}

TypeOK ==
  /\ opt \in Options /\ faults \in 0..MaxFaults /\ trained \in Steps
  /\ pc \in {"train", "trained", "validate", "wait", "join", "send", "tail", "failed"}
  /\ last \in Steps \cup {None}
  /\ replicas \in SUBSET Replicas /\ dst \in SUBSET Replicas /\ transferred \in SUBSET Replicas
  /\ stageOn \in BOOLEAN /\ future \in {"none", "pending", "ok", "error"}
  /\ at \in [Tails -> Places]
  /\ job \in [Tails -> [step : Steps \cup {None}, dst : SUBSET Replicas, staged : BOOLEAN]]
  /\ rank \in [Ranks -> {"idle", "called", "bound", "copying", "copied", "sent", "staged", "error"}]
  /\ sig \in [Ranks -> Sigs] /\ regsig \in [Ranks -> Sigs \cup {NoSig}]
  /\ stage \in [Ranks -> BOOLEAN] /\ ws \in [Ranks -> BOOLEAN]
  /\ plan \in [Ranks -> SUBSET Replicas] /\ bound \in [Ranks -> Steps \cup {None}]
  /\ host \in [Ranks -> [v : Versions, plan : SUBSET Replicas]]
  /\ releasing \in SUBSET Ranks /\ shapes \in BOOLEAN /\ posted \in SUBSET (Steps \X Ranks)
  /\ registered \in SUBSET Units /\ xfer \in [Ranks -> {"off", "device", "host"}]
  /\ rpc \in [Replicas -> {"none", "init", "install", "installing", "error"}]
  /\ inited \in [Replicas -> BOOLEAN] /\ generating \in [Replicas -> BOOLEAN]
  /\ recv \in [Replicas -> [Ranks -> Versions]] /\ params \in [Replicas -> [Ranks -> Versions]]
  /\ tag \in [Replicas -> Steps \cup {None}]

-----------------------------------------------------------------------------
(* Control.                                                                  *)

\* An error ended a tail: no other sync will start.
Broken == pc = "failed" \/ future = "error"

\* There is one tail at most: the caller awaits its own, and joins the other.
OneTail ==
  /\ (pc = "tail") <=> (at["fore"] # "off")
  /\ (future = "pending") <=> (at["back"] # "off")
  /\ pc \in {"send", "tail", "failed", "validate"} => future = "none"
  /\ pc \notin {"send", "failed"} => \A r \in Ranks : rank[r] = "idle"

\* The version of the sync, and what a tail works for.
SyncOf ==
  /\ pc \in {"trained", "join"} => last < trained
  /\ pc \in {"send", "tail", "train", "wait", "validate"} => last = trained
  /\ last <= trained
  /\ opt["resumed"] => trained >= 1 /\ last # 0
  /\ pc = "send" => dst = replicas
  /\ \A c \in Tails : at[c] # "off" =>
        job[c] = [step |-> last, dst |-> replicas, staged |-> c = "back"] /\ last # None

\* A call runs at a replica only while a tail waits for it, or after an error.
CallsAwaited ==
  \A p \in Replicas : rpc[p] # "none" =>
    \/ Broken
    \/ p \in replicas /\ \/ rpc[p] \in {"init", "error"} /\ \E c \in Tails : at[c] = "initing"
                         \/ rpc[p] # "init" /\ \E c \in Tails : at[c] = "installing"

\* The trainer frees its buffers only when the transfer has read them.
ReleasedLate ==
  releasing # {} => pc = "failed" \/ at["fore"] \in {"quiesce", "installing", "parity", "releasing"}

Control == OneTail /\ SyncOf /\ CallsAwaited /\ ReleasedLate

-----------------------------------------------------------------------------
(* The trainer ranks and the transfer.                                       *)

\* The plan of a live synchronizer is that of the last transfer, except from its
\* creation in a sync until the transfer of that sync.
PlanKept ==
  \A r \in Ranks : ws[r] /\ \/ pc \notin {"send", "tail", "failed"}
                            \/ pc = "send" /\ rank[r] \in {"called", "copying", "copied", "staged"}
                            \/ at["fore"] \in {"quiesce", "installing", "parity", "releasing"}
                   => plan[r] = transferred

\* A rank stages its weights only with the plan for the units of this sync.
StagedForThese ==
  /\ stage = [r \in Ranks |-> stageOn]
  /\ pc = "send" => /\ stageOn => transferred = replicas
                    /\ \A r \in Ranks : rank[r] \in {"copying", "copied", "staged"} =>
                                          ws[r] /\ stage[r]

\* What a transfer will read: the bound buffers of the ranks, or what they staged.
Offered ==
  /\ pc = "send" => \A r \in Ranks :
        /\ rank[r] \in {"bound", "sent", "copying"} => bound[r] = last
        /\ rank[r] \in {"copied", "staged"} => host[r] = [v |-> last, plan |-> replicas]
  /\ at["fore"] \in {"init", "initing", "barrier", "transfer"} => \A r \in Ranks : bound[r] = last
  /\ at["back"] \in {"init", "initing", "barrier", "transfer"} =>
        \A r \in Ranks : host[r] = [v |-> last, plan |-> replicas]
  /\ at["fore"] = "transfer" =>
        \A r \in Ranks : xfer[r] = "host" => host[r] = [v |-> last, plan |-> replicas]
  /\ at["back"] = "transfer" => \A r \in Ranks : xfer[r] # "device"

Trainer == PlanKept /\ StagedForThese /\ Offered

-----------------------------------------------------------------------------
(* The rollout.                                                              *)

\* The controller keeps the registration of a replica that left.
OldRegistration ==
  \A p \in Replicas :
    /\ p \notin replicas /\ (rpc[p] # "none" \/ p \in registered)
          => "elastic" \in FaultKinds /\ faults >= 1
    /\ p \in registered /\ ~inited[p] => "elastic" \in FaultKinds /\ faults >= 2

\* The barrier lets only replicas pass that have receive buffers.
AllInited ==
  \A c \in Tails : \A p \in replicas :
    /\ at[c] \in {"initing", "barrier"} /\ rpc[p] = "none" /\ p \in registered => inited[p]
    /\ at[c] \in {"transfer", "quiesce", "installing", "parity"} => inited[p]

\* A received shard is of this sync; if not, the norm check will tell.
Arrived(p, r) == recv[p][r] = last \/ (recv[p][r] = Garbage /\ opt["norms"] /\ last > 0)

ReceivedThis ==
  \A c \in Tails : \A p \in replicas, r \in Ranks :
    \/ at[c] = "transfer" /\ xfer[r] = "off"
    \/ at[c] \in {"quiesce", "installing", "parity"}
    => Arrived(p, r)

\* An install writes what arrived, and at a replica that generates it changes nothing.
InstallsQuietly ==
  \A p \in Replicas : rpc[p] \in {"install", "installing"} =>
    /\ last # None /\ \A r \in Ranks : Arrived(p, r)
    /\ generating[p] => params[p] = recv[p]

\* The first sync of a job that starts afresh sends what the replicas hold.
StartsEqual == ~opt["resumed"] /\ last <= 0 => \A p \in replicas : params[p] = Whole(0)

InstalledAll ==
  \A c \in Tails : \A p \in replicas :
    /\ (at[c] = "installing" /\ rpc[p] = "none") \/ at[c] = "parity" => params[p] = recv[p]
    /\ at[c] = "parity" => tag[p] = last
    /\ at[c] = "releasing" => generating[p] /\ params[p] = Whole(last)

\* Between two syncs every replica generates with the weights of the last one.
Settled == pc \in {"train", "wait", "validate"} /\ future \notin {"pending", "error"} =>
             \A p \in replicas : generating[p] /\ params[p] = Whole(last)

Rollout == /\ OldRegistration /\ AllInited /\ ReceivedThis /\ InstallsQuietly
           /\ StartsEqual /\ InstalledAll /\ Settled
           /\ ServesWhatItsTagSays /\ PausedWhileInstalling

Sound == TypeOK /\ Control /\ Trainer /\ Rollout
================================================================================
