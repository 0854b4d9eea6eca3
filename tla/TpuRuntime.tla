----------------------------- MODULE TpuRuntime -----------------------------
(***************************************************************************)
(* The device queries of the processes of a TPU host (device_api, behind   *)
(* the platform's device module): a process may ask for its memory or      *)
(* synchronize at any time, before and after torch_tpu registers the TPU,  *)
(* before and after its TPU runtime is up, and in a child forked from it.  *)
(* A query that reaches the runtime of a process that has none would start *)
(* one, which in a slice waits for every other process.                    *)
(***************************************************************************)
EXTENDS Naturals

CONSTANT Processes      \* process ids; the others are forked from the first
ASSUME ProcessesAssumption == Processes \subseteq Nat \ {0}

VARIABLES alive,        \* the processes that exist
          registered,   \* those where torch.accelerator is the TPU
          running,      \* those with a TPU runtime of their own
          isTpu,        \* per process: _accelerator_is_tpu_cache
          upPid,        \* per process: _tpu_runtime_up_pid, NoPid for None
          asked         \* per process: what its last query met ("none" before one)
runtimevars == <<alive, registered, running, isTpu, upPid, asked>>

NoPid == 0
First == CHOOSE p \in Processes : \A q \in Processes : p <= q

RuntimeInit ==
  /\ alive = {First} /\ registered = {} /\ running = {}
  /\ isTpu = [p \in Processes |-> FALSE] /\ upPid = [p \in Processes |-> NoPid]
  /\ asked = [p \in Processes |-> "none"]

\* torch_tpu is imported and finds a device, the first collective or tensor starts the runtime.
Register(p) ==
  /\ p \in alive \ registered /\ registered' = registered \cup {p}
  /\ UNCHANGED <<alive, running, isTpu, upPid, asked>>
StartRuntime(p) ==
  /\ p \in registered \ running /\ running' = running \cup {p}
  /\ UNCHANGED <<alive, registered, isTpu, upPid, asked>>

\* A child has a copy of its parent's memory, caches included, and no runtime.
Fork(p, q) ==
  /\ p \in alive /\ q \in Processes \ alive /\ alive' = alive \cup {q}
  /\ registered' = registered \cup (IF p \in registered THEN {q} ELSE {})
  /\ isTpu' = [isTpu EXCEPT ![q] = isTpu[p]] /\ upPid' = [upPid EXCEPT ![q] = upPid[p]]
  /\ UNCHANGED <<running, asked>>

\* accelerator_is_tpu: kept once it is so.
AcceleratorIsTpu(p) == isTpu[p] \/ p \in registered
\* _tpu_runtime_initialized: kept for the process that found it so.
\* Mutant: kept for whoever has the memory.
KnownUpByAnyone(p) == upPid[p] # NoPid
KnownUp(p) == upPid[p] = p
RuntimeInitialized(p) == KnownUp(p) \/ p \in running

\* The memory statistics, and synchronize: zero, or nothing, without a runtime.
Reaches(p) == AcceleratorIsTpu(p) /\ RuntimeInitialized(p)
Query(p) ==
  /\ p \in alive
  /\ isTpu' = [isTpu EXCEPT ![p] = AcceleratorIsTpu(p)]
  /\ upPid' = [upPid EXCEPT ![p] = IF Reaches(p) THEN p ELSE @]
  /\ asked' = [asked EXCEPT ![p] = IF ~Reaches(p) THEN "zero" ELSE IF p \in running THEN "runtime" ELSE "started"]
  /\ UNCHANGED <<alive, registered, running>>

RuntimeNext ==
  \E p \in Processes : \/ Register(p) \/ StartRuntime(p) \/ Query(p)
                       \/ \E q \in Processes : Fork(p, q)
RuntimeSpec == RuntimeInit /\ [][RuntimeNext]_runtimevars

\* Asking for the memory, or synchronizing, reaches the TPU runtime exactly
\* when this process has one: a process never starts one by asking, not even a
\* child that has its parent's cached answers, and it does not go on reporting
\* zero once its own runtime is up.
MeetsTheRuntime(p) ==
  Query(p) => asked'[p] = IF p \in registered \cap running THEN "runtime" ELSE "zero"
QueriesMeetTheRuntime == [][\A p \in Processes : MeetsTheRuntime(p)]_runtimevars
=============================================================================
