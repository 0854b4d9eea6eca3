------------------------------- MODULE MCHosts -------------------------------
(***************************************************************************)
(* What lives in the workers of a host from one sync to the next, for TLC: *)
(* the MoRI engines, the patches of the XPU platform and the queries of    *)
(* the TPU's device module.  A host has one kind of accelerator, so that   *)
(* `host', chosen at first, says which of the three moves.                 *)
(***************************************************************************)
EXTENDS MoriEngines, XpuPatches, TpuRuntime

VARIABLE host

Init == host \in {"mori", "xpu", "tpu"} /\ LifeInit /\ XpuInit /\ RuntimeInit
        /\ (host # "xpu" => env = "" /\ ~present /\ ~rival /\ index = Unpinned)

\* The workers have been constructed and every thread has its platform.
XpuStop ==
  /\ affinity # "no" /\ phase = "out" /\ worker = NumWorkers
  /\ \A t \in Threads : builder[t] = "no"
  /\ UNCHANGED xpuvars
LifeStop == stage = "prepare" /\ syncs = MaxSyncs /\ UNCHANGED life

Next ==
  /\ UNCHANGED host
  /\ \/ host = "mori" /\ (LifeNext \/ LifeStop) /\ UNCHANGED <<xpuvars, runtimevars>>
     \/ host = "xpu" /\ (XpuNext \/ XpuStop) /\ UNCHANGED <<life, runtimevars>>
     \/ host = "tpu" /\ RuntimeNext /\ UNCHANGED <<life, xpuvars>>
Spec == Init /\ [][Next]_<<host, life, xpuvars, runtimevars>>
=============================================================================
