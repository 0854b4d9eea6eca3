------------------------------ MODULE MCTrainer ------------------------------
(***************************************************************************)
(* The optimizer step and the checkpoints of the TorchTitan TPU engine:    *)
(* the initial state says which of the two a behaviour is about (a save    *)
(* reads the masters between two steps; the two share nothing else).       *)
(***************************************************************************)
EXTENDS CpuMasterStep, TrainerCheckpoint

VARIABLE part
vars == <<part, stepvars, ckptvars>>

\* Three chunks, more than there are slots, then a group of one.
MCGroups == <<<<<<"a", "b">>, <<"c">>, <<"d">>>>, <<<<"e">>>>>>
\* b's gradient has a shape of its own.
MCShape == [p \in Params |-> IF p = "b" THEN 2 ELSE 1]
\* All of them; or some, which shifts the chunks between the slots and the places in them.
MCActive == {Params, {"b", "c", "d"}, {"a", "c"}, {"a", "b", "d", "e"}, {"e"}}

Init ==
  /\ part \in {"step", "checkpoint"}
  /\ StepInit /\ (part # "step" => mode = "device")
  /\ CkptInit /\ (part # "checkpoint" => store = "local" /\ keep = 1)

SkipsStep == part = "step" /\ SkipStep /\ UNCHANGED <<part, ckptvars>>
BeginsStep == part = "step" /\ (\E A \in ActiveSets : BeginStep(A)) /\ UNCHANGED <<part, ckptvars>>
StepsOn == part = "step" /\ StepOn /\ UNCHANGED <<part, ckptvars>>
Raises == part = "step" /\ StepRaises /\ UNCHANGED <<part, ckptvars>>
Proceeds == part = "checkpoint" /\ Proceed /\ UNCHANGED <<part, stepvars>>
Restarts == part = "checkpoint" /\ Restart /\ UNCHANGED <<part, stepvars>>
FailsUpload == part = "checkpoint" /\ (\E r \in Flaky : UploadFails(r)) /\ UNCHANGED <<part, stepvars>>

Raised == \E r \in World : at[r] = "raised"
\* The bounds, a step that raised, and a job whose rank raised.
Ended == IF part = "step" THEN pc = "failed" \/ (pc = "idle" /\ steps = MaxSteps)
         ELSE Raised \/ (All("train") /\ have[0].step = LastStep)
Stop == Ended /\ UNCHANGED vars
Next == SkipsStep \/ BeginsStep \/ StepsOn \/ Raises \/ Proceeds \/ Restarts \/ FailsUpload \/ Stop
\* The engine's thread, the device's transfers and every rank get their turn.
Spec == Init /\ [][Next]_vars /\ WF_vars(StepsOn) /\ WF_vars(Proceeds)

\* A step ends, and a save or a load ends or raises: no rank is left in a barrier.
EveryOperationEnds ==
  /\ (pc \in {"step", "moved"}) ~> (pc \in {"idle", "failed"})
  /\ []<>(All("train") \/ Raised)
=============================================================================
