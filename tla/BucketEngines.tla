--------------------------- MODULE BucketEngines ---------------------------
(***************************************************************************)
(* Both bucket-broadcast engines: the job's engine, and whether it has     *)
(* relays, is chosen in the initial state.                                 *)
(***************************************************************************)
EXTENDS BucketDevice

CONSTANT Align        \* _ALIGN
ASSUME AlignAssumption == Align \in Nat \ {0}

X == INSTANCE XcclBroadcast
C == INSTANCE CnclBroadcast

Ended == (sync = Len(Loads) /\ AllEnded) \/ pc[Master] = "failed"

XcclStep == engine = "xccl" /\ X!Next
CnclStep == engine = "cncl" /\ C!Next
Stop == Ended /\ UNCHANGED vars
Step == XcclStep \/ CnclStep
Next == Step \/ Stop
Spec == Init /\ [][Next]_vars
\* Every thread and every device queue gets its turn.
FairSpec == Spec /\ WF_vars(Step)

\* A worker whose sync has ended has no broadcast in its queue: finalize
\* frees the buffers that the broadcast would use.
BuffersOutliveBroadcasts ==
  \A w \in Workers : pc[w] \in {"done", "loaded"} => \A i \in DOMAIN queue[w] : queue[w][i].do # "bcast"

\* What a sync promises (WeightBroadcast), over all syncs of the job: every
\* rollout worker reads every chunk once, in order and unchanged.
Promise == INSTANCE WeightBroadcast WITH
  Senders <- Actors, Receivers <- Rollouts, Sources <- {Master},
  Size <- [s \in {Master} |-> Total], Feeds <- {},
  outcome <- [w \in Workers |->
     IF pc[w] = "failed" THEN "failure"
     ELSE IF sync = Len(Loads) /\ HasEnded(w) THEN "success" ELSE "pending"],
  read <- [x \in {Master} \X Rollouts |-> got[x[2]]]
ImplementsBroadcast == Promise!Spec
=============================================================================
