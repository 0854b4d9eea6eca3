---------------------------- MODULE RolloutVersions ----------------------------
(***************************************************************************)
(* What any weight sync promises to the users of the rollout: a replica    *)
(* that generates holds one version of the weights, whole, and its tag     *)
(* says which; weights and tags only move to the version published last.   *)
(***************************************************************************)
EXTENDS Integers

CONSTANTS Replicas,   \* the rollout replicas, present or not
          Steps       \* the trainer steps

None == -1            \* no version: the replica still has what it was started with
Torn == -2            \* parts of several versions

VARIABLES published,  \* the step handed to the sync last
          holds,      \* holds[p]: the version of the weights of replica p
          tag,        \* tag[p]: the version p gives to its generations
          open        \* open[p]: p takes and runs requests
vars == <<published, holds, tag, open>>

Init == /\ published = None
        /\ holds \in [Replicas -> Steps \cup {None}]
        /\ tag = [p \in Replicas |-> None]
        /\ open = [p \in Replicas |-> TRUE]

Publish == /\ published' \in {s \in Steps : s > published}
           /\ UNCHANGED <<holds, tag, open>>

Pause == /\ open' \in [Replicas -> BOOLEAN]
         /\ \A p \in Replicas : open'[p] => open[p]
         /\ UNCHANGED <<published, holds, tag>>

\* The weights of a replica change only while it is paused.
Install(p) == /\ ~open[p]
              /\ \E v \in {published, Torn} : holds' = [holds EXCEPT ![p] = v]
              /\ UNCHANGED <<published, tag, open>>

\* A replica that is not paused (it may be for its first version) gets a tag
\* only for the weights that it holds.
Tag == /\ tag' \in [Replicas -> Steps \cup {None}]
       /\ \A p \in Replicas : tag'[p] # tag[p] =>
              tag'[p] = published /\ (open[p] => holds[p] = published)
       /\ UNCHANGED <<published, holds, open>>

Resume == /\ open' \in [Replicas -> BOOLEAN]
          /\ \A p \in Replicas : open[p] => open'[p]
          /\ \A p \in Replicas : open'[p] /\ ~open[p] => holds[p] = tag[p]
          /\ UNCHANGED <<published, holds, tag>>

\* The replica is replaced by a new one, which starts from a checkpoint.
Replace(p) == /\ \E v \in Steps \cup {None} : holds' = [holds EXCEPT ![p] = v]
              /\ tag' = [tag EXCEPT ![p] = None]
              /\ open' = [open EXCEPT ![p] = TRUE]
              /\ UNCHANGED published

Next == \/ Publish \/ Pause \/ Tag \/ Resume
        \/ \E p \in Replicas : Install(p) \/ Replace(p)

Spec == Init /\ [][Next]_vars
================================================================================
