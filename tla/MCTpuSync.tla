------------------------------- MODULE MCTpuSync -------------------------------
(***************************************************************************)
(* Instances of TpuSync for TLC.                                           *)
(***************************************************************************)
EXTENDS TpuSyncInv, TLC

On(names) == [n \in OptionNames |-> n \in names]

\* Each option alone and together: a build without the d2h future, one without
\* unbind_weights, buffers kept, jobs that start afresh or are resumed; and a
\* resumed job with the norm check, which stages from its second sync on.
AllOptions == {On({"return_after_d2h", "d2h_future", "unbind", "release"}),
               On({"return_after_d2h", "d2h_future", "unbind"}),
               On({"return_after_d2h", "unbind", "release", "resumed"}),
               On({"return_after_d2h", "release"}),
               On({"d2h_future", "unbind", "norms"}),
               On({"return_after_d2h", "d2h_future", "unbind", "release", "norms", "resumed"})}
================================================================================
