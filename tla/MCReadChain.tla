---------------------------- MODULE MCReadChain ----------------------------
(***************************************************************************)
(* The CNIXL chain with three rollout workers, so that one agent both      *)
(* reads from and is read by agents that do both.                          *)
(***************************************************************************)
EXTENDS ReadChain

\* Three buckets, <<3, 5>>, <<2>> and <<7>>, then a sync of one bucket.
MCLoads == <<<<3, 5, 2, 7>>, <<5>>>>

\* Every sync ends for every agent, unless a transfer failed.
EverySyncEnds == <>Ended

\* init_process_group accepts what build_topology gives to every worker.
NobodyIsRefused == \A w \in Agents : pc[w] # "refused"
=============================================================================
