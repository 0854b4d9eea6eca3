----------------------------- MODULE MCBuckets -----------------------------
(***************************************************************************)
(* Both bucket-broadcast engines on a small cluster.                       *)
(***************************************************************************)
EXTENDS BucketEngines

\* Actors 0 and 1 share a node with each other, 2 has its own.
MCNodeOf == [a \in Actors |-> a \div 2]
\* Three buckets, one of which depends on the alignment; then a sync of one bucket.
MCLoads == <<<<3, 5, 2, 7>>, <<5>>>>
\* Bound: every subscription is there before the first bucket.
NoOne == {}

\* Every sync ends for everybody, unless the master gave up waiting for
\* subscriptions: no bucket's metadata are lost, no collective waits for ever.
EverySyncEnds == <>Ended
=============================================================================
