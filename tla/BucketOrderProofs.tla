------------------------- MODULE BucketOrderProofs --------------------------
(***************************************************************************)
(* The engines of BucketEngines implement WeightBroadcast, for every       *)
(* cluster, load, bucket size and alignment: every rollout worker copies   *)
(* every chunk once, in order and unchanged.  The invariant, InOrder, and  *)
(* what each process does to its part of it, come from BucketProofs; here  *)
(* are the steps of the whole system, of its hosts, of the devices and of  *)
(* the broadcasts that join them, and the start of the next sync.          *)
(***************************************************************************)
EXTENDS BucketProofs

-----------------------------------------------------------------------------
(* The steps of the hosts.                                                   *)

\* XCCL: of an actor that does not send.
LEMMA XcclActorGoes ==
  ASSUME Kept, Domains, engine = "xccl", NEW a \in Actors \ {Master},
         \/ X!Join(a) \/ X!Pull(a) \/ X!PullNone(a) \/ X!RelayChunk(a) \/ X!PlaceChunk(a) \/ X!Synchronize(a)
         \/ X!StartBroadcast(a) \/ X!FillNext(a) \/ X!Step(a) \/ X!LastQueued(a) \/ X!Finish(a),
         NEW z, Planned(z, engine, sync), NEW e,
         RankOf(a) # -1 => \E r, pb : Relay(z, e, a, r, pb)
  PROVE  Lone(a) /\ (RankOf(a) # -1 => \E r, pb : Relay(z, e, a, r, pb)')
<1> USE DEF X!job, X!filling, X!net, X!work, X!device, X!Go, X!Push
<1>1. /\ DOMAIN queue = Workers /\ DOMAIN op = Workers /\ DOMAIN meta = Workers /\ DOMAIN last = Workers
      /\ DOMAIN cur = Workers /\ DOMAIN buf = Workers /\ DOMAIN pulled = Actors /\ DOMAIN offset = Actors
      /\ pc \in [Workers -> Labels] /\ a \in Workers /\ a \in Actors /\ a # Master /\ a \notin Rollouts /\ IsSeq(queue[a])
  BY Cluster DEF Kept, Shape, Domains
<1>2. X!Role(a) = IF RankOf(a) = -1 THEN "idle" ELSE "relay"
  BY <1>1, Same DEF X!Role
<1>3. RankOf(a) = -1 => pc[a] \in {"init", "pull", "done"}
  BY <1>1 DEF Kept, Bystanders
<1>4. RankOf(a) # -1 => pc[a] \in {"init", "barrier", "pull", "place", "final", "done"}
  BY DEF Relay
<1>5. Len(Sizes) = z.n /\ Sizes = Loads[sync] /\ Planned(z, "xccl", sync)
  BY PlanFacts DEF Sizes
<1>6. CASE X!Join(a)
  <2>1. /\ SameJob /\ UNCHANGED <<queue, op, meta, last, cur, buf, wire, got, pulled, offset>> /\ pc[a] = "init"
        /\ pc' = [pc EXCEPT ![a] = IF RankOf(a) = -1 THEN "pull" ELSE "barrier"]
    BY <1>6, Same DEF X!Join, SameJob
  <2>2. Lone(a)
    BY <1>1, <2>1 DEF Lone, StaysPut
  <2>3. ASSUME RankOf(a) # -1 PROVE \E r, pb : Relay(z, e, a, r, pb)'
    <3>1. PICK r, pb : Relay(z, e, a, r, pb)
      BY <2>3
    <3>2. Relay(z, e, a, r, pb)'
      BY <1>1, <2>1, <2>3, <3>1, RelayWalks
    <3> QED
      BY <3>2
  <2> QED
    BY <2>2, <2>3
<1>7. CASE X!Pull(a)
  <2>1. /\ SameJob /\ UNCHANGED <<op, meta, last, cur, buf, wire, got, offset>> /\ pc[a] = "pull" /\ pulled[a] < z.n
        /\ pc' = [pc EXCEPT ![a] = IF RankOf(a) = -1 THEN "pull" ELSE "place"]
        /\ pulled' = [pulled EXCEPT ![a] = @ + 1]
        /\ queue' = [queue EXCEPT ![a] = @ \o <<[do |-> "gather"]>>]
    BY <1>2, <1>5, <1>7, SameToo DEF X!Pull, SameJob
  <2>2. Lone(a)
    BY <1>1, <2>1 DEF Lone, StaysPut
  <2>3. ASSUME RankOf(a) # -1 PROVE \E r, pb : Relay(z, e, a, r, pb)'
    <3>1. PICK r, pb : Relay(z, e, a, r, pb)
      BY <2>3
    <3>2. /\ pc'[a] = "place" /\ pulled'[a] = pulled[a] + 1 /\ offset'[a] = offset[a]
          /\ queue'[a] = queue[a] \o <<[do |-> "gather"]>>
      BY <1>1, <2>1, <2>3
    <3>3. Relay(z, e, a, r, pb)'
      BY <1>1, <2>1, <3>1, <3>2, RelayWalks
    <3> QED
      BY <3>3
  <2> QED
    BY <2>2, <2>3
<1>8. CASE X!PullNone(a)
  <2>1. /\ SameJob /\ UNCHANGED <<op, meta, cur, buf, wire, got, pulled, offset>> /\ pc[a] = "pull" /\ pulled[a] = z.n
        /\ last' = [last EXCEPT ![a] = TRUE]
        /\ IF RankOf(a) = -1 THEN pc' = [pc EXCEPT ![a] = "done"] /\ queue' = queue
           ELSE pc' = [pc EXCEPT ![a] = "final"] /\ queue' = [queue EXCEPT ![a] = @ \o <<Bcast(0, offset[a])>>]
    BY <1>2, <1>5, <1>8, SameToo DEF X!PullNone, X!Bcast, Bcast, SameJob
  <2>2. Lone(a)
    BY <1>1, <2>1 DEF Lone, StaysPut
  <2>3. ASSUME RankOf(a) # -1 PROVE \E r, pb : Relay(z, e, a, r, pb)'
    <3>1. PICK r, pb : Relay(z, e, a, r, pb)
      BY <2>3
    <3>2. pc'[a] = "final" /\ queue'[a] = queue[a] \o <<Bcast(0, offset[a])>>
      BY <1>1, <2>1, <2>3
    <3> QED
      BY <1>1, <1>5, <2>1, <3>1, <3>2, RelayEnds
  <2> QED
    BY <2>2, <2>3
<1>9. CASE X!RelayChunk(a)
  <2> DEFINE p == PlaceIn("xccl", offset[a], Loads[sync][pulled[a]])
             xs == IF p.flush THEN <<Bcast(0, offset[a])>> ELSE <<>>
  <2>1. X!NextPlace(a) = p
    BY <1>5, SameToo DEF X!NextPlace, PlaceIn
  <2>2. /\ SameJob /\ UNCHANGED <<op, meta, last, cur, buf, wire, got, pulled>> /\ pc[a] = "place" /\ RankOf(a) # -1
        /\ pc' = [pc EXCEPT ![a] = "pull"] /\ offset' = [offset EXCEPT ![a] = p.at + Loads[sync][pulled[a]]]
        /\ queue' = [queue EXCEPT ![a] = @ \o xs]
    BY <1>2, <1>5, <1>9, <2>1, SameToo DEF X!RelayChunk, X!Bcast, Bcast, SameJob
  <2> HIDE DEF p
  <2>3. Lone(a)
    BY <1>1, <2>2 DEF Lone, StaysPut
  <2>4. PICK r, pb : Relay(z, e, a, r, pb)
    BY <2>2
  <2>5. /\ pc'[a] = "pull" /\ pulled'[a] = pulled[a] /\ offset'[a] = p.at + Loads[sync][pulled[a]]
        /\ queue'[a] = queue[a] \o xs
    BY <1>1, <2>2
  <2>6. \E r1, pg : Relay(z, e, a, r1, pg)'
    BY <1>1, <1>5, <2>2, <2>4, <2>5, RelayDrops DEF p
  <2> QED
    BY <2>3, <2>6
<1>10. CASE X!Finish(a)
  <2>1. /\ SameJob /\ UNCHANGED <<queue, op, meta, last, cur, buf, wire, got, pulled, offset>> /\ pc[a] = "final"
        /\ pc' = [pc EXCEPT ![a] = "done"]
    BY <1>10 DEF X!Finish, SameJob
  <2>2. Lone(a)
    BY <1>1, <2>1 DEF Lone, StaysPut
  <2>3. RankOf(a) # -1
    BY <1>3, <2>1
  <2>4. PICK r, pb : Relay(z, e, a, r, pb)
    BY <2>3
  <2>5. Relay(z, e, a, r, pb)'
    BY <1>1, <2>1, <2>4, RelayWalks
  <2> QED
    BY <2>2, <2>5
<1>11. ~X!PlaceChunk(a) /\ ~X!Synchronize(a) /\ ~X!StartBroadcast(a)
  BY <1>2 DEF X!PlaceChunk, X!Synchronize, X!StartBroadcast
<1>12. ~X!FillNext(a) /\ ~X!Step(a) /\ ~X!LastQueued(a)
  BY <1>3, <1>4 DEF X!FillNext, X!Step, X!LastQueued
<1> QED
  BY <1>6, <1>7, <1>8, <1>9, <1>10, <1>11, <1>12

\* CNCL: of an actor that does not send; it only walks the generator.
LEMMA CnclActorGoes ==
  ASSUME Kept, Domains, engine = "cncl", NEW a \in Actors \ {Master},
         C!Join(a) \/ C!Pull(a) \/ C!Place(a) \/ C!Flush(a) \/ C!PullNone(a) \/ C!Finish(a)
  PROVE  Lone(a) /\ RankOf(a) = -1
<1> USE DEF C!job, C!filling, C!net, C!work, C!device, C!Go, C!Push
<1>1. /\ DOMAIN queue = Workers /\ DOMAIN op = Workers /\ DOMAIN meta = Workers /\ DOMAIN last = Workers
      /\ DOMAIN cur = Workers /\ DOMAIN buf = Workers /\ DOMAIN pulled = Actors /\ DOMAIN offset = Actors
      /\ pc \in [Workers -> Labels] /\ a \in Workers /\ a \in Actors /\ a # Master /\ a \notin Rollouts /\ IsSeq(queue[a])
  BY Cluster DEF Kept, Shape, Domains
<1>2. RankOf(a) = -1 /\ pc[a] \in {"init", "pull", "done"}
  BY <1>1, Senders DEF Kept, Shape, Bystanders
<1>3. CASE C!Join(a)
  <2>1. /\ SameJob /\ UNCHANGED <<queue, op, meta, last, cur, buf, wire, got, pulled, offset>>
        /\ \E l : pc' = [pc EXCEPT ![a] = l]
    BY <1>3 DEF C!Join, SameJob
  <2> QED
    BY <1>1, <1>2, <2>1 DEF Lone, StaysPut
<1>4. CASE C!Pull(a)
  <2>1. /\ SameJob /\ UNCHANGED <<op, meta, last, cur, buf, wire, got, offset>>
        /\ pulled' = [pulled EXCEPT ![a] = @ + 1]
        /\ (\E l : pc' = [pc EXCEPT ![a] = l]) /\ \E xs : queue' = [queue EXCEPT ![a] = @ \o xs]
    BY <1>4 DEF C!Pull, SameJob
  <2> QED
    BY <1>1, <1>2, <2>1 DEF Lone, StaysPut
<1>5. CASE C!PullNone(a)
  <2>1. /\ SameJob /\ UNCHANGED <<op, meta, last, cur, buf, wire, got, pulled, offset, queue>>
        /\ \E l : pc' = [pc EXCEPT ![a] = l]
    BY <1>1, <1>5, Same DEF C!PullNone, SameJob
  <2> QED
    BY <1>1, <1>2, <2>1 DEF Lone, StaysPut
<1>6. ~C!Place(a) /\ ~C!Flush(a) /\ ~C!Finish(a)
  BY <1>2 DEF C!Place, C!Flush, C!Finish
<1> QED
  BY <1>3, <1>4, <1>5, <1>6

\* The sender's variables.
LEMMA MasterVars ==
  ASSUME Kept, Domains
  PROVE  /\ DOMAIN queue = Workers /\ DOMAIN op = Workers /\ DOMAIN meta = Workers /\ DOMAIN last = Workers
         /\ DOMAIN cur = Workers /\ DOMAIN buf = Workers /\ DOMAIN pulled = Actors /\ DOMAIN offset = Actors
         /\ DOMAIN wire = Rollouts /\ DOMAIN got = Rollouts
         /\ pc \in [Workers -> Labels] /\ Master \in Workers /\ Master \in Actors /\ Master \notin Rollouts
         /\ RankOf(Master) = 0 /\ X!Role(Master) = "sender" /\ multi \in BOOLEAN
<1>1. multi \in BOOLEAN
  BY DEF Kept, Shape
<1>2. RankOf(Master) = 0
  BY <1>1, Senders
<1>3. X!Role(Master) = "sender"
  BY <1>2, Same DEF X!Role, Master, X!Master
<1> QED
  BY <1>1, <1>2, <1>3, Cluster DEF Kept, Shape, Domains

\* XCCL: of the sender, short of publishing.
LEMMA XcclSenderGoes ==
  ASSUME Kept, Domains, engine = "xccl",
         \/ X!Join(Master) \/ X!Pull(Master) \/ X!PullNone(Master) \/ X!RelayChunk(Master) \/ X!PlaceChunk(Master)
         \/ X!Synchronize(Master) \/ X!StartBroadcast(Master) \/ X!FillNext(Master) \/ X!Step(Master)
         \/ X!LastQueued(Master) \/ X!Finish(Master)
         \/ X!TakeFrame \/ X!StartSending \/ X!SubscribersTimeout \/ X!QueueBroadcast,
         NEW z, Planned(z, engine, sync),
         NEW F, NEW m, NEW E, NEW Q, NEW P, NEW f, Sender(z, F, m, E, Q, P, f)
  PROVE  Lone(Master) /\ \E F1, m1, Q1 : Sender(z, F1, m1, E, Q1, P, f)'
<1> USE DEF X!job, X!filling, X!net, X!work, X!device, X!Go, X!Push
<1> DEFINE Goes == \E F1, m1, Q1 : Sender(z, F1, m1, E, Q1, P, f)'
<1>1. /\ DOMAIN queue = Workers /\ DOMAIN op = Workers /\ DOMAIN meta = Workers /\ DOMAIN last = Workers
      /\ DOMAIN cur = Workers /\ DOMAIN buf = Workers /\ DOMAIN pulled = Actors /\ DOMAIN offset = Actors
      /\ pc \in [Workers -> Labels] /\ Master \in Workers /\ Master \in Actors /\ Master \notin Rollouts
      /\ RankOf(Master) = 0 /\ X!Role(Master) = "sender" /\ X!Master = Master
  BY MasterVars, Same
<1>2. Len(Sizes) = z.n
  BY PlanFacts DEF Sizes
<1>3. CASE X!Join(Master)
  <2>1. /\ SameJob /\ UNCHANGED <<queue, op, meta, last, cur, buf, wire, got, pulled, offset>> /\ pc[Master] = "init"
        /\ pc' = [pc EXCEPT ![Master] = IF RankOf(Master) = -1 THEN "pull" ELSE "barrier"]
    BY <1>3, Same DEF X!Join, SameJob
  <2>2. Lone(Master) /\ pc'[Master] = "barrier"
    BY <1>1, <2>1 DEF Lone, StaysPut
  <2>3. Sender(z, F, m, E, Q, P, f)'
    BY <2>1, <2>2, XcclWalks
  <2> QED
    BY <2>2, <2>3
<1>4. CASE X!Pull(Master)
  <2>1. /\ SameJob /\ UNCHANGED <<op, meta, last, cur, buf, wire, got, offset>> /\ pc[Master] = "pull" /\ pulled[Master] < z.n
        /\ pc' = [pc EXCEPT ![Master] = "place"] /\ pulled' = [pulled EXCEPT ![Master] = @ + 1]
        /\ queue' = [queue EXCEPT ![Master] = @ \o <<[do |-> "gather"]>>]
    BY <1>1, <1>2, <1>4, SameToo DEF X!Pull, SameJob
  <2>2. /\ Lone(Master) /\ pc'[Master] = "place" /\ pulled'[Master] = pulled[Master] + 1
        /\ queue'[Master] = queue[Master] \o <<[do |-> "gather"]>>
    BY <1>1, <2>1 DEF Lone, StaysPut
  <2>3. Sender(z, F, m, E, Q, P, f)'
    BY <2>1, <2>2, XcclPullsOne
  <2> QED
    BY <2>2, <2>3
<1>5. CASE X!PullNone(Master)
  <2>1. /\ SameJob /\ UNCHANGED <<op, meta, cur, buf, wire, got, pulled, offset, queue>> /\ pc[Master] = "pull" /\ pulled[Master] = z.n
        /\ pc' = [pc EXCEPT ![Master] = "sync"] /\ last' = [last EXCEPT ![Master] = TRUE]
    BY <1>1, <1>2, <1>5, SameToo DEF X!PullNone, SameJob
  <2>2. Lone(Master) /\ pc'[Master] = "sync" /\ last'[Master] = TRUE
    BY <1>1, <2>1 DEF Lone, StaysPut
  <2>3. Sender(z, F, m, E, Q, P, f)'
    BY <2>1, <2>2, XcclPullsOne
  <2> QED
    BY <2>2, <2>3
<1>6. CASE X!PlaceChunk(Master)
  <2> DEFINE p == PlaceIn("xccl", offset[Master], Sizes[pulled[Master]])
             x == [do |-> "fill", b |-> cur[Master], at |-> p.at, id |-> Id(pulled[Master])]
  <2>1. X!NextPlace(Master) = p
    BY SameToo DEF X!NextPlace, PlaceIn
  <2>2. /\ SameJob /\ UNCHANGED <<op, last, cur, buf, wire, got, pulled>> /\ pc[Master] = "place"
        /\ IF p.flush THEN pc' = [pc EXCEPT ![Master] = "sync"] /\ UNCHANGED <<queue, meta, offset>>
           ELSE /\ pc' = [pc EXCEPT ![Master] = "step"] /\ queue' = [queue EXCEPT ![Master] = @ \o <<x>>]
                /\ meta' = [meta EXCEPT ![Master] = Append(@, <<p.at, Id(pulled[Master])>>)]
                /\ offset' = [offset EXCEPT ![Master] = p.at + Sizes[pulled[Master]]]
    BY <1>1, <1>6, <2>1, SameToo DEF X!PlaceChunk, X!Fill, SameJob
  <2>3. p.flush => pc'[Master] = "sync"
    BY <1>1, <2>2
  <2>4. ~p.flush => /\ pc'[Master] = "step" /\ queue'[Master] = queue[Master] \o <<x>>
                    /\ meta'[Master] = Append(meta[Master], <<p.at, Id(pulled[Master])>>)
                    /\ offset'[Master] = p.at + Sizes[pulled[Master]]
    BY <1>1, <2>2
  <2>5. Lone(Master)
    BY <1>1, <2>2 DEF Lone, StaysPut
  <2> HIDE DEF p
  <2>6. \E m1 : Sender(z, F, m1, E, Q, P, f)'
    BY <2>2, <2>3, <2>4, <2>5, XcclPlacesOne DEF p, Lone
  <2> QED
    BY <2>5, <2>6
<1>7. CASE X!FillNext(Master)
  <2> DEFINE x == [do |-> "fill", b |-> cur[Master], at |-> 0, id |-> Id(pulled[Master])]
  <2>1. /\ SameJob /\ UNCHANGED <<op, last, cur, buf, wire, got, pulled>> /\ pc[Master] = "fill"
        /\ pc' = [pc EXCEPT ![Master] = "step"] /\ queue' = [queue EXCEPT ![Master] = @ \o <<x>>]
        /\ meta' = [meta EXCEPT ![Master] = Append(<<>>, <<0, Id(pulled[Master])>>)]
        /\ offset' = [offset EXCEPT ![Master] = 0 + Sizes[pulled[Master]]]
    BY <1>1, <1>7, SameToo DEF X!FillNext, X!Fill, SameJob
  <2>2. /\ pc'[Master] = "step" /\ queue'[Master] = queue[Master] \o <<x>>
        /\ meta'[Master] = Append(<<>>, <<0, Id(pulled[Master])>>)
        /\ offset'[Master] = 0 + Sizes[pulled[Master]]
    BY <1>1, <2>1
  <2>3. Lone(Master)
    BY <1>1, <2>1 DEF Lone, StaysPut
  <2> DEFINE p == [at |-> 0, flush |-> FALSE]
  <2>4. p.at = 0 /\ ~p.flush
    OBVIOUS
  <2>5. p = IF pc[Master] = "place" THEN PlaceIn("xccl", offset[Master], Sizes[pulled[Master]])
            ELSE [at |-> 0, flush |-> FALSE]
    BY <2>1
  <2> HIDE DEF p
  <2>6. \E m1 : Sender(z, F, m1, E, Q, P, f)'
    BY <2>1, <2>2, <2>3, <2>4, <2>5, XcclPlacesOne DEF Lone
  <2> QED
    BY <2>3, <2>6
<1>8. CASE X!Synchronize(Master)
  <2>1. /\ SameJob /\ UNCHANGED <<queue, op, meta, last, cur, buf, wire, got, pulled, offset>> /\ pc[Master] = "sync"
        /\ pc' = [pc EXCEPT ![Master] = "await"]
    BY <1>8 DEF X!Synchronize, SameJob
  <2>2. Lone(Master) /\ pc'[Master] = "await"
    BY <1>1, <2>1 DEF Lone, StaysPut
  <2>3. Sender(z, F, m, E, Q, P, f)'
    BY <2>1, <2>2, XcclWalks
  <2> QED
    BY <2>2, <2>3
<1>9. CASE X!StartBroadcast(Master)
  <2>1. /\ SameJob /\ UNCHANGED <<queue, meta, last, buf, wire, got, pulled, offset>> /\ pc[Master] = "await"
        /\ NumSenders = 1 => op[Master] = NoOp
        /\ op' = [op EXCEPT ![Master] = [stage |-> "publish", meta |-> meta[Master], last |-> last[Master],
                                         len |-> offset[Master], b |-> cur[Master]]]
        /\ cur' = [cur EXCEPT ![Master] = IF last[Master] THEN @ ELSE 1 - @]
        /\ pc' = [pc EXCEPT ![Master] = IF last[Master] THEN "drain" ELSE "fill"]
    BY <1>9, SameToo DEF X!StartBroadcast, X!Previous, X!Pipelined, X!NoOp, NoOp, SameJob
  <2>2. /\ op'[Master] = [stage |-> "publish", meta |-> meta[Master], last |-> last[Master],
                          len |-> offset[Master], b |-> cur[Master]]
        /\ cur'[Master] = IF last[Master] THEN cur[Master] ELSE 1 - cur[Master]
        /\ pc'[Master] = IF last[Master] THEN "drain" ELSE "fill"
    BY <1>1, <2>1
  <2>3. Lone(Master)
    BY <1>1, <2>1 DEF Lone, StaysPut
  <2>4. Sender(z, F + 1, m, E, Q, P, f)'
    BY <2>1, <2>2, XcclHandsOver
  <2> QED
    BY <2>3, <2>4
<1>10. CASE X!Step(Master)
  <2>1. /\ SameJob /\ UNCHANGED <<queue, op, meta, last, cur, buf, wire, got, pulled, offset>> /\ pc[Master] = "step"
        /\ pc' = [pc EXCEPT ![Master] = "pull"] /\ (NumSenders = 1 \/ op[Master] = NoOp)
    BY <1>10, SameToo DEF X!Step, X!InStep, X!Pipelined, X!NoOp, NoOp, SameJob
  <2>2. Lone(Master) /\ pc'[Master] = "pull"
    BY <1>1, <2>1 DEF Lone, StaysPut
  <2>3. Sender(z, F, m, E, Q, P, f)'
    BY <2>1, <2>2, XcclWalks
  <2> QED
    BY <2>2, <2>3
<1>11. CASE X!LastQueued(Master)
  <2>1. /\ SameJob /\ UNCHANGED <<queue, op, meta, last, cur, buf, wire, got, pulled, offset>> /\ pc[Master] = "drain"
        /\ pc' = [pc EXCEPT ![Master] = "final"] /\ op[Master] = NoOp
    BY <1>11 DEF X!LastQueued, X!NoOp, NoOp, SameJob
  <2>2. Lone(Master) /\ pc'[Master] = "final"
    BY <1>1, <2>1 DEF Lone, StaysPut
  <2>3. Sender(z, F, m, E, Q, P, f)'
    BY <2>1, <2>2, XcclWalks
  <2> QED
    BY <2>2, <2>3
<1>12. CASE X!Finish(Master)
  <2>1. /\ SameJob /\ UNCHANGED <<queue, op, meta, last, cur, buf, wire, got, pulled, offset>> /\ pc[Master] = "final"
        /\ pc' = [pc EXCEPT ![Master] = "done"] /\ queue[Master] = <<>>
    BY <1>12 DEF X!Finish, X!Drained, X!Quiet, SameJob
  <2>2. Lone(Master) /\ pc'[Master] = "done"
    BY <1>1, <2>1 DEF Lone, StaysPut
  <2>3. Sender(z, F, m, E, Q, P, f)'
    BY <2>1, <2>2, XcclWalks
  <2> QED
    BY <2>2, <2>3
<1>13. CASE X!StartSending \/ X!SubscribersTimeout
  <2>1. PICK l \in {"pull", "failed"} :
           /\ SameJob /\ UNCHANGED <<queue, op, meta, last, cur, buf, wire, got, pulled, offset>>
           /\ pc[Master] = "subscribers" /\ pc' = [pc EXCEPT ![Master] = l]
    BY <1>1, <1>13 DEF X!StartSending, X!SubscribersTimeout, SameJob
  <2>2. Lone(Master) /\ pc'[Master] = l
    BY <1>1, <2>1 DEF Lone, StaysPut
  <2>3. Sender(z, F, m, E, Q, P, f)'
    BY <2>1, <2>2, XcclWalks
  <2> QED
    BY <2>2, <2>3
<1>14. CASE X!TakeFrame
  <2>1. SameJob /\ UNCHANGED <<pc, queue, op, meta, last, cur, buf, wire, got, pulled, offset>>
    BY <1>14 DEF X!TakeFrame, SameJob
  <2>2. Lone(Master) /\ StaysPut(Master)
    BY <2>1 DEF Lone, StaysPut
  <2>3. Sender(z, F, m, E, Q, P, f)'
    BY <2>1, <2>2, SenderStays
  <2> QED
    BY <2>2, <2>3
<1>15. CASE X!QueueBroadcast
  <2>1. /\ SameJob /\ UNCHANGED <<pc, meta, last, cur, buf, wire, got, pulled, offset>> /\ op[Master].stage = "queue"
        /\ op' = [op EXCEPT ![Master] = NoOp]
        /\ queue' = [queue EXCEPT ![Master] = @ \o <<Bcast(op[Master].b, op[Master].len)>>]
    BY <1>1, <1>15 DEF X!QueueBroadcast, X!NoOp, NoOp, X!Bcast, Bcast, SameJob
  <2>2. op'[Master] = NoOp /\ queue'[Master] = queue[Master] \o <<Bcast(op[Master].b, op[Master].len)>>
    BY <1>1, <2>1
  <2>3. Lone(Master)
    BY <1>1, <2>1 DEF Lone, StaysPut
  <2>4. Sender(z, F, m, E, Q + 1, P, f)'
    BY <2>1, <2>2, XcclQueues
  <2> QED
    BY <2>3, <2>4
<1>16. ~X!RelayChunk(Master)
  BY <1>1 DEF X!RelayChunk
<1> QED
  BY <1>3, <1>4, <1>5, <1>6, <1>7, <1>8, <1>9, <1>10, <1>11, <1>12, <1>13, <1>14, <1>15, <1>16

\* CNCL: of the sender, short of sending.
LEMMA CnclSenderGoes ==
  ASSUME Kept, Domains, engine = "cncl", C!Join(Master) \/ C!Pull(Master) \/ C!Place(Master) \/ C!Finish(Master),
         NEW z, Planned(z, engine, sync),
         NEW F, NEW m, NEW E, NEW Q, NEW P, NEW f, Sender(z, F, m, E, Q, P, f)
  PROVE  Lone(Master) /\ \E F1, m1, Q1 : Sender(z, F1, m1, E, Q1, P, f)'
<1> USE DEF C!job, C!filling, C!net, C!work, C!device, C!Go, C!Push
<1>1. /\ DOMAIN queue = Workers /\ DOMAIN op = Workers /\ DOMAIN meta = Workers /\ DOMAIN last = Workers
      /\ DOMAIN cur = Workers /\ DOMAIN buf = Workers /\ DOMAIN pulled = Actors /\ DOMAIN offset = Actors
      /\ pc \in [Workers -> Labels] /\ Master \in Workers /\ Master \in Actors /\ Master \notin Rollouts
      /\ RankOf(Master) = 0 /\ C!Master = Master
  BY MasterVars, Same
<1>2. Len(Sizes) = z.n
  BY PlanFacts DEF Sizes
<1>3. CASE C!Join(Master)
  <2>1. /\ SameJob /\ UNCHANGED <<queue, op, meta, last, cur, buf, wire, got, pulled, offset>> /\ pc[Master] = "init"
        /\ pc' = [pc EXCEPT ![Master] = IF RankOf(Master) = -1 THEN "pull" ELSE "barrier"]
    BY <1>3, Same DEF C!Join, SameJob
  <2>2. Lone(Master) /\ pc'[Master] = "barrier"
    BY <1>1, <2>1 DEF Lone, StaysPut
  <2>3. Sender(z, F, m, E, Q, P, f)'
    BY <2>1, <2>2, CnclWalks
  <2> QED
    BY <2>2, <2>3
<1>4. CASE C!Pull(Master)
  <2>1. /\ SameJob /\ UNCHANGED <<op, meta, last, cur, buf, wire, got, offset>> /\ pc[Master] = "pull" /\ pulled[Master] < z.n
        /\ pc' = [pc EXCEPT ![Master] = "place"] /\ pulled' = [pulled EXCEPT ![Master] = @ + 1]
        /\ queue' = [queue EXCEPT ![Master] = @ \o <<[do |-> "gather"]>>]
    BY <1>1, <1>2, <1>4, SameToo DEF C!Pull, SameJob
  <2>2. /\ Lone(Master) /\ pc'[Master] = "place" /\ pulled'[Master] = pulled[Master] + 1
        /\ queue'[Master] = queue[Master] \o <<[do |-> "gather"]>>
    BY <1>1, <2>1 DEF Lone, StaysPut
  <2>3. Sender(z, F, m, E, Q, P, f)'
    BY <2>1, <2>2, CnclWalks
  <2> QED
    BY <2>2, <2>3
<1>5. CASE C!Place(Master)
  <2> DEFINE x == [do |-> "fill", b |-> cur[Master], at |-> offset[Master], id |-> Id(pulled[Master])]
             fits == offset[Master] + Sizes[pulled[Master]] <= BucketSize
  <2>1. /\ SameJob /\ UNCHANGED <<op, last, cur, buf, wire, got, pulled>> /\ pc[Master] = "place"
        /\ IF fits
           THEN /\ pc' = [pc EXCEPT ![Master] = "pull"] /\ queue' = [queue EXCEPT ![Master] = @ \o <<x>>]
                /\ meta' = [meta EXCEPT ![Master] = Append(@, <<offset[Master], Id(pulled[Master])>>)]
                /\ offset' = [offset EXCEPT ![Master] = @ + Sizes[pulled[Master]]]
           ELSE pc' = [pc EXCEPT ![Master] = "flush"] /\ UNCHANGED <<queue, meta, offset>>
    BY <1>5, SameToo DEF C!Place, C!Fits, SameJob
  <2>2. Lone(Master)
    BY <1>1, <2>1 DEF Lone, StaysPut
  <2>3. IF fits
        THEN /\ pc'[Master] = "pull" /\ queue'[Master] = queue[Master] \o <<x>>
             /\ meta'[Master] = Append(meta[Master], <<offset[Master], Id(pulled[Master])>>)
             /\ offset'[Master] = offset[Master] + Sizes[pulled[Master]]
        ELSE pc'[Master] = "flush" /\ UNCHANGED <<queue, meta, offset>>
    BY <1>1, <2>1
  <2>4. \E m1 : Sender(z, F, m1, E, Q, P, f)'
    BY <2>1, <2>3, CnclPlacesOne
  <2> QED
    BY <2>2, <2>4
<1>6. CASE C!Finish(Master)
  <2>1. /\ SameJob /\ UNCHANGED <<queue, op, meta, last, cur, buf, wire, got, pulled, offset>> /\ pc[Master] = "final"
        /\ pc' = [pc EXCEPT ![Master] = "done"] /\ queue[Master] = <<>>
    BY <1>6 DEF C!Finish, C!Drained, C!Quiet, SameJob
  <2>2. Lone(Master) /\ pc'[Master] = "done"
    BY <1>1, <2>1 DEF Lone, StaysPut
  <2>3. Sender(z, F, m, E, Q, P, f)'
    BY <2>1, <2>2, CnclWalks
  <2> QED
    BY <2>2, <2>3
<1> QED
  BY <1>3, <1>4, <1>5, <1>6

-----------------------------------------------------------------------------
(* The steps of all hosts.                                                   *)

\* XCCL: the members of the group pass the barrier together,
LEMMA XcclMeets ==
  ASSUME Kept, Domains, engine = "xccl", X!Barrier,
         NEW z, NEW F, NEW m, NEW E, NEW Q, NEW P, NEW f, Under(z, F, m, E, Q, P, f)
  PROVE  Under(z, F, m, E, Q, P, f)'
<1> USE DEF X!job, X!filling, X!net, X!work, X!device
<1>1. /\ pc \in [Workers -> Labels] /\ X!Master = Master /\ X!Workers = Workers /\ X!Rollouts = Rollouts
      /\ Master \in Workers /\ Master \notin Rollouts /\ \A a \in Actors : a \in Workers /\ a \notin Rollouts
  BY MasterVars, Same, Cluster
<1>2. /\ SameJob /\ UNCHANGED <<queue, op, meta, last, cur, buf, wire, got, pulled, offset>>
      /\ pc' = [w \in Workers |-> IF w \notin X!Group THEN pc[w] ELSE
                  CASE w = Master -> "subscribers" [] w \in Rollouts -> "start" [] OTHER -> "pull"]
      /\ \A w \in X!Group : pc[w] = "barrier"
  BY <1>1 DEF X!Barrier, SameJob
<1>3. Planned(z, engine, sync) /\ Sender(z, F, m, E, Q, P, f) /\ Relays(z, E) /\ Takers(z, E, P)
  BY DEF Under
<1>4. Planned(z, engine', sync')
  BY <1>2, <1>3 DEF SameJob
<1>5. \A v : RankOf(v)' = RankOf(v)
  BY <1>2 DEF RankOf, SameJob
<1>6. Sender(z, F, m, E, Q, P, f)'
  <2>1. CASE Master \in X!Group
    <3>1. pc[Master] = "barrier" /\ pc'[Master] = "subscribers"
      BY <1>1, <1>2, <2>1
    <3> QED
      BY <1>2, <1>3, <3>1, XcclWalks
  <2>2. CASE Master \notin X!Group
    <3>1. StaysPut(Master)
      BY <1>1, <1>2, <2>2 DEF StaysPut
    <3> QED
      BY <1>2, <1>3, <3>1, SenderStays
  <2> QED
    BY <2>1, <2>2
<1>7. Relays(z, E)'
  <2> SUFFICES ASSUME NEW a \in Actors \ {Master}, RankOf(a)' # -1 PROVE \E r, pb : Relay(z, E, a, r, pb)'
    BY DEF Relays
  <2>1. PICK r, pb : Relay(z, E, a, r, pb)
    BY <1>3, <1>5 DEF Relays
  <2>2. CASE a \in X!Group
    <3>1. pc[a] = "barrier" /\ pc'[a] = "pull" /\ pulled'[a] = pulled[a] /\ queue'[a] = queue[a] /\ offset'[a] = offset[a]
      BY <1>1, <1>2, <2>2
    <3>2. Relay(z, E, a, r, pb)'
      BY <1>3, <2>1, <3>1, RelayWalks
    <3> QED
      BY <3>2
  <2>3. CASE a \notin X!Group
    <3>1. StaysPut(a)
      BY <1>1, <1>2, <2>3 DEF StaysPut
    <3>2. Relay(z, E, a, r, pb)'
      BY <2>1, <3>1, RelayStays
    <3> QED
      BY <3>2
  <2> QED
    BY <2>2, <2>3
<1>8. Takers(z, E, P)'
  <2> SUFFICES ASSUME NEW w \in Rollouts PROVE \E t, c : Taker(z, E, P, w, t, c)'
    BY DEF Takers
  <2>1. PICK t, c : Taker(z, E, P, w, t, c)
    BY <1>3 DEF Takers
  <2>2. w \in Workers /\ w # Master
    BY <1>1, Cluster
  <2>3. CASE w \in X!Group
    <3>1. pc[w] = "barrier" /\ pc'[w] = "start"
      BY <1>1, <1>2, <2>2, <2>3
    <3>2. Taker(z, E, P, w, t, c)'
      BY <1>2, <2>1, <3>1, TakerWalks
    <3> QED
      BY <3>2
  <2>4. CASE w \notin X!Group
    <3>1. StaysPut(w)
      BY <1>2, <2>2, <2>4 DEF StaysPut
    <3>2. Taker(z, E, P, w, t, c)'
      BY <2>1, <3>1, TakerStays
    <3> QED
      BY <3>2
  <2> QED
    BY <2>3, <2>4
<1> QED
  BY <1>4, <1>6, <1>7, <1>8 DEF Under

\* ... and so do CNCL's.
LEMMA CnclMeets ==
  ASSUME Kept, Domains, engine = "cncl", C!Barrier,
         NEW z, NEW F, NEW m, NEW E, NEW Q, NEW P, NEW f, Under(z, F, m, E, Q, P, f)
  PROVE  Under(z, F, m, E, Q, P, f)'
<1> USE DEF C!job, C!filling, C!net, C!work, C!device
<1>1. /\ pc \in [Workers -> Labels] /\ C!Master = Master /\ C!Workers = Workers /\ C!Rollouts = Rollouts
      /\ Master \in Workers /\ Master \notin Rollouts /\ \A a \in Actors : a \in Workers /\ a \notin Rollouts
  BY MasterVars, Same, Cluster
<1>2. /\ SameJob /\ UNCHANGED <<queue, op, meta, last, cur, buf, wire, got, pulled, offset>>
      /\ pc' = [w \in Workers |-> IF w \notin C!Group THEN pc[w] ELSE IF w = Master THEN "pull" ELSE "start"]
      /\ \A w \in C!Group : pc[w] = "barrier"
  BY <1>1 DEF C!Barrier, SameJob
<1>3. Planned(z, engine, sync) /\ Sender(z, F, m, E, Q, P, f) /\ Relays(z, E) /\ Takers(z, E, P)
  BY DEF Under
<1>4. Planned(z, engine', sync')
  BY <1>2, <1>3 DEF SameJob
<1>5. \A v : RankOf(v)' = RankOf(v)
  BY <1>2 DEF RankOf, SameJob
<1>6. Sender(z, F, m, E, Q, P, f)'
  <2>1. CASE Master \in C!Group
    <3>1. pc[Master] = "barrier" /\ pc'[Master] = "pull"
      BY <1>1, <1>2, <2>1
    <3> QED
      BY <1>2, <1>3, <3>1, CnclWalks
  <2>2. CASE Master \notin C!Group
    <3>1. StaysPut(Master)
      BY <1>1, <1>2, <2>2 DEF StaysPut
    <3> QED
      BY <1>2, <1>3, <3>1, SenderStays
  <2> QED
    BY <2>1, <2>2
<1>7. Relays(z, E)'
  <2> SUFFICES ASSUME NEW a \in Actors \ {Master}, RankOf(a)' # -1 PROVE FALSE
    BY DEF Relays
  <2> QED
    BY <1>5, Senders DEF Kept, Shape
<1>8. Takers(z, E, P)'
  <2> SUFFICES ASSUME NEW w \in Rollouts PROVE \E t, c : Taker(z, E, P, w, t, c)'
    BY DEF Takers
  <2>1. PICK t, c : Taker(z, E, P, w, t, c)
    BY <1>3 DEF Takers
  <2>2. w \in Workers /\ w # Master
    BY <1>1, Cluster
  <2>3. CASE w \in C!Group
    <3>1. pc[w] = "barrier" /\ pc'[w] = "start"
      BY <1>1, <1>2, <2>2, <2>3
    <3>2. Taker(z, E, P, w, t, c)'
      BY <1>2, <2>1, <3>1, TakerWalks
    <3> QED
      BY <3>2
  <2>4. CASE w \notin C!Group
    <3>1. StaysPut(w)
      BY <1>2, <2>2, <2>4 DEF StaysPut
    <3>2. Taker(z, E, P, w, t, c)'
      BY <2>1, <3>1, TakerStays
    <3> QED
      BY <3>2
  <2> QED
    BY <2>3, <2>4
<1> QED
  BY <1>4, <1>6, <1>7, <1>8 DEF Under

\* XCCL: the metadata of a bucket reach every rollout worker: none has yet to subscribe.
LEMMA XcclTells ==
  ASSUME Kept, Domains, Subscriptions, engine = "xccl", X!Publish,
         NEW z, NEW F, NEW m, NEW E, NEW Q, NEW P, NEW f, Under(z, F, m, E, Q, P, f)
  PROVE  Under(z, F, m, E, Q, P + 1, f)'
<1> USE DEF X!job, X!filling, X!net, X!work, X!device
<1>1. /\ DOMAIN op = Workers /\ DOMAIN wire = Rollouts /\ X!Master = Master /\ X!Rollouts = Rollouts
      /\ Master \in Workers /\ Master \notin Rollouts
  BY MasterVars, Same
<1> DEFINE x == [meta |-> op[Master].meta, last |-> op[Master].last, len |-> op[Master].len]
<1>2. /\ SameJob /\ UNCHANGED <<pc, queue, meta, last, cur, buf, got, pulled, offset>> /\ op[Master].stage = "publish"
      /\ op' = [op EXCEPT ![Master].stage = "queue"]
      /\ wire' = [w \in Rollouts |-> IF sub[w] = "live" THEN Append(wire[w], x) ELSE wire[w]]
  BY <1>1 DEF X!Publish, X!Deliver, SameJob
<1> HIDE DEF x
<1>3. Planned(z, engine, sync) /\ Sender(z, F, m, E, Q, P, f)
  BY DEF Under
<1>4. Sender(z, F, m, E, Q, P + 1, f)' /\ pc[Master] \notin Idle /\ x = MsgOf(z, P + 1)
  BY <1>2, <1>3, XcclPublishes DEF x
<1>5. \A w \in Rollouts : sub[w] = "live"
  BY <1>4 DEF Subscriptions, Live
<1>6. wire' = [w \in Rollouts |-> Append(wire[w], MsgOf(z, P + 1))]
  BY <1>2, <1>4, <1>5
<1>7. \A v \in Workers \ {Master} : op'[v] = op[v]
  BY <1>1, <1>2
<1> QED
  BY <1>2, <1>4, <1>6, <1>7, Told

\* CNCL: ... and the broadcast is queued at the same time.
LEMMA CnclTells ==
  ASSUME Kept, Domains, Subscriptions, engine = "cncl", C!Flush(Master) \/ C!PullNone(Master),
         NEW z, NEW F, NEW m, NEW E, NEW Q, NEW P, NEW f, Under(z, F, m, E, Q, P, f)
  PROVE  Under(z, F + 1, m, E, Q + 1, P + 1, f)'
<1> USE DEF C!job, C!filling, C!net, C!work, C!device, C!Go, C!Push
<1>1. /\ DOMAIN queue = Workers /\ DOMAIN meta = Workers /\ DOMAIN cur = Workers /\ DOMAIN offset = Actors
      /\ DOMAIN wire = Rollouts /\ pc \in [Workers -> Labels] /\ C!Master = Master /\ C!Rollouts = Rollouts
      /\ Master \in Workers /\ Master \notin Rollouts /\ Master \in Actors
  BY MasterVars, Same
<1>2. Planned(z, engine, sync) /\ Sender(z, F, m, E, Q, P, f)
  BY DEF Under
<1>3. Len(Sizes) = z.n
  BY <1>2, PlanFacts DEF Sizes
<1> DEFINE L(isLast) == [meta |-> meta[Master], last |-> isLast]
           Says(isLast) ==
             /\ SameJob /\ UNCHANGED <<op, last, buf, got, pulled>>
             /\ \A v \in Workers \ {Master} :
                  /\ pc'[v] = pc[v] /\ queue'[v] = queue[v] /\ meta'[v] = meta[v] /\ cur'[v] = cur[v]
                  /\ v \in Actors => offset'[v] = offset[v]
             /\ queue'[Master] = queue[Master] \o <<Bcast(cur[Master], BucketSize)>>
             /\ wire' = [w \in Rollouts |-> IF sub[w] = "live" THEN Append(wire[w], L(isLast)) ELSE wire[w]]
             /\ Sends(z, isLast)
<1>4. \E isLast : Says(isLast)
  <2>1. CASE C!Flush(Master)
    <3>1. /\ SameJob /\ UNCHANGED <<op, last, buf, got, pulled>> /\ pc[Master] = "flush" /\ queue[Master] = <<>>
          /\ pc' = [pc EXCEPT ![Master] = "place"] /\ cur' = [cur EXCEPT ![Master] = 1 - @]
          /\ meta' = [meta EXCEPT ![Master] = <<>>] /\ offset' = [offset EXCEPT ![Master] = 0]
          /\ queue' = [queue EXCEPT ![Master] = @ \o <<Bcast(cur[Master], BucketSize)>>]
          /\ wire' = [w \in Rollouts |-> IF sub[w] = "live" THEN Append(wire[w], L(FALSE)) ELSE wire[w]]
      BY <1>1, <2>1 DEF C!Flush, C!Send, C!Deliver, C!Settled, C!Quiet, C!Bcast, Bcast, SameJob
    <3> HIDE DEF L
    <3>2. Says(FALSE)
      BY <1>1, <3>1 DEF Sends
    <3> QED
      BY <3>2
  <2>2. CASE C!PullNone(Master)
    <3>1. /\ SameJob /\ UNCHANGED <<op, last, buf, got, pulled, cur, meta, offset>> /\ pc[Master] = "pull" /\ pulled[Master] = z.n
          /\ pc' = [pc EXCEPT ![Master] = "final"]
          /\ queue' = [queue EXCEPT ![Master] = @ \o <<Bcast(cur[Master], BucketSize)>>]
          /\ wire' = [w \in Rollouts |-> IF sub[w] = "live" THEN Append(wire[w], L(TRUE)) ELSE wire[w]]
      BY <1>1, <1>3, <2>2, SameToo DEF C!PullNone, C!Send, C!Deliver, C!Bcast, Bcast, SameJob
    <3> HIDE DEF L
    <3>2. Says(TRUE)
      BY <1>1, <3>1 DEF Sends
    <3> QED
      BY <3>2
  <2> QED
    BY <2>1, <2>2
<1>5. PICK isLast : Says(isLast)
  BY <1>4
<1>6. Sender(z, F + 1, m, E, Q + 1, P + 1, f)' /\ L(isLast) = MsgOf(z, P + 1)
  <2>1. /\ SameJob /\ UNCHANGED <<op, last, buf, pulled>>
        /\ Sends(z, isLast)
        /\ queue'[Master] = queue[Master] \o <<Bcast(cur[Master], BucketSize)>>
    BY <1>5
  <2> HIDE DEF Says, L
  <2>2. Planned(z, engine, sync) /\ Sender(z, F, m, E, Q, P, f)
    BY <1>2
  <2>3. Sender(z, F + 1, m, E, Q + 1, P + 1, f)' /\ [meta |-> meta[Master], last |-> isLast] = MsgOf(z, P + 1)
    BY <2>1, <2>2, CnclSendsOne
  <2> QED
    BY <2>3 DEF L
<1>7. \A w \in Rollouts : sub[w] = "live"
  BY <1>5 DEF Subscriptions, Live, Idle, Sends
<1> HIDE DEF L
<1>8. wire' = [w \in Rollouts |-> Append(wire[w], MsgOf(z, P + 1))]
  BY <1>5, <1>6, <1>7
<1> QED
  BY <1>5, <1>6, <1>8, Told

\* XCCL: one step of the sender, of another actor, or of a rollout worker.
XcclActs(a) ==
  \/ X!Join(a) \/ X!Pull(a) \/ X!PullNone(a) \/ X!RelayChunk(a) \/ X!PlaceChunk(a) \/ X!Synchronize(a)
  \/ X!StartBroadcast(a) \/ X!FillNext(a) \/ X!Step(a) \/ X!LastQueued(a) \/ X!Finish(a)
XcclGets(w) == X!Join(w) \/ X!ReceiveMetadata(w) \/ X!StartReceive(w) \/ X!Received(w) \/ X!Swap(w) \/ X!Loaded(w)
XcclHosts ==
  \/ X!Barrier \/ X!Publish \/ X!TakeFrame \/ X!StartSending \/ X!SubscribersTimeout \/ X!QueueBroadcast
  \/ (\E a \in Actors : XcclActs(a)) \/ \E w \in Rollouts : XcclGets(w) \/ X!Subscribed(w)

\* The hosts of the XCCL engine keep the order of the sync,
LEMMA XcclHostsGo ==
  ASSUME Kept, Domains, Subscriptions, engine = "xccl", XcclHosts,
         NEW z, NEW F, NEW m, NEW E, NEW Q, NEW P, NEW f, Under(z, F, m, E, Q, P, f)
  PROVE  \E F1, m1, Q1, P1 : Under(z, F1, m1, E, Q1, P1, f)'
<1>1. Planned(z, engine, sync) /\ Sender(z, F, m, E, Q, P, f) /\ Relays(z, E) /\ Takers(z, E, P)
  BY DEF Under
<1>2. CASE X!Barrier
  <2>1. Under(z, F, m, E, Q, P, f)'
    BY <1>2, XcclMeets
  <2> QED
    BY <2>1
<1>3. CASE X!Publish
  <2>1. Under(z, F, m, E, Q, P + 1, f)'
    BY <1>3, XcclTells
  <2> QED
    BY <2>1
<1>4. CASE X!TakeFrame \/ X!StartSending \/ X!SubscribersTimeout \/ X!QueueBroadcast \/ XcclActs(Master)
  <2>1. Lone(Master) /\ \E F1, m1, Q1 : Sender(z, F1, m1, E, Q1, P, f)'
    BY <1>1, <1>4, XcclSenderGoes DEF XcclActs
  <2>2. SameJob /\ \A v \in Workers \ {Master} : StaysPut(v)
    BY <2>1 DEF Lone
  <2>3. PICK F1, m1, Q1 : Sender(z, F1, m1, E, Q1, P, f)'
    BY <2>1
  <2>4. Under(z, F1, m1, E, Q1, P, f)'
    BY <2>2, <2>3, SenderMoves
  <2> QED
    BY <2>4
<1>5. ASSUME NEW a \in Actors \ {Master}, XcclActs(a)
      PROVE  Under(z, F, m, E, Q, P, f)'
  <2>1. RankOf(a) # -1 => \E r, pb : Relay(z, E, a, r, pb)
    BY <1>1 DEF Relays
  <2>2. Lone(a) /\ (RankOf(a) # -1 => \E r, pb : Relay(z, E, a, r, pb)')
    BY <1>1, <1>5, <2>1, XcclActorGoes DEF XcclActs
  <2>3. SameJob /\ \A v \in Workers \ {a} : StaysPut(v)
    BY <2>2 DEF Lone
  <2> QED
    BY <2>2, <2>3, ActorMoves
<1>6. ASSUME NEW w \in Rollouts, XcclGets(w)
      PROVE  Under(z, F, m, E, Q, P, f)'
  <2>1. PICK t, c : Taker(z, E, P, w, t, c)
    BY <1>1 DEF Takers
  <2>2. Lone(w) /\ \E t1, c1 : Taker(z, E, P, w, t1, c1)'
    BY <1>1, <1>6, <2>1, XcclTakes DEF XcclGets
  <2>3. SameJob /\ \A v \in Workers \ {w} : StaysPut(v)
    BY <2>2 DEF Lone
  <2> QED
    BY <2>2, <2>3, TakerMoves
<1>7. ASSUME NEW w \in Rollouts, X!Subscribed(w)
      PROVE  Under(z, F, m, E, Q, P, f)'
  <2>1. SameJob /\ \A v \in Workers : StaysPut(v)
    BY <1>7 DEF X!Subscribed, X!job, X!filling, X!work, X!device, SameJob, StaysPut
  <2>2. Sender(z, F, m, E, Q, P, f)'
    BY <1>1, <2>1, SenderStays, Cluster
  <2> QED
    BY <2>1, <2>2, SenderMoves
<1> QED
  <2>1. CASE \E a \in Actors : XcclActs(a)
    <3>1. PICK a \in Actors : XcclActs(a)
      BY <2>1
    <3>2. CASE a = Master
      BY <1>4, <3>1, <3>2
    <3>3. CASE a # Master
      BY <1>5, <3>1, <3>3
    <3> QED
      BY <3>2, <3>3
  <2>2. CASE \E w \in Rollouts : XcclGets(w) \/ X!Subscribed(w)
    BY <1>6, <1>7, <2>2
  <2> QED
    BY <1>2, <1>3, <1>4, <2>1, <2>2 DEF XcclHosts

\* ... and so do CNCL's.
CnclActs(a) == C!Join(a) \/ C!Pull(a) \/ C!Place(a) \/ C!Flush(a) \/ C!PullNone(a) \/ C!Finish(a)
CnclGets(w) == C!Join(w) \/ C!Receive(w) \/ C!Swap(w) \/ C!Loaded(w)
CnclHosts ==
  \/ C!Barrier \/ (\E a \in Actors : CnclActs(a)) \/ \E w \in Rollouts : CnclGets(w) \/ C!Subscribed(w)

\* The hosts of the CNCL engine keep it too.
LEMMA CnclHostsGo ==
  ASSUME Kept, Domains, Subscriptions, engine = "cncl", CnclHosts,
         NEW z, NEW F, NEW m, NEW E, NEW Q, NEW P, NEW f, Under(z, F, m, E, Q, P, f)
  PROVE  \E F1, m1, Q1, P1 : Under(z, F1, m1, E, Q1, P1, f)'
<1>1. Planned(z, engine, sync) /\ Sender(z, F, m, E, Q, P, f) /\ Relays(z, E) /\ Takers(z, E, P)
  BY DEF Under
<1>2. CASE C!Barrier
  <2>1. Under(z, F, m, E, Q, P, f)'
    BY <1>2, CnclMeets
  <2> QED
    BY <2>1
<1>3. CASE C!Flush(Master) \/ C!PullNone(Master)
  <2>1. Under(z, F + 1, m, E, Q + 1, P + 1, f)'
    BY <1>3, CnclTells
  <2> QED
    BY <2>1
<1>4. CASE C!Join(Master) \/ C!Pull(Master) \/ C!Place(Master) \/ C!Finish(Master)
  <2>1. Lone(Master) /\ \E F1, m1, Q1 : Sender(z, F1, m1, E, Q1, P, f)'
    BY <1>1, <1>4, CnclSenderGoes
  <2>2. SameJob /\ \A v \in Workers \ {Master} : StaysPut(v)
    BY <2>1 DEF Lone
  <2>3. PICK F1, m1, Q1 : Sender(z, F1, m1, E, Q1, P, f)'
    BY <2>1
  <2>4. Under(z, F1, m1, E, Q1, P, f)'
    BY <2>2, <2>3, SenderMoves
  <2> QED
    BY <2>4
<1>5. ASSUME NEW a \in Actors \ {Master}, CnclActs(a)
      PROVE  Under(z, F, m, E, Q, P, f)'
  <2>1. Lone(a) /\ RankOf(a) = -1
    BY <1>5, CnclActorGoes DEF CnclActs
  <2>2. SameJob /\ \A v \in Workers \ {a} : StaysPut(v)
    BY <2>1 DEF Lone
  <2> QED
    BY <2>1, <2>2, ActorMoves
<1>6. ASSUME NEW w \in Rollouts, CnclGets(w)
      PROVE  Under(z, F, m, E, Q, P, f)'
  <2>1. PICK t, c : Taker(z, E, P, w, t, c)
    BY <1>1 DEF Takers
  <2>2. Lone(w) /\ \E t1, c1 : Taker(z, E, P, w, t1, c1)'
    BY <1>1, <1>6, <2>1, CnclTakes DEF CnclGets
  <2>3. SameJob /\ \A v \in Workers \ {w} : StaysPut(v)
    BY <2>2 DEF Lone
  <2> QED
    BY <2>2, <2>3, TakerMoves
<1>7. ASSUME NEW w \in Rollouts, C!Subscribed(w)
      PROVE  Under(z, F, m, E, Q, P, f)'
  <2>1. SameJob /\ \A v \in Workers : StaysPut(v)
    BY <1>7 DEF C!Subscribed, C!job, C!filling, C!work, C!device, SameJob, StaysPut
  <2>2. Sender(z, F, m, E, Q, P, f)'
    BY <1>1, <2>1, SenderStays, Cluster
  <2> QED
    BY <2>1, <2>2, SenderMoves
<1> QED
  <2>1. CASE \E a \in Actors : CnclActs(a)
    <3>1. PICK a \in Actors : CnclActs(a)
      BY <2>1
    <3>2. CASE a = Master
      BY <1>3, <1>4, <3>1, <3>2 DEF CnclActs
    <3>3. CASE a # Master
      BY <1>5, <3>1, <3>3
    <3> QED
      BY <3>2, <3>3
  <2>2. CASE \E w \in Rollouts : CnclGets(w) \/ C!Subscribed(w)
    BY <1>6, <1>7, <2>2
  <2> QED
    BY <1>2, <2>1, <2>2 DEF CnclHosts

-----------------------------------------------------------------------------
(* The subscriptions.                                                        *)

\* Rollout workers are counted.
LEMMA RolloutsCounted == IsFiniteSet(Rollouts) /\ Cardinality(Rollouts) = NumRollouts
<1>1. NumActors \in Int /\ NumActors + NumRollouts - 1 \in Int /\ NumRollouts \in Nat /\ NumRollouts >= 1 /\ NumActors \in Nat
  BY ClusterAssumption
<1>2. IsFiniteSet(NumActors..NumActors + NumRollouts - 1)
      /\ Cardinality(NumActors..NumActors + NumRollouts - 1) =
           IF NumActors > NumActors + NumRollouts - 1 THEN 0 ELSE (NumActors + NumRollouts - 1) - NumActors + 1
  BY <1>1, FS_Interval
<1> QED
  BY <1>1, <1>2 DEF Rollouts

\* A step that leaves the subscriptions alone, and does not start to send.
LEMMA NoneSubscribes ==
  ASSUME Subscriptions, UNCHANGED <<engine, sub, frames, count>>, pc'[Master] \notin Idle => pc[Master] \notin Idle,
         engine = "cncl" => \A w \in Rollouts : pc'[w] # "init" => pc[w] # "init"
  PROVE  Subscriptions'
BY DEF Subscriptions, Live

\* XCCL: every subscription is one frame, which the sender counts.
LEMMA XcclSubscribes ==
  ASSUME Kept, Domains, Subscriptions, engine = "xccl", XcclHosts
  PROVE  Subscriptions'
<1> USE DEF X!job, X!filling, X!net, X!work, X!device, X!Go
<1>1. /\ pc \in [Workers -> Labels] /\ X!Master = Master /\ X!Workers = Workers /\ X!Rollouts = Rollouts
      /\ Master \in Workers /\ Master \notin Rollouts /\ RankOf(Master) = 0
      /\ \A w \in Rollouts : w # Master
  BY MasterVars, Same
<1>2. /\ sub \in [Rollouts -> {"none", "sent", "live"}] /\ frames \in Nat /\ count \in Nat
      /\ frames + count = Cardinality(Live) /\ (pc[Master] \notin Idle => Live = Rollouts)
  BY DEF Subscriptions
<1>3. /\ IsFiniteSet(Rollouts) /\ Cardinality(Rollouts) = NumRollouts /\ NumRollouts \in Nat
      /\ Live \subseteq Rollouts /\ IsFiniteSet(Live) /\ Cardinality(Live) \in Nat
      /\ Cardinality(Live) <= NumRollouts /\ (Cardinality(Live) = NumRollouts => Live = Rollouts)
  <2>1. Live \subseteq Rollouts
    BY DEF Live
  <2>2. IsFiniteSet(Live) /\ Cardinality(Live) <= Cardinality(Rollouts) /\ (Cardinality(Rollouts) = Cardinality(Live) => Rollouts = Live)
    BY <2>1, RolloutsCounted, FS_Subset
  <2> QED
    BY <2>1, <2>2, RolloutsCounted, FS_CardinalityType, ClusterAssumption
<1>4. ASSUME UNCHANGED <<engine, sub, frames, count>>, pc'[Master] \notin Idle => pc[Master] \notin Idle
      PROVE  Subscriptions'
  BY <1>4, NoneSubscribes
<1>5. CASE X!Barrier
  <2>1. pc'[Master] \in {pc[Master], "subscribers"}
    BY <1>1, <1>5 DEF X!Barrier
  <2>2. UNCHANGED <<engine, sub, frames, count>>
    BY <1>5 DEF X!Barrier
  <2> QED
    BY <1>4, <2>1, <2>2 DEF Idle
<1>6. CASE X!Publish \/ X!QueueBroadcast
  BY <1>4, <1>6 DEF X!Publish, X!QueueBroadcast
<1>7. CASE X!SubscribersTimeout
  <2>1. pc'[Master] = "failed" /\ UNCHANGED <<engine, sub, frames, count>>
    BY <1>1, <1>7 DEF X!SubscribersTimeout
  <2> QED
    BY <1>4, <2>1 DEF Idle
<1>8. CASE X!StartSending
  <2>1. UNCHANGED <<engine, sub, frames, count>> /\ frames = 0 /\ count >= NumRollouts
    BY <1>8 DEF X!StartSending, X!Enough
  <2>2. Live = Rollouts
    BY <1>2, <1>3, <2>1
  <2> QED
    BY <1>1, <1>2, <2>1, <2>2 DEF Subscriptions, Live
<1>9. CASE X!TakeFrame
  <2>1. UNCHANGED <<engine, sub, pc>> /\ frames > 0 /\ count' = count + 1 /\ frames' = frames - 1
    BY <1>9 DEF X!TakeFrame
  <2>2. frames' \in Nat /\ count' \in Nat /\ frames' + count' = Cardinality(Live)
    BY <1>2, <1>3, <2>1
  <2> QED
    BY <1>2, <2>1, <2>2 DEF Subscriptions, Live
<1>10. ASSUME NEW w \in Workers, X!Join(w)
       PROVE  Subscriptions'
  <2>1. /\ UNCHANGED <<engine, frames, count>> /\ pc[w] = "init"
        /\ pc' = [pc EXCEPT ![w] = IF RankOf(w) = -1 THEN "pull" ELSE "barrier"]
        /\ sub' = IF w \in Rollouts /\ sub[w] = "none" THEN [sub EXCEPT ![w] = "sent"] ELSE sub
    BY <1>1, <1>10, Same DEF X!Join, X!Connected
  <2>2. Live' = Live /\ sub' \in [Rollouts -> {"none", "sent", "live"}]
    BY <1>2, <2>1 DEF Live
  <2>3. pc'[Master] \notin Idle => pc[Master] \notin Idle
    BY <1>1, <2>1 DEF Idle
  <2> QED
    BY <1>2, <2>1, <2>2, <2>3 DEF Subscriptions
<1>11. ASSUME NEW w \in Rollouts, X!Subscribed(w)
       PROVE  Subscriptions'
  <2>1. UNCHANGED <<engine, pc, count>> /\ sub[w] = "sent" /\ sub' = [sub EXCEPT ![w] = "live"] /\ frames' = frames + 1
    BY <1>11 DEF X!Subscribed
  <2>2. w \notin Live /\ Live' = Live \cup {w} /\ sub' \in [Rollouts -> {"none", "sent", "live"}]
    BY <1>2, <2>1 DEF Live
  <2>3. Cardinality(Live') = Cardinality(Live) + 1
    BY <1>3, <2>2, FS_AddElement
  <2>4. pc[Master] \notin Idle => Live' = Rollouts
    BY <1>2, <2>2
  <2>5. frames' \in Nat /\ frames' + count' = Cardinality(Live')
    BY <1>2, <1>3, <2>1, <2>3
  <2> QED
    BY <1>2, <2>1, <2>2, <2>4, <2>5 DEF Subscriptions
<1>12. ASSUME NEW a \in Actors, XcclActs(a), ~X!Join(a)
       PROVE  Subscriptions'
  <2>1. PICK l : pc' = [pc EXCEPT ![a] = l] /\ UNCHANGED <<engine, sub, frames, count>> /\ pc[a] \notin Idle
    BY <1>12 DEF XcclActs, X!Pull, X!PullNone, X!RelayChunk, X!PlaceChunk, X!Synchronize, X!StartBroadcast,
                 X!FillNext, X!Step, X!LastQueued, X!Finish, Idle
  <2>2. pc'[Master] \notin Idle => pc[Master] \notin Idle
    BY <1>1, <2>1
  <2> QED
    BY <1>4, <2>1, <2>2
<1>13. ASSUME NEW w \in Rollouts, XcclGets(w), ~X!Join(w)
       PROVE  Subscriptions'
  <2>1. pc'[Master] = pc[Master] /\ UNCHANGED <<engine, sub, frames, count>>
    BY <1>1, <1>13 DEF XcclGets, X!ReceiveMetadata, X!StartReceive, X!Received, X!Swap, X!Loaded
  <2> QED
    BY <1>4, <2>1
<1> QED
  BY <1>5, <1>6, <1>7, <1>8, <1>9, <1>10, <1>11, <1>12, <1>13, Cluster DEF XcclHosts, XcclActs, XcclGets

\* CNCL: a rollout worker that has joined has subscribed, if none is late.
LEMMA CnclSubscribes ==
  ASSUME Kept, Domains, Subscriptions, engine = "cncl", LateOnes = {}, CnclHosts
  PROVE  Subscriptions'
<1> USE DEF C!job, C!filling, C!net, C!work, C!device, C!Go
<1>1. /\ pc \in [Workers -> Labels] /\ C!Master = Master /\ C!Workers = Workers /\ C!Rollouts = Rollouts
      /\ Master \in Workers /\ Master \notin Rollouts /\ RankOf(Master) = 0 /\ multi \in BOOLEAN
      /\ \A w \in Rollouts : w # Master /\ w \in Workers
  BY MasterVars, Same, Cluster
<1>2. /\ sub \in [Rollouts -> {"none", "sent", "live"}] /\ frames \in Nat /\ count \in Nat
      /\ (pc[Master] \notin Idle => Live = Rollouts)
      /\ \A w \in Rollouts : sub[w] # "sent" /\ (pc[w] # "init" => sub[w] = "live")
  BY DEF Subscriptions
<1>3. CASE C!Barrier
  <2>1. UNCHANGED <<engine, sub, frames, count>> /\ \A w \in Rollouts : pc[w] = "barrier"
    BY <1>1, <1>3, SameToo, RolloutsRanked DEF C!Barrier
  <2>2. \A w \in Rollouts : sub[w] = "live"
    BY <1>2, <2>1
  <2> QED
    BY <1>2, <2>1, <2>2 DEF Subscriptions, Live
<1>4. ASSUME NEW w \in Workers, C!Join(w)
      PROVE  Subscriptions'
  <2>1. /\ UNCHANGED <<engine, frames, count>> /\ pc[w] = "init"
        /\ pc' = [pc EXCEPT ![w] = IF RankOf(w) = -1 THEN "pull" ELSE "barrier"]
        /\ sub' = IF w \notin Rollouts \/ sub[w] # "none" THEN sub ELSE [sub EXCEPT ![w] = "live"]
    BY <1>1, <1>4, Same DEF C!Join, C!Connected
  <2>2. sub' \in [Rollouts -> {"none", "sent", "live"}] /\ Live \subseteq Live' /\ Live' \subseteq Rollouts
    BY <1>2, <2>1 DEF Live
  <2>3. pc'[Master] \notin Idle => pc[Master] \notin Idle
    BY <1>1, <2>1 DEF Idle
  <2>4. \A v \in Rollouts : sub'[v] # "sent" /\ (pc'[v] # "init" => sub'[v] = "live")
    BY <1>1, <1>2, <2>1
  <2> QED
    BY <1>2, <2>1, <2>2, <2>3, <2>4 DEF Subscriptions
<1>5. ASSUME NEW a \in Actors, CnclActs(a), ~C!Join(a)
      PROVE  Subscriptions'
  <2>1. PICK l : pc' = [pc EXCEPT ![a] = l] /\ UNCHANGED <<engine, sub, frames, count>> /\ pc[a] \notin Idle
    BY <1>5 DEF CnclActs, C!Pull, C!Place, C!Flush, C!PullNone, C!Finish, Idle
  <2>2. pc'[Master] \notin Idle => pc[Master] \notin Idle
    BY <1>1, <2>1
  <2>3. \A w \in Rollouts : pc'[w] = pc[w]
    BY <1>1, <2>1, Cluster
  <2> QED
    BY <2>1, <2>2, <2>3, NoneSubscribes
<1>6. ASSUME NEW w \in Rollouts, CnclGets(w), ~C!Join(w)
      PROVE  Subscriptions'
  <2>1. PICK l : pc' = [pc EXCEPT ![w] = l] /\ UNCHANGED <<engine, sub, frames, count>> /\ pc[w] # "init"
    BY <1>6 DEF CnclGets, C!Receive, C!Swap, C!Loaded
  <2>2. pc'[Master] = pc[Master] /\ \A v \in Rollouts : pc'[v] # "init" => pc[v] # "init"
    BY <1>1, <2>1
  <2> QED
    BY <2>1, <2>2, NoneSubscribes
<1>7. ASSUME NEW w \in Rollouts
      PROVE  ~C!Subscribed(w)
  BY <1>2 DEF C!Subscribed
<1> QED
  BY <1>3, <1>4, <1>5, <1>6, <1>7, Cluster DEF CnclHosts, CnclActs, CnclGets

\* All hosts leave the job and the variables' domains as they are.
LEMMA HostsKeepDomains ==
  ASSUME Kept, Domains, (engine = "xccl" /\ XcclHosts) \/ (engine = "cncl" /\ CnclHosts)
  PROVE  Domains'
<1>1. X!Rollouts = Rollouts /\ C!Rollouts = Rollouts
  BY Same
<1>2. CASE engine = "xccl" /\ XcclHosts
  BY <1>1, <1>2 DEF Domains, XcclHosts, XcclActs, XcclGets, X!Barrier, X!Publish, X!Deliver, X!TakeFrame, X!StartSending,
       X!SubscribersTimeout, X!QueueBroadcast, X!Join, X!Pull, X!PullNone, X!RelayChunk, X!PlaceChunk, X!Fill,
       X!Synchronize, X!StartBroadcast, X!FillNext, X!Step, X!LastQueued, X!Finish, X!ReceiveMetadata, X!StartReceive,
       X!Received, X!Swap, X!Loaded, X!Subscribed, X!job, X!filling, X!net, X!work, X!device
<1>3. CASE engine = "cncl" /\ CnclHosts
  BY <1>1, <1>3 DEF Domains, CnclHosts, CnclActs, CnclGets, C!Barrier, C!Send, C!Deliver, C!Join, C!Pull, C!Place, C!Flush,
       C!PullNone, C!Finish, C!Receive, C!Swap, C!Loaded, C!Subscribed, C!job, C!filling, C!net, C!work, C!device
<1> QED
  BY <1>2, <1>3

-----------------------------------------------------------------------------
(* What the device does to the queues.                                       *)

\* Both engines' devices do what Device says.
LEMMA SameDevice ==
  /\ X!Device => Device
  /\ C!Device => Device
  /\ X!NextSync => NextSync
  /\ C!NextSync => NextSync
<1>1. \A w, i : X!MayRun(w, i) = MayRun(w, i) /\ C!MayRun(w, i) = MayRun(w, i)
  BY DEF X!MayRun, C!MayRun, MayRun
<1>2. \A x : X!Collective(x) = Collective(x) /\ C!Collective(x) = Collective(x)
  BY DEF X!Collective, C!Collective, Collective
<1>3. \A b, s : X!Written(b, s) = Written(b, s) /\ C!Written(b, s) = Written(b, s)
  BY SameToo DEF X!Written, C!Written, Written, X!Overlaps, C!Overlaps, Overlaps
<1>4. \A b, at, id : X!ReadAs(b, at, id) = ReadAs(b, at, id) /\ C!ReadAs(b, at, id) = ReadAs(b, at, id)
  BY DEF X!ReadAs, C!ReadAs, ReadAs, X!Junk, C!Junk, Junk
<1>5. \A a, i : X!MayGather(a, i) = MayGather(a, i) /\ C!MayGather(a, i) = MayGather(a, i)
  BY <1>1 DEF X!MayGather, C!MayGather, MayGather
<1>6. \A q, i : X!RemoveAt(q, i) = RemoveAt(q, i) /\ C!RemoveAt(q, i) = RemoveAt(q, i)
  BY DEF X!RemoveAt, C!RemoveAt, RemoveAt
<1> USE DEF X!host, X!job, X!filling, X!net, X!work, C!host, C!job, C!filling, C!net, C!work, host, job, filling, net, work
<1>7. \A w : (X!Local(w) => Local(w)) /\ (C!Local(w) => Local(w))
  <2> SUFFICES ASSUME NEW w PROVE (X!Local(w) => Local(w)) /\ (C!Local(w) => Local(w))
    OBVIOUS
  <2>1. X!Local(w) => Local(w)
    BY <1>1, <1>2, <1>3, <1>4, <1>6 DEF X!Local, Local
  <2>2. C!Local(w) => Local(w)
    BY <1>1, <1>2, <1>3, <1>4, <1>6 DEF C!Local, Local
  <2> QED
    BY <2>1, <2>2
<1>8. X!Gather => Gather
  BY <1>5, <1>6, Same DEF X!Gather, Gather
<1>9. C!Gather => Gather
  BY <1>5, <1>6, Same DEF C!Gather, Gather
<1>10. X!Broadcast => Broadcast
  BY <1>1, Same, SameToo DEF X!Broadcast, Broadcast
<1>11. C!Broadcast => Broadcast
  BY <1>1, Same, SameToo DEF C!Broadcast, Broadcast
<1>12. /\ X!Device => Device
       /\ C!Device => Device
  BY <1>7, <1>8, <1>9, <1>10, <1>11, Same DEF X!Device, C!Device, Device
<1>13. X!AllEnded = AllEnded /\ C!AllEnded = AllEnded
  BY Same DEF X!AllEnded, C!AllEnded, AllEnded, X!HasEnded, C!HasEnded, HasEnded
<1>14. /\ X!NextSync => NextSync
       /\ C!NextSync => NextSync
  BY <1>13, Same DEF X!NextSync, C!NextSync, NextSync, X!NoOp, C!NoOp, NoOp
<1> QED
  BY <1>12, <1>14

\* A piece leaves the sender's queue; what is left is in order.
LEMMA LinedOut ==
  ASSUME NEW z, NEW q, NEW f, NEW m, NEW e, NEW r, NEW pf, NEW pb, Lined(z, q, f, m, e, r, pf, pb), NEW i \in DOMAIN q,
         NEW p, p = RemoveAt(q, i), NEW f1 \in {f, f + 1}, NEW e1 \in {e, e + 1},
         Marks(p, "fill", f1, m, Shifted(pf, i, f1, m)), Marks(p, "bcast", e1, r, Shifted(pb, i, e1, r)),
         \A k \in f1 + 1..m : pf[k] # i, \A k \in e1 + 1..r : pb[k] # i
  PROVE  Lined(z, p, f1, m, e1, r, Shifted(pf, i, f1, m), Shifted(pb, i, e1, r))
<1> DEFINE pg == Shifted(pf, i, f1, m)   ph == Shifted(pb, i, e1, r)
<1>1. /\ IsSeq(q) /\ Marks(q, "fill", f, m, pf) /\ Marks(q, "bcast", e, r, pb)
      /\ \A j \in DOMAIN q : q[j].do \in {"gather", "fill", "bcast"}
      /\ \A k \in f + 1..m : q[pf[k]] = FillOf(z, k)
      /\ \A k \in e + 1..r : q[pb[k]] = Bcast((k - 1) % 2, LenOf(z, k))
  BY DEF Lined
<1>2. /\ \A k \in f + 1..m : pf[k] \in DOMAIN q
      /\ \A k \in e + 1..r : pb[k] \in DOMAIN q
      /\ f \in Nat /\ m \in Nat /\ e \in Nat /\ r \in Nat
  BY <1>1 DEF Marks
<1>3. /\ IsSeq(p) /\ Len(q) \in Nat /\ DOMAIN q = 1..Len(q) /\ DOMAIN p = 1..Len(q) - 1
      /\ \A j \in 1..Len(q) - 1 : p[j] = IF j < i THEN q[j] ELSE q[j + 1]
  BY <1>1, Removed
<1>4. /\ \A k \in f1 + 1..m : k \in f + 1..m /\ pg[k] = Fell(pf, i, k)
      /\ \A k \in e1 + 1..r : k \in e + 1..r /\ ph[k] = Fell(pb, i, k)
  BY <1>2 DEF Shifted
<1>5. /\ \A k \in f + 1..m : pf[k] # i => Fell(pf, i, k) \in DOMAIN p /\ p[Fell(pf, i, k)] = q[pf[k]]
      /\ \A k \in e + 1..r : pb[k] # i => Fell(pb, i, k) \in DOMAIN p /\ p[Fell(pb, i, k)] = q[pb[k]]
  BY <1>1, MarksRemove
<1>6. \A j \in DOMAIN p : p[j].do \in {"gather", "fill", "bcast"}
  <2> SUFFICES ASSUME NEW j \in 1..Len(q) - 1 PROVE p[j].do \in {"gather", "fill", "bcast"}
    BY <1>3
  <2>1. j \in DOMAIN q /\ j + 1 \in DOMAIN q
    BY <1>3
  <2> QED
    BY <1>1, <1>3, <2>1
<1>7. Marks(p, "fill", f1, m, pg) /\ Marks(p, "bcast", e1, r, ph)
  OBVIOUS
<1> HIDE DEF pg, ph
<1>8. /\ \A k \in f1 + 1..m : p[pg[k]] = FillOf(z, k)
      /\ \A k \in e1 + 1..r : p[ph[k]] = Bcast((k - 1) % 2, LenOf(z, k))
  BY <1>1, <1>4, <1>5
<1>9. ASSUME NEW j \in f1 + 1..m, NEW k \in e1 + 1..r
      PROVE  /\ j <= z.up[k] => pg[j] < ph[k]
             /\ z.bk[j] >= k + 2 => z.kind = "xccl" /\ ph[k] < pg[j]
  <2>1. j \in f + 1..m /\ k \in e + 1..r /\ pf[j] # i /\ pb[k] # i
    BY <1>4
  <2>2. /\ j <= z.up[k] => pf[j] < pb[k]
        /\ z.bk[j] >= k + 2 => z.kind = "xccl" /\ pb[k] < pf[j]
    BY <2>1 DEF Lined
  <2>3. pf[j] \in Nat /\ pb[k] \in Nat /\ i \in Nat
    BY <1>2, <1>3, <2>1
  <2>4. pg[j] = (IF pf[j] > i THEN pf[j] - 1 ELSE pf[j]) /\ ph[k] = (IF pb[k] > i THEN pb[k] - 1 ELSE pb[k])
    BY <1>4 DEF Fell
  <2>5. (pf[j] < pb[k] => pg[j] < ph[k]) /\ (pb[k] < pf[j] => ph[k] < pg[j])
    BY <2>1, <2>3, <2>4
  <2> QED
    BY <2>2, <2>5
<1>10. Lined(z, p, f1, m, e1, r, pg, ph)
  BY <1>3, <1>6, <1>7, <1>8, <1>9 DEF Lined
<1> QED
  BY <1>10 DEF pg, ph

\* A gather leaves the sender's queue.
LEMMA GatherOut ==
  ASSUME NEW z, NEW q, NEW f, NEW m, NEW e, NEW r, NEW pf, NEW pb, Lined(z, q, f, m, e, r, pf, pb), NEW i \in DOMAIN q,
         q[i].do = "gather"
  PROVE  \E pg, ph : Lined(z, RemoveAt(q, i), f, m, e, r, pg, ph)
<1> DEFINE p == RemoveAt(q, i)
<1>1. IsSeq(q) /\ Marks(q, "fill", f, m, pf) /\ Marks(q, "bcast", e, r, pb)
  BY DEF Lined
<1>2. Marks(p, "fill", f, m, Shifted(pf, i, f, m)) /\ Marks(p, "bcast", e, r, Shifted(pb, i, e, r))
  BY <1>1, MarksRemove
<1>3. (\A k \in f + 1..m : pf[k] # i) /\ \A k \in e + 1..r : pb[k] # i
  BY <1>1 DEF Marks
<1> HIDE DEF p
<1>4. Lined(z, p, f, m, e, r, Shifted(pf, i, f, m), Shifted(pb, i, e, r))
  BY <1>2, <1>3, LinedOut DEF p
<1> QED
  BY <1>4 DEF p

\* The first fill leaves the sender's queue: that of the next chunk.
LEMMA FillOut ==
  ASSUME NEW z, NEW q, NEW f, NEW m, NEW e, NEW r, NEW pf, NEW pb, Lined(z, q, f, m, e, r, pf, pb), NEW i \in DOMAIN q,
         q[i].do = "fill", \A j \in 1..i - 1 : q[j].do # "fill"
  PROVE  /\ f + 1 \in f + 1..m /\ pf[f + 1] = i /\ q[i] = FillOf(z, f + 1)
         /\ \E pg, ph : Lined(z, RemoveAt(q, i), f + 1, m, e, r, pg, ph)
<1> DEFINE p == RemoveAt(q, i)
<1>1. IsSeq(q) /\ Marks(q, "fill", f, m, pf) /\ Marks(q, "bcast", e, r, pb)
  BY DEF Lined
<1>2. Marks(p, "fill", f + 1, m, Shifted(pf, i, f + 1, m)) /\ Marks(p, "bcast", e, r, Shifted(pb, i, e, r))
  BY <1>1, MarksRemove
<1>3. f + 1 \in f + 1..m /\ pf[f + 1] = i
  BY <1>1, MarksFirst
<1>4. q[i] = FillOf(z, f + 1)
  BY <1>3 DEF Lined
<1>5. \A k \in e + 1..r : pb[k] # i
  BY <1>1 DEF Marks
<1>6. \A k \in (f + 1) + 1..m : pf[k] # i
  <2> SUFFICES ASSUME NEW k \in (f + 1) + 1..m PROVE pf[k] # i
    OBVIOUS
  <2>1. f \in Nat /\ m \in Nat /\ k \in f + 1..m /\ f + 1 < k
    BY <1>1 DEF Marks
  <2>2. pf[f + 1] < pf[k] /\ pf[f + 1] \in DOMAIN q
    BY <1>1, <1>3, <2>1 DEF Marks
  <2>3. i \in Nat
    BY <1>1, Removed
  <2> QED
    BY <1>3, <2>2, <2>3
<1> HIDE DEF p
<1>7. Lined(z, p, f + 1, m, e, r, Shifted(pf, i, f + 1, m), Shifted(pb, i, e, r))
  BY <1>2, <1>5, <1>6, LinedOut DEF p
<1> QED
  BY <1>3, <1>4, <1>7 DEF p

\* The first broadcast leaves the sender's queue: that of the next bucket.
LEMMA CastOut ==
  ASSUME NEW z, NEW q, NEW f, NEW m, NEW e, NEW r, NEW pf, NEW pb, Lined(z, q, f, m, e, r, pf, pb), 1 \in DOMAIN q,
         q[1].do = "bcast"
  PROVE  /\ e + 1 \in e + 1..r /\ pb[e + 1] = 1 /\ q[1] = Bcast(e % 2, LenOf(z, e + 1))
         /\ \E pg, ph : Lined(z, RemoveAt(q, 1), f, m, e + 1, r, pg, ph)
<1> DEFINE p == RemoveAt(q, 1)
<1>1. IsSeq(q) /\ Marks(q, "fill", f, m, pf) /\ Marks(q, "bcast", e, r, pb)
  BY DEF Lined
<1>0. \A j \in 1..1 - 1 : q[j].do # "bcast"
  OBVIOUS
<1>2. Marks(p, "fill", f, m, Shifted(pf, 1, f, m)) /\ Marks(p, "bcast", e + 1, r, Shifted(pb, 1, e + 1, r))
  BY <1>0, <1>1, MarksRemove
<1>3. e + 1 \in e + 1..r /\ pb[e + 1] = 1 /\ e \in Nat /\ r \in Nat
  <2>1. e + 1 \in e + 1..r /\ pb[e + 1] = 1
    BY <1>0, <1>1, MarksFirst
  <2> QED
    BY <1>1, <2>1 DEF Marks
<1>4. q[1] = Bcast(e % 2, LenOf(z, e + 1))
  <2>1. q[pb[e + 1]] = Bcast(((e + 1) - 1) % 2, LenOf(z, e + 1))
    BY <1>3 DEF Lined
  <2>2. (e + 1) - 1 = e
    BY <1>3
  <2> QED
    BY <1>3, <2>1, <2>2
<1>5. \A k \in f + 1..m : pf[k] # 1
  BY <1>1 DEF Marks
<1>6. \A k \in (e + 1) + 1..r : pb[k] # 1
  <2> SUFFICES ASSUME NEW k \in (e + 1) + 1..r PROVE pb[k] # 1
    OBVIOUS
  <2>1. k \in e + 1..r /\ e + 1 < k
    BY <1>3
  <2>2. pb[e + 1] < pb[k]
    BY <1>1, <1>3, <2>1 DEF Marks
  <2> QED
    BY <1>3, <2>2
<1> HIDE DEF p
<1>7. Lined(z, p, f, m, e + 1, r, Shifted(pf, 1, f, m), Shifted(pb, 1, e + 1, r))
  BY <1>2, <1>5, <1>6, LinedOut DEF p
<1> QED
  BY <1>3, <1>4, <1>7 DEF p

-----------------------------------------------------------------------------
(* What the device does to the buffers.                                      *)

\* The bytes of a chunk in its bucket.
LEMMA SegEnds ==
  ASSUME NEW z, Planned(z, engine, sync), NEW i \in 1..z.n
  PROVE  /\ Seg(z, i).at = z.at[i] /\ Seg(z, i).id = z.base + i - 1
         /\ z.at[i] \in Nat /\ z.end[i] \in Nat /\ z.at[i] + ChunkSize(z.base + i - 1) = z.end[i]
         /\ ChunkSize(z.base + i - 1) \in Nat
<1>1. /\ Neat(z, z.n) /\ z.n \in Nat /\ z.base \in Nat /\ Before[sync] = z.base
      /\ Loads[sync][i] \in 0..BucketSize /\ z.end[i] = z.at[i] + Loads[sync][i]
  BY PlanFacts
<1>2. z.at[i] \in Nat /\ BucketSize \in Nat
  BY <1>1, LoadsAssumption DEF Neat
<1>3. (z.base + i - 1) - z.base + 1 = i
  BY <1>1
<1>4. ChunkSize(z.base + i - 1) = Loads[sync][i]
  BY <1>1, <1>3 DEF ChunkSize, Sizes
<1> QED
  BY <1>1, <1>2, <1>4 DEF Seg

\* A chunk does not overwrite another of its bucket.
LEMMA BucketHolds ==
  ASSUME NEW z, Planned(z, engine, sync), NEW i \in 1..z.n, NEW j \in 1..z.n, j < i, z.bk[j] = z.bk[i]
  PROVE  ~Overlaps(Seg(z, i), Seg(z, j))
<1>1. z.end[j] <= z.at[i]
  BY PlanFacts DEF Neat
<1>2. /\ Seg(z, j).at = z.at[j] /\ Seg(z, j).id = z.base + j - 1
      /\ Seg(z, i).at = z.at[i] /\ Seg(z, i).id = z.base + i - 1
      /\ z.at[j] + ChunkSize(z.base + j - 1) = z.end[j] /\ z.at[i] \in Nat /\ z.end[j] \in Nat
  BY SegEnds
<1> QED
  BY <1>1, <1>2 DEF Overlaps

\* Buckets that share a buffer.
LEMMA SameBuffer ==
  ASSUME NEW k \in Nat, NEW l \in Nat, k >= 1, l >= 1, k <= l, k # l, (k - 1) % 2 = (l - 1) % 2
  PROVE  l >= k + 2
<1>1. l # k + 1
  <2> SUFFICES ASSUME l = k + 1 PROVE FALSE
    OBVIOUS
  <2>1. k - 1 \in Nat /\ l - 1 = (k - 1) + 1
    OBVIOUS
  <2> QED
    BY <2>1, Parity
<1> QED
  BY <1>1

\* The fill of chunk f + 1 overwrites nothing that is still to be broadcast.
LEMMA SenderWrites ==
  ASSUME NEW z, Planned(z, engine, sync), NEW F, NEW m, NEW E, NEW Q, NEW P, NEW f, Sender(z, F, m, E, Q, P, f),
         NEW i \in DOMAIN queue[Master], MayRun(Master, i), queue[Master][i].do = "fill",
         NEW b, b = buf[Master], DOMAIN b = {0, 1},
         NEW x, x = queue[Master][i]
  PROVE  /\ x = FillOf(z, f + 1) /\ f + 1 \in 1..z.n /\ f + 1 \in Nat
         /\ (\E pg, ph : Lined(z, RemoveAt(queue[Master], i), f + 1, m, E, Q, pg, ph))
         /\ Filled(z, f + 1, E, [b EXCEPT ![x.b] = Written(@, [at |-> x.at, id |-> x.id])])
<1>1. PICK pf, pb : Lined(z, queue[Master], f, m, E, Q, pf, pb)
  BY DEF Sender
<1>2. /\ engine \in Kinds /\ z.kind = engine /\ Neat(z, z.n) /\ z.n \in Nat /\ z.base \in Nat /\ z.last = z.bk[z.n]
  BY PlanFacts
<1>3. \A j \in 1..i - 1 : queue[Master][j].do # "fill"
  BY <1>1 DEF MayRun
<1>4. i \in Nat /\ i >= 1
  BY <1>1, Removed DEF Lined
<1>5. /\ f + 1 \in f + 1..m /\ pf[f + 1] = i /\ x = FillOf(z, f + 1)
      /\ \E pg, ph : Lined(z, RemoveAt(queue[Master], i), f + 1, m, E, Q, pg, ph)
  BY <1>1, <1>3, FillOut
<1>6. /\ F \in 0..z.last /\ F \in Nat /\ m \in 0..z.n /\ m \in Nat /\ E \in Nat /\ Q \in Nat /\ f \in Nat
      /\ z.bk[m] <= F + 1 /\ z.bk[m] \in Nat
  BY SenderNums
<1>7. f + 1 \in 1..z.n /\ f + 1 \in 1..m
  BY <1>2, <1>5, <1>6
<1> DEFINE g == f + 1   s == Seg(z, g)   y == (z.bk[g] - 1) % 2   d == [b EXCEPT ![y] = Written(@, s)]
<1>8. x.b = y /\ [at |-> x.at, id |-> x.id] = s
  <2>1. x.b = y /\ x.at = z.at[g] /\ x.id = z.base + g - 1
    BY <1>5 DEF FillOf
  <2> QED
    BY <2>1 DEF Seg
<1>9. \A j \in 0..z.n : z.bk[j] \in Nat /\ z.bk[j] >= 1
  BY <1>2 DEF Neat
<1>10. y \in {0, 1}
  <2>1. z.bk[g] - 1 \in Nat
    BY <1>7, <1>9
  <2> QED
    BY <2>1, Parity
<1>11. d[y] = {t \in b[y] : ~Overlaps(s, t)} \cup {s} /\ \A v \in {0, 1} : v # y => d[v] = b[v]
  BY <1>10 DEF Written
<1>12. Filled(z, f, E, b)
  BY DEF Sender
<1> HIDE DEF s, d
<1>13. ASSUME NEW j \in 1..f, z.bk[j] > E, (z.bk[j] - 1) % 2 = y
       PROVE  ~Overlaps(s, Seg(z, j))
  <2>1. j \in 1..z.n /\ j \in 0..z.n /\ g \in 1..z.n /\ g \in 0..z.n /\ j < g /\ j <= g /\ m \in 0..z.n /\ g <= m /\ g \in f + 1..m
    BY <1>2, <1>5, <1>6, <1>7
  <2>2. z.bk[j] <= z.bk[g] /\ z.bk[g] <= z.bk[m]
    BY <1>2, <2>1 DEF Neat
  <2>3. CASE z.bk[j] = z.bk[g]
    BY <2>1, <2>3, BucketHolds DEF s
  <2>4. CASE z.bk[j] # z.bk[g]
    <3> DEFINE k == z.bk[j]   l == z.bk[g]
    <3>1. k \in Nat /\ l \in Nat /\ k >= 1 /\ l >= 1 /\ k <= l /\ k # l /\ l <= z.bk[m]
      BY <1>9, <2>1, <2>2, <2>4
    <3>2. (k - 1) % 2 = (l - 1) % 2
      BY <1>13
    <3>3. l >= k + 2
      <4> HIDE DEF k, l
      <4> QED
        BY <3>1, <3>2, SameBuffer
    <3>4. Q >= F - 1
      <4>1. CASE z.kind = "xccl"
        <5>1. Q = F \/ Q = F - 1
          BY <4>1 DEF Sender, XcclHost
        <5> QED
          BY <1>6, <5>1
      <4>2. CASE z.kind # "xccl"
        <5>1. Q = F
          BY <4>2 DEF Sender, CnclHost
        <5> QED
          BY <1>6, <5>1
      <4> QED
        BY <4>1, <4>2
    <3>5. k \in E + 1..Q
      <4>1. k > E
        BY <1>13
      <4> HIDE DEF k, l
      <4> QED
        BY <1>6, <3>1, <3>3, <3>4, <4>1
    <3>6. z.kind = "xccl" /\ pb[k] < pf[g]
      BY <1>1, <2>1, <3>3, <3>5 DEF Lined
    <3>7. i = 1
      BY <1>2, <3>6 DEF MayRun
    <3>8. pb[k] \in DOMAIN queue[Master] /\ IsSeq(queue[Master])
      BY <1>1, <3>5 DEF Lined, Marks
    <3>9. pb[k] \in Nat /\ pb[k] >= 1
      BY <3>8, Removed
    <3> QED
      BY <1>5, <3>6, <3>7, <3>9
  <2> QED
    BY <2>3, <2>4
<1>14. ASSUME NEW j \in 1..g, z.bk[j] > E
       PROVE  Seg(z, j) \in d[(z.bk[j] - 1) % 2]
  <2>1. CASE j = g
    BY <1>11, <2>1 DEF s
  <2>2. CASE j # g
    <3>1. j \in 1..f
      BY <1>6, <2>2
    <3>2. Seg(z, j) \in b[(z.bk[j] - 1) % 2]
      BY <1>12, <1>14, <3>1 DEF Filled
    <3>3. (z.bk[j] - 1) % 2 \in {0, 1}
      <4>1. j \in 0..z.n
        BY <1>2, <1>6, <1>7, <3>1
      <4>2. z.bk[j] - 1 \in Nat
        BY <1>9, <4>1
      <4> QED
        BY <4>2, Parity
    <3>4. CASE (z.bk[j] - 1) % 2 = y
      <4>1. ~Overlaps(s, Seg(z, j))
        BY <1>13, <1>14, <3>1, <3>4
      <4> QED
        BY <1>11, <3>2, <3>4, <4>1
    <3>5. CASE (z.bk[j] - 1) % 2 # y
      BY <1>11, <3>2, <3>3, <3>5
    <3> QED
      BY <3>4, <3>5
  <2> QED
    BY <2>1, <2>2
<1>15. ASSUME NEW v \in {0, 1}, NEW t \in d[v]
       PROVE  \E j \in 1..g : t = Seg(z, j)
  <2>1. t = s \/ t \in b[v]
    BY <1>11
  <2>2. g \in 1..g /\ \A j \in 1..f : j \in 1..g
    BY <1>6
  <2>3. CASE t = s
    BY <2>2, <2>3 DEF s
  <2>4. CASE t \in b[v]
    BY <1>12, <2>2, <2>4 DEF Filled
  <2> QED
    BY <2>1, <2>3, <2>4
<1>16. Filled(z, g, E, d)
  BY <1>14, <1>15 DEF Filled
<1>17. Filled(z, f + 1, E, [b EXCEPT ![x.b] = Written(@, [at |-> x.at, id |-> x.id])])
  BY <1>8, <1>16 DEF d
<1>18. f + 1 \in Nat
  BY <1>6
<1> QED
  BY <1>5, <1>7, <1>17, <1>18

\* A copy takes the next chunk out of the buffer that holds it.
LEMMA TakerReads ==
  ASSUME NEW z, NEW k, NEW s, Planned(z, k, s), NEW e, NEW P, NEW w \in Rollouts, NEW t, NEW c, Taker(z, e, P, w, t, c),
         NEW i \in DOMAIN queue[w], i = 1 \/ (\A j \in 1..i - 1 : queue[w][j].do = "bcast"), queue[w][i].do # "bcast",
         NEW x, x = queue[w][i]
  PROVE  /\ x.do = "copy" /\ ReadAs(buf[w][x.b], x.at, x.id) = z.base + c
         /\ c + 1 <= z.n /\ c + 1 \in z.up[t - 1]..z.up[t] /\ pc[w] \notin {"init", "barrier", "start", "loaded"}
         /\ \/ Given(z, queue[w], t, c) /\ Given(z, RemoveAt(queue[w], i), t, c + 1)
            \/ /\ Asked(z, queue[w], t, c, e) /\ Asked(z, RemoveAt(queue[w], i), t, c + 1, e)
               /\ ~Given(z, queue[w], t, c)
<1>1. /\ t \in 0..z.last /\ t \in Nat /\ c \in Nat /\ P \in Nat /\ e \in Nat
      /\ z.up[t] \in Nat /\ z.up[t - 1] \in Nat /\ z.up[t - 1] <= c /\ c <= z.up[t] /\ z.up[t] <= z.n
  BY TakerNums
<1>2. Neat(z, z.n) /\ z.n \in Nat /\ z.last = z.bk[z.n] /\ z.base \in Nat
  BY PlanFacts
<1>3. queue[w] # <<>>
  OBVIOUS
<1>4. pc[w] \notin {"init", "barrier", "start", "loaded"}
  BY <1>3 DEF Taker
<1>5. \/ Given(z, queue[w], t, c) /\ (e = t \/ e = t + 1)
      \/ e = t /\ \E y \in DOMAIN queue[w] : Asking(z, queue[w], t, c, y)
  BY <1>4 DEF Taker, Asked
<1>6. /\ x = CopyOf(z, c + 1) /\ c + 1 <= z.up[t] /\ (e = t \/ e = t + 1)
      /\ \/ Given(z, queue[w], t, c) /\ Given(z, RemoveAt(queue[w], i), t, c + 1)
         \/ e = t /\ (\E y \in DOMAIN queue[w] : Asking(z, queue[w], t, c, y))
                  /\ \E y \in DOMAIN RemoveAt(queue[w], i) : Asking(z, RemoveAt(queue[w], i), t, c + 1, y)
  <2>1. CASE Given(z, queue[w], t, c) /\ (e = t \/ e = t + 1)
    <3>0. t \in Nat /\ c \in Nat /\ z.up[t] \in Nat /\ c <= z.up[t] /\ Given(z, queue[w], t, c)
      BY <1>1, <2>1
    <3>1. queue[w][i] = CopyOf(z, c + 1) /\ c + 1 <= z.up[t] /\ Given(z, RemoveAt(queue[w], i), t, c + 1)
      BY <3>0, GivenRuns
    <3> QED
      BY <2>1, <3>1
  <2>2. CASE e = t /\ \E y \in DOMAIN queue[w] : Asking(z, queue[w], t, c, y)
    <3>1. PICK y \in DOMAIN queue[w] : Asking(z, queue[w], t, c, y)
      BY <2>2
    <3>2. /\ x = CopyOf(z, c + 1) /\ c + 1 <= z.up[t]
          /\ \E v \in DOMAIN RemoveAt(queue[w], i) : Asking(z, RemoveAt(queue[w], i), t, c + 1, v)
      BY <1>1, <3>1, AskingRuns
    <3> QED
      BY <2>2, <3>2
  <2> QED
    BY <1>5, <2>1, <2>2
<1>7. z.bk[c + 1] = t /\ c + 1 \in 1..z.n
  <2>1. c + 1 \in 1..z.n /\ z.up[t - 1] < c + 1 /\ c + 1 <= z.up[t]
    BY <1>1, <1>2, <1>6
  <2>2. t # 0
    BY <1>2, <2>1, <1>1 DEF Neat
  <2>3. t \in 1..z.bk[z.n]
    BY <1>1, <1>2, <2>2
  <2> QED
    BY <1>2, <2>1, <2>3 DEF Neat
<1>8. Seg(z, c + 1) \in buf[w][t % 2]
  <2>1. z.bk[c + 1] \in {e - 1, e}
    BY <1>1, <1>6, <1>7
  <2> QED
    BY <1>7, <2>1 DEF Taker, Stored
<1>9. x.do = "copy" /\ x.b = t % 2 /\ x.at = z.at[c + 1] /\ x.id = z.base + (c + 1) - 1
  BY <1>6, <1>7 DEF CopyOf
<1>10. z.base + (c + 1) - 1 = z.base + c
  BY <1>1, <1>2
<1>11. ReadAs(buf[w][x.b], x.at, x.id) = z.base + c
  BY <1>8, <1>9, <1>10 DEF ReadAs, Seg
<1>12. c + 1 <= z.n /\ c + 1 \in z.up[t - 1]..z.up[t]
  BY <1>1, <1>6, <1>7
<1>13. \/ Given(z, queue[w], t, c) /\ Given(z, RemoveAt(queue[w], i), t, c + 1)
       \/ /\ Asked(z, queue[w], t, c, e) /\ Asked(z, RemoveAt(queue[w], i), t, c + 1, e)
          /\ ~Given(z, queue[w], t, c)
  <2>1. CASE Given(z, queue[w], t, c)
    <3>1. Given(z, RemoveAt(queue[w], i), t, c + 1)
      BY <1>1, <2>1, GivenRuns
    <3> QED
      BY <2>1, <3>1
  <2>2. CASE ~Given(z, queue[w], t, c)
    BY <1>6, <2>2 DEF Asked
  <2> QED
    BY <2>1, <2>2
<1> QED
  BY <1>4, <1>9, <1>11, <1>12, <1>13

\* The next chunk is appended to those that a rollout worker has copied.
LEMMA GotGrows ==
  ASSUME NEW n \in Nat, NEW g, g = [j \in 1..n |-> j - 1]
  PROVE  Len(g) = n /\ Append(g, n) = [j \in 1..n + 1 |-> j - 1]
<1>1. g \in Seq(Int) /\ Len(g) = n
  OBVIOUS
<1> DEFINE h == Append(g, n)
<1>2. h \in Seq(Int) /\ Len(h) = n + 1 /\ h[n + 1] = n /\ \A j \in 1..n : h[j] = g[j]
  BY <1>1
<1> HIDE DEF h
<1>3. \A j \in 1..n + 1 : h[j] = j - 1
  <2> SUFFICES ASSUME NEW j \in 1..n + 1 PROVE h[j] = j - 1
    OBVIOUS
  <2>1. CASE j = n + 1
    BY <1>2, <2>1
  <2>2. CASE j # n + 1
    BY <1>2, <2>2
  <2> QED
    BY <2>1, <2>2
<1>4. DOMAIN h = 1..n + 1 /\ h = [j \in DOMAIN h |-> h[j]]
  BY <1>2
<1>5. h = [j \in 1..n + 1 |-> j - 1]
  BY <1>3, <1>4
<1> QED
  BY <1>1, <1>5 DEF h

\* A rollout worker copies a chunk: the next one.
LEMMA TakerCopies ==
  ASSUME NEW z, NEW k, NEW s, Planned(z, k, s), NEW e, NEW P, NEW w \in Rollouts, NEW t, NEW c, Taker(z, e, P, w, t, c),
         NEW i \in DOMAIN queue[w], i = 1 \/ (\A j \in 1..i - 1 : queue[w][j].do = "bcast"), queue[w][i].do # "bcast",
         queue'[w] = RemoveAt(queue[w], i),
         LET x == queue[w][i] IN
           x.do # "fill" => got'[w] = Append(got[w], ReadAs(buf[w][x.b], x.at, x.id)) /\ buf'[w] = buf[w],
         pc'[w] = pc[w], op'[w] = op[w], meta'[w] = meta[w], last'[w] = last[w], cur'[w] = cur[w], wire'[w] = wire[w]
  PROVE  /\ Taker(z, e, P, w, t, c + 1)'
         /\ Len(got[w]) < Before[s + 1] /\ got'[w] = Append(got[w], Len(got[w]))
<1> DEFINE x == queue[w][i]
<1>1. /\ x.do = "copy" /\ ReadAs(buf[w][x.b], x.at, x.id) = z.base + c
      /\ c + 1 <= z.n /\ c + 1 \in z.up[t - 1]..z.up[t] /\ pc[w] \notin {"init", "barrier", "start", "loaded"}
      /\ \/ Given(z, queue[w], t, c) /\ Given(z, RemoveAt(queue[w], i), t, c + 1)
         \/ /\ Asked(z, queue[w], t, c, e) /\ Asked(z, RemoveAt(queue[w], i), t, c + 1, e)
            /\ ~Given(z, queue[w], t, c)
  BY TakerReads
<1>2. got'[w] = Append(got[w], z.base + c) /\ buf'[w] = buf[w]
  BY <1>1
<1>3. z.base \in Nat /\ c \in Nat /\ z.base + z.n = Before[s + 1] /\ z.n \in Nat
  <2>1. c \in Nat
    BY TakerNums
  <2>2. z.base \in Nat /\ z.base + z.n = Before[s + 1] /\ z.n \in Nat
    BY PlanFacts
  <2> QED
    BY <2>1, <2>2
<1>4. got[w] = [j \in 1..z.base + c |-> j - 1] /\ z.base + c \in Nat /\ z.base + (c + 1) = (z.base + c) + 1
  <2>1. got[w] = [j \in 1..z.base + c |-> j - 1]
    BY DEF Taker
  <2>2. z.base + c \in Nat /\ z.base + (c + 1) = (z.base + c) + 1
    BY <1>3
  <2> QED
    BY <2>1, <2>2
<1>5. Len(got[w]) = z.base + c /\ got'[w] = [j \in 1..z.base + (c + 1) |-> j - 1]
  <2> DEFINE n == z.base + c
  <2>1. n \in Nat /\ got[w] = [j \in 1..n |-> j - 1] /\ got'[w] = Append(got[w], n) /\ z.base + (c + 1) = n + 1
    BY <1>2, <1>4
  <2> HIDE DEF n
  <2>2. Len(got[w]) = n /\ Append(got[w], n) = [j \in 1..n + 1 |-> j - 1]
    BY <2>1, GotGrows
  <2>3. Len(got[w]) = n /\ got'[w] = [j \in 1..z.base + (c + 1) |-> j - 1]
    BY <2>1, <2>2
  <2> QED
    BY <2>3 DEF n
<1>6. z.base + c < Before[s + 1]
  BY <1>1, <1>3
<1>7. \/ Given(z, queue'[w], t, c + 1)
      \/ Asked(z, queue'[w], t, c + 1, e) /\ ~Given(z, queue[w], t, c)
  BY <1>1
<1>8. Given(z, queue[w], t, c) => Given(z, queue'[w], t, c + 1)
  BY <1>1
<1>9. Asked(z, queue[w], t, c, e) => Asked(z, queue'[w], t, c + 1, e)
  <2>1. CASE Given(z, queue[w], t, c)
    <3> SUFFICES ASSUME Asked(z, queue[w], t, c, e) PROVE Asked(z, queue'[w], t, c + 1, e)
      OBVIOUS
    <3>1. CASE e = t + 1
      BY <1>8, <2>1, <3>1 DEF Asked
    <3>2. CASE e = t
      <4>1. t \in Nat
        BY TakerNums
      <4>2. PICK y \in DOMAIN queue[w] : Asking(z, queue[w], t, c, y)
        BY <3>2, <4>1 DEF Asked
      <4>3. Len(queue[w]) = z.up[t] - c /\ Len(queue[w]) = z.up[t] - c + 1 /\ z.up[t] \in Nat
        BY <2>1, <4>2, TakerNums DEF Given, Asking
      <4> QED
        BY <1>3, <4>3
    <3> QED
      BY <3>1, <3>2 DEF Asked
  <2>2. CASE ~Given(z, queue[w], t, c)
    BY <1>1, <2>2
  <2> QED
    BY <2>1, <2>2
<1>10. queue[w] # <<>>
  OBVIOUS
<1>11. Stored(z, e, buf'[w])
  BY <1>2 DEF Taker
<1> HIDE DEF x
<1>12. Taker(z, e, P, w, t, c + 1)'
  BY <1>1, <1>5, <1>8, <1>9, <1>10, <1>11 DEF Taker
<1> QED
  BY <1>2, <1>4, <1>5, <1>6, <1>12

\* What the rollout workers have copied is as it was, or one has copied the next chunk.
Copying ==
  \/ \A v \in Rollouts : got'[v] = got[v]
  \/ \E w \in Rollouts : /\ Len(got[w]) < Before[sync + 1] /\ got'[w] = Append(got[w], Len(got[w]))
                         /\ \A v \in Rollouts \ {w} : got'[v] = got[v]

\* Any piece but a broadcast leaves a relay's queue.
LEMMA RelayDrains ==
  ASSUME NEW z, NEW e, NEW q, NEW r, NEW pb, Casts(z, q, e, r, pb), NEW i \in DOMAIN q, q[i].do # "bcast",
         NEW p, p = RemoveAt(q, i)
  PROVE  Casts(z, p, e, r, Shifted(pb, i, e, r))
<1> DEFINE pg == Shifted(pb, i, e, r)
<1>1. IsSeq(q) /\ Marks(q, "bcast", e, r, pb) /\ \A k \in e + 1..r : q[pb[k]].len = LenOf(z, k)
  BY DEF Casts
<1>2. Marks(p, "bcast", e, r, pg) /\ IsSeq(p)
      /\ \A k \in e + 1..r : pb[k] # i => p[Fell(pb, i, k)] = q[pb[k]]
  BY <1>1, MarksRemove, Removed
<1>3. \A k \in e + 1..r : pb[k] # i /\ pg[k] = Fell(pb, i, k)
  BY <1>1 DEF Marks, Shifted
<1> HIDE DEF pg
<1>4. Casts(z, p, e, r, pg)
  BY <1>1, <1>2, <1>3 DEF Casts
<1> QED
  BY <1>4 DEF pg

\* A fill or a copy runs.
LEMMA LocalRuns ==
  ASSUME Kept, Domains, NEW w \in Workers, Local(w),
         NEW z, NEW F, NEW m, NEW E, NEW Q, NEW P, NEW f, Under(z, F, m, E, Q, P, f)
  PROVE  Copying /\ \E f1 : Under(z, F, m, E, Q, P, f1)'
<1>1. /\ DOMAIN queue = Workers /\ DOMAIN buf = Workers /\ DOMAIN got = Rollouts /\ engine \in Kinds
      /\ \A v \in Workers : IsSeq(queue[v]) /\ DOMAIN buf[v] = {0, 1}
  BY DEF Kept, Shape, Domains
<1>2. PICK i \in DOMAIN queue[w] :
        LET x == queue[w][i] IN
        /\ MayRun(w, i) /\ ~Collective(x)
        /\ queue' = [queue EXCEPT ![w] = RemoveAt(@, i)]
        /\ IF x.do = "fill"
           THEN buf' = [buf EXCEPT ![w][x.b] = Written(@, [at |-> x.at, id |-> x.id])] /\ UNCHANGED got
           ELSE got' = [got EXCEPT ![w] = Append(@, ReadAs(buf[w][x.b], x.at, x.id))] /\ UNCHANGED buf
  BY DEF Local
<1> DEFINE x == queue[w][i]
<1>3. /\ SameJob /\ UNCHANGED <<pc, op, meta, last, cur, wire, pulled, offset>>
  BY DEF Local, host, job, filling, net, work, SameJob
<1>4. \A v \in Workers \ {w} : StaysPut(v)
  BY <1>1, <1>2, <1>3, Cluster DEF StaysPut
<1>5. queue'[w] = RemoveAt(queue[w], i) /\ x.do # "bcast" /\ x.do # "gather"
  BY <1>1, <1>2 DEF Collective
<1>6. i = 1 \/ \A j \in 1..i - 1 : queue[w][j].do = "bcast"
  BY <1>2, <1>5 DEF MayRun
<1>7. Planned(z, engine, sync) /\ Sender(z, F, m, E, Q, P, f) /\ Relays(z, E) /\ Takers(z, E, P)
  BY DEF Under
<1>8. CASE w = Master
  <2>1. /\ (\E pf, pb : Lined(z, queue[Master], f, m, E, Q, pf, pb))
        /\ IF z.kind = "xccl" THEN XcclHost(z, F, m, P, Q) ELSE CnclHost(z, F, m, P, Q, E)
    BY <1>7 DEF Sender
  <2>2. x.do = "fill"
    BY <1>5, <1>8, <2>1 DEF Lined
  <2>3. /\ x = FillOf(z, f + 1) /\ f + 1 \in 1..z.n /\ f + 1 \in Nat
        /\ (\E pg, ph : Lined(z, RemoveAt(queue[Master], i), f + 1, m, E, Q, pg, ph))
        /\ Filled(z, f + 1, E, [buf[Master] EXCEPT ![x.b] = Written(@, [at |-> x.at, id |-> x.id])])
    <3>1. i \in DOMAIN queue[Master] /\ MayRun(Master, i) /\ queue[Master][i].do = "fill" /\ DOMAIN buf[Master] = {0, 1}
          /\ x = queue[Master][i]
      BY <1>1, <1>2, <1>8, <2>2
    <3> HIDE DEF x
    <3> QED
      BY <1>7, <3>1, SenderWrites
  <2>4. buf'[Master] = [buf[Master] EXCEPT ![x.b] = Written(@, [at |-> x.at, id |-> x.id])] /\ UNCHANGED got
    BY <1>1, <1>2, <1>8, <2>2
  <2>5. queue[Master] # <<>>
    BY <1>8
  <2>6. IF z.kind = "xccl" THEN XcclHost(z, F, m, P, Q)' ELSE CnclHost(z, F, m, P, Q, E)'
    <3>1. NumSenders' = NumSenders /\ (Filling(z, F, m)' <=> Filling(z, F, m))
      BY <1>3 DEF NumSenders, RankOf, SameJob, Filling
    <3>2. CASE z.kind = "xccl"
      BY <1>3, <2>1, <2>5, <3>1, <3>2 DEF XcclHost
    <3>3. CASE z.kind # "xccl"
      BY <1>3, <2>1, <2>5, <3>1, <3>3 DEF CnclHost
    <3> QED
      BY <3>2, <3>3
  <2>7. Filled(z, f + 1, E, buf'[Master]) /\ \E pg, ph : Lined(z, queue'[Master], f + 1, m, E, Q, pg, ph)
    BY <1>5, <1>8, <2>3, <2>4
  <2>8. Sender(z, F, m, E, Q, P, f + 1)'
    BY <1>7, <2>3, <2>6, <2>7 DEF Sender
  <2>9. Under(z, F, m, E, Q, P, f + 1)'
    BY <1>3, <1>4, <1>8, <2>8, SenderMoves
  <2>10. Copying
    BY <2>4 DEF Copying
  <2> QED
    BY <2>9, <2>10
<1>9. CASE w \in Actors \ {Master}
  <2>1. ASSUME RankOf(w) # -1 PROVE \E r, pb : Relay(z, E, w, r, pb)'
    <3>1. PICK r, pb : Relay(z, E, w, r, pb)
      BY <1>7, <1>9, <2>1 DEF Relays
    <3>2. Casts(z, queue[w], E, r, pb)
      BY <3>1 DEF Relay
    <3>3. Casts(z, queue'[w], E, r, Shifted(pb, i, E, r))
      BY <1>5, <3>2, RelayDrains
    <3>4. Relay(z, E, w, r, Shifted(pb, i, E, r))'
      BY <1>3, <3>1, <3>3 DEF Relay
    <3> QED
      BY <3>4
  <2>2. Under(z, F, m, E, Q, P, f)'
    BY <1>3, <1>4, <1>9, <2>1, ActorMoves
  <2>3. \A v \in Rollouts : got'[v] = got[v]
    BY <1>1, <1>2, <1>9, Cluster
  <2> QED
    BY <2>2, <2>3 DEF Copying
<1>10. CASE w \in Rollouts
  <2>1. PICK t, c : Taker(z, E, P, w, t, c)
    BY <1>7, <1>10 DEF Takers
  <2>2. x.do # "fill" => got'[w] = Append(got[w], ReadAs(buf[w][x.b], x.at, x.id)) /\ buf'[w] = buf[w]
    BY <1>1, <1>2, <1>10
  <2>3. Taker(z, E, P, w, t, c + 1)' /\ Len(got[w]) < Before[sync + 1] /\ got'[w] = Append(got[w], Len(got[w]))
    BY <1>3, <1>5, <1>6, <1>7, <1>10, <2>1, <2>2, TakerCopies
  <2>4. Under(z, F, m, E, Q, P, f)'
    BY <1>3, <1>4, <1>10, <2>3, TakerMoves
  <2>5. \A v \in Rollouts \ {w} : got'[v] = got[v]
    BY <1>4, Cluster DEF StaysPut
  <2> QED
    BY <1>10, <2>3, <2>4, <2>5 DEF Copying
<1> QED
  BY <1>8, <1>9, <1>10, Cluster

\* The first broadcast leaves a relay's queue.
LEMMA RelaySends ==
  ASSUME NEW z, NEW e, NEW q, NEW r, NEW pb, Casts(z, q, e, r, pb), q # <<>>, q[1].do = "bcast",
         NEW p, p = Tail(q)
  PROVE  q[1].len = LenOf(z, e + 1) /\ \E pg : Casts(z, p, e + 1, r, pg)
<1> DEFINE pg == Shifted(pb, 1, e + 1, r)
<1>1. IsSeq(q) /\ Marks(q, "bcast", e, r, pb) /\ \A k \in e + 1..r : q[pb[k]].len = LenOf(z, k)
  BY DEF Casts
<1>2. 1 \in DOMAIN q /\ p = RemoveAt(q, 1)
  BY <1>1, TailOut
<1>3. \A j \in 1..1 - 1 : q[j].do # "bcast"
  OBVIOUS
<1>4. e + 1 \in e + 1..r /\ pb[e + 1] = 1
  BY <1>1, <1>2, <1>3, MarksFirst
<1>5. /\ Marks(p, "bcast", e + 1, r, pg)
      /\ \A k \in e + 1..r : pb[k] # 1 => p[Fell(pb, 1, k)] = q[pb[k]]
  <2>1. q[1].do = "bcast" /\ \A j \in 1..1 - 1 : q[j].do # "bcast"
    BY <1>3
  <2>2. /\ \A k \in e + 1..r : pb[k] # 1 => RemoveAt(q, 1)[Fell(pb, 1, k)] = q[pb[k]]
        /\ Marks(RemoveAt(q, 1), "bcast", e + 1, r, Shifted(pb, 1, e + 1, r))
    BY <1>1, <1>2, <2>1, MarksRemove
  <2> QED
    BY <1>2, <2>2
<1>6. IsSeq(p)
  BY <1>1, <1>2, Removed
<1>7. e \in Nat /\ r \in Nat
  BY <1>1 DEF Marks
<1>8. ASSUME NEW k \in (e + 1) + 1..r PROVE pb[k] # 1 /\ pg[k] = Fell(pb, 1, k) /\ k \in e + 1..r
  <2>1. k \in e + 1..r /\ e + 1 < k
    BY <1>7
  <2>2. pb[e + 1] < pb[k] /\ pb[e + 1] \in DOMAIN q /\ pb[k] \in DOMAIN q
    BY <1>1, <1>4, <2>1 DEF Marks
  <2>3. DOMAIN q \subseteq Int
    BY <1>1 DEF IsSeq
  <2>4. pb[k] # 1
    BY <1>4, <2>2, <2>3
  <2> QED
    BY <2>1, <2>4 DEF Shifted
<1> HIDE DEF pg
<1>9. Casts(z, p, e + 1, r, pg)
  BY <1>1, <1>5, <1>6, <1>8 DEF Casts
<1> QED
  BY <1>1, <1>4, <1>9

\* The device runs a piece of the sender's queue.
LEMMA SenderRuns ==
  ASSUME NEW z, NEW F, NEW m, NEW E, NEW Q, NEW P, NEW f, Sender(z, F, m, E, Q, P, f), SameJob,
         UNCHANGED <<pc, op, meta, last, cur, pulled, offset>>, queue[Master] # <<>>,
         NEW E1 \in {E, E + 1}, NEW f1 \in Nat,
         \E pg, ph : Lined(z, queue'[Master], f1, m, E1, Q, pg, ph),
         Filled(z, f1, E1, buf'[Master])
  PROVE  Sender(z, F, m, E1, Q, P, f1)'
<1>1. NumSenders' = NumSenders /\ (Filling(z, F, m)' <=> Filling(z, F, m))
  BY DEF NumSenders, RankOf, SameJob, Filling
<1>2. E \in Nat /\ E1 \in Nat /\ E1 >= E /\ F \in Int
  BY DEF Sender
<1>3. IF z.kind = "xccl" THEN XcclHost(z, F, m, P, Q) ELSE CnclHost(z, F, m, P, Q, E)
  BY DEF Sender
<1>4. IF z.kind = "xccl" THEN XcclHost(z, F, m, P, Q)' ELSE CnclHost(z, F, m, P, Q, E1)'
  <2>1. CASE z.kind = "xccl"
    BY <1>1, <1>3, <2>1 DEF XcclHost
  <2>2. CASE z.kind # "xccl"
    <3>1. E >= F - 1 => E1 >= F - 1
      BY <1>2
    <3> QED
      BY <1>1, <1>3, <2>2, <3>1 DEF CnclHost
  <2> QED
    BY <2>1, <2>2
<1> QED
  BY <1>2, <1>4 DEF Sender

\* Every actor's device runs a gather.
LEMMA GathersRun ==
  ASSUME Kept, Domains, Gather,
         NEW z, NEW F, NEW m, NEW E, NEW Q, NEW P, NEW f, Under(z, F, m, E, Q, P, f)
  PROVE  Under(z, F, m, E, Q, P, f)'
<1>1. DOMAIN queue = Workers /\ \A v \in Workers : IsSeq(queue[v])
  BY DEF Kept, Shape
<1> DEFINE at(a) == CHOOSE i \in DOMAIN queue[a] : MayGather(a, i)
<1>2. /\ SameJob /\ UNCHANGED <<pc, op, meta, last, cur, wire, pulled, offset, buf, got>>
      /\ \A a \in Actors : \E i \in DOMAIN queue[a] : MayGather(a, i)
      /\ queue' = [w \in Workers |-> IF w \in Rollouts THEN queue[w] ELSE RemoveAt(queue[w], at(w))]
  BY DEF Gather, host, job, filling, net, work, SameJob
<1>3. ASSUME NEW a \in Actors
      PROVE  at(a) \in DOMAIN queue[a] /\ queue[a][at(a)].do = "gather" /\ queue'[a] = RemoveAt(queue[a], at(a))
  <2>1. at(a) \in DOMAIN queue[a] /\ MayGather(a, at(a))
    BY <1>2
  <2> QED
    BY <1>2, <2>1, Cluster DEF MayGather
<1> HIDE DEF at
<1>4. \A w \in Rollouts : StaysPut(w)
  BY <1>2, Cluster DEF StaysPut
<1>5. Planned(z, engine, sync) /\ Sender(z, F, m, E, Q, P, f) /\ Relays(z, E) /\ Takers(z, E, P)
  BY DEF Under
<1>6. Sender(z, F, m, E, Q, P, f)'
  <2>1. PICK pf, pb : Lined(z, queue[Master], f, m, E, Q, pf, pb)
    BY <1>5 DEF Sender
  <2>2. \E pg, ph : Lined(z, queue'[Master], f, m, E, Q, pg, ph)
    BY <1>3, <2>1, GatherOut, Cluster
  <2>3. Filled(z, f, E, buf'[Master]) /\ f \in Nat /\ E \in {E, E + 1}
    BY <1>2, <1>5 DEF Sender
  <2>4. queue[Master] # <<>>
    BY <1>3, Cluster
  <2> QED
    BY <1>2, <1>5, <2>2, <2>3, <2>4, SenderRuns
<1>7. ASSUME NEW a \in Actors \ {Master}, RankOf(a) # -1 PROVE \E r, pb : Relay(z, E, a, r, pb)'
  <2>1. PICK r, pb : Relay(z, E, a, r, pb)
    BY <1>5, <1>7 DEF Relays
  <2>2. Casts(z, queue[a], E, r, pb)
    BY <2>1 DEF Relay
  <2>3. PICK pg : Casts(z, queue'[a], E, r, pg)
    BY <1>3, <2>2, RelayDrains
  <2>4. Relay(z, E, a, r, pg)'
    <3>1. UNCHANGED <<pc, pulled, offset>>
      BY <1>2
    <3> QED
      BY <2>1, <2>3, <3>1 DEF Relay
  <2> QED
    BY <2>4
<1>8. Relays(z, E)'
  BY <1>2, <1>7 DEF Relays, RankOf, SameJob
<1>9. Takers(z, E, P)'
  <2> SUFFICES ASSUME NEW w \in Rollouts PROVE \E t, c : Taker(z, E, P, w, t, c)'
    BY DEF Takers
  <2>1. PICK t, c : Taker(z, E, P, w, t, c)
    BY <1>5 DEF Takers
  <2> QED
    BY <1>4, <2>1, TakerStays
<1>10. Planned(z, engine, sync)'
  BY <1>2, <1>5 DEF SameJob
<1> QED
  BY <1>6, <1>8, <1>9, <1>10 DEF Under

\* A broadcast at the head of a rollout worker's queue is that of the next bucket.
LEMMA TakerReady ==
  ASSUME NEW z, NEW k, NEW s, Planned(z, k, s), NEW e, NEW P, NEW w \in Rollouts, NEW t, NEW c, Taker(z, e, P, w, t, c),
         queue[w] # <<>>, queue[w][1].do = "bcast"
  PROVE  /\ e = t /\ queue[w][1] = Bcast((e + 1) % 2, LenOf(z, e + 1)) /\ Given(z, Tail(queue[w]), t, c)
         /\ pc[w] \in {"wait", "swap"} /\ Asked(z, queue[w], t, c, e) /\ ~Given(z, queue[w], t, c)
<1>1. t \in Nat /\ c \in Nat /\ z.up[t] \in Nat /\ c <= z.up[t]
  BY TakerNums
<1>2. ~Given(z, queue[w], t, c)
  <2> SUFFICES ASSUME Given(z, queue[w], t, c) PROVE FALSE
    OBVIOUS
  <2>1. IsSeq(queue[w]) /\ Len(queue[w]) = z.up[t] - c /\ \A j \in 1..z.up[t] - c : queue[w][j] = CopyOf(z, c + j)
    BY DEF Given
  <2>2. 1 \in DOMAIN queue[w]
    BY <2>1, TailOut
  <2>3. DOMAIN queue[w] = 1..Len(queue[w])
    BY <2>1 DEF IsSeq
  <2>4. queue[w][1] = CopyOf(z, c + 1)
    BY <2>1, <2>2, <2>3
  <2>5. queue[w][1].do = "copy"
    BY <2>4 DEF CopyOf
  <2> QED
    BY <2>5
<1>3. pc[w] \in {"wait", "swap"} /\ Asked(z, queue[w], t, c, e)
  BY <1>2 DEF Taker
<1>4. e = t /\ \E x \in DOMAIN queue[w] : Asking(z, queue[w], t, c, x)
  BY <1>2, <1>3 DEF Asked
<1>5. Given(z, Tail(queue[w]), t, c) /\ queue[w][1] = Bcast((t + 1) % 2, LenOf(z, t + 1))
  BY <1>1, <1>4, AskedRuns
<1> QED
  BY <1>2, <1>3, <1>4, <1>5

\* It runs: the bucket is in the buffer.
LEMMA TakerFed ==
  ASSUME NEW z, NEW k, NEW s, Planned(z, k, s), NEW e, NEW P, NEW w \in Rollouts, NEW t, NEW c, Taker(z, e, P, w, t, c),
         queue[w] # <<>>, queue[w][1].do = "bcast", DOMAIN buf[w] = {0, 1}, NEW sent,
         \A i \in 1..z.n : z.bk[i] = e + 1 => Seg(z, i) \in sent,
         buf'[w] = [buf[w] EXCEPT ![queue[w][1].b] = sent], queue'[w] = Tail(queue[w]),
         pc'[w] = pc[w], op'[w] = op[w], meta'[w] = meta[w], last'[w] = last[w], cur'[w] = cur[w],
         wire'[w] = wire[w], got'[w] = got[w]
  PROVE  Taker(z, e + 1, P, w, t, c)'
<1>1. /\ e = t /\ queue[w][1] = Bcast((e + 1) % 2, LenOf(z, e + 1)) /\ Given(z, Tail(queue[w]), t, c)
      /\ pc[w] \in {"wait", "swap"} /\ Asked(z, queue[w], t, c, e) /\ ~Given(z, queue[w], t, c)
  BY TakerReady
<1>2. t \in Nat /\ e \in Nat
  BY TakerNums
<1>3. queue[w][1].b = (e + 1) % 2
  BY <1>1 DEF Bcast
<1>4. (e + 1) % 2 \in {0, 1} /\ e % 2 \in {0, 1} /\ (e + 1) % 2 # e % 2
  BY <1>2, Parity
<1>5. buf'[w][(e + 1) % 2] = sent /\ buf'[w][e % 2] = buf[w][e % 2]
  BY <1>3, <1>4
<1>6. Stored(z, e, buf[w])
  BY DEF Taker
<1>7. ASSUME NEW i \in 1..z.n, z.bk[i] \in {(e + 1) - 1, e + 1} PROVE Seg(z, i) \in buf'[w][z.bk[i] % 2]
  <2>1. CASE z.bk[i] = e + 1
    BY <1>5, <2>1
  <2>2. CASE z.bk[i] = (e + 1) - 1
    <3>1. z.bk[i] = e
      BY <1>2, <2>2
    <3>2. Seg(z, i) \in buf[w][e % 2]
      BY <1>6, <3>1 DEF Stored
    <3> QED
      BY <1>5, <3>1, <3>2
  <2> QED
    BY <1>7, <2>1, <2>2
<1>8. Stored(z, e + 1, buf'[w])
  BY <1>7 DEF Stored
<1>9. Asked(z, queue'[w], t, c, e + 1)
  BY <1>1 DEF Asked
<1>10. e + 1 \in Nat
  BY <1>2
<1>11. CASE pc[w] = "wait"
  <2>1. /\ op[w] = [stage |-> "ready", m |-> MsgOf(z, t + 1)] /\ meta[w] = MetaOf(z, t)
        /\ Coming(z, wire[w], t + 1, P)
    BY <1>1, <1>11 DEF Taker
  <2> QED
    BY <1>8, <1>9, <1>10, <1>11, <2>1 DEF Taker
<1>12. CASE pc[w] = "swap"
  BY <1>8, <1>9, <1>10, <1>12 DEF Taker
<1> QED
  BY <1>1, <1>11, <1>12

\* An actor with a rank is in the group.
LEMMA ActorsRanked ==
  ASSUME multi \in BOOLEAN, NEW a \in Actors
  PROVE  RankOf(a) # -1 <=> a \in Group
<1> DEFINE senders == IF multi THEN NodeMates ELSE SingleSender
           earlier == {x \in senders : x < a}
<1>1. a \notin Rollouts /\ a \in Workers
  BY Cluster
<1>2. Ranks[multi][a] = IF a \in senders THEN Cardinality(earlier) ELSE -1
  BY <1>1 DEF Ranks
<1>3. Cardinality(earlier) \in Nat
  <2>1. earlier \subseteq Actors
    BY Cluster DEF NodeMates, SingleSender
  <2>2. IsFiniteSet(Actors)
    BY ClusterAssumption, FS_Interval DEF Actors
  <2>3. IsFiniteSet(earlier)
    BY <2>1, <2>2, FS_Subset
  <2> QED
    BY <2>3, FS_CardinalityType
<1> HIDE DEF senders, earlier
<1>4. Ranks[multi][a] \in Int /\ (Ranks[multi][a] # -1 <=> Ranks[multi][a] >= 0)
  BY <1>2, <1>3
<1> QED
  BY <1>1, <1>4 DEF RankOf, Group, Groups

\* The sender's next broadcast holds its whole bucket.
LEMMA SenderCarries ==
  ASSUME NEW z, Planned(z, engine, sync), NEW F, NEW m, NEW E, NEW Q, NEW P, NEW f, Sender(z, F, m, E, Q, P, f),
         queue[Master] # <<>>, queue[Master][1].do = "bcast"
  PROVE  /\ queue[Master][1] = Bcast(E % 2, LenOf(z, E + 1))
         /\ (\E pg, ph : Lined(z, Tail(queue[Master]), f, m, E + 1, Q, pg, ph))
         /\ Filled(z, f, E + 1, buf[Master])
         /\ \A i \in 1..z.n : z.bk[i] = E + 1 =>
              /\ Seg(z, i) \in buf[Master][E % 2]
              /\ Seg(z, i).at + ChunkSize(Seg(z, i).id) <= LenOf(z, E + 1)
<1> DEFINE q == queue[Master]
<1>1. PICK pf, pb : Lined(z, q, f, m, E, Q, pf, pb)
  BY DEF Sender
<1>2. IsSeq(q)
  BY <1>1 DEF Lined
<1>3. 1 \in DOMAIN q /\ Tail(q) = RemoveAt(q, 1)
  BY <1>2, TailOut
<1>4. /\ E + 1 \in E + 1..Q /\ pb[E + 1] = 1 /\ q[1] = Bcast(E % 2, LenOf(z, E + 1))
      /\ \E pg, ph : Lined(z, RemoveAt(q, 1), f, m, E + 1, Q, pg, ph)
  <2> HIDE DEF q
  <2>1. q[1].do = "bcast"
    BY DEF q
  <2> QED
    BY <1>1, <1>3, <2>1, CastOut
<1>5. /\ F \in Nat /\ m \in 0..z.n /\ m \in Nat /\ E \in Nat /\ Q \in Nat /\ f \in Nat /\ F <= z.last
      /\ z.up[F] \in Nat /\ z.up[F] <= m /\ z.last \in Nat /\ z.n \in Nat
  BY SenderNums
<1>6. Q <= F
  <2>1. Q = F \/ Q = F - 1
    <3>1. CASE z.kind = "xccl"
      BY <3>1 DEF Sender, XcclHost
    <3>2. CASE z.kind # "xccl"
      BY <3>2 DEF Sender, CnclHost
    <3> QED
      BY <3>1, <3>2
  <2> QED
    BY <1>5, <2>1
<1>7. E + 1 \in 1..z.last /\ E + 1 \in 0..z.last /\ E + 1 <= F /\ E + 1 \in Nat
  BY <1>4, <1>5, <1>6
<1>8. Neat(z, z.n) /\ z.last = z.bk[z.n] /\ z.kind \in Kinds
  BY PlanFacts
<1>9. \A x \in {0, 1} : \A g \in buf[Master][x] : \E i \in 1..f : g = Seg(z, i)
  BY DEF Sender, Filled
<1>10. \A i \in 1..f : z.bk[i] > E => Seg(z, i) \in buf[Master][(z.bk[i] - 1) % 2]
  BY DEF Sender, Filled
<1>11. ASSUME NEW i \in 1..z.n, z.bk[i] = E + 1
       PROVE  /\ Seg(z, i) \in buf[Master][E % 2]
              /\ Seg(z, i).at + ChunkSize(Seg(z, i).id) <= LenOf(z, E + 1)
  <2>1. i <= z.up[E + 1] /\ z.up[E + 1] \in 0..z.n
    <3>1. z.bk[i] <= E + 1 <=> i <= z.up[E + 1]
      BY <1>7, <1>8 DEF Neat
    <3>2. z.up[E + 1] \in 0..z.n
      BY <1>7, <1>8 DEF Neat
    <3> QED
      BY <1>7, <1>11, <3>1, <3>2
  <2>2. i <= m
    <3>1. z.bk[i] <= F
      BY <1>7, <1>5, <1>11
    <3>2. F \in 0..z.bk[z.n]
      BY <1>5, <1>8
    <3>3. i <= z.up[F]
      BY <1>8, <3>1, <3>2 DEF Neat
    <3> QED
      BY <1>5, <3>3
  <2>3. i <= f
    <3> SUFFICES ASSUME i > f PROVE FALSE
      BY <1>5
    <3>1. i \in f + 1..m
      BY <1>5, <2>2
    <3>2. pf[i] < pb[E + 1]
      BY <1>1, <1>4, <2>1, <3>1 DEF Lined
    <3>3. pf[i] \in DOMAIN q
      BY <1>1, <3>1 DEF Lined, Marks
    <3>4. DOMAIN q = 1..Len(q)
      BY <1>2 DEF IsSeq
    <3> HIDE DEF q
    <3> QED
      BY <1>4, <3>2, <3>3, <3>4
  <2>4. Seg(z, i) \in buf[Master][(z.bk[i] - 1) % 2]
    <3>1. i \in 1..f /\ z.bk[i] > E
      BY <1>5, <1>7, <1>11, <2>3
    <3> QED
      BY <1>10, <3>1
  <2>5. z.bk[i] - 1 = E
    BY <1>5, <1>11
  <2>6. Seg(z, i).at + ChunkSize(Seg(z, i).id) = z.end[i]
    BY SegEnds
  <2>7. z.end[i] <= LenOf(z, E + 1)
    <3>1. CASE z.kind = "xccl"
      <4>1. z.up[E + 1] \in 1..z.n /\ i \in 0..z.n /\ z.up[E + 1] \in 0..z.n
        BY <1>5, <2>1
      <4>2. z.bk[z.up[E + 1]] <= E + 1 <=> z.up[E + 1] <= z.up[E + 1]
        BY <1>7, <1>8, <4>1 DEF Neat
      <4>3. z.bk[i] <= z.bk[z.up[E + 1]] /\ (z.bk[i] = z.bk[z.up[E + 1]] => z.end[i] <= z.end[z.up[E + 1]])
        BY <1>8, <2>1, <4>1 DEF Neat
      <4>4. z.bk[z.up[E + 1]] \in 1..z.bk[z.n] /\ z.bk[z.n] \in Nat
        BY <1>8, <4>1 DEF Neat
      <4>5. z.bk[z.up[E + 1]] = E + 1
        BY <1>5, <1>11, <4>1, <4>2, <4>3, <4>4
      <4> QED
        BY <1>11, <3>1, <4>3, <4>5 DEF LenOf
    <3>2. CASE z.kind # "xccl"
      <4>1. z.end[i] \in 0..BucketSize
        BY <1>8 DEF Neat
      <4> QED
        BY <3>2, <4>1 DEF LenOf
    <3> QED
      BY <3>1, <3>2
  <2> QED
    BY <2>4, <2>5, <2>6, <2>7
<1>12. Filled(z, f, E + 1, buf[Master])
  <2>1. \A i \in 1..f : z.bk[i] > E + 1 => z.bk[i] > E
    <3> SUFFICES ASSUME NEW i \in 1..f, z.bk[i] > E + 1 PROVE z.bk[i] > E
      OBVIOUS
    <3>1. m \in 0..z.n /\ f <= m
      BY <1>1, <1>5 DEF Lined, Marks
    <3>2. i \in 0..z.n
      BY <1>5, <3>1
    <3>3. z.bk[i] \in 1..z.bk[z.n] /\ z.bk[z.n] \in Nat
      BY <1>8, <3>2 DEF Neat
    <3> QED
      BY <1>5, <3>3
  <2> QED
    BY <1>9, <1>10, <2>1 DEF Filled
<1> QED
  BY <1>3, <1>4, <1>11, <1>12

\* A broadcast runs on the devices of the whole group.
LEMMA BroadcastRuns ==
  ASSUME Kept, Domains, Broadcast,
         NEW z, NEW F, NEW m, NEW E, NEW Q, NEW P, NEW f, Under(z, F, m, E, Q, P, f)
  PROVE  Under(z, F, m, E + 1, Q, P, f)'
<1> DEFINE x == queue[Master][1]
           sent == IF \A w \in Group : queue[w][1].len = x.len
                   THEN {s \in buf[Master][x.b] : s.at + ChunkSize(s.id) <= x.len} ELSE {}
<1>1. /\ DOMAIN queue = Workers /\ DOMAIN buf = Workers /\ \A v \in Workers : DOMAIN buf[v] = {0, 1}
      /\ multi \in BOOLEAN
  BY DEF Kept, Shape, Domains
<1>2. /\ SameJob /\ UNCHANGED <<pc, op, meta, last, cur, wire, pulled, offset, got>>
      /\ buf' = [w \in Workers |-> IF w \in Rollouts THEN [buf[w] EXCEPT ![queue[w][1].b] = sent] ELSE buf[w]]
      /\ queue' = [w \in Workers |-> IF w \in Group THEN Tail(queue[w]) ELSE queue[w]]
      /\ \A w \in Group : 1 \in DOMAIN queue[w] /\ queue[w][1].do = "bcast"
  BY DEF Broadcast, host, job, filling, net, work, SameJob, MayRun
<1>3. Planned(z, engine, sync) /\ Sender(z, F, m, E, Q, P, f) /\ Relays(z, E) /\ Takers(z, E, P)
  BY DEF Under
<1>4. Master \in Group /\ Rollouts \subseteq Group /\ Group \subseteq Workers
  <2>1. RankOf(Master) = 0
    BY <1>1, Senders
  <2>2. Master \in Group
    BY <1>1, <2>1, ActorsRanked, Cluster
  <2> QED
    BY <1>1, <2>2, RolloutsRanked DEF Group, Groups
<1>5. \A w \in Group : queue[w] # <<>> /\ queue[w][1].do = "bcast" /\ queue'[w] = Tail(queue[w])
  BY <1>2, <1>4
<1>6. /\ queue[Master][1] = Bcast(E % 2, LenOf(z, E + 1))
      /\ (\E pg, ph : Lined(z, Tail(queue[Master]), f, m, E + 1, Q, pg, ph))
      /\ Filled(z, f, E + 1, buf[Master])
      /\ \A i \in 1..z.n : z.bk[i] = E + 1 =>
           /\ Seg(z, i) \in buf[Master][E % 2]
           /\ Seg(z, i).at + ChunkSize(Seg(z, i).id) <= LenOf(z, E + 1)
  BY <1>3, <1>4, <1>5, SenderCarries
<1>7. x.b = E % 2 /\ x.len = LenOf(z, E + 1)
  BY <1>6 DEF Bcast
<1>8. ASSUME NEW w \in Group PROVE queue[w][1].len = LenOf(z, E + 1)
  <2>1. CASE w = Master
    BY <1>7, <2>1
  <2>2. CASE w \in Actors \ {Master}
    <3>1. RankOf(w) # -1
      BY <1>1, <1>8, <2>2, ActorsRanked
    <3>2. PICK r, pb : Relay(z, E, w, r, pb)
      BY <1>3, <2>2, <3>1 DEF Relays
    <3>3. Casts(z, queue[w], E, r, pb)
      BY <3>2 DEF Relay
    <3> QED
      BY <1>5, <1>8, <3>3, RelaySends
  <2>3. CASE w \in Rollouts
    <3>1. PICK t, c : Taker(z, E, P, w, t, c)
      BY <1>3, <2>3 DEF Takers
    <3>2. queue[w][1] = Bcast((E + 1) % 2, LenOf(z, E + 1))
      BY <1>3, <1>5, <1>8, <2>3, <3>1, TakerReady
    <3> QED
      BY <3>2 DEF Bcast
  <2> QED
    BY <1>4, <2>1, <2>2, <2>3, Cluster
<1>9. \A i \in 1..z.n : z.bk[i] = E + 1 => Seg(z, i) \in sent
  <2>1. \A w \in Group : queue[w][1].len = x.len
    BY <1>7, <1>8
  <2> QED
    BY <1>6, <1>7, <2>1
<1> HIDE DEF x, sent
<1>10. Sender(z, F, m, E + 1, Q, P, f)'
  <2>1. queue'[Master] = Tail(queue[Master]) /\ buf'[Master] = buf[Master]
    BY <1>2, <1>4, Cluster
  <2>2. f \in Nat /\ E + 1 \in {E, E + 1}
    BY <1>3 DEF Sender
  <2>3. (\E pg, ph : Lined(z, queue'[Master], f, m, E + 1, Q, pg, ph)) /\ Filled(z, f, E + 1, buf'[Master])
    BY <1>6, <2>1
  <2>4. queue[Master] # <<>>
    BY <1>4, <1>5
  <2>5. UNCHANGED <<pc, op, meta, last, cur, pulled, offset>> /\ SameJob
    BY <1>2
  <2> QED
    BY <1>3, <2>2, <2>3, <2>4, <2>5, SenderRuns
<1>11. ASSUME NEW a \in Actors \ {Master}, RankOf(a) # -1 PROVE \E r, pb : Relay(z, E + 1, a, r, pb)'
  <2>1. PICK r, pb : Relay(z, E, a, r, pb)
    BY <1>3, <1>11 DEF Relays
  <2>2. Casts(z, queue[a], E, r, pb)
    BY <2>1 DEF Relay
  <2>3. a \in Group
    BY <1>1, <1>11, ActorsRanked
  <2>4. PICK pg : Casts(z, queue'[a], E + 1, r, pg)
    BY <1>5, <2>2, <2>3, RelaySends
  <2>5. UNCHANGED <<pc, pulled, offset>>
    BY <1>2
  <2>6. Relay(z, E + 1, a, r, pg)'
    BY <2>1, <2>4, <2>5 DEF Relay
  <2> QED
    BY <2>6
<1>12. Relays(z, E + 1)'
  BY <1>2, <1>11 DEF Relays, RankOf, SameJob
<1>13. Takers(z, E + 1, P)'
  <2> SUFFICES ASSUME NEW w \in Rollouts PROVE \E t, c : Taker(z, E + 1, P, w, t, c)'
    BY DEF Takers
  <2>1. PICK t, c : Taker(z, E, P, w, t, c)
    BY <1>3 DEF Takers
  <2>2. buf'[w] = [buf[w] EXCEPT ![queue[w][1].b] = sent] /\ w \in Group /\ w \in Workers
    BY <1>2, <1>4, Cluster
  <2>3. UNCHANGED <<pc, op, meta, last, cur, wire, got>>
    BY <1>2
  <2>4. Taker(z, E + 1, P, w, t, c)'
    BY <1>1, <1>3, <1>5, <1>9, <2>1, <2>2, <2>3, TakerFed
  <2> QED
    BY <2>4
<1>14. Planned(z, engine, sync)'
  BY <1>2, <1>3 DEF SameJob
<1> QED
  BY <1>10, <1>12, <1>13, <1>14 DEF Under

\* The devices keep the order of the sync.
LEMMA DevicesGo ==
  ASSUME Kept, Domains, Device,
         NEW z, NEW F, NEW m, NEW E, NEW Q, NEW P, NEW f, Under(z, F, m, E, Q, P, f)
  PROVE  Copying /\ \E E1, f1 : Under(z, F, m, E1, Q, P, f1)'
<1>1. CASE \E w \in Workers : Local(w)
  BY <1>1, LocalRuns
<1>2. CASE Gather
  <2>1. Under(z, F, m, E, Q, P, f)'
    BY <1>2, GathersRun
  <2> QED
    BY <1>2, <2>1 DEF Gather, Copying
<1>3. CASE Broadcast
  <2>1. Under(z, F, m, E + 1, Q, P, f)'
    BY <1>3, BroadcastRuns
  <2> QED
    BY <1>3, <2>1 DEF Broadcast, Copying
<1> QED
  BY <1>1, <1>2, <1>3 DEF Device

\* A sync that starts: the buffers are new, no broadcast is queued, and the rollout workers have
\* the chunks of the syncs before it.
Fresh ==
  /\ engine \in Kinds /\ sync \in 1..Len(Loads)
  /\ pc = [w \in Workers |-> "init"] /\ pulled = [a \in Actors |-> 0] /\ offset = [a \in Actors |-> 0]
  /\ meta = [w \in Workers |-> <<>>] /\ last = [w \in Workers |-> FALSE] /\ cur = [w \in Workers |-> 0]
  /\ op = [w \in Workers |-> NoOp] /\ buf = [w \in Workers |-> [b \in {0, 1} |-> {}]]
  /\ DOMAIN wire = Rollouts /\ DOMAIN got = Rollouts /\ queue[Master] = <<>>
  /\ \A a \in Actors : IsSeq(queue[a]) /\ NoBcast(queue[a])
  /\ \A w \in Rollouts : wire[w] = <<>> /\ queue[w] = <<>> /\ got[w] = [j \in 1..Before[sync] |-> j - 1]
Ready == Domains /\ \E z : Under(z, 0, 0, 0, 0, 0, 0)

\* A layout at its start.
LEMMA PlanStarts ==
  ASSUME NEW z, NEW k, NEW s, Planned(z, k, s)
  PROVE  /\ z.bk[0] = 1 /\ z.end[0] = 0 /\ z.up[0] = 0 /\ z.up[-1] = 0 /\ z.last \in Nat /\ z.last >= 1 /\ z.n \in Nat
         /\ Parts(z, 0, 0) = <<>> /\ z.base = Before[s] /\ z.base \in Nat
         /\ \A i \in 1..z.n : z.bk[i] \in Nat /\ z.bk[i] >= 1
<1>1. /\ Neat(z, z.n) /\ z.last \in Nat /\ z.last >= 1 /\ z.n \in Nat /\ z.base = Before[s] /\ z.base \in Nat
  BY PlanFacts
<1>2. z.bk[0] = 1 /\ z.end[0] = 0 /\ z.up[0] = 0 /\ z.up[-1] = 0
  BY <1>1 DEF Neat
<1>3. \A i \in 1..z.n : z.bk[i] \in Nat /\ z.bk[i] >= 1
  <2> SUFFICES ASSUME NEW i \in 1..z.n PROVE z.bk[i] \in Nat /\ z.bk[i] >= 1
    OBVIOUS
  <2>1. i \in 0..z.n
    BY <1>1
  <2>2. z.bk[i] \in 1..z.bk[z.n] /\ z.bk[z.n] \in Nat
    BY <1>1, <2>1 DEF Neat
  <2> QED
    BY <2>2
<1>4. Parts(z, 0, 0) = <<>>
  BY NoParts
<1> QED
  BY <1>1, <1>2, <1>3, <1>4

\* A sync starts in order.
LEMMA FreshIsReady == Fresh => Ready
<1> SUFFICES ASSUME Fresh PROVE Ready
  OBVIOUS
<1>1. PICK z : Planned(z, engine, sync)
  BY PlannedThere DEF Fresh
<1>2. /\ z.bk[0] = 1 /\ z.end[0] = 0 /\ z.up[0] = 0 /\ z.up[-1] = 0 /\ z.last \in Nat /\ z.last >= 1 /\ z.n \in Nat
      /\ Parts(z, 0, 0) = <<>> /\ z.base = Before[sync] /\ z.base \in Nat
      /\ \A i \in 1..z.n : z.bk[i] \in Nat /\ z.bk[i] >= 1
  BY <1>1, PlanStarts
<1>3. Domains
  BY Cluster DEF Fresh, Domains
<1>4. \A q : IsSeq(q) /\ NoBcast(q) => Marks(q, "bcast", 0, 0, <<>>)
  BY DEF Marks, NoBcast
<1>5. IsSeq(<<>>) /\ NoBcast(<<>>) /\ Marks(<<>>, "fill", 0, 0, <<>>)
  BY NoPiece DEF Marks
<1>6. 0 % 2 = 0
  BY Parity
<1>7. Lined(z, queue[Master], 0, 0, 0, 0, <<>>, <<>>)
  <2>1. queue[Master] = <<>>
    BY DEF Fresh
  <2>2. \A i \in 0 + 1..0 : FALSE
    OBVIOUS
  <2> QED
    BY <1>4, <1>5, <2>1, <2>2 DEF Lined
<1>8. Filled(z, 0, 0, buf[Master])
  BY Cluster DEF Filled, Fresh
<1>9. /\ pc[Master] = "init" /\ pulled[Master] = 0 /\ offset[Master] = 0 /\ meta[Master] = <<>> /\ last[Master] = FALSE
      /\ cur[Master] = 0 /\ op[Master] = NoOp /\ Filling(z, 0, 0)
  BY <1>2, Cluster DEF Fresh, Filling
<1>10. Sender(z, 0, 0, 0, 0, 0, 0)
  <2>1. XcclHost(z, 0, 0, 0, 0)
    BY <1>6, <1>9 DEF XcclHost, Idle
  <2>2. CnclHost(z, 0, 0, 0, 0, 0)
    BY <1>6, <1>9 DEF CnclHost
  <2>3. 0 \in 0..z.last /\ 0 \in 0..z.n /\ 0 \in Nat /\ z.up[0] <= 0 /\ z.bk[0] <= 0 + 1
    BY <1>2
  <2>4. \E pf, pb : Lined(z, queue[Master], 0, 0, 0, 0, pf, pb)
    BY <1>7
  <2> QED
    BY <1>8, <2>1, <2>2, <2>3, <2>4 DEF Sender
<1>11. Relays(z, 0)
  <2> SUFFICES ASSUME NEW a \in Actors PROVE Relay(z, 0, a, 0, <<>>)
    BY DEF Relays
  <2>1. pc[a] = "init" /\ pulled[a] = 0 /\ offset[a] = 0 /\ IsSeq(queue[a]) /\ NoBcast(queue[a])
    BY Cluster DEF Fresh
  <2>2. Casts(z, queue[a], 0, 0, <<>>)
    <3>1. \A i \in 0 + 1..0 : FALSE
      OBVIOUS
    <3> QED
      BY <1>4, <2>1, <3>1 DEF Casts
  <2>3. 0 \in 0..z.n /\ 0 = z.bk[0] - 1 /\ 0 = z.end[0]
    BY <1>2
  <2> QED
    BY <2>1, <2>2, <2>3 DEF Relay
<1>12. Takers(z, 0, 0)
  <2> SUFFICES ASSUME NEW w \in Rollouts PROVE Taker(z, 0, 0, w, 0, 0)
    BY DEF Takers
  <2>1. /\ pc[w] = "init" /\ meta[w] = <<>> /\ cur[w] = 0 /\ op[w] = NoOp /\ wire[w] = <<>> /\ queue[w] = <<>>
        /\ got[w] = [j \in 1..Before[sync] |-> j - 1]
    BY Cluster DEF Fresh
  <2>2. Stored(z, 0, buf[w])
    <3>1. \A i \in 1..z.n : z.bk[i] \notin {0 - 1, 0}
      BY <1>2
    <3> QED
      BY <3>1 DEF Stored
  <2>3. 0 \in 0..z.last /\ 0 \in z.up[0 - 1]..z.up[0] /\ 0 < z.last /\ z.up[0 - 1] = 0 /\ z.base + 0 = Before[sync]
    BY <1>2
  <2>4. MetaOf(z, 0) = <<>>
    BY <1>2, <2>3 DEF MetaOf
  <2>5. Coming(z, <<>>, 0, 0)
    BY <1>5 DEF Coming
  <2> QED
    BY <1>6, <2>1, <2>2, <2>3, <2>4, <2>5 DEF Taker
<1> QED
  BY <1>1, <1>3, <1>10, <1>11, <1>12 DEF Ready, Under

\* Where a sync has ended, the next one starts.
LEMMA EndIsFresh ==
  ASSUME Kept, Domains, NextSync,
         NEW z, NEW F, NEW m, NEW E, NEW Q, NEW P, NEW f, Under(z, F, m, E, Q, P, f)
  PROVE  Fresh'
<1>1. Planned(z, engine, sync) /\ Sender(z, F, m, E, Q, P, f) /\ Takers(z, E, P)
  BY DEF Under
<1>2. /\ sync < Len(Loads) /\ sync' = sync + 1 /\ UNCHANGED <<engine, wire, queue, got>>
      /\ \A w \in Workers : HasEnded(w)
      /\ pc' = [w \in Workers |-> "init"] /\ pulled' = [a \in Actors |-> 0] /\ offset' = [a \in Actors |-> 0]
      /\ meta' = [w \in Workers |-> <<>>] /\ last' = [w \in Workers |-> FALSE] /\ cur' = [w \in Workers |-> 0]
      /\ op' = [w \in Workers |-> NoOp] /\ buf' = [w \in Workers |-> [b \in {0, 1} |-> {}]]
  BY DEF NextSync, AllEnded, net
<1>3. (\A a \in Actors : pc[a] = "done") /\ \A w \in Rollouts : pc[w] = "loaded"
  BY <1>2, Cluster DEF HasEnded
<1>4. P = z.last /\ queue[Master] = <<>>
  <2>1. pc[Master] = "done"
    BY <1>3, Cluster
  <2>2. CASE z.kind = "xccl"
    BY <1>1, <2>1, <2>2 DEF Sender, XcclHost
  <2>3. CASE z.kind # "xccl"
    BY <1>1, <2>1, <2>3 DEF Sender, CnclHost
  <2> QED
    BY <2>2, <2>3
<1>5. sync \in 1..Len(Loads) /\ sync + 1 \in 1..Len(Loads) /\ Before[sync + 1] = z.base + z.n /\ engine \in Kinds
  <2>1. Before[sync + 1] = z.base + z.n /\ sync \in 1..Len(Loads) /\ engine \in Kinds
    BY <1>1, PlanFacts
  <2>2. Len(Loads) \in Nat
    BY LoadsAssumption
  <2> QED
    BY <1>2, <2>1, <2>2
<1>6. \A a \in Actors : IsSeq(queue[a]) /\ NoBcast(queue[a])
  BY <1>3, Cluster DEF Kept, Shape, BuffersOutliveBroadcasts, NoBcast
<1>7. ASSUME NEW w \in Rollouts
      PROVE  wire[w] = <<>> /\ queue[w] = <<>> /\ got[w] = [j \in 1..Before[sync + 1] |-> j - 1]
  <2>1. PICK t, c : Taker(z, E, P, w, t, c)
    BY <1>1 DEF Takers
  <2>2. pc[w] = "loaded"
    BY <1>3
  <2>3. /\ t = z.last /\ Given(z, queue[w], t, c) /\ Coming(z, wire[w], t, P) /\ queue[w] = <<>>
        /\ got[w] = [j \in 1..z.base + c |-> j - 1]
    BY <2>1, <2>2 DEF Taker
  <2>4. t \in Nat /\ c \in Nat /\ z.up[t] \in Nat /\ c <= z.up[t]
    BY <1>1, <2>1, TakerNums
  <2>5. c = z.up[t]
    <3>1. Given(z, <<>>, t, c)
      BY <2>3
    <3>2. c \in Nat /\ t \in Nat /\ z.up[t] \in Nat /\ c <= z.up[t]
      BY <2>4
    <3> QED
      BY <3>1, <3>2, RunDry
  <2>6. z.up[t] = z.n
    <3>1. Neat(z, z.n) /\ z.last = z.bk[z.n]
      BY <1>1, PlanFacts
    <3> QED
      BY <2>3, <3>1 DEF Neat
  <2>7. wire[w] = <<>>
    <3>1. IsSeq(wire[w]) /\ Len(wire[w]) = t - t
      BY <1>4, <2>3 DEF Coming
    <3>2. Len(wire[w]) = 0
      BY <2>4, <3>1
    <3>3. wire[w] \in Seq(ToSet(wire[w]))
      BY <3>1 DEF IsSeq
    <3> QED
      BY <3>2, <3>3
  <2> QED
    BY <1>5, <2>3, <2>5, <2>6, <2>7
<1>8. DOMAIN wire = Rollouts /\ DOMAIN got = Rollouts
  BY DEF Domains
<1> QED
  BY <1>2, <1>4, <1>5, <1>6, <1>7, <1>8 DEF Fresh

\* The first sync starts so.
LEMMA InitIsFresh == Init => Fresh
<1> SUFFICES ASSUME Init PROVE Fresh
  OBVIOUS
<1>1. Before[1] = 0 /\ 1 \in 1..Len(Loads)
  <2>1. Len(Loads) \in Nat /\ Len(Loads) >= 1
    BY LoadsAssumption
  <2> QED
    BY <2>1, BeforeIs
<1>2. IsSeq(<<>>) /\ NoBcast(<<>>)
  BY NoPiece
<1>3. <<>> = [j \in 1..0 |-> j - 1]
  OBVIOUS
<1> QED
  BY <1>1, <1>2, <1>3, Cluster DEF Init, Fresh

\* The chunks up to a sync are among them all.
LEMMA BeforeAscends == ASSUME NEW s \in 1..Len(Loads) PROVE Before[s + 1] <= Total
<1> DEFINE N == Len(Loads)
           H == {n \in Nat : n < N => Before[N - n + 1] <= Total /\ Before[N - n + 1] \in Nat}
<1>1. /\ N \in Nat /\ Before \in [1..N + 1 -> Nat]
      /\ \A r \in 1..N : Len(Loads[r]) \in Nat /\ Before[r + 1] = Before[r] + Len(Loads[r])
  BY BeforeIs
<1>6. \A r \in 1..N : Before[r] \in Nat
  <2> HIDE DEF H
  <2> QED
    BY <1>1
<1>2. Total = Before[N + 1] /\ Total \in Nat
  BY <1>1 DEF Total
<1>3. H = Nat
  <2>1. 0 \in H
    <3>1. N - 0 + 1 = N + 1
      BY <1>1
    <3> QED
      BY <1>2, <3>1
  <2>2. ASSUME NEW n \in H PROVE n + 1 \in H
    <3> SUFFICES ASSUME n + 1 < N PROVE Before[N - (n + 1) + 1] <= Total /\ Before[N - (n + 1) + 1] \in Nat
      OBVIOUS
    <3>1. N - n \in 1..N /\ N - (n + 1) + 1 = N - n /\ n < N
      BY <1>1
    <3>2. Before[(N - n) + 1] = Before[N - n] + Len(Loads[N - n]) /\ Len(Loads[N - n]) \in Nat
      BY <1>1, <3>1
    <3>3. Before[N - n + 1] <= Total /\ Before[N - n + 1] \in Nat
      BY <3>1
    <3>4. Before[N - n] \in Nat
      BY <1>6, <3>1
    <3> QED
      BY <1>2, <3>1, <3>2, <3>3, <3>4
  <2>3. H \in SUBSET Nat
    OBVIOUS
  <2> HIDE DEF H
  <2> QED
    BY <2>1, <2>2, <2>3, NatSets
<1>4. N - s \in H
  <2>1. N - s \in Nat
    BY <1>1
  <2> HIDE DEF H
  <2> QED
    BY <1>3, <2>1
<1>5. N - s < N /\ N - (N - s) + 1 = s + 1
  BY <1>1
<1> QED
  BY <1>4, <1>5

\* The subscriptions, and the domains, while the devices run and when the next sync starts.
LEMMA RestKeeps ==
  ASSUME Kept, Domains, Subscriptions, Device \/ NextSync
  PROVE  Subscriptions' /\ (Device => Domains')
<1>1. UNCHANGED <<engine, sub, frames, count>>
  BY DEF Device, Local, Gather, Broadcast, NextSync, host, job, net
<1>2. pc' = pc \/ pc' = [w \in Workers |-> "init"]
  BY DEF Device, Local, Gather, Broadcast, NextSync, host, work
<1>3. Subscriptions'
  BY <1>1, <1>2, Cluster, NoneSubscribes DEF Idle
<1>4. ASSUME Device PROVE Domains'
  <2>1. UNCHANGED <<engine, sync, meta, last, cur, op, pulled, offset, wire>>
    BY <1>4 DEF Device, Local, Gather, Broadcast, host, job, net, filling, work
  <2>2. DOMAIN got' = Rollouts
    BY <1>4 DEF Device, Local, Gather, Broadcast, Domains
  <2>3. DOMAIN buf' = Workers /\ \A w \in Workers : DOMAIN buf'[w] = {0, 1}
    <3>1. CASE \E w \in Workers : Local(w)
      BY <3>1 DEF Local, Domains
    <3>2. CASE Gather
      BY <3>2 DEF Gather, Domains
    <3>3. CASE Broadcast
      <4>1. PICK sent : buf' = [w \in Workers |-> IF w \in Rollouts THEN [buf[w] EXCEPT ![queue[w][1].b] = sent]
                                                  ELSE buf[w]]
        BY <3>3 DEF Broadcast
      <4> QED
        BY <4>1 DEF Domains
    <3> QED
      BY <1>4, <3>1, <3>2, <3>3 DEF Device
  <2> QED
    BY <2>1, <2>2, <2>3 DEF Domains
<1> QED
  BY <1>3, <1>4

\* The hosts leave the job, and what has been copied.
LEMMA HostsKeepJob ==
  ASSUME (engine = "xccl" /\ XcclHosts) \/ (engine = "cncl" /\ CnclHosts)
  PROVE  UNCHANGED <<engine, multi, sync, got>>
<1>1. CASE engine = "xccl" /\ XcclHosts
  BY <1>1 DEF XcclHosts, XcclActs, XcclGets, X!Barrier, X!Publish, X!Deliver, X!TakeFrame, X!StartSending,
       X!SubscribersTimeout, X!QueueBroadcast, X!Join, X!Pull, X!PullNone, X!RelayChunk, X!PlaceChunk, X!Fill,
       X!Synchronize, X!StartBroadcast, X!FillNext, X!Step, X!LastQueued, X!Finish, X!ReceiveMetadata, X!StartReceive,
       X!Received, X!Swap, X!Loaded, X!Subscribed, X!job, X!filling, X!net, X!work, X!device
<1>2. CASE engine = "cncl" /\ CnclHosts
  BY <1>2 DEF CnclHosts, CnclActs, CnclGets, C!Barrier, C!Send, C!Deliver, C!Join, C!Pull, C!Place, C!Flush,
       C!PullNone, C!Finish, C!Receive, C!Swap, C!Loaded, C!Subscribed, C!job, C!filling, C!net, C!work, C!device
<1> QED
  BY <1>1, <1>2

\* Either engine steps its devices, its hosts, or on to the next sync.
LEMMA XcclParts ==
  XcclStep => engine = "xccl" /\ (Device \/ NextSync \/ XcclHosts)
<1> SUFFICES ASSUME XcclStep PROVE engine = "xccl" /\ (Device \/ NextSync \/ XcclHosts)
  OBVIOUS
<1>1. engine = "xccl" /\ X!Next
  BY DEF XcclStep
<1>2. CASE X!Device \/ X!NextSync
  BY <1>1, <1>2, SameDevice
<1>3. CASE \/ X!Barrier \/ X!TakeFrame \/ X!StartSending \/ X!SubscribersTimeout \/ X!Publish \/ X!QueueBroadcast
  BY <1>1, <1>3 DEF XcclHosts
<1>4. CASE \E w \in Workers : X!Join(w)
  BY <1>1, <1>4, Cluster DEF XcclHosts, XcclActs, XcclGets
<1>5. CASE \E a \in Actors : \/ X!Pull(a) \/ X!PullNone(a) \/ X!RelayChunk(a) \/ X!PlaceChunk(a) \/ X!Synchronize(a)
                             \/ X!StartBroadcast(a) \/ X!FillNext(a) \/ X!Step(a) \/ X!LastQueued(a) \/ X!Finish(a)
  BY <1>1, <1>5 DEF XcclHosts, XcclActs
<1>6. CASE \E w \in Rollouts : \/ X!Subscribed(w) \/ X!ReceiveMetadata(w) \/ X!StartReceive(w) \/ X!Received(w)
                               \/ X!Swap(w) \/ X!Loaded(w)
  BY <1>1, <1>6 DEF XcclHosts, XcclGets
<1> QED
  BY <1>1, <1>2, <1>3, <1>4, <1>5, <1>6, Same DEF X!Next

\* CNCL's engine, too, steps its devices, its hosts, or on to the next sync.
LEMMA CnclParts ==
  CnclStep => engine = "cncl" /\ (Device \/ NextSync \/ CnclHosts)
<1> SUFFICES ASSUME CnclStep PROVE engine = "cncl" /\ (Device \/ NextSync \/ CnclHosts)
  OBVIOUS
<1>1. engine = "cncl" /\ C!Next
  BY DEF CnclStep
<1>2. CASE C!Device \/ C!NextSync
  BY <1>1, <1>2, SameDevice
<1>3. CASE C!Barrier
  BY <1>1, <1>3 DEF CnclHosts
<1>4. CASE \E w \in Workers : C!Join(w)
  BY <1>1, <1>4, Cluster DEF CnclHosts, CnclActs, CnclGets
<1>5. CASE \E a \in Actors : C!Pull(a) \/ C!Place(a) \/ C!Flush(a) \/ C!PullNone(a) \/ C!Finish(a)
  BY <1>1, <1>5 DEF CnclHosts, CnclActs
<1>6. CASE \E w \in Rollouts : C!Subscribed(w) \/ C!Receive(w) \/ C!Swap(w) \/ C!Loaded(w)
  BY <1>1, <1>6 DEF CnclHosts, CnclGets
<1> QED
  BY <1>1, <1>2, <1>3, <1>4, <1>5, <1>6, Same DEF C!Next

\* A step in which nothing changes.
LEMMA NothingGoes ==
  ASSUME InOrder, UNCHANGED vars
  PROVE  InOrder'
<1>1. SameJob /\ (\A v \in Workers : StaysPut(v)) /\ UNCHANGED <<engine, multi, sync, pc, op, queue, meta, wire>>
  BY DEF vars, host, job, filling, net, work, device, SameJob, StaysPut
<1>2. Kept'
  BY <1>1, Still DEF InOrder
<1>3. Domains' /\ Subscriptions'
  BY DEF InOrder, vars, host, job, filling, net, work, device, Domains, Subscriptions, Live
<1>4. PICK z, F, m, E, Q, P, f : Under(z, F, m, E, Q, P, f)
  BY DEF InOrder
<1>5. Sender(z, F, m, E, Q, P, f)'
  BY <1>1, <1>4, SenderStays, Cluster DEF Under
<1>6. Under(z, F, m, E, Q, P, f)'
  BY <1>1, <1>4, <1>5, SenderMoves
<1> QED
  BY <1>2, <1>3, <1>6 DEF InOrder

\* XCCL's sender waits until every rollout worker has subscribed; CNCL's must not need to.
NoneLate == engine = "cncl" => LateOnes = {}

\* Every step keeps the order.
LEMMA OrderKeeps ==
  ASSUME InOrder, NoneLate, [Next]_vars
  PROVE  InOrder' /\ NoneLate'
<1>1. Kept /\ Domains /\ Subscriptions
  BY DEF InOrder
<1>2. PICK z, F, m, E, Q, P, f : Under(z, F, m, E, Q, P, f)
  BY DEF InOrder
<1>3. CASE UNCHANGED vars
  BY <1>3, NothingGoes DEF NoneLate, vars, host, job
<1>4. ASSUME Step PROVE Kept'
  BY <1>1, <1>4, XcclKeeps, CnclKeeps DEF Step
<1>5. CASE Step /\ Device
  <2>1. \E E1, f1 : Under(z, F, m, E1, Q, P, f1)'
    BY <1>1, <1>2, <1>5, DevicesGo
  <2>2. Domains' /\ Subscriptions'
    BY <1>1, <1>5, RestKeeps
  <2>3. NoneLate'
    BY <1>5 DEF NoneLate, Device, Local, Gather, Broadcast, host, job
  <2> QED
    BY <1>4, <1>5, <2>1, <2>2, <2>3 DEF InOrder
<1>6. CASE Step /\ NextSync
  <2>1. Fresh'
    BY <1>1, <1>2, <1>6, EndIsFresh
  <2>2. Ready'
    BY <2>1, FreshIsReady, PTL
  <2>3. Subscriptions'
    BY <1>1, <1>6, RestKeeps
  <2>4. NoneLate'
    BY <1>6 DEF NoneLate, NextSync
  <2> QED
    BY <1>4, <1>6, <2>2, <2>3, <2>4 DEF InOrder, Ready
<1>7. CASE Step /\ engine = "xccl" /\ XcclHosts
  <2>1. \E F1, m1, Q1, P1 : Under(z, F1, m1, E, Q1, P1, f)'
    BY <1>1, <1>2, <1>7, XcclHostsGo
  <2>2. (engine = "xccl" /\ XcclHosts) \/ (engine = "cncl" /\ CnclHosts)
    BY <1>7
  <2>3. engine' = engine
    BY <2>2, HostsKeepJob
  <2>4. Domains'
    BY <1>1, <2>2, HostsKeepDomains
  <2>5. Subscriptions'
    BY <1>1, <1>7, XcclSubscribes
  <2> QED
    BY <1>4, <1>7, <2>1, <2>3, <2>4, <2>5 DEF InOrder, NoneLate
<1>8. CASE Step /\ engine = "cncl" /\ CnclHosts
  <2>1. \E F1, m1, Q1, P1 : Under(z, F1, m1, E, Q1, P1, f)'
    BY <1>1, <1>2, <1>8, CnclHostsGo
  <2>2. Domains' /\ Subscriptions'
    BY <1>1, <1>8, HostsKeepDomains, CnclSubscribes DEF NoneLate
  <2>3. NoneLate'
    BY <1>8 DEF NoneLate
  <2> QED
    BY <1>4, <1>8, <2>1, <2>2, <2>3 DEF InOrder
<1> QED
  BY <1>3, <1>5, <1>6, <1>7, <1>8, XcclParts, CnclParts, NothingGoes DEF Next, Step, Stop

-----------------------------------------------------------------------------
(* The refinement.                                                           *)

\* What has become of worker w, and of what a rollout worker has read.
Fate(w) ==
  IF pc[w] = "failed" THEN "failure" ELSE IF sync = Len(Loads) /\ HasEnded(w) THEN "success" ELSE "pending"
Fates == [w \in Workers |-> Fate(w)]
Read == [x \in {Master} \X Rollouts |-> got[x[2]]]
AllHave == \A w \in Rollouts : pc[w] = "loaded" => Len(got[w]) = Before[sync + 1]

\* A rollout worker whose loader is through has all chunks so far.
LEMMA LoadedHave == InOrder => AllHave
<1> SUFFICES ASSUME InOrder, NEW w \in Rollouts, pc[w] = "loaded" PROVE Len(got[w]) = Before[sync + 1]
  BY DEF AllHave
<1>1. PICK z, F, m, E, Q, P, f : Under(z, F, m, E, Q, P, f)
  BY DEF InOrder
<1>2. Planned(z, engine, sync) /\ Takers(z, E, P)
  BY <1>1 DEF Under
<1>3. PICK t, c : Taker(z, E, P, w, t, c)
  BY <1>2 DEF Takers
<1>4. /\ t = z.last /\ Given(z, <<>>, t, c) /\ got[w] = [j \in 1..z.base + c |-> j - 1]
  BY <1>3 DEF Taker
<1>5. t \in Nat /\ c \in Nat /\ z.up[t] \in Nat /\ c <= z.up[t]
  BY <1>2, <1>3, TakerNums
<1>6. c = z.up[t]
  BY <1>4, <1>5, RunDry
<1>7. /\ Neat(z, z.n) /\ z.last = z.bk[z.n] /\ z.base + z.n = Before[sync + 1] /\ z.base \in Nat /\ z.n \in Nat
  BY <1>2, PlanFacts
<1>8. c = z.n
  BY <1>4, <1>6, <1>7 DEF Neat
<1> DEFINE n == z.base + c
<1>9. n \in Nat /\ n = Before[sync + 1] /\ got[w] = [j \in 1..n |-> j - 1]
  BY <1>4, <1>7, <1>8
<1> HIDE DEF n
<1>10. Len(got[w]) = n
  BY <1>9, GotGrows
<1> QED
  BY <1>9, <1>10

\* What has been copied is counted.
LEMMA GotCounts ==
  ASSUME NEW z, NEW F, NEW m, NEW E, NEW Q, NEW P, NEW f, Under(z, F, m, E, Q, P, f), NEW w \in Rollouts
  PROVE  Len(got[w]) \in Nat
<1>1. Planned(z, engine, sync) /\ Takers(z, E, P)
  BY DEF Under
<1>2. PICK t, c : Taker(z, E, P, w, t, c)
  BY <1>1 DEF Takers
<1>3. got[w] = [j \in 1..z.base + c |-> j - 1]
  BY <1>2 DEF Taker
<1>4. c \in Nat
  BY <1>1, <1>2, TakerNums
<1>5. z.base \in Nat
  BY <1>1, PlanFacts
<1> DEFINE n == z.base + c
<1>6. n \in Nat /\ got[w] = [j \in 1..n |-> j - 1]
  BY <1>3, <1>4, <1>5
<1> HIDE DEF n
<1>7. Len(got[w]) = n
  BY <1>6, GotGrows
<1> QED
  BY <1>6, <1>7

\* Worker w alone goes on, from where it has not ended.
Walks(w) ==
  /\ pc[w] # "failed" /\ (w \in Actors => pc[w] # "done") /\ pc[w] # "loaded"
  /\ \A v \in Workers \ {w} : pc'[v] = pc[v]

\* The hosts walk one by one, or meet at the barrier.
Walk ==
  \/ \E w \in Workers : Walks(w)
  \/ \A w \in Workers : \/ pc'[w] = pc[w]
                        \/ pc[w] = "barrier" /\ pc'[w] \in {"subscribers", "start", "pull"}

\* XCCL.
LEMMA XcclHostsWalk ==
  ASSUME Kept, engine = "xccl", XcclHosts
  PROVE  Walk
<1>1. pc \in [Workers -> Labels] /\ X!Workers = Workers /\ X!Rollouts = Rollouts /\ X!Master = Master
  BY Same DEF Kept, Shape
<1>2. CASE X!Barrier
  BY <1>1, <1>2, Cluster DEF X!Barrier, Walk
<1>3. CASE X!Publish \/ X!TakeFrame \/ X!QueueBroadcast
  BY <1>3 DEF X!Publish, X!TakeFrame, X!QueueBroadcast, X!work, Walk
<1>4. CASE X!StartSending \/ X!SubscribersTimeout
  <2>1. Walks(Master)
    BY <1>1, <1>4 DEF X!StartSending, X!SubscribersTimeout, X!Go, Walks
  <2> QED
    BY <2>1, Cluster DEF Walk
<1>5. ASSUME NEW a \in Actors, XcclActs(a) PROVE Walk
  <2>1. Walks(a)
    BY <1>1, <1>5, Cluster DEF XcclActs, X!Join, X!Pull, X!PullNone, X!RelayChunk, X!PlaceChunk, X!Synchronize,
       X!StartBroadcast, X!FillNext, X!Step, X!LastQueued, X!Finish, X!Go, Walks
  <2> QED
    BY <2>1, Cluster DEF Walk
<1>6. ASSUME NEW w \in Rollouts, XcclGets(w) PROVE Walk
  <2>1. CASE X!ReceiveMetadata(w)
    BY <2>1 DEF X!ReceiveMetadata, Walk
  <2>2. CASE X!Join(w) \/ X!StartReceive(w) \/ X!Received(w) \/ X!Swap(w) \/ X!Loaded(w)
    <3>1. Walks(w)
      BY <1>1, <2>2, Cluster DEF X!Join, X!StartReceive, X!Received, X!Swap, X!Loaded, X!Go, Walks
    <3> QED
      BY <3>1, Cluster DEF Walk
  <2> QED
    BY <1>6, <2>1, <2>2 DEF XcclGets
<1>7. ASSUME NEW w \in Rollouts, X!Subscribed(w) PROVE Walk
  BY <1>7 DEF X!Subscribed, X!work, Walk
<1> QED
  BY <1>2, <1>3, <1>4, <1>5, <1>6, <1>7 DEF XcclHosts

\* CNCL.
LEMMA CnclHostsWalk ==
  ASSUME Kept, engine = "cncl", CnclHosts
  PROVE  Walk
<1>1. pc \in [Workers -> Labels] /\ C!Workers = Workers /\ C!Rollouts = Rollouts /\ C!Master = Master
  BY Same DEF Kept, Shape
<1>2. CASE C!Barrier
  BY <1>1, <1>2, Cluster DEF C!Barrier, Walk
<1>3. ASSUME NEW a \in Actors, CnclActs(a) PROVE Walk
  <2>1. Walks(a)
    BY <1>1, <1>3, Cluster DEF CnclActs, C!Join, C!Pull, C!Place, C!Flush, C!PullNone, C!Finish, C!Go, Walks
  <2> QED
    BY <2>1, Cluster DEF Walk
<1>4. ASSUME NEW w \in Rollouts, CnclGets(w) PROVE Walk
  <2>1. Walks(w)
    BY <1>1, <1>4, Cluster DEF CnclGets, C!Join, C!Receive, C!Swap, C!Loaded, C!Go, Walks
  <2> QED
    BY <2>1, Cluster DEF Walk
<1>5. ASSUME NEW w \in Rollouts, C!Subscribed(w) PROVE Walk
  BY <1>5 DEF C!Subscribed, C!work, Walk
<1> QED
  BY <1>2, <1>3, <1>4, <1>5 DEF CnclHosts

\* The first state is one of the promise.
LEMMA PromiseInit == Init => Promise!Init
<1> SUFFICES ASSUME Init PROVE Promise!Init
  OBVIOUS
<1>1. ASSUME NEW w \in Workers PROVE Fate(w) = "pending"
  BY Cluster DEF Init, Fate, HasEnded
<1>2. \A x \in {Master} \X Rollouts : got[x[2]] = <<>>
  BY DEF Init
<1> QED
  BY <1>1, <1>2, Cluster DEF Promise!Init, Promise!Everyone, Fate

\* What a step does to the fates and to what was read.
LEMMA PromiseStep ==
  ASSUME InOrder, NoneLate, [Next]_vars, AllHave'
  PROVE  [Promise!Next]_(Promise!vars)
<1> DEFINE M == [Promise!Next]_(Promise!vars)
<1>1. Kept /\ Domains /\ Subscriptions /\ DOMAIN got = Rollouts
  BY DEF InOrder, Domains
<1>2. PICK z, F, m, E, Q, P, f : Under(z, F, m, E, Q, P, f)
  BY DEF InOrder
<1>3. pc \in [Workers -> Labels] /\ sync \in 1..Len(Loads)
  BY <1>1 DEF Kept, Shape, Domains
<1>4. ASSUME \A w \in Workers : Fate(w)' = Fate(w), \A w \in Rollouts : got'[w] = got[w] PROVE M
  <2>1. Fates' = Fates /\ Read' = Read
    BY <1>4 DEF Fates, Read
  <2> QED
    BY <2>1 DEF Promise!vars, Fates, Read, Fate
<1>5. CASE UNCHANGED vars
  <2>1. UNCHANGED <<pc, sync, got>>
    BY <1>5 DEF vars, host, job, work, device
  <2> QED
    BY <1>4, <2>1 DEF Fate, HasEnded
<1>6. ASSUME Device PROVE M
  <2>1. UNCHANGED <<pc, sync>>
    BY <1>6 DEF Device, Local, Gather, Broadcast, host, job, work
  <2>2. \A w \in Workers : Fate(w)' = Fate(w)
    BY <2>1 DEF Fate, HasEnded
  <2>3. Copying
    BY <1>1, <1>2, <1>6, DevicesGo
  <2>4. ASSUME NEW w \in Rollouts, Len(got[w]) < Before[sync + 1], got'[w] = Append(got[w], Len(got[w])),
               \A v \in Rollouts \ {w} : got'[v] = got[v]
        PROVE  M
    <3>1. Before[sync + 1] <= Total /\ Before[sync + 1] \in Nat /\ Total \in Nat /\ Len(got[w]) \in Nat
      <4>1. Before[sync + 1] <= Total
        BY <1>3, BeforeAscends
      <4>2. Before[sync + 1] \in Nat /\ Total \in Nat
        <5>1. Len(Loads) \in Nat /\ Len(Loads) # 0 /\ Before \in [1..Len(Loads) + 1 -> Nat]
          BY BeforeIs
        <5>2. sync + 1 \in 1..Len(Loads) + 1 /\ Len(Loads) + 1 \in 1..Len(Loads) + 1
          BY <1>3, <5>1
        <5> QED
          BY <5>1, <5>2 DEF Total
      <4>3. Len(got[w]) \in Nat
        BY <1>2, GotCounts
      <4> QED
        BY <4>1, <4>2, <4>3
    <3>2. Len(got[w]) < Total
      BY <2>4, <3>1
    <3>3. Read[<<Master, w>>] = got[w] /\ <<Master, w>> \in {Master} \X Rollouts
      BY DEF Read
    <3>4. Read' = [Read EXCEPT ![<<Master, w>>] = Append(@, Len(@))]
      <4> DEFINE D == {Master} \X Rollouts
                 new == [Read EXCEPT ![<<Master, w>>] = Append(@, Len(@))]
      <4>1. ASSUME NEW x \in D PROVE Read'[x] = new[x]
        <5>1. x = <<Master, x[2]>> /\ x[2] \in Rollouts /\ Read'[x] = got'[x[2]] /\ Read[x] = got[x[2]]
          BY DEF Read
        <5>2. CASE x[2] = w
          <6>1. x = <<Master, w>>
            BY <5>1, <5>2
          <6>2. new[x] = Append(got[w], Len(got[w]))
            BY <3>3, <6>1 DEF Read
          <6> QED
            BY <2>4, <5>1, <5>2, <6>2
        <5>3. CASE x[2] # w
          <6>1. x # <<Master, w>>
            BY <5>1, <5>3
          <6>2. new[x] = Read[x]
            BY <6>1 DEF Read
          <6> QED
            BY <2>4, <5>1, <5>3, <6>2
        <5> QED
          BY <5>2, <5>3
      <4>2. Read' = [x \in D |-> Read'[x]] /\ new = [x \in D |-> new[x]]
        BY DEF Read
      <4> QED
        BY <4>1, <4>2
    <3>5. Fates' = Fates
      BY <2>2 DEF Fates
    <3>6. Promise!Read(Master, w)
      BY <3>2, <3>3, <3>4, <3>5 DEF Promise!Read, Read, Fates, Fate
    <3> QED
      BY <3>6 DEF Promise!Next
  <2> QED
    BY <1>4, <2>2, <2>3, <2>4 DEF Copying
<1>7. ASSUME NextSync PROVE M
  <2>1. /\ sync < Len(Loads) /\ sync' = sync + 1 /\ got' = got /\ pc' = [w \in Workers |-> "init"]
        /\ \A w \in Workers : HasEnded(w)
    BY <1>7 DEF NextSync, AllEnded
  <2>2. \A w \in Workers : Fate(w) = "pending" /\ Fate(w)' = "pending"
    BY <1>3, <2>1 DEF Fate, HasEnded
  <2> QED
    BY <1>4, <2>1, <2>2
<1>8. ASSUME (engine = "xccl" /\ XcclHosts) \/ (engine = "cncl" /\ CnclHosts) PROVE M
  <2>1. sync' = sync /\ got' = got
    BY <1>8, HostsKeepJob
  <2>2. Walk
    BY <1>1, <1>8, XcclHostsWalk, CnclHostsWalk
  <2>3. CASE \A w \in Workers : \/ pc'[w] = pc[w]
                                \/ pc[w] = "barrier" /\ pc'[w] \in {"subscribers", "start", "pull"}
    <3>1. \A w \in Workers : Fate(w)' = Fate(w)
      BY <2>1, <2>3 DEF Fate, HasEnded
    <3> QED
      BY <1>4, <2>1, <3>1
  <2>4. ASSUME NEW w \in Workers, Walks(w) PROVE M
    <3>1. \A v \in Workers \ {w} : Fate(v)' = Fate(v)
      BY <2>1, <2>4 DEF Walks, Fate, HasEnded
    <3>2. Fate(w) = "pending"
      BY <2>4, Cluster DEF Walks, Fate, HasEnded
    <3>3. CASE Fate(w)' = "pending"
      BY <1>4, <2>1, <3>1, <3>2, <3>3
    <3>4. Fates[w] = "pending" /\ \A v \in Workers : Fates'[v] = Fate(v)' /\ Fates[v] = Fate(v)
      BY <3>2 DEF Fates
    <3>5. CASE Fate(w)' = "failure"
      <4>1. Fates' = [Fates EXCEPT ![w] = "failure"] /\ Read' = Read
        BY <2>1, <3>1, <3>5 DEF Fates, Read
      <4>2. Promise!Fail(w)
        BY <3>4, <4>1 DEF Promise!Fail, Fates, Read, Fate
      <4> QED
        BY <4>2, Cluster DEF Promise!Next, Promise!Everyone
    <3>6. CASE Fate(w)' = "success"
      <4>1. Fates' = [Fates EXCEPT ![w] = "success"] /\ Read' = Read
        BY <2>1, <3>1, <3>6 DEF Fates, Read
      <4>2. ASSUME w \in Rollouts PROVE Len(got[w]) = Total
        <5>1. pc'[w] = "loaded" /\ sync' = Len(Loads)
          BY <3>6, <4>2 DEF Fate, HasEnded
        <5>2. Len(got'[w]) = Before[sync' + 1]
          BY <4>2, <5>1 DEF AllHave
        <5> QED
          BY <2>1, <5>1, <5>2 DEF Total
      <4>3. w \in Rollouts => \A s \in {Master} : Len(Read[<<s, w>>]) = Total
        BY <4>2 DEF Read
      <4>4. Promise!Succeed(w)
        BY <3>4, <4>1, <4>3 DEF Promise!Succeed, Promise!HasAll, Fates, Read, Fate
      <4> QED
        BY <4>4, Cluster DEF Promise!Next, Promise!Everyone
    <3> QED
      BY <3>3, <3>5, <3>6 DEF Fate
  <2> QED
    BY <2>2, <2>3, <2>4 DEF Walk
<1> QED
  BY <1>5, <1>6, <1>7, <1>8, XcclParts, CnclParts DEF Next, Step, Stop

\* The first state is in order.
LEMMA InitInOrder == Init => InOrder
<1>1. Init => Kept /\ Fresh
  BY KeptAtFirst, InitIsFresh
<1>2. Init => Ready
  BY <1>1, FreshIsReady
<1>3. Init => Subscriptions
  <2> SUFFICES ASSUME Init PROVE Subscriptions
    OBVIOUS
  <2>1. Live = {}
    BY DEF Init, Live
  <2>2. Cardinality({}) = 0
    BY FS_EmptySet
  <2> QED
    BY <2>1, <2>2, Cluster DEF Init, Subscriptions, Idle
<1> QED
  BY <1>1, <1>2, <1>3 DEF InOrder, Ready

\* Every rollout worker copies every chunk of every sync once, in order and unchanged, and a
\* worker's sync succeeds only after that, whatever the cluster, the chunks' sizes, the relays and
\* the order in which hosts and devices run; with CNCL, only if no subscription comes late.
THEOREM EveryChunkComes == NoneLate /\ Spec => ImplementsBroadcast
<1>1. NoneLate /\ Init => InOrder /\ NoneLate /\ Promise!Init
  BY InitInOrder, PromiseInit
<1>2. InOrder /\ NoneLate /\ [Next]_vars => (InOrder /\ NoneLate)'
  BY OrderKeeps
<1>3. InOrder => AllHave
  BY LoadedHave
<1>4. InOrder /\ NoneLate /\ [Next]_vars /\ AllHave' => [Promise!Next]_(Promise!vars)
  BY PromiseStep
<1> QED
  BY <1>1, <1>2, <1>3, <1>4, PTL DEF Spec, ImplementsBroadcast, Promise!Spec
=============================================================================
