--------------------------- MODULE XcclBroadcast ---------------------------
(***************************************************************************)
(* The XCCL checkpoint engine: a thread of an executor publishes each      *)
(* bucket's metadata and queues its broadcast, while the coroutine goes on *)
(* with the other buffer.  With relays, the broadcasts and the gathers     *)
(* must be queued in one order by all actors.                              *)
(***************************************************************************)
EXTENDS BucketDevice

CONSTANT Align        \* _ALIGN

Role(w) == IF RankOf(w) = -1 THEN "idle" ELSE IF w = Master THEN "sender"
           ELSE IF w \in Actors THEN "relay" ELSE "receiver"
Pipelined == NumSenders = 1

\* _place: where the next chunk starts, and whether the bucket goes first.
Place(at, size) ==
  LET start == ((at + Align - 1) \div Align) * Align IN
  IF start + size > BucketSize THEN [at |-> 0, flush |-> TRUE] ELSE [at |-> start, flush |-> FALSE]

NextPlace(a) == Place(offset[a], Sizes[pulled[a]])
Fill(a, at) ==
  /\ Push(a, <<[do |-> "fill", b |-> cur'[a], at |-> at, id |-> Id(pulled[a])]>>)
  /\ meta' = [meta EXCEPT ![a] = Append(IF pc[a] = "fill" THEN <<>> ELSE @, <<at, Id(pulled[a])>>)]
  /\ offset' = [offset EXCEPT ![a] = at + Sizes[pulled[a]]]

(* ---------------- init_process_group ---------------- *)
Connected(w) == sub[w] # "none"
Join(w) ==
  /\ pc[w] = "init"
  /\ Go(w, IF RankOf(w) = -1 THEN "pull" ELSE "barrier")
  /\ sub' = IF w \in Rollouts /\ ~Connected(w) THEN [sub EXCEPT ![w] = "sent"] ELSE sub
  /\ UNCHANGED <<job, filling, device, op, frames, count, wire>>

Barrier ==
  /\ \A w \in Group : pc[w] = "barrier"
  /\ pc' = [w \in Workers |-> IF w \notin Group THEN pc[w] ELSE
              CASE w = Master -> "subscribers" [] w \in Rollouts -> "start" [] OTHER -> "pull"]
  /\ UNCHANGED <<job, filling, net, device, op>>

\* ZeroMQ carries a subscription at its own speed.
Subscribed(w) ==
  /\ sub[w] = "sent"
  /\ sub' = [sub EXCEPT ![w] = "live"] /\ frames' = frames + 1
  /\ UNCHANGED <<job, filling, work, device, count, wire>>

TakeFrame ==
  /\ pc[Master] = "subscribers" /\ frames > 0
  /\ count' = count + 1 /\ frames' = frames - 1
  /\ UNCHANGED <<job, filling, work, device, sub, wire>>

Enough == count >= NumRollouts
StartSending ==
  /\ pc[Master] = "subscribers" /\ frames = 0
  /\ Enough
  /\ Go(Master, "pull")
  /\ UNCHANGED <<job, filling, net, device, op>>

SubscribersTimeout ==
  /\ pc[Master] = "subscribers" /\ frames = 0 /\ count < NumRollouts
  /\ Go(Master, "failed")
  /\ UNCHANGED <<job, filling, net, device, op>>

(* ---------------- send_weights, _relay_weights ---------------- *)
Pull(a) ==
  /\ pc[a] = "pull" /\ pulled[a] < Len(Sizes)
  /\ pulled' = [pulled EXCEPT ![a] = @ + 1]
  /\ Push(a, <<[do |-> "gather"]>>)
  /\ Go(a, IF Role(a) = "idle" THEN "pull" ELSE "place")
  /\ UNCHANGED <<job, net, offset, meta, last, cur, op, buf, got>>

PullNone(a) ==
  /\ pc[a] = "pull" /\ pulled[a] = Len(Sizes)
  /\ Go(a, CASE Role(a) = "idle" -> "done" [] Role(a) = "sender" -> "sync" [] OTHER -> "final")
  /\ last' = [last EXCEPT ![a] = TRUE]
  /\ IF Role(a) = "relay" THEN Push(a, <<Bcast(0, offset[a])>>) ELSE UNCHANGED queue
  /\ UNCHANGED <<job, net, pulled, offset, meta, cur, op, buf, got>>

\* A relay lays out the same buckets, and drops them.
RelayChunk(a) ==
  LET p == NextPlace(a) IN
  /\ pc[a] = "place" /\ Role(a) = "relay"
  /\ Push(a, IF p.flush THEN <<Bcast(0, offset[a])>> ELSE <<>>)
  /\ offset' = [offset EXCEPT ![a] = p.at + Sizes[pulled[a]]]
  /\ Go(a, "pull")
  /\ UNCHANGED <<job, net, pulled, meta, last, cur, op, buf, got>>

PlaceChunk(a) ==
  LET p == NextPlace(a) IN
  /\ pc[a] = "place" /\ Role(a) = "sender"
  /\ cur' = cur
  /\ IF p.flush THEN Go(a, "sync") /\ UNCHANGED <<queue, meta, offset>>
     ELSE Go(a, "step") /\ Fill(a, p.at)
  /\ UNCHANGED <<job, net, pulled, last, op, buf, got>>

Synchronize(a) ==
  /\ pc[a] = "sync" /\ Role(a) = "sender" /\ Quiet(a)
  /\ Go(a, "await")
  /\ UNCHANGED <<job, filling, net, device, op>>

Previous(a) == Pipelined => op[a] = NoOp
StartBroadcast(a) ==
  /\ pc[a] = "await" /\ Role(a) = "sender"
  /\ Previous(a)
  /\ op' = [op EXCEPT ![a] = [stage |-> "publish", meta |-> meta[a], last |-> last[a],
                              len |-> offset[a], b |-> cur[a]]]
  /\ cur' = [cur EXCEPT ![a] = IF last[a] THEN @ ELSE 1 - @]
  /\ Go(a, IF last[a] THEN "drain" ELSE "fill")
  /\ UNCHANGED <<job, net, device, pulled, offset, meta, last>>

FillNext(a) ==
  /\ pc[a] = "fill" /\ cur' = cur
  /\ Fill(a, 0) /\ Go(a, "step")
  /\ UNCHANGED <<job, net, pulled, last, op, buf, got>>

\* With relays the sender waits until the broadcast is queued.
\* Mutant: the sender pulls the next weight at once.
GoesAhead(a) == TRUE
InStep(a) == Pipelined \/ op[a] = NoOp
Step(a) ==
  /\ pc[a] = "step" /\ InStep(a)
  /\ Go(a, "pull")
  /\ UNCHANGED <<job, filling, net, device, op>>

LastQueued(a) ==
  /\ pc[a] = "drain" /\ op[a] = NoOp
  /\ Go(a, "final")
  /\ UNCHANGED <<job, filling, net, device, op>>

\* Mutant: that the broadcast is queued is taken for its end.
EndsAtOnce(a) == TRUE
Drained(a) == Quiet(a)
Finish(a) ==
  /\ pc[a] = "final" /\ Drained(a)
  /\ Go(a, "done")
  /\ UNCHANGED <<job, filling, net, device, op>>

(* ---------------- BroadcastOperation._run, in the executor ---------------- *)
Publish ==
  /\ op[Master].stage = "publish"
  /\ Deliver([meta |-> op[Master].meta, last |-> op[Master].last, len |-> op[Master].len])
  /\ op' = [op EXCEPT ![Master].stage = "queue"]
  /\ UNCHANGED <<job, filling, device, pc, sub, frames, count>>

QueueBroadcast ==
  /\ op[Master].stage = "queue"
  /\ Push(Master, <<Bcast(op[Master].b, op[Master].len)>>)
  /\ op' = [op EXCEPT ![Master] = NoOp]
  /\ UNCHANGED <<job, filling, net, pc, buf, got>>

ReceiveMetadata(w) ==
  /\ op[w].stage = "receive" /\ wire[w] # <<>>
  /\ Push(w, <<Bcast(op[w].b, Head(wire[w]).len)>>)
  /\ op' = [op EXCEPT ![w] = [stage |-> "ready", m |-> Head(wire[w])]]
  /\ wire' = [wire EXCEPT ![w] = Tail(@)]
  /\ UNCHANGED <<job, filling, pc, sub, frames, count, buf, got>>

(* ---------------- _receive_weight_chunks ---------------- *)
\* Steps 1 and 2 of the loop (the first bucket: step 1 only).
StartReceive(w) ==
  /\ pc[w] = "start"
  /\ op' = [op EXCEPT ![w] = [stage |-> "receive", b |-> 1 - cur[w]]]
  /\ Push(w, Copies(w, meta[w], cur[w]))
  /\ Go(w, "wait")
  /\ UNCHANGED <<job, filling, net, buf, got>>

Received(w) ==
  /\ pc[w] = "wait" /\ op[w].stage = "ready"
  /\ meta' = [meta EXCEPT ![w] = op[w].m.meta]
  /\ last' = [last EXCEPT ![w] = op[w].m.last]
  /\ op' = [op EXCEPT ![w] = NoOp]
  /\ Go(w, "swap")
  /\ UNCHANGED <<job, net, device, pulled, offset, cur>>

Settled(w) == Quiet(w)
Swap(w) ==
  /\ pc[w] = "swap" /\ w \in Rollouts /\ Settled(w)
  /\ cur' = [cur EXCEPT ![w] = 1 - @]
  /\ IF last[w] THEN Go(w, "done") /\ Push(w, Copies(w, meta[w], 1 - cur[w]))
     ELSE Go(w, "start") /\ UNCHANGED queue
  /\ UNCHANGED <<job, net, pulled, offset, meta, last, op, buf, got>>

Next ==
  \/ Device \/ NextSync
  \/ Barrier \/ TakeFrame \/ StartSending \/ SubscribersTimeout \/ Publish \/ QueueBroadcast
  \/ \E w \in Workers : Join(w)
  \/ \E a \in Actors : \/ Pull(a) \/ PullNone(a) \/ RelayChunk(a) \/ PlaceChunk(a) \/ Synchronize(a)
                       \/ StartBroadcast(a) \/ FillNext(a) \/ Step(a) \/ LastQueued(a) \/ Finish(a)
  \/ \E w \in Rollouts : Subscribed(w) \/ ReceiveMetadata(w) \/ StartReceive(w) \/ Received(w) \/ Swap(w) \/ Loaded(w)
=============================================================================
