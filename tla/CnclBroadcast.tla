--------------------------- MODULE CnclBroadcast ---------------------------
(***************************************************************************)
(* The CNCL checkpoint engine: metadata are published, and the broadcast   *)
(* queued, by the coroutine itself, which never waits for the broadcast    *)
(* but synchronizes the device before it uses the other buffer.  Nothing   *)
(* waits for the consumers' subscriptions.                                 *)
(***************************************************************************)
EXTENDS BucketDevice

\* init_process_group: a subscription is made once and kept.
Connected(w) == sub[w] # "none"
Join(w) ==
  /\ pc[w] = "init"
  /\ Go(w, IF RankOf(w) = -1 THEN "pull" ELSE "barrier")
  /\ sub' = IF w \notin Rollouts \/ Connected(w) THEN sub
            ELSE [sub EXCEPT ![w] = IF w \in LateOnes THEN "sent" ELSE "live"]
  /\ UNCHANGED <<job, filling, frames, count, wire, op, device>>

Barrier ==
  /\ \A w \in Group : pc[w] = "barrier"
  /\ pc' = [w \in Workers |-> IF w \notin Group THEN pc[w] ELSE
              IF w = Master THEN "pull" ELSE "start"]
  /\ UNCHANGED <<job, filling, net, op, device>>

Subscribed(w) ==
  /\ sub[w] = "sent"
  /\ sub' = [sub EXCEPT ![w] = "live"]
  /\ UNCHANGED <<job, filling, frames, count, wire, work, device>>

(* ---------------- send_weights ---------------- *)
\* Actors other than rank 0 only walk the generator.
Pull(a) ==
  /\ pc[a] = "pull" /\ pulled[a] < Len(Sizes)
  /\ pulled' = [pulled EXCEPT ![a] = @ + 1]
  /\ Push(a, <<[do |-> "gather"]>>)
  /\ Go(a, IF a = Master THEN "place" ELSE "pull")
  /\ UNCHANGED <<job, offset, meta, last, cur, net, op, buf, got>>

Fits(a) == offset[a] + Sizes[pulled[a]] <= BucketSize
Place(a) ==
  /\ pc[a] = "place"
  /\ IF Fits(a)
     THEN /\ Push(a, <<[do |-> "fill", b |-> cur[a], at |-> offset[a], id |-> Id(pulled[a])]>>)
          /\ meta' = [meta EXCEPT ![a] = Append(@, <<offset[a], Id(pulled[a])>>)]
          /\ offset' = [offset EXCEPT ![a] = @ + Sizes[pulled[a]]]
          /\ Go(a, "pull")
     ELSE Go(a, "flush") /\ UNCHANGED <<queue, meta, offset>>
  /\ UNCHANGED <<job, pulled, last, cur, net, op, buf, got>>

\* BroadcastOperation._run of the master.
Send(a, isLast) ==
  /\ Deliver([meta |-> meta[a], last |-> isLast])
  /\ Push(a, <<Bcast(cur[a], BucketSize)>>)

\* Mutant: the buffers are swapped without a synchronize.
SwapsAtOnce(w) == TRUE
Settled(w) == Quiet(w)
Flush(a) ==
  /\ pc[a] = "flush" /\ Settled(a)
  /\ Send(a, FALSE)
  /\ cur' = [cur EXCEPT ![a] = 1 - @]
  /\ meta' = [meta EXCEPT ![a] = <<>>] /\ offset' = [offset EXCEPT ![a] = 0]
  /\ Go(a, "place")
  /\ UNCHANGED <<job, pulled, last, sub, frames, count, op, buf, got>>

PullNone(a) ==
  /\ pc[a] = "pull" /\ pulled[a] = Len(Sizes)
  /\ IF a = Master THEN Send(a, TRUE) /\ Go(a, "final")
     ELSE Go(a, "done") /\ UNCHANGED <<queue, wire>>
  /\ UNCHANGED <<job, filling, sub, frames, count, op, buf, got>>

Drained(a) == Quiet(a)
Finish(a) ==
  /\ pc[a] = "final" /\ Drained(a)
  /\ Go(a, "done")
  /\ UNCHANGED <<job, filling, net, op, device>>

(* ---------------- _receive_weight_chunks ---------------- *)
\* Steps 1 and 2 of the loop: the next broadcast is queued before the chunks
\* of the bucket that is here are given out (the first bucket: no chunks yet).
Receive(w) ==
  /\ pc[w] = "start" /\ wire[w] # <<>>
  /\ wire' = [wire EXCEPT ![w] = Tail(@)]
  /\ Push(w, <<Bcast(1 - cur[w], BucketSize)>> \o Copies(w, meta[w], cur[w]))
  /\ meta' = [meta EXCEPT ![w] = Head(wire[w]).meta]
  /\ last' = [last EXCEPT ![w] = Head(wire[w]).last]
  /\ Go(w, "swap")
  /\ UNCHANGED <<job, pulled, offset, cur, sub, frames, count, op, buf, got>>

Swap(w) ==
  /\ pc[w] = "swap" /\ Settled(w)
  /\ cur' = [cur EXCEPT ![w] = 1 - @]
  /\ IF last[w] THEN Go(w, "done") /\ Push(w, Copies(w, meta[w], 1 - cur[w]))
     ELSE Go(w, "start") /\ UNCHANGED queue
  /\ UNCHANGED <<job, pulled, offset, meta, last, net, op, buf, got>>

Next ==
  \/ Device \/ NextSync \/ Barrier
  \/ \E w \in Workers : Join(w)
  \/ \E a \in Actors : Pull(a) \/ Place(a) \/ Flush(a) \/ PullNone(a) \/ Finish(a)
  \/ \E w \in Rollouts : Subscribed(w) \/ Receive(w) \/ Swap(w) \/ Loaded(w)
=============================================================================
