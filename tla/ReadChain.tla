----------------------------- MODULE ReadChain -----------------------------
(***************************************************************************)
(* The CNIXL checkpoint engine: the weights go down a chain of agents,     *)
(* bucket by bucket.  An agent announces a bucket in a message; the next   *)
(* agent READs it out of the announcing agent's memory, and the end of     *)
(* that transfer is notified to the agent that was read.  Every agent has  *)
(* two buffers, registered once and used by all syncs.                     *)
(***************************************************************************)
EXTENDS Integers, Sequences

CONSTANTS
  NumActors, NumRollouts,
  BucketSize,
  Loads,          \* Loads[i]: the sizes of the chunks of the i-th sync
  MaxErrors       \* bound on the transfers that fail

\* A chunk has some bytes, and there is a sync to make.
ASSUME ChainAssumption ==
  /\ NumActors \in Nat \ {0} /\ NumRollouts \in Nat \ {0}
  /\ Loads \in Seq(Seq(Nat \ {0})) /\ Loads # <<>>
\* split_weight_chunks cuts the weights so that each chunk fits, as send_weights asserts.
ASSUME ChunksFit ==
  BucketSize \in Nat /\ \A s \in DOMAIN Loads : \A i \in DOMAIN Loads[s] : Loads[s][i] <= BucketSize

Actors   == 1..NumActors
Rollouts == NumActors + 1..NumActors + NumRollouts
Agents   == 1..NumActors + NumRollouts        \* in the order of the metadata list
Sender   == 1
None     == 0

VARIABLES
  sync, pc, rank, prev, next,
  base,             \* chunks of the earlier syncs (history)
  pulled, offset,   \* the sender's generator and bucket
  cur,              \* which buffer is send_buf
  held,             \* metadata of the bucket in send_buf
  coming,           \* metadata of the bucket that is being read
  key,              \* the notify_key of the agent's readable_op
  fresh,            \* the next key
  mail,             \* messages in each agent's PULL socket
  notes,            \* notifications that have arrived at each agent
  read,             \* the transfer that each agent has begun, or NoRead
  queue,            \* device copies not yet done
  buf,              \* chunks in each buffer, by place; Changing while a read writes it
  landed,           \* buckets read, in order
  got,              \* chunks that the loader has copied, in order
  errors

chain == <<sync, rank, prev, next, errors>>
fill  == <<base, pulled, offset>>
op    == <<key, fresh, mail>>
vars  == <<chain, fill, op, pc, cur, held, coming, notes, read, queue, buf, landed, got>>

NoRead   == [state |-> "none"]
Changing == {<<-1, -1>>}
Junk     == -1
Nothing  == [chunks |-> <<>>, last |-> FALSE]
Sizes    == Loads[sync]
\* Chunks are numbered through all syncs.
Id(i)    == base + i - 1
Range0(s) == {s[i] : i \in DOMAIN s}

(* ---------------- build_topology ---------------- *)
Metadata == [a \in Agents |-> a]
\* Python's list[from:to] where a negative bound counts from the end; "end" is no bound.
Bound(n) == IF n < 0 THEN Len(Metadata) + n ELSE n
From(n) == SubSeq(Metadata, Bound(n) + 1, Len(Metadata))
Slice(n, m) == SubSeq(Metadata, Bound(n) + 1, Bound(m))
ActorPrev == [a \in Actors |-> None]
ActorNext == [a \in Actors |-> IF a = Sender THEN From(-NumRollouts)[1] ELSE None]
RolloutPrev == <<Sender>> \o Slice(-NumRollouts, -1)
RolloutNext == From(-NumRollouts + 1) \o <<None>>
RankOf(w) == IF w = Sender THEN 0 ELSE IF w \in Actors THEN -1 ELSE w - NumActors
PrevOf(w) == IF w \in Actors THEN ActorPrev[w] ELSE RolloutPrev[w - NumActors]
NextOf(w) == IF w \in Actors THEN ActorNext[w] ELSE RolloutNext[w - NumActors]
\* The assertions of init_process_group.
Fits(w) ==
  CASE RankOf(w) = -1 -> PrevOf(w) = None /\ NextOf(w) = None
    [] RankOf(w) = 0 -> PrevOf(w) = None /\ NextOf(w) # None
    [] RankOf(w) \in 1..NumRollouts - 1 -> PrevOf(w) # None /\ NextOf(w) # None
    [] OTHER -> PrevOf(w) # None /\ NextOf(w) = None

(* ---------------- pieces of the steps ---------------- *)
Go(w, label) == pc' = [pc EXCEPT ![w] = label]
Quiet(w) == queue[w] = <<>>
Copies(w, m, b) == [i \in DOMAIN m.chunks |-> [do |-> "copy", b |-> b, chunk |-> m.chunks[i]]]
\* ReadableOperation: the message carries a fresh key and the buffer's descriptor.
Announce(w, m, b) ==
  /\ key' = [key EXCEPT ![w] = fresh]
  /\ fresh' = fresh + 1
  /\ mail' = [mail EXCEPT ![next[w]] = Append(@, [m |-> m, b |-> b, key |-> fresh])]
NoAnnounce(w) == key' = [key EXCEPT ![w] = 0] /\ UNCHANGED <<fresh, mail>>

Init ==
  /\ sync = 1 /\ errors = 0
  /\ pc = [w \in Agents |-> "init"]
  /\ rank = [w \in Agents |-> -1]
  /\ prev = [w \in Agents |-> None] /\ next = [w \in Agents |-> None]
  /\ base = 0 /\ pulled = 0 /\ offset = 0
  /\ cur = [w \in Agents |-> 0]
  /\ held = [w \in Agents |-> Nothing] /\ coming = [w \in Agents |-> Nothing]
  /\ key = [w \in Agents |-> 0] /\ fresh = 1
  /\ mail = [w \in Agents |-> <<>>] /\ notes = [w \in Agents |-> <<>>]
  /\ read = [w \in Agents |-> NoRead]
  /\ queue = [w \in Agents |-> <<>>]
  /\ buf = [w \in Agents |-> [b \in {0, 1} |-> {}]]
  /\ landed = [w \in Rollouts |-> <<>>] /\ got = [w \in Rollouts |-> <<>>]

Join(w) ==
  /\ pc[w] = "init"
  /\ IF Fits(w)
     THEN /\ rank' = [rank EXCEPT ![w] = RankOf(w)]
          /\ prev' = [prev EXCEPT ![w] = PrevOf(w)]
          /\ next' = [next EXCEPT ![w] = NextOf(w)]
          /\ Go(w, CASE w = Sender -> "pull" [] w \in Rollouts -> "first" [] OTHER -> "done")
     ELSE Go(w, "refused") /\ UNCHANGED <<rank, prev, next>>
  /\ UNCHANGED <<sync, errors, fill, op, cur, held, coming, notes, read, queue, buf, landed, got>>

(* ---------------- send_weights ---------------- *)
Room == offset + Sizes[pulled + 1] <= BucketSize
FillChunk ==
  /\ pc[Sender] = "pull" /\ pulled < Len(Sizes) /\ Room
  /\ LET chunk == <<offset, Id(pulled + 1)>> IN
     /\ queue' = [queue EXCEPT ![Sender] = Append(@, [do |-> "fill", b |-> cur[Sender], chunk |-> chunk])]
     /\ held' = [held EXCEPT ![Sender].chunks = Append(@, chunk)]
  /\ offset' = offset + Sizes[pulled + 1]
  /\ pulled' = pulled + 1
  /\ UNCHANGED <<chain, base, op, pc, cur, coming, notes, read, buf, landed, got>>

Synchronize ==
  /\ pc[Sender] = "pull" /\ (pulled < Len(Sizes) => ~Room) /\ Quiet(Sender)
  /\ Go(Sender, IF key[Sender] = 0 THEN "announce" ELSE "await")
  /\ held' = [held EXCEPT ![Sender].last = pulled = Len(Sizes)]
  /\ UNCHANGED <<chain, fill, op, cur, coming, notes, read, queue, buf, landed, got>>

\* Mutant: what was announced is taken for read.
AnnouncedIsRead(w, label) == UNCHANGED notes /\ Go(w, label)

\* ReadableOperation.wait_for_complete: the notification must carry the
\* operation's key.  Only the next agent reads from this one.
Notified(w, label) ==
  /\ notes[w] # <<>>
  /\ notes' = [notes EXCEPT ![w] = Tail(@)]
  /\ Go(w, IF Head(notes[w]) = key[w] THEN label ELSE "refused")

SenderAwaits ==
  /\ pc[Sender] = "await" /\ Notified(Sender, "announce")
  /\ UNCHANGED <<chain, fill, op, cur, held, coming, read, queue, buf, landed, got>>

AnnounceBucket ==
  /\ pc[Sender] = "announce"
  /\ Announce(Sender, held[Sender], cur[Sender])
  /\ cur' = [cur EXCEPT ![Sender] = IF held[Sender].last THEN @ ELSE 1 - @]
  /\ held' = [held EXCEPT ![Sender] = IF @.last THEN @ ELSE Nothing]
  /\ offset' = IF held[Sender].last THEN offset ELSE 0
  /\ Go(Sender, IF held[Sender].last THEN "drain" ELSE "pull")
  /\ UNCHANGED <<chain, base, pulled, coming, notes, read, queue, buf, landed, got>>

SenderEnds ==
  /\ pc[Sender] = "drain" /\ Notified(Sender, "done")
  /\ UNCHANGED <<chain, fill, op, cur, held, coming, read, queue, buf, landed, got>>

(* ---------------- ReadOperation ---------------- *)
\* read_metadata and begin_read, into the buffer that is not send_buf.
BeginRead(w, label) ==
  /\ mail[w] # <<>>
  /\ LET x == Head(mail[w]) IN
     /\ coming' = [coming EXCEPT ![w] = x.m]
     /\ read' = [read EXCEPT ![w] = [state |-> "reading", b |-> 1 - cur[w], from |-> x.b, key |-> x.key]]
     /\ buf' = [buf EXCEPT ![w][1 - cur[w]] = Changing]
  /\ mail' = [mail EXCEPT ![w] = Tail(@)]
  /\ Go(w, label)

\* The transfer takes what the previous agent's buffer holds, and notifies it.
Transfer(w) ==
  /\ read[w].state = "reading" /\ pc[prev[w]] # "dead"
  /\ LET here == buf[prev[w]][read[w].from] IN
     /\ buf' = [buf EXCEPT ![w][read[w].b] = here]
     /\ landed' = [landed EXCEPT ![w] =
          Append(@, IF Range0(coming[w].chunks) \subseteq here THEN Len(@) ELSE Junk)]
  /\ notes' = [notes EXCEPT ![prev[w]] = Append(@, read[w].key)]
  /\ read' = [read EXCEPT ![w].state = "done"]
  /\ UNCHANGED <<chain, fill, op, pc, cur, held, coming, queue, got>>

\* wait_for_complete ends the process when the transfer failed.
TransferError(w) ==
  /\ read[w].state = "reading"
  /\ errors < MaxErrors \/ pc[prev[w]] = "dead"
  /\ errors' = IF pc[prev[w]] = "dead" THEN errors ELSE errors + 1
  /\ Go(w, "dead")
  /\ read' = [read EXCEPT ![w] = NoRead]
  /\ UNCHANGED <<sync, rank, prev, next, fill, op, cur, held, coming, notes, queue, buf, landed, got>>

(* ---------------- _receive_weight_chunks ---------------- *)
FirstRead(w) ==
  /\ pc[w] = "first" /\ BeginRead(w, "swap")
  /\ UNCHANGED <<chain, fill, key, fresh, cur, held, notes, queue, landed, got>>

\* Mutant: the last bucket is not announced.
ForwardsUntilLast(w, m) == next[w] # None /\ ~m.last
Forwards(w, m) == next[w] # None

\* Steps 4 and 5: the bucket is here and the loader is quiet; the buffers are
\* swapped and the bucket is announced to the next agent.
\* Mutant: the loader's copies are not waited for.
SwapsAtOnce(w) == TRUE
Settled(w) == Quiet(w)
Swap(w) ==
  /\ pc[w] = "swap" /\ read[w].state = "done"
  /\ Settled(w)
  /\ cur' = [cur EXCEPT ![w] = 1 - @]
  /\ held' = [held EXCEPT ![w] = coming[w]]
  /\ read' = [read EXCEPT ![w] = NoRead]
  /\ IF Forwards(w, coming[w]) THEN Announce(w, coming[w], 1 - cur[w]) ELSE NoAnnounce(w)
  /\ IF coming[w].last
     THEN /\ queue' = [queue EXCEPT ![w] = @ \o Copies(w, coming[w], 1 - cur[w])]
          /\ Go(w, IF next[w] # None THEN "drain" ELSE "done")
     ELSE Go(w, "read") /\ UNCHANGED queue
  /\ UNCHANGED <<chain, fill, coming, notes, buf, landed, got>>

\* Steps 2 and 3: the next read is begun before the chunks are given out.
ReadNext(w) ==
  /\ pc[w] = "read"
  /\ BeginRead(w, IF next[w] # None THEN "await" ELSE "swap")
  /\ queue' = [queue EXCEPT ![w] = @ \o Copies(w, held[w], cur[w])]
  /\ UNCHANGED <<chain, fill, key, fresh, cur, held, notes, landed, got>>

\* Step 4: the next agent has read the bucket.
Await(w) ==
  /\ pc[w] = "await" /\ w \in Rollouts /\ Notified(w, "swap")
  /\ UNCHANGED <<chain, fill, op, cur, held, coming, read, queue, buf, landed, got>>

Ends(w) ==
  /\ pc[w] = "drain" /\ w \in Rollouts /\ Notified(w, "done")
  /\ UNCHANGED <<chain, fill, op, cur, held, coming, read, queue, buf, landed, got>>

Device(w) ==
  /\ queue[w] # <<>>
  /\ queue' = [queue EXCEPT ![w] = Tail(@)]
  /\ LET x == Head(queue[w]) IN
     IF x.do = "fill"
     THEN /\ buf' = [buf EXCEPT ![w][x.b] = {c \in @ : c[1] < x.chunk[1]} \cup {x.chunk}]
          /\ UNCHANGED got
     ELSE /\ got' = [got EXCEPT ![w] = Append(@, IF x.chunk \in buf[w][x.b] THEN x.chunk[2] ELSE Junk)]
          /\ UNCHANGED buf
  /\ UNCHANGED <<chain, fill, op, pc, cur, held, coming, notes, read, landed>>

\* The rollout's loader has used all it was given.
Loaded(w) ==
  /\ pc[w] = "done" /\ w \in Rollouts /\ Quiet(w)
  /\ Go(w, "loaded")
  /\ UNCHANGED <<chain, fill, op, cur, held, coming, notes, read, queue, buf, landed, got>>

\* finalize: the agents forget each other, the buffers and what is in the
\* sockets stay; the driver then starts the next sync.
HasEnded(w) == pc[w] = IF w \in Rollouts THEN "loaded" ELSE "done"
NextSync ==
  /\ \A w \in Agents : HasEnded(w)
  /\ sync < Len(Loads)
  /\ sync' = sync + 1
  /\ pc' = [w \in Agents |-> "init"]
  /\ rank' = [w \in Agents |-> -1]
  /\ prev' = [w \in Agents |-> None] /\ next' = [w \in Agents |-> None]
  /\ base' = base + Len(Sizes) /\ pulled' = 0 /\ offset' = 0
  /\ cur' = [w \in Agents |-> 0]
  /\ held' = [w \in Agents |-> Nothing] /\ coming' = [w \in Agents |-> Nothing]
  /\ key' = [w \in Agents |-> 0]
  /\ UNCHANGED <<errors, fresh, mail, notes, read, queue, buf, landed, got>>

Step ==
  \/ NextSync \/ FillChunk \/ Synchronize \/ SenderAwaits \/ AnnounceBucket \/ SenderEnds
  \/ \E w \in Agents : Join(w) \/ Device(w)
  \/ \E w \in Rollouts : \/ FirstRead(w) \/ Swap(w) \/ ReadNext(w) \/ Await(w) \/ Ends(w) \/ Loaded(w)
                         \/ Transfer(w) \/ TransferError(w)
Ended == \/ sync = Len(Loads) /\ \A w \in Agents : HasEnded(w)
         \/ \E w \in Agents : pc[w] \in {"refused", "dead"}
Stop == Ended /\ UNCHANGED vars
Next == Step \/ Stop

Spec == Init /\ [][Next]_vars
\* Every process and every transfer gets its turn.
FairSpec == Spec /\ WF_vars(Step)

\* The buffer that a read writes is in no other use: the next agent does not
\* read it, and the loader has no chunk to copy from it.  So the loader of
\* every rollout worker has had every chunk once, in order and unchanged.
BuffersInOneUse ==
  \A w \in Rollouts :
    /\ read[w].state = "reading" =>
         /\ \A i \in DOMAIN queue[w] : queue[w][i].b # read[w].b
         /\ next[w] # None /\ read[next[w]].state = "reading" => read[next[w]].from # read[w].b
    /\ \A i \in DOMAIN got[w] : got[w][i] = i - 1
-----------------------------------------------------------------------------
(* The promise of the syncs, bucket by bucket, over all of them: an agent   *)
(* that reports success has been read to the end by the agent it feeds.    *)

\* A chunk goes into the bucket at hand, or that bucket is full and it opens the next.
Packed(x, size) == IF x.bytes + size <= BucketSize THEN [full |-> x.full, bytes |-> x.bytes + size]
                                                   ELSE [full |-> x.full + 1, bytes |-> size]
Packing(s) ==
  LET x[i \in 0..Len(Loads[s])] == IF i = 0 THEN [full |-> 0, bytes |-> 0] ELSE Packed(x[i - 1], Loads[s][i])
  IN  x
\* The buckets of a sync, of which there is at least one, and those of the first syncs.
BucketsOf(s) == Packing(s)[Len(Loads[s])].full + 1
BucketsTo ==
  LET n[s \in 0..Len(Loads)] == IF s = 0 THEN 0 ELSE n[s - 1] + BucketsOf(s)
  IN  n

Broadcast == INSTANCE WeightBroadcast WITH
  Senders <- Actors, Receivers <- Rollouts, Sources <- {Sender},
  Size <- [s \in {Sender} |-> BucketsTo[Len(Loads)]],
  Feeds <- {<<Sender, w, w + 1>> : w \in Rollouts \ {NumActors + NumRollouts}}
           \cup {<<Sender, Sender, NumActors + 1>>},
  outcome <- [w \in Agents |->
     IF pc[w] \in {"refused", "dead"} THEN "failure"
     ELSE IF sync = Len(Loads) /\ HasEnded(w) THEN "success" ELSE "pending"],
  read <- [x \in {Sender} \X Rollouts |-> landed[x[2]]]

\* What the agents read of each other is a weight broadcast.
ImplementsBroadcast == Broadcast!Spec
=============================================================================
