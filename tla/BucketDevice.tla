---------------------------- MODULE BucketDevice ----------------------------
(***************************************************************************)
(* What the two bucket-broadcast engines (XCCL and CNCL) share: a sender,  *)
(* actor rank 0, copies chunks of weights into a bucket and broadcasts it; *)
(* every rollout worker copies the chunks out of its own buffer.  The host *)
(* only QUEUES this work: gathers of the actors, fills, broadcasts and     *)
(* copies run later, on the device.  Gathers and broadcasts are            *)
(* collectives: they run when all their members have reached them.         *)
(***************************************************************************)
EXTENDS Integers, FiniteSets, Sequences, SequencesExt

CONSTANTS
  NumActors, NumRollouts,
  BucketSize,       \* bytes of a bucket
  Loads,            \* Loads[i]: the sizes of the chunks of the i-th sync
  LateOnes          \* the rollout workers whose first subscription may be late (CNCL)

ASSUME ClusterAssumption == NumActors \in Nat \ {0} /\ NumRollouts \in Nat \ {0}
\* split_weight_chunks cuts a weight into chunks of at most bucket_size bytes.
ASSUME LoadsAssumption ==
  BucketSize \in Nat \ {0} /\ Loads \in Seq(Seq(0..BucketSize)) /\ Loads # <<>>

Actors   == 0..NumActors - 1
Rollouts == NumActors..NumActors + NumRollouts - 1
Workers  == Actors \cup Rollouts
Master   == 0
Kinds    == {"xccl", "cncl"}

VARIABLES
  engine,     \* which engine the job uses
  multi,      \* multi_sender: the master's node-mates join as relays
  sync,       \* number of the current sync
  pc,         \* where each worker's coroutine is
  pulled,     \* chunks that an actor has taken from the generator of weights
  offset,     \* bytes in the bucket that is being filled
  meta,       \* bucket_meta: the <<start, chunk>> of the current bucket of each worker
  last,       \* is_last of that bucket, as the worker knows it
  cur,        \* which of the two buffers is send_buf
  op,         \* the broadcast that a worker's executor thread runs, or NoOp
  sub,        \* subscription of each rollout worker: "none", "sent" or "live"
  frames,     \* subscription frames that wait at the master's XPUB socket
  count,      \* _subscribers
  wire,       \* bucket metadata on their way to each rollout worker
  queue,      \* what each worker has queued on its device and has not run
  buf,        \* segments [at, id] that each buffer holds
  got         \* chunks that each rollout worker has copied out, in order

job     == <<engine, multi, sync>>
filling == <<pulled, offset, meta, last, cur>>
net     == <<sub, frames, count, wire>>
work    == <<pc, op>>
device  == <<queue, buf, got>>
host    == <<job, filling, net, work>>
vars    == <<host, device>>

NoOp  == [stage |-> "none"]
Junk  == -1                            \* bytes of no one chunk
Sizes == Loads[sync]
\* Chunks are numbered through all syncs: those before each of them.
Before[s \in 1..Len(Loads) + 1] == IF s = 1 THEN 0 ELSE Before[s - 1] + Len(Loads[s - 1])
Total == Before[Len(Loads) + 1]
Id(i) == Before[sync] + i - 1
\* A buffer holds chunks of the current sync only.
ChunkSize(id) == Sizes[id - Before[sync] + 1]

\* _single_sender_ranks and _multi_sender_ranks; NodeOf is the cluster.
CONSTANT NodeOf
SingleSender == {Master}
NodeMates == {a \in Actors : NodeOf[a] = NodeOf[Master]}
Ranks == [m \in BOOLEAN |->
  LET senders == IF m THEN NodeMates ELSE SingleSender
      earlier(a) == {x \in senders : x < a} IN
  [w \in Workers |-> IF w \in Rollouts THEN Cardinality(senders) + w - NumActors
                      ELSE IF w \in senders THEN Cardinality(earlier(w)) ELSE -1]]
RankOf(w) == Ranks[multi][w]
NumSenders == RankOf(NumActors)       \* the first rollout worker follows the senders
Groups == [m \in BOOLEAN |-> {w \in Workers : Ranks[m][w] >= 0}]
Group == Groups[multi]

(* ---------------- the device ---------------- *)
Collective(x) == x.do \in {"gather", "bcast"}

\* XCCL: every operation waits for the one queued before it, because
\* _broadcast waits on the current stream.  CNCL's broadcast does not: later
\* compute work may overtake it, but it waits for what was queued before it.
MayRun(w, i) ==
  /\ i \in DOMAIN queue[w]
  /\ IF engine = "xccl" \/ queue[w][i].do = "bcast" THEN i = 1
     ELSE \A j \in 1..i - 1 : queue[w][j].do = "bcast"

\* A segment overwrites what it overlaps.
Overlaps(s, t) == s.at < t.at + ChunkSize(t.id) /\ t.at < s.at + ChunkSize(s.id)
Written(b, s) == {t \in b : ~Overlaps(s, t)} \cup {s}
ReadAs(b, at, id) == IF [at |-> at, id |-> id] \in b THEN id ELSE Junk

Local(w) == \E i \in DOMAIN queue[w] :
  LET x == queue[w][i] IN
  /\ MayRun(w, i) /\ ~Collective(x)
  /\ queue' = [queue EXCEPT ![w] = RemoveAt(@, i)]
  /\ IF x.do = "fill"
     THEN buf' = [buf EXCEPT ![w][x.b] = Written(@, [at |-> x.at, id |-> x.id])] /\ UNCHANGED got
     ELSE got' = [got EXCEPT ![w] = Append(@, ReadAs(buf[w][x.b], x.at, x.id))] /\ UNCHANGED buf
  /\ UNCHANGED host

\* Producing a weight is collective over the actors.
MayGather(a, i) == MayRun(a, i) /\ queue[a][i].do = "gather"
Gather ==
  /\ \A a \in Actors : \E i \in DOMAIN queue[a] : MayGather(a, i)
  /\ queue' = [w \in Workers |-> IF w \in Rollouts THEN queue[w]
                 ELSE RemoveAt(queue[w], CHOOSE i \in DOMAIN queue[w] : MayGather(w, i))]
  /\ UNCHANGED <<host, buf, got>>

\* The members meet by position, whatever each believes the bucket to be; if
\* their lengths differ, what arrives is undefined.
Broadcast ==
  /\ \A w \in Group : MayRun(w, 1) /\ queue[w][1].do = "bcast"
  /\ LET x == queue[Master][1]
         sent == IF \A w \in Group : queue[w][1].len = x.len
                 THEN {s \in buf[Master][x.b] : s.at + ChunkSize(s.id) <= x.len} ELSE {} IN
     /\ buf' = [w \in Workers |-> IF w \in Rollouts THEN [buf[w] EXCEPT ![queue[w][1].b] = sent]
                                  ELSE buf[w]]
     /\ queue' = [w \in Workers |-> IF w \in Group THEN Tail(queue[w]) ELSE queue[w]]
  /\ UNCHANGED <<host, got>>

Device == (\E w \in Workers : Local(w)) \/ Gather \/ Broadcast

(* ---------------- pieces of the hosts' steps ---------------- *)
Go(w, label) == pc' = [pc EXCEPT ![w] = label]
Push(w, xs) == queue' = [queue EXCEPT ![w] = @ \o xs]
Quiet(w) == queue[w] = <<>>                                 \* after a device synchronize
Bcast(b, len) == [do |-> "bcast", b |-> b, len |-> len]
Copies(w, m, b) == [i \in DOMAIN m |-> [do |-> "copy", b |-> b, at |-> m[i][1], id |-> m[i][2]]]
Deliver(m) == wire' = [w \in Rollouts |-> IF sub[w] = "live" THEN Append(wire[w], m) ELSE wire[w]]

Init ==
  /\ engine \in Kinds
  /\ multi \in IF engine = "xccl" THEN BOOLEAN ELSE {FALSE}
  /\ sync = 1
  /\ pc = [w \in Workers |-> "init"]
  /\ pulled = [a \in Actors |-> 0]
  /\ offset = [a \in Actors |-> 0]
  /\ meta = [w \in Workers |-> <<>>]
  /\ last = [w \in Workers |-> FALSE]
  /\ cur = [w \in Workers |-> 0]
  /\ op = [w \in Workers |-> NoOp]
  /\ sub = [w \in Rollouts |-> "none"]
  /\ frames = 0 /\ count = 0
  /\ wire = [w \in Rollouts |-> <<>>]
  /\ queue = [w \in Workers |-> <<>>]
  /\ buf = [w \in Workers |-> [b \in {0, 1} |-> {}]]
  /\ got = [w \in Rollouts |-> <<>>]

HasEnded(w) == pc[w] = IF w \in Rollouts THEN "loaded" ELSE "done"
AllEnded == \A w \in Workers : HasEnded(w)

\* The rollout's loader has used all it was given.
Loaded(w) ==
  /\ pc[w] = "done" /\ Quiet(w)
  /\ Go(w, "loaded")
  /\ UNCHANGED <<job, filling, net, op, device>>

\* The driver ends a sync when every worker has: finalize frees the buffers
\* and the next prepare and init_process_group allocate new ones.
NextSync ==
  /\ AllEnded
  /\ sync < Len(Loads)
  /\ sync' = sync + 1
  /\ pc' = [w \in Workers |-> "init"]
  /\ pulled' = [a \in Actors |-> 0] /\ offset' = [a \in Actors |-> 0]
  /\ meta' = [w \in Workers |-> <<>>] /\ last' = [w \in Workers |-> FALSE]
  /\ cur' = [w \in Workers |-> 0]
  /\ op' = [w \in Workers |-> NoOp]
  /\ buf' = [w \in Workers |-> [b \in {0, 1} |-> {}]]
  /\ UNCHANGED <<engine, multi, net, queue, got>>
=============================================================================
