---------------------------- MODULE BucketProofs ----------------------------
(***************************************************************************)
(* Theorems about BucketEngines, for every cluster, load, bucket size and  *)
(* alignment: no buffer is freed under a broadcast, whichever subscribers  *)
(* are late.  Then what a sync under way is like, in terms of the layout   *)
(* of its chunks in buckets, and how a step of the sender, of a relay or   *)
(* of a rollout worker keeps that; BucketOrderProofs puts them together.   *)
(***************************************************************************)
EXTENDS BucketEngines, FiniteSetTheorems, WellFoundedInduction, TLAPS

Labels == {"init", "barrier", "subscribers", "start", "pull", "place", "sync", "await", "fill", "step", "drain",
           "final", "done", "loaded", "failed", "wait", "swap", "flush"}
NoBcast(q) == \A i \in DOMAIN q : q[i].do # "bcast"
IsSeq(q) == q \in Seq(ToSet(q))

\* Queues and coroutines of the workers.
Shape ==
  /\ engine \in Kinds /\ multi \in BOOLEAN /\ (engine = "cncl" => ~multi)
  /\ pc \in [Workers -> Labels] /\ DOMAIN op = Workers /\ DOMAIN queue = Workers
  /\ \A w \in Workers : IsSeq(queue[w]) /\ "stage" \in DOMAIN op[w]

\* The metadata of buckets, wherever they are, list the bucket's chunks.
Mail(q) == IsSeq(q) /\ \A i \in DOMAIN q : IsSeq(q[i].meta)
Lists ==
  /\ DOMAIN meta = Workers /\ DOMAIN wire = Rollouts
  /\ \A w \in Workers : IsSeq(meta[w])
  /\ \A w \in Rollouts : Mail(wire[w])
  /\ op[Master].stage = "publish" => IsSeq(op[Master].meta)
  /\ \A w \in Rollouts : op[w].stage = "ready" => IsSeq(op[w].m.meta)

\* An actor outside the group walks the generator, and queues nothing but gathers.
Bystanders ==
  \A a \in Actors : RankOf(a) = -1 => pc[a] \in {"init", "pull", "done"} /\ NoBcast(queue[a])

\* A broadcast that the executor has yet to queue keeps its worker from ending.
Pending ==
  /\ op[Master].stage \in {"publish", "queue"} => pc[Master] \notin {"final", "done", "loaded"}
  /\ \A w \in Rollouts : op[w].stage = "receive" => pc[w] = "wait"
  /\ engine = "cncl" => \A w \in Workers : op[w] = NoOp

Kept == Shape /\ Lists /\ Bystanders /\ Pending /\ BuffersOutliveBroadcasts

-----------------------------------------------------------------------------
(* Queues.                                                                   *)

\* Joining two queues.
LEMMA Joined ==
  ASSUME NEW q, NEW r, IsSeq(q), IsSeq(r)
  PROVE  IsSeq(q \o r) /\ (NoBcast(q) /\ NoBcast(r) => NoBcast(q \o r))
<1> DEFINE S == ToSet(q) \cup ToSet(r)
<1>1. q \in Seq(S) /\ r \in Seq(S)
  BY DEF IsSeq
<1> HIDE DEF S
<1>2. /\ q \o r \in Seq(S) /\ Len(q \o r) = Len(q) + Len(r) /\ DOMAIN (q \o r) = 1..Len(q) + Len(r)
      /\ \A i \in 1..Len(q) + Len(r) : (q \o r)[i] = IF i <= Len(q) THEN q[i] ELSE r[i - Len(q)]
  BY <1>1
<1>3. Len(q) \in Nat /\ Len(r) \in Nat /\ DOMAIN q = 1..Len(q) /\ DOMAIN r = 1..Len(r)
  BY <1>1
<1>4. IsSeq(q \o r)
  <2>1. \A i \in 1..Len(q \o r) : (q \o r)[i] \in ToSet(q \o r)
    BY <1>2 DEF ToSet
  <2>2. \A T, s : s \in Seq(S) /\ (\A i \in 1..Len(s) : s[i] \in T) => s \in Seq(T)
    OBVIOUS
  <2> QED
    BY <1>2, <2>1, <2>2 DEF IsSeq
<1>5. ASSUME NoBcast(q), NoBcast(r) PROVE NoBcast(q \o r)
  BY <1>2, <1>3, <1>5 DEF NoBcast
<1> QED
  BY <1>4, <1>5

\* Taking an element out of a queue.
LEMMA TakenOut ==
  ASSUME NEW q, IsSeq(q), NEW i \in DOMAIN q
  PROVE  IsSeq(RemoveAt(q, i)) /\ (NoBcast(q) => NoBcast(RemoveAt(q, i)))
<1> DEFINE S == ToSet(q)
<1>1. q \in Seq(S) /\ i \in 1..Len(q) /\ Len(q) \in Nat /\ DOMAIN q = 1..Len(q)
  BY DEF IsSeq
<1> HIDE DEF S
<1>2. \A m, n \in Int : 1 <= m /\ n <= Len(q) /\ m <= n + 1 =>
        /\ SubSeq(q, m, n) \in Seq(S) /\ Len(SubSeq(q, m, n)) = n - m + 1
        /\ \A j \in 1..n - m + 1 : SubSeq(q, m, n)[j] = q[m + j - 1]
  BY <1>1
<1>3. ASSUME NEW m \in Int, NEW n \in Int, 1 <= m, n <= Len(q), m <= n + 1
      PROVE  IsSeq(SubSeq(q, m, n)) /\ (NoBcast(q) => NoBcast(SubSeq(q, m, n)))
  <2> DEFINE s == SubSeq(q, m, n)
  <2>1. s \in Seq(S) /\ Len(s) = n - m + 1 /\ \A j \in 1..Len(s) : s[j] = q[m + j - 1] /\ m + j - 1 \in DOMAIN q
    BY <1>1, <1>2, <1>3
  <2> HIDE DEF s
  <2>2. \A T, t : t \in Seq(S) /\ (\A j \in 1..Len(t) : t[j] \in T) => t \in Seq(T)
    OBVIOUS
  <2>3. \A j \in 1..Len(s) : s[j] \in ToSet(s)
    BY <2>1 DEF ToSet
  <2>4. IsSeq(s)
    BY <2>1, <2>2, <2>3 DEF IsSeq
  <2>5. NoBcast(q) => NoBcast(s)
    BY <2>1 DEF NoBcast
  <2> QED
    BY <2>4, <2>5 DEF s
<1>4. /\ IsSeq(SubSeq(q, 1, i - 1)) /\ IsSeq(SubSeq(q, i + 1, Len(q)))
      /\ NoBcast(q) => NoBcast(SubSeq(q, 1, i - 1)) /\ NoBcast(SubSeq(q, i + 1, Len(q)))
  BY <1>1, <1>3
<1> QED
  BY <1>4, Joined DEF RemoveAt

\* Taking the head off.
LEMMA TailIs ==
  ASSUME NEW q, IsSeq(q), q # <<>>
  PROVE  IsSeq(Tail(q)) /\ (NoBcast(q) => NoBcast(Tail(q)))
<1> DEFINE S == ToSet(q)   t == Tail(q)
<1>1. /\ q \in Seq(S) /\ t \in Seq(S) /\ \A j \in 1..Len(t) : t[j] = q[j + 1] /\ j + 1 \in DOMAIN q
      /\ DOMAIN t = 1..Len(t)
  BY DEF IsSeq
<1> HIDE DEF S, t
<1>2. \A T, s : s \in Seq(S) /\ (\A j \in 1..Len(s) : s[j] \in T) => s \in Seq(T)
  OBVIOUS
<1>3. \A j \in 1..Len(t) : t[j] \in ToSet(t)
  BY <1>1 DEF ToSet
<1>4. IsSeq(t)
  BY <1>1, <1>2, <1>3 DEF IsSeq
<1>5. NoBcast(q) => NoBcast(t)
  BY <1>1 DEF NoBcast
<1> QED
  BY <1>4, <1>5 DEF t

\* Metadata that have arrived.
LEMMA MailTail ==
  ASSUME NEW q, Mail(q), q # <<>>
  PROVE  IsSeq(Head(q).meta) /\ Mail(Tail(q))
<1> DEFINE S == ToSet(q)
<1>1. /\ q \in Seq(S) /\ Head(q) = q[1] /\ 1 \in DOMAIN q
      /\ \A j \in DOMAIN Tail(q) : j + 1 \in DOMAIN q /\ Tail(q)[j] = q[j + 1]
  BY DEF Mail, IsSeq
<1> QED
  BY <1>1, TailIs DEF Mail

\* The work that is queued: nothing, one piece, or the copies of a bucket.
LEMMA OnePiece ==
  ASSUME NEW e
  PROVE  IsSeq(<<e>>) /\ (e.do # "bcast" => NoBcast(<<e>>))
<1>1. <<e>> \in Seq({e}) /\ DOMAIN <<e>> = {1} /\ <<e>>[1] = e
  OBVIOUS
<1> QED
  BY <1>1 DEF IsSeq, NoBcast, ToSet

\* Nothing at all.
LEMMA NoPiece == IsSeq(<<>>) /\ NoBcast(<<>>)
<1>1. DOMAIN <<>> = {} /\ \A S : <<>> \in Seq(S)
  OBVIOUS
<1> QED
  BY <1>1 DEF IsSeq, NoBcast

\* A copy per chunk of the bucket, and no broadcast.
LEMMA CopiesOf ==
  ASSUME NEW w, NEW m, IsSeq(m), NEW b
  PROVE  IsSeq(Copies(w, m, b)) /\ NoBcast(Copies(w, m, b))
<1> DEFINE c == Copies(w, m, b)
<1>1. Len(m) \in Nat /\ DOMAIN m = 1..Len(m)
  BY DEF IsSeq
<1>2. c = [i \in 1..Len(m) |-> [do |-> "copy", b |-> b, at |-> m[i][1], id |-> m[i][2]]]
  BY <1>1 DEF Copies
<1>3. NoBcast(c)
  BY <1>2 DEF NoBcast
<1>4. DOMAIN c = 1..Len(m) /\ \A i \in 1..Len(m) : c[i] \in ToSet(c)
  BY <1>2 DEF ToSet
<1>5. c \in [1..Len(m) -> ToSet(c)]
  <2> HIDE DEF Copies
  <2>1. \A f, n, S : f = [i \in 1..n |-> f[i]] /\ (\A i \in 1..n : f[i] \in S) => f \in [1..n -> S]
    OBVIOUS
  <2>2. c = [i \in 1..Len(m) |-> c[i]]
    BY <1>2
  <2> QED
    BY <1>4, <2>1, <2>2
<1>6. IsSeq(c)
  BY <1>1, <1>5 DEF IsSeq
<1> QED
  BY <1>3, <1>6

\* Adding a piece, or metadata, at the end.
LEMMA Added ==
  ASSUME NEW q, IsSeq(q), NEW e
  PROVE  IsSeq(Append(q, e)) /\ (Mail(q) /\ IsSeq(e.meta) => Mail(Append(q, e)))
<1> DEFINE S == ToSet(q) \cup {e}   r == Append(q, e)
<1>1. q \in Seq(S) /\ e \in S /\ Len(q) \in Nat /\ DOMAIN q = 1..Len(q)
  BY DEF IsSeq
<1> HIDE DEF S
<1>2. /\ r \in Seq(S) /\ Len(r) = Len(q) + 1 /\ DOMAIN r = 1..Len(q) + 1
      /\ \A i \in 1..Len(q) : r[i] = q[i]
      /\ r[Len(q) + 1] = e
  BY <1>1
<1> HIDE DEF r
<1>3. \A T, t : t \in Seq(S) /\ (\A j \in 1..Len(t) : t[j] \in T) => t \in Seq(T)
  OBVIOUS
<1>4. \A j \in 1..Len(r) : r[j] \in ToSet(r)
  BY <1>2 DEF ToSet
<1>5. IsSeq(r)
  BY <1>2, <1>3, <1>4 DEF IsSeq
<1>6. ASSUME Mail(q), IsSeq(e.meta) PROVE Mail(r)
  <2>1. \A i \in DOMAIN r : (i \in DOMAIN q /\ r[i] = q[i]) \/ r[i] = e
    BY <1>1, <1>2
  <2> QED
    BY <1>5, <1>6, <2>1 DEF Mail
<1> QED
  BY <1>5, <1>6 DEF r

-----------------------------------------------------------------------------
(* The cluster.                                                              *)

\* The sender is an actor, and no actor is a rollout worker.
LEMMA Cluster ==
  /\ Master \in Actors /\ Master \in Workers /\ Actors \subseteq Workers /\ Rollouts \subseteq Workers
  /\ Actors \cap Rollouts = {} /\ Workers = Actors \cup Rollouts
BY ClusterAssumption DEF Master, Actors, Rollouts, Workers

\* The sender is in the group, and with one sender no other actor is.
LEMMA Senders ==
  ASSUME multi \in BOOLEAN
  PROVE  /\ RankOf(Master) = 0
         /\ ~multi => \A a \in Actors \ {Master} : RankOf(a) = -1
<1> DEFINE senders == IF multi THEN NodeMates ELSE SingleSender
<1>1. \A w \in Workers : RankOf(w) = IF w \in Rollouts THEN Cardinality(senders) + w - NumActors
                                     ELSE IF w \in senders THEN Cardinality({x \in senders : x < w}) ELSE -1
  BY DEF RankOf, Ranks
<1>2. Master \in senders /\ senders \subseteq Actors /\ (~multi => senders = {Master})
  BY Cluster DEF NodeMates, SingleSender
<1>3. {x \in senders : x < Master} = {}
  BY <1>2 DEF Actors, Master
<1>4. Cardinality({}) = 0
  BY FS_EmptySet
<1> QED
  BY <1>1, <1>2, <1>3, <1>4, Cluster

\* The engines see the same cluster.
LEMMA Same ==
  /\ X!Workers = Workers /\ X!Actors = Actors /\ X!Rollouts = Rollouts /\ X!Master = Master
  /\ C!Workers = Workers /\ C!Actors = Actors /\ C!Rollouts = Rollouts /\ C!Master = Master
  /\ \A w : X!RankOf(w) = RankOf(w) /\ C!RankOf(w) = RankOf(w)
BY DEF X!Workers, X!Actors, X!Rollouts, X!Master, C!Workers, C!Actors, C!Rollouts, C!Master, Workers, Actors,
       Rollouts, Master, X!RankOf, C!RankOf, RankOf, X!Ranks, C!Ranks, Ranks, X!NodeMates, C!NodeMates, NodeMates,
       X!SingleSender, C!SingleSender, SingleSender, X!Cardinality, C!Cardinality, Cardinality

-----------------------------------------------------------------------------
(* A step of one worker.                                                     *)

\* Worker w goes on at l, having queued xs; what it does to op is in op'.
Moves(w, l, xs) ==
  /\ engine' = engine /\ multi' = multi /\ DOMAIN op' = Workers
  /\ \A v \in Workers : "stage" \in DOMAIN op'[v]
  /\ pc' = [pc EXCEPT ![w] = l]
  /\ DOMAIN queue' = Workers /\ queue'[w] = queue[w] \o xs
  /\ \A v \in Workers \ {w} : queue'[v] = queue[v]

\* It keeps what is said of queues, if it ends only without a broadcast.
LEMMA Moved ==
  ASSUME Kept, NEW w \in Workers, NEW l \in Labels, NEW xs, IsSeq(xs), Moves(w, l, xs),
         l \in {"done", "loaded"} => NoBcast(queue[w]) /\ NoBcast(xs),
         w \in Actors /\ RankOf(w) = -1 => l \in {"init", "pull", "done"} /\ NoBcast(xs)
  PROVE  Shape' /\ Bystanders' /\ BuffersOutliveBroadcasts'
<1>1. pc' \in [Workers -> Labels] /\ pc'[w] = l /\ \A v \in Workers \ {w} : pc'[v] = pc[v]
  BY DEF Kept, Shape, Moves
<1>2. /\ IsSeq(queue'[w]) /\ (NoBcast(queue[w]) /\ NoBcast(xs) => NoBcast(queue'[w]))
      /\ \A v \in Workers \ {w} : IsSeq(queue'[v])
  BY Joined DEF Kept, Shape, Moves
<1>3. \A v \in Workers : RankOf(v)' = RankOf(v)
  BY DEF RankOf, Moves
<1>4. Shape'
  BY <1>1, <1>2 DEF Kept, Shape, Moves
<1>5. Bystanders'
  BY <1>1, <1>2, <1>3, Cluster DEF Kept, Bystanders, Moves
<1>6. BuffersOutliveBroadcasts'
  <2>1. \A v \in Workers : pc[v] \in {"done", "loaded"} => NoBcast(queue[v])
    BY DEF Kept, BuffersOutliveBroadcasts, NoBcast
  <2>2. \A v \in Workers : pc'[v] \in {"done", "loaded"} => NoBcast(queue'[v])
    BY <1>1, <1>2, <2>1 DEF Moves
  <2> QED
    BY <2>2 DEF BuffersOutliveBroadcasts, NoBcast
<1> QED
  BY <1>4, <1>5, <1>6

\* A step that touches nothing of this.
LEMMA Still ==
  ASSUME Kept, UNCHANGED <<engine, multi, pc, op, queue, meta, wire>>
  PROVE  Kept'
<1>1. \A v : RankOf(v)' = RankOf(v)
  BY DEF RankOf
<1> QED
  BY <1>1 DEF Kept, Shape, Lists, Mail, Bystanders, Pending, BuffersOutliveBroadcasts, IsSeq, NoBcast

\* A step that queues nothing.
LEMMA Unpushed ==
  ASSUME Kept, NEW w \in Workers, UNCHANGED queue
  PROVE  DOMAIN queue' = Workers /\ queue'[w] = queue[w] \o <<>> /\ \A v \in Workers \ {w} : queue'[v] = queue[v]
<1>1. queue[w] \in Seq(ToSet(queue[w])) /\ DOMAIN queue = Workers
  BY DEF Kept, Shape, IsSeq
<1>2. \A S : \A q \in Seq(S) : q \o <<>> = q
  OBVIOUS
<1> QED
  BY <1>1, <1>2

\* The members of the group pass the barrier.
LEMMA GroupMoves ==
  ASSUME Kept, UNCHANGED <<engine, multi, op, queue, meta, wire>>, pc' \in [Workers -> Labels],
         \A w \in Workers : \/ pc'[w] = pc[w]
                            \/ /\ RankOf(w) # -1 /\ pc[w] = "barrier"
                               /\ pc'[w] \in {"subscribers", "start", "pull"}
  PROVE  Kept'
<1>1. \A v : RankOf(v)' = RankOf(v)
  BY DEF RankOf
<1>2. Shape' /\ Lists'
  BY DEF Kept, Shape, Lists, Mail, IsSeq
<1>3. Bystanders'
  BY <1>1, Cluster DEF Kept, Bystanders, NoBcast
<1>4. Pending'
  BY Cluster DEF Kept, Pending
<1>5. BuffersOutliveBroadcasts'
  BY DEF Kept, BuffersOutliveBroadcasts
<1> QED
  BY <1>2, <1>3, <1>4, <1>5 DEF Kept

-----------------------------------------------------------------------------
(* The devices, and the next sync.                                           *)

\* A device takes one piece out of some queues.
Drains ==
  /\ UNCHANGED <<engine, multi, pc, op, meta, wire>> /\ DOMAIN queue' = Workers
  /\ \A w \in Workers : \/ queue'[w] = queue[w]
                         \/ (\E i \in DOMAIN queue[w] : queue'[w] = RemoveAt(queue[w], i))
                         \/ (queue[w] # <<>> /\ queue'[w] = Tail(queue[w]))

\* Work that has run leaves nothing new behind.
LEMMA DrainsKeep ==
  ASSUME Kept, Drains
  PROVE  Kept'
<1>1. \A v : RankOf(v)' = RankOf(v)
  BY DEF RankOf, Drains
<1>2. ASSUME NEW w \in Workers
      PROVE  IsSeq(queue'[w]) /\ (NoBcast(queue[w]) => NoBcast(queue'[w]))
  <2>1. IsSeq(queue[w])
    BY DEF Kept, Shape
  <2> QED
    BY <2>1, TakenOut, TailIs DEF Drains
<1>3. Shape'
  BY <1>2 DEF Kept, Shape, Drains
<1>4. Lists' /\ Pending'
  BY DEF Kept, Lists, Mail, Pending, IsSeq, Drains
<1>5. Bystanders'
  BY <1>1, <1>2, Cluster DEF Kept, Bystanders, Drains
<1>6. BuffersOutliveBroadcasts'
  <2>1. \A v \in Workers : pc[v] \in {"done", "loaded"} => NoBcast(queue[v])
    BY DEF Kept, BuffersOutliveBroadcasts, NoBcast
  <2>2. \A v \in Workers : pc'[v] \in {"done", "loaded"} => NoBcast(queue'[v])
    BY <1>2, <2>1 DEF Drains
  <2> QED
    BY <2>2 DEF BuffersOutliveBroadcasts, NoBcast
<1> QED
  BY <1>3, <1>4, <1>5, <1>6 DEF Kept

\* What the device does drains queues.
LEMMA XcclDevice ==
  ASSUME Kept, X!Device
  PROVE  Drains
<1> USE DEF X!host, X!job, X!filling, X!net, X!work
<1>1. DOMAIN queue = Workers
  BY DEF Kept, Shape
<1>2. ASSUME NEW w \in Workers, X!Local(w) PROVE Drains
  <2>1. PICK i \in DOMAIN queue[w] : queue' = [queue EXCEPT ![w] = RemoveAt(queue[w], i)]
    BY <1>2 DEF X!Local, X!RemoveAt, RemoveAt
  <2>2. UNCHANGED <<engine, multi, pc, op, meta, wire>>
    BY <1>2 DEF X!Local
  <2> QED
    BY <1>1, <2>1, <2>2 DEF Drains
<1>3. ASSUME X!Gather PROVE Drains
  <2> DEFINE taken(w) == CHOOSE i \in DOMAIN queue[w] : X!MayGather(w, i)
  <2>1. \A w \in Actors : taken(w) \in DOMAIN queue[w]
    BY <1>3, Same DEF X!Gather
  <2>2. queue' = [w \in Workers |-> IF w \in Rollouts THEN queue[w] ELSE RemoveAt(queue[w], taken(w))]
    BY <1>3, Same DEF X!Gather, X!RemoveAt, RemoveAt
  <2>3. UNCHANGED <<engine, multi, pc, op, meta, wire>>
    BY <1>3 DEF X!Gather
  <2> HIDE DEF taken
  <2>4. ASSUME NEW w \in Workers
        PROVE  queue'[w] = queue[w] \/ \E i \in DOMAIN queue[w] : queue'[w] = RemoveAt(queue[w], i)
    <3>1. CASE w \in Rollouts
      BY <2>2, <3>1
    <3>2. CASE w \in Actors
      <4>1. queue'[w] = RemoveAt(queue[w], taken(w))
        BY <2>2, <3>2, Cluster
      <4> QED
        BY <2>1, <3>2, <4>1
    <3> QED
      BY <3>1, <3>2, Cluster
  <2> QED
    BY <2>2, <2>3, <2>4 DEF Drains
<1>4. ASSUME X!Broadcast PROVE Drains
  <2>1. \A w \in X!Group : queue[w] # <<>>
    BY <1>4 DEF X!Broadcast, X!MayRun
  <2> QED
    BY <1>4, <2>1, Same DEF X!Broadcast, Drains
<1> QED
  BY <1>2, <1>3, <1>4, Same DEF X!Device

\* ... on CNCL's too.
LEMMA CnclDevice ==
  ASSUME Kept, C!Device
  PROVE  Drains
<1> USE DEF C!host, C!job, C!filling, C!net, C!work
<1>1. DOMAIN queue = Workers
  BY DEF Kept, Shape
<1>2. ASSUME NEW w \in Workers, C!Local(w) PROVE Drains
  <2>1. PICK i \in DOMAIN queue[w] : queue' = [queue EXCEPT ![w] = RemoveAt(queue[w], i)]
    BY <1>2 DEF C!Local, C!RemoveAt, RemoveAt
  <2>2. UNCHANGED <<engine, multi, pc, op, meta, wire>>
    BY <1>2 DEF C!Local
  <2> QED
    BY <1>1, <2>1, <2>2 DEF Drains
<1>3. ASSUME C!Gather PROVE Drains
  <2> DEFINE taken(w) == CHOOSE i \in DOMAIN queue[w] : C!MayGather(w, i)
  <2>1. \A w \in Actors : taken(w) \in DOMAIN queue[w]
    BY <1>3, Same DEF C!Gather
  <2>2. queue' = [w \in Workers |-> IF w \in Rollouts THEN queue[w] ELSE RemoveAt(queue[w], taken(w))]
    BY <1>3, Same DEF C!Gather, C!RemoveAt, RemoveAt
  <2>3. UNCHANGED <<engine, multi, pc, op, meta, wire>>
    BY <1>3 DEF C!Gather
  <2> HIDE DEF taken
  <2>4. ASSUME NEW w \in Workers
        PROVE  queue'[w] = queue[w] \/ \E i \in DOMAIN queue[w] : queue'[w] = RemoveAt(queue[w], i)
    <3>1. CASE w \in Rollouts
      BY <2>2, <3>1
    <3>2. CASE w \in Actors
      <4>1. queue'[w] = RemoveAt(queue[w], taken(w))
        BY <2>2, <3>2, Cluster
      <4> QED
        BY <2>1, <3>2, <4>1
    <3> QED
      BY <3>1, <3>2, Cluster
  <2> QED
    BY <2>2, <2>3, <2>4 DEF Drains
<1>4. ASSUME C!Broadcast PROVE Drains
  <2>1. \A w \in C!Group : queue[w] # <<>>
    BY <1>4 DEF C!Broadcast, C!MayRun
  <2> QED
    BY <1>4, <2>1, Same DEF C!Broadcast, Drains
<1> QED
  BY <1>2, <1>3, <1>4, Same DEF C!Device

\* The next sync starts where every worker's has ended.
Restarts ==
  /\ UNCHANGED <<engine, multi, wire, queue>>
  /\ pc' = [w \in Workers |-> "init"] /\ op' = [w \in Workers |-> NoOp] /\ meta' = [w \in Workers |-> <<>>]

\* ... with nothing queued but what was.
LEMMA RestartsKeep ==
  ASSUME Kept, Restarts
  PROVE  Kept'
<1>1. \A v : RankOf(v)' = RankOf(v)
  BY DEF RankOf, Restarts
<1>2. "stage" \in DOMAIN NoOp /\ NoOp.stage = "none"
  BY DEF NoOp
<1>3. Shape'
  BY <1>2 DEF Kept, Shape, Labels, Restarts
<1>4. Lists'
  BY <1>2, NoPiece, Cluster DEF Kept, Lists, Mail, IsSeq, Restarts
<1>5. Bystanders' /\ Pending' /\ BuffersOutliveBroadcasts'
  BY <1>1, <1>2, Cluster DEF Kept, Bystanders, Pending, BuffersOutliveBroadcasts, NoBcast, Restarts
<1> QED
  BY <1>3, <1>4, <1>5 DEF Kept

\* Both engines start the next sync so.
LEMMA NextSyncIs == (X!NextSync \/ C!NextSync) => Restarts
BY Same DEF X!NextSync, C!NextSync, X!net, C!net, X!NoOp, C!NoOp, NoOp, Restarts

-----------------------------------------------------------------------------
(* The steps of the XCCL engine's hosts.                                     *)

\* What of Kept the steps of one worker that leave op and the metadata alone keep.
LEMMA Walked ==
  ASSUME Kept, NEW w \in Workers, NEW l \in Labels, NEW xs, IsSeq(xs), Moves(w, l, xs), UNCHANGED <<op, wire>>,
         DOMAIN meta' = Workers, IsSeq(meta'[w]), \A v \in Workers \ {w} : meta'[v] = meta[v],
         l \in {"done", "loaded"} => NoBcast(queue[w]) /\ NoBcast(xs),
         w \in Actors /\ RankOf(w) = -1 => l \in {"init", "pull", "done"} /\ NoBcast(xs),
         pc[w] # "wait",
         w = Master => \/ l \notin {"final", "done", "loaded"}
                       \/ op[w].stage \notin {"publish", "queue"}
                       \/ pc[w] = "final"
  PROVE  Kept'
<1>1. Shape' /\ Bystanders' /\ BuffersOutliveBroadcasts'
  BY Moved
<1>2. pc'[w] = l /\ \A v \in Workers \ {w} : pc'[v] = pc[v]
  BY DEF Kept, Shape, Moves
<1>3. Lists'
  BY DEF Kept, Lists, Mail, IsSeq
<1>4. Pending'
  BY <1>2, Cluster DEF Kept, Pending, Moves
<1> QED
  BY <1>1, <1>3, <1>4 DEF Kept

\* The pieces a step may queue.
LEMMA Pieces ==
  ASSUME NEW b, NEW n, NEW at, NEW id
  PROVE  /\ IsSeq(<<[do |-> "gather"]>>) /\ NoBcast(<<[do |-> "gather"]>>)
         /\ IsSeq(<<[do |-> "fill", b |-> b, at |-> at, id |-> id]>>)
         /\ NoBcast(<<[do |-> "fill", b |-> b, at |-> at, id |-> id]>>)
         /\ IsSeq(<<Bcast(b, n)>>)
BY OnePiece

\* Joining, and the subscriptions.
LEMMA XcclJoins ==
  ASSUME Kept,
         \/ \E w \in Workers : X!Join(w)
         \/ X!Barrier \/ X!TakeFrame \/ X!StartSending \/ X!SubscribersTimeout
         \/ \E w \in Rollouts : X!Subscribed(w)
  PROVE  Kept'
<1> USE DEF X!job, X!filling, X!net, X!work, X!device
<1>1. CASE \E w \in Workers : X!Join(w)
  <2>1. PICK w \in Workers : X!Join(w)
    BY <1>1
  <2> DEFINE l == IF RankOf(w) = -1 THEN "pull" ELSE "barrier"
  <2>2. Moves(w, l, <<>>) /\ UNCHANGED <<op, wire, meta>> /\ pc[w] = "init"
    BY <2>1, Same, Unpushed DEF Moves, X!Join, X!Go, Kept, Shape
  <2>3. l \in Labels /\ l \notin {"final", "done", "loaded"} /\ (RankOf(w) = -1 => l = "pull") /\ IsSeq(meta[w])
    BY DEF Labels, Kept, Lists
  <2> HIDE DEF l
  <2> QED
    BY <2>2, <2>3, Walked, NoPiece DEF Kept, Lists
<1>2. CASE X!Barrier
  <2>1. /\ UNCHANGED <<engine, multi, op, queue, meta, wire>> /\ pc' \in [Workers -> Labels]
        /\ \A w \in Workers : \/ pc'[w] = pc[w]
                               \/ /\ RankOf(w) # -1 /\ pc[w] = "barrier"
                                  /\ pc'[w] \in {"subscribers", "start", "pull"}
    <3>1. \A w \in X!Group : w \in Workers /\ RankOf(w) # -1 /\ pc[w] = "barrier"
      BY <1>2, Same DEF X!Barrier, X!Group, X!Groups, X!RankOf, Kept, Shape
    <3> QED
      BY <1>2, <3>1, Same DEF X!Barrier, Kept, Shape, Labels
  <2> QED
    BY <2>1, GroupMoves
<1>3. CASE X!TakeFrame \/ \E w \in Rollouts : X!Subscribed(w)
  BY <1>3, Still DEF X!TakeFrame, X!Subscribed
<1>4. CASE X!StartSending \/ X!SubscribersTimeout
  <2>1. PICK l \in {"pull", "failed"} : /\ Moves(Master, l, <<>>) /\ UNCHANGED <<op, wire, meta>>
                                       /\ pc[Master] = "subscribers"
    BY <1>4, Same, Cluster, Unpushed DEF Moves, X!StartSending, X!SubscribersTimeout, X!Go, Kept, Shape
  <2>2. l \in Labels /\ RankOf(Master) # -1 /\ IsSeq(meta[Master])
    BY Senders, Cluster DEF Labels, Kept, Shape, Lists
  <2> QED
    BY <2>1, <2>2, Walked, NoPiece, Cluster DEF Kept, Lists
<1> QED
  BY <1>1, <1>2, <1>3, <1>4

\* What the actors' coroutines do: the pulls.
LEMMA XcclPulls ==
  ASSUME Kept, NEW a \in Actors, X!Pull(a) \/ X!PullNone(a) \/ X!RelayChunk(a)
  PROVE  Kept'
<1> USE DEF X!job, X!filling, X!net, X!work, X!device, X!Go, X!Push
<1>1. a \in Workers /\ DOMAIN queue = Workers /\ DOMAIN op = Workers /\ DOMAIN meta = Workers /\ IsSeq(meta[a])
  BY Cluster DEF Kept, Shape, Lists
<1>2. /\ X!Role(a) = "idle" <=> RankOf(a) = -1
      /\ X!Role(a) = "sender" => a = Master
      /\ a = Master => RankOf(a) # -1 /\ X!Role(a) = "sender"
  BY Same, Senders, Cluster DEF X!Role, Kept, Shape
<1>3. CASE X!Pull(a)
  <2> DEFINE l == IF X!Role(a) = "idle" THEN "pull" ELSE "place"
             xs == <<[do |-> "gather"]>>
  <2>1. Moves(a, l, xs) /\ UNCHANGED <<op, wire, meta>> /\ pc[a] = "pull"
    BY <1>1, <1>3 DEF X!Pull, Moves, Kept, Shape
  <2>2. /\ l \in Labels /\ l \notin {"final", "done", "loaded"} /\ (RankOf(a) = -1 => l = "pull")
        /\ IsSeq(xs) /\ NoBcast(xs)
    BY <1>2, Pieces DEF Labels
  <2> HIDE DEF l, xs
  <2> QED
    BY <1>1, <2>1, <2>2, Walked
<1>4. CASE X!PullNone(a)
  <2> DEFINE l == CASE X!Role(a) = "idle" -> "done" [] X!Role(a) = "sender" -> "sync" [] OTHER -> "final"
             xs == IF X!Role(a) = "relay" THEN <<Bcast(0, offset[a])>> ELSE <<>>
  <2>1. Moves(a, l, xs) /\ UNCHANGED <<op, wire, meta>> /\ pc[a] = "pull"
    BY <1>1, <1>4, Unpushed DEF X!PullNone, X!Bcast, Bcast, Moves, Kept, Shape
  <2>2. /\ l \in Labels /\ l # "loaded" /\ (l = "done" => RankOf(a) = -1) /\ (a = Master => l = "sync")
        /\ RankOf(a) = -1 => l = "done" /\ NoBcast(xs) /\ NoBcast(queue[a])
        /\ IsSeq(xs)
    BY <1>2, Pieces, NoPiece DEF Labels, Kept, Bystanders
  <2> HIDE DEF l, xs
  <2> QED
    BY <1>1, <2>1, <2>2, Walked
<1>5. CASE X!RelayChunk(a)
  <2> DEFINE xs == IF X!NextPlace(a).flush THEN <<Bcast(0, offset[a])>> ELSE <<>>
  <2>1. Moves(a, "pull", xs) /\ UNCHANGED <<op, wire, meta>> /\ pc[a] = "place" /\ X!Role(a) = "relay"
    BY <1>1, <1>5 DEF X!RelayChunk, X!Bcast, Bcast, Moves, Kept, Shape
  <2>2. "pull" \in Labels /\ IsSeq(xs) /\ RankOf(a) # -1
    BY <1>2, <2>1, Pieces, NoPiece DEF Labels
  <2> HIDE DEF xs
  <2> QED
    BY <1>1, <2>1, <2>2, Walked
<1> QED
  BY <1>3, <1>4, <1>5

\* The sender's chunks, and its waits.
LEMMA XcclSends ==
  ASSUME Kept, NEW a \in Actors,
         \/ X!PlaceChunk(a) \/ X!Synchronize(a) \/ X!FillNext(a) \/ X!Step(a) \/ X!LastQueued(a) \/ X!Finish(a)
  PROVE  Kept'
<1> USE DEF X!job, X!filling, X!net, X!work, X!device, X!Go, X!Push
<1>1. a \in Workers /\ DOMAIN queue = Workers /\ DOMAIN op = Workers /\ DOMAIN meta = Workers /\ IsSeq(meta[a])
  BY Cluster DEF Kept, Shape, Lists
<1>2. RankOf(a) = -1 => X!Role(a) = "idle" /\ pc[a] \in {"init", "pull", "done"}
  BY Same DEF X!Role, Kept, Bystanders
<1>3. ASSUME NEW at, X!Fill(a, at)
      PROVE  \E xs : /\ IsSeq(xs) /\ NoBcast(xs) /\ queue' = [queue EXCEPT ![a] = @ \o xs]
                     /\ DOMAIN meta' = Workers /\ IsSeq(meta'[a]) /\ \A v \in Workers \ {a} : meta'[v] = meta[v]
  <2> DEFINE xs == <<[do |-> "fill", b |-> cur'[a], at |-> at, id |-> X!Id(pulled[a])]>>
             m == IF pc[a] = "fill" THEN <<>> ELSE meta[a]
             e == <<at, X!Id(pulled[a])>>
  <2>1. queue' = [queue EXCEPT ![a] = @ \o xs] /\ meta' = [meta EXCEPT ![a] = Append(m, e)]
    BY <1>3 DEF X!Fill
  <2>2. IsSeq(xs) /\ NoBcast(xs)
    BY Pieces
  <2>3. IsSeq(m)
    BY <1>1, NoPiece
  <2> HIDE DEF xs, m, e
  <2>4. IsSeq(Append(m, e))
    BY <2>3, Added
  <2> QED
    BY <1>1, <2>1, <2>2, <2>4
<1>4. CASE X!PlaceChunk(a) \/ X!FillNext(a)
  <2>1. RankOf(a) # -1 /\ pc[a] \in {"place", "fill"}
    BY <1>2, <1>4 DEF X!PlaceChunk, X!FillNext
  <2>2. CASE \E at : X!Fill(a, at) /\ pc' = [pc EXCEPT ![a] = "step"]
    <3>1. PICK xs : /\ IsSeq(xs) /\ NoBcast(xs) /\ queue' = [queue EXCEPT ![a] = @ \o xs]
                    /\ DOMAIN meta' = Workers /\ IsSeq(meta'[a]) /\ \A v \in Workers \ {a} : meta'[v] = meta[v]
      BY <1>3, <2>2
    <3>2. Moves(a, "step", xs) /\ UNCHANGED <<op, wire>> /\ "step" \in Labels
      BY <1>1, <1>4, <2>2, <3>1 DEF X!PlaceChunk, X!FillNext, Moves, Labels, Kept, Shape
    <3> QED
      BY <1>1, <2>1, <3>1, <3>2, Walked
  <2>3. CASE pc' = [pc EXCEPT ![a] = "sync"] /\ UNCHANGED <<queue, meta>>
    <3>1. Moves(a, "sync", <<>>) /\ UNCHANGED <<op, wire>> /\ "sync" \in Labels
      BY <1>1, <1>4, <2>3, Unpushed DEF X!PlaceChunk, X!FillNext, Moves, Labels, Kept, Shape
    <3> QED
      BY <1>1, <2>1, <2>3, <3>1, NoPiece, Walked
  <2> QED
    BY <1>4, <2>2, <2>3 DEF X!PlaceChunk, X!FillNext
<1>5. CASE X!Synchronize(a) \/ X!Step(a) \/ X!LastQueued(a) \/ X!Finish(a)
  <2> DEFINE l == CASE pc[a] = "sync" -> "await" [] pc[a] = "step" -> "pull" [] pc[a] = "drain" -> "final"
                  [] OTHER -> "done"
  <2>1. Moves(a, l, <<>>) /\ UNCHANGED <<op, wire, meta>> /\ pc[a] \in {"sync", "step", "drain", "final"}
    BY <1>1, <1>5, Unpushed DEF X!Synchronize, X!Step, X!LastQueued, X!Finish, Moves, Kept, Shape
  <2>2. /\ l \in Labels /\ l # "loaded" /\ RankOf(a) # -1
        /\ (l = "done" => pc[a] = "final") /\ (l = "final" => pc[a] = "drain")
    BY <1>2, <2>1 DEF Labels
  <2>3. l = "done" => NoBcast(queue[a])
    BY <1>5, <2>1, <2>2, NoPiece DEF X!Synchronize, X!Step, X!LastQueued, X!Finish, X!Drained, X!Quiet
  <2>4. l = "final" => op[a].stage = "none"
    BY <1>5, <2>1, <2>2 DEF X!Synchronize, X!Step, X!LastQueued, X!Finish, X!NoOp
  <2> HIDE DEF l
  <2> QED
    BY <1>1, <2>1, <2>2, <2>3, <2>4, NoPiece, Walked
<1> QED
  BY <1>4, <1>5

\* The broadcasts of the sender: handed to the executor, published, queued.
LEMMA XcclBroadcasts ==
  ASSUME Kept, engine = "xccl", (\E a \in Actors : X!StartBroadcast(a)) \/ X!Publish \/ X!QueueBroadcast
  PROVE  Kept'
<1> USE DEF X!job, X!filling, X!net, X!work, X!device, X!Go, X!Push
<1>1. /\ DOMAIN queue = Workers /\ DOMAIN op = Workers /\ DOMAIN meta = Workers /\ \A w \in Workers : IsSeq(meta[w])
      /\ pc \in [Workers -> Labels] /\ \A w \in Workers : "stage" \in DOMAIN op[w]
      /\ Master \in Actors /\ Master \in Workers /\ RankOf(Master) # -1
  BY Cluster, Senders DEF Kept, Shape, Lists
<1>2. CASE \E a \in Actors : X!StartBroadcast(a)
  <2>1. PICK a \in Actors : X!StartBroadcast(a)
    BY <1>2
  <2>2. a \in Workers /\ RankOf(a) # -1
    BY <2>1, Same, Cluster DEF X!StartBroadcast, X!Role
  <2> DEFINE l == IF last[a] THEN "drain" ELSE "fill"
  <2>3. l \in Labels /\ l \notin {"final", "done", "loaded"}
    BY DEF Labels
  <2>4. /\ UNCHANGED <<engine, multi, queue, meta, wire>> /\ pc' = [pc EXCEPT ![a] = l] /\ pc[a] = "await"
        /\ \E n, b, e : op' = [op EXCEPT ![a] = [stage |-> "publish", meta |-> meta[a], last |-> e, len |-> n, b |-> b]]
    BY <2>1 DEF X!StartBroadcast
  <2>5. /\ op'[a].stage = "publish" /\ op'[a].meta = meta[a] /\ "stage" \in DOMAIN op'[a]
        /\ DOMAIN op' = Workers /\ \A v \in Workers \ {a} : op'[v] = op[v]
    BY <1>1, <2>2, <2>4
  <2> HIDE DEF l
  <2>6. Moves(a, l, <<>>)
    BY <1>1, <2>2, <2>4, <2>5, Unpushed DEF Moves
  <2>7. Shape' /\ Bystanders' /\ BuffersOutliveBroadcasts'
    BY <2>2, <2>3, <2>6, NoPiece, Moved
  <2>8. Lists'
    BY <1>1, <2>1, <2>2, <2>4, <2>5, Cluster DEF Kept, Lists, Mail, IsSeq
  <2>9. Pending'
    <3>2. \A v \in Workers : v # a => pc'[v] = pc[v]
      BY <1>1, <2>4
    <3>3. pc'[a] = l
      BY <1>1, <2>2, <2>4
    <3> QED
      BY <1>1, <2>2, <2>3, <2>4, <2>5, <3>2, <3>3, Cluster DEF Kept, Pending
  <2> QED
    BY <2>7, <2>8, <2>9 DEF Kept
<1>3. CASE X!Publish
  <2>1. /\ UNCHANGED <<engine, multi, queue, meta, pc>> /\ op[Master].stage = "publish"
        /\ op' = [op EXCEPT ![Master].stage = "queue"]
        /\ \E e, n : X!Deliver([meta |-> op[Master].meta, last |-> e, len |-> n])
    BY <1>3, Same DEF X!Publish
  <2>2. /\ op'[Master].stage = "queue" /\ "stage" \in DOMAIN op'[Master]
        /\ DOMAIN op' = Workers /\ \A v \in Workers \ {Master} : op'[v] = op[v]
    BY <1>1, <2>1
  <2>3. Moves(Master, pc[Master], <<>>)
    BY <1>1, <2>1, <2>2, Unpushed DEF Moves
  <2>4. pc[Master] \in Labels /\ pc[Master] \notin {"done", "loaded"}
    BY <1>1, <2>1 DEF Kept, Pending
  <2>5. Shape' /\ Bystanders' /\ BuffersOutliveBroadcasts'
    BY <1>1, <2>3, <2>4, NoPiece, Moved
  <2>6. DOMAIN wire' = Rollouts /\ \A w \in Rollouts : Mail(wire'[w])
    <3>1. PICK e, n : X!Deliver([meta |-> op[Master].meta, last |-> e, len |-> n])
      BY <2>1
    <3>2. IsSeq(op[Master].meta)
      BY <2>1 DEF Kept, Lists
    <3> DEFINE x == [meta |-> op[Master].meta, last |-> e, len |-> n]
    <3>3. x.meta = op[Master].meta
      OBVIOUS
    <3> HIDE DEF x
    <3>4. \A w \in Rollouts : Mail(wire[w]) /\ Mail(Append(wire[w], x))
      BY <3>2, <3>3, Added DEF Kept, Lists, Mail
    <3>5. wire' = [w \in Rollouts |-> IF sub[w] = "live" THEN Append(wire[w], x) ELSE wire[w]]
      BY <3>1, Same DEF X!Deliver, x
    <3> QED
      BY <3>4, <3>5
  <2>7. Lists'
    BY <1>1, <2>1, <2>2, <2>6, Cluster DEF Kept, Lists, IsSeq
  <2>8. Pending'
    BY <1>1, <2>1, <2>2, Cluster DEF Kept, Pending
  <2> QED
    BY <2>5, <2>7, <2>8 DEF Kept
<1>4. CASE X!QueueBroadcast
  <2> DEFINE xs == <<Bcast(op[Master].b, op[Master].len)>>
  <2>1. /\ UNCHANGED <<engine, multi, wire, meta, pc>> /\ op[Master].stage = "queue"
        /\ op' = [op EXCEPT ![Master] = NoOp]
        /\ queue' = [queue EXCEPT ![Master] = @ \o xs]
    BY <1>4, Same DEF X!QueueBroadcast, X!NoOp, NoOp, X!Bcast, Bcast
  <2>2. IsSeq(xs)
    BY Pieces
  <2> HIDE DEF xs
  <2>3. /\ op'[Master].stage = "none" /\ "stage" \in DOMAIN op'[Master]
        /\ DOMAIN op' = Workers /\ \A v \in Workers \ {Master} : op'[v] = op[v]
    BY <1>1, <2>1 DEF NoOp
  <2>4. Moves(Master, pc[Master], xs)
    BY <1>1, <2>1, <2>3 DEF Moves
  <2>5. pc[Master] \in Labels /\ pc[Master] \notin {"done", "loaded"}
    BY <1>1, <2>1 DEF Kept, Pending
  <2>6. Shape' /\ Bystanders' /\ BuffersOutliveBroadcasts'
    BY <1>1, <2>2, <2>4, <2>5, Moved
  <2>7. Lists'
    BY <1>1, <2>1, <2>3, Cluster DEF Kept, Lists, Mail, IsSeq
  <2>8. Pending'
    BY <1>1, <2>1, <2>3, Cluster DEF Kept, Pending
  <2> QED
    BY <2>6, <2>7, <2>8 DEF Kept
<1> QED
  BY <1>2, <1>3, <1>4

\* The rollout workers of the XCCL engine.
LEMMA XcclReceives ==
  ASSUME Kept, engine = "xccl", NEW w \in Rollouts,
         X!ReceiveMetadata(w) \/ X!StartReceive(w) \/ X!Received(w)
  PROVE  Kept'
<1> USE DEF X!job, X!filling, X!net, X!work, X!device, X!Go, X!Push
<1>1. /\ DOMAIN queue = Workers /\ DOMAIN op = Workers /\ DOMAIN meta = Workers /\ IsSeq(meta[w])
      /\ pc \in [Workers -> Labels] /\ \A v \in Workers : "stage" \in DOMAIN op[v]
      /\ w \in Workers /\ w \notin Actors /\ w # Master /\ Master \in Workers
      /\ DOMAIN wire = Rollouts /\ Mail(wire[w])
  BY Cluster DEF Kept, Shape, Lists
<1>2. CASE X!ReceiveMetadata(w)
  <2> DEFINE xs == <<Bcast(op[w].b, Head(wire[w]).len)>>
             h == Head(wire[w])
  <2>1. /\ UNCHANGED <<engine, multi, meta, pc>> /\ op[w].stage = "receive" /\ wire[w] # <<>>
        /\ op' = [op EXCEPT ![w] = [stage |-> "ready", m |-> h]]
        /\ wire' = [wire EXCEPT ![w] = Tail(@)]
        /\ queue' = [queue EXCEPT ![w] = @ \o xs]
    BY <1>2 DEF X!ReceiveMetadata, X!Bcast, Bcast
  <2>2. IsSeq(xs)
    BY Pieces
  <2>3. IsSeq(h.meta) /\ Mail(Tail(wire[w]))
    BY <1>1, <2>1, MailTail
  <2> HIDE DEF xs, h
  <2>4. /\ op'[w].stage = "ready" /\ op'[w].m = h /\ "stage" \in DOMAIN op'[w]
        /\ DOMAIN op' = Workers /\ \A v \in Workers \ {w} : op'[v] = op[v]
    BY <1>1, <2>1
  <2>5. Moves(w, pc[w], xs)
    BY <1>1, <2>1, <2>4 DEF Moves
  <2>6. pc[w] = "wait" /\ pc[w] \in Labels
    BY <1>1, <2>1 DEF Kept, Pending
  <2>7. Shape' /\ Bystanders' /\ BuffersOutliveBroadcasts'
    BY <1>1, <2>2, <2>5, <2>6, Moved
  <2>8. DOMAIN wire' = Rollouts /\ \A v \in Rollouts : Mail(wire'[v])
    BY <1>1, <2>1, <2>3 DEF Kept, Lists
  <2>9. Lists'
    BY <1>1, <2>1, <2>3, <2>4, <2>8, Cluster DEF Kept, Lists, IsSeq
  <2>10. Pending'
    BY <1>1, <2>1, <2>4, Cluster DEF Kept, Pending
  <2> QED
    BY <2>7, <2>9, <2>10 DEF Kept
<1>3. CASE X!StartReceive(w)
  <2> DEFINE xs == Copies(w, meta[w], cur[w])
  <2>1. /\ UNCHANGED <<engine, multi, meta, wire>> /\ pc[w] = "start" /\ pc' = [pc EXCEPT ![w] = "wait"]
        /\ \E b : op' = [op EXCEPT ![w] = [stage |-> "receive", b |-> b]]
        /\ queue' = [queue EXCEPT ![w] = @ \o xs]
    BY <1>3 DEF X!StartReceive, X!Copies, Copies
  <2>2. IsSeq(xs)
    BY <1>1, CopiesOf
  <2> HIDE DEF xs
  <2>3. /\ op'[w].stage = "receive" /\ "stage" \in DOMAIN op'[w]
        /\ DOMAIN op' = Workers /\ \A v \in Workers \ {w} : op'[v] = op[v]
    BY <1>1, <2>1
  <2>4. Moves(w, "wait", xs) /\ "wait" \in Labels
    BY <1>1, <2>1, <2>3 DEF Moves, Labels
  <2>5. Shape' /\ Bystanders' /\ BuffersOutliveBroadcasts'
    BY <1>1, <2>2, <2>4, Moved
  <2>6. Lists'
    BY <1>1, <2>1, <2>3, Cluster DEF Kept, Lists, Mail, IsSeq
  <2>7. Pending'
    BY <1>1, <2>1, <2>3, Cluster DEF Kept, Pending
  <2> QED
    BY <2>5, <2>6, <2>7 DEF Kept
<1>4. CASE X!Received(w)
  <2>1. /\ UNCHANGED <<engine, multi, wire, queue>> /\ pc[w] = "wait" /\ pc' = [pc EXCEPT ![w] = "swap"]
        /\ op[w].stage = "ready" /\ op' = [op EXCEPT ![w] = NoOp]
        /\ meta' = [meta EXCEPT ![w] = op[w].m.meta]
    BY <1>4 DEF X!Received, X!NoOp, NoOp
  <2>2. IsSeq(op[w].m.meta)
    BY <2>1 DEF Kept, Lists
  <2>3. /\ op'[w].stage = "none" /\ "stage" \in DOMAIN op'[w]
        /\ DOMAIN op' = Workers /\ \A v \in Workers \ {w} : op'[v] = op[v]
    BY <1>1, <2>1 DEF NoOp
  <2>4. Moves(w, "swap", <<>>) /\ "swap" \in Labels
    BY <1>1, <2>1, <2>3, Unpushed DEF Moves, Labels
  <2>5. Shape' /\ Bystanders' /\ BuffersOutliveBroadcasts'
    BY <1>1, <2>4, NoPiece, Moved
  <2>6. Lists'
    BY <1>1, <2>1, <2>2, <2>3, Cluster DEF Kept, Lists, Mail, IsSeq
  <2>7. Pending'
    BY <1>1, <2>1, <2>3, Cluster DEF Kept, Pending
  <2> QED
    BY <2>5, <2>6, <2>7 DEF Kept
<1> QED
  BY <1>2, <1>3, <1>4

\* ... and the swap of their buffers, the last of which ends the sync for them.
LEMMA XcclSwaps ==
  ASSUME Kept, NEW w \in Rollouts, X!Swap(w) \/ X!Loaded(w)
  PROVE  Kept'
<1> USE DEF X!job, X!filling, X!net, X!work, X!device, X!Go, X!Push
<1>1. /\ DOMAIN queue = Workers /\ DOMAIN op = Workers /\ DOMAIN meta = Workers /\ IsSeq(meta[w])
      /\ pc \in [Workers -> Labels] /\ \A v \in Workers : "stage" \in DOMAIN op[v]
      /\ w \in Workers /\ w \notin Actors /\ w # Master
  BY Cluster DEF Kept, Shape, Lists
<1>2. queue[w] = <<>> /\ NoBcast(queue[w]) /\ UNCHANGED <<engine, multi, op, wire, meta>> /\ pc[w] # "wait"
  BY NoPiece DEF X!Swap, X!Loaded, X!Settled, X!Quiet
<1>3. CASE X!Loaded(w) \/ ~last[w]
  <2>1. PICK l \in {"loaded", "start"} : Moves(w, l, <<>>)
    BY <1>1, <1>2, <1>3, Unpushed DEF X!Swap, X!Loaded, Moves
  <2> QED
    BY <1>1, <1>2, <2>1, NoPiece, Walked DEF Labels
<1>4. CASE X!Swap(w) /\ last[w]
  <2> DEFINE xs == Copies(w, meta[w], 1 - cur[w])
  <2>1. Moves(w, "done", xs)
    BY <1>1, <1>2, <1>4 DEF X!Swap, X!Copies, Copies, Moves
  <2>2. IsSeq(xs) /\ NoBcast(xs)
    BY <1>1, CopiesOf
  <2> HIDE DEF xs
  <2> QED
    BY <1>1, <1>2, <2>1, <2>2, Walked DEF Labels
<1> QED
  BY <1>3, <1>4

\* Every step of the XCCL engine keeps all this.
LEMMA XcclKeeps ==
  ASSUME Kept, XcclStep
  PROVE  Kept'
BY XcclDevice, DrainsKeep, NextSyncIs, RestartsKeep, XcclJoins, XcclPulls, XcclSends, XcclBroadcasts, XcclReceives,
   XcclSwaps, Same DEF XcclStep, X!Next

-----------------------------------------------------------------------------
(* The steps of the CNCL engine's hosts.                                     *)

\* Nothing runs in a thread of its own: op is idle, and one actor sends.
LEMMA CnclJoins ==
  ASSUME Kept, engine = "cncl",
         \/ \E w \in Workers : C!Join(w)
         \/ C!Barrier
         \/ \E w \in Rollouts : C!Subscribed(w)
  PROVE  Kept'
<1> USE DEF C!job, C!filling, C!net, C!work, C!device
<1>1. CASE \E w \in Workers : C!Join(w)
  <2>1. PICK w \in Workers : C!Join(w)
    BY <1>1
  <2> DEFINE l == IF RankOf(w) = -1 THEN "pull" ELSE "barrier"
  <2>2. Moves(w, l, <<>>) /\ UNCHANGED <<op, wire, meta>> /\ pc[w] = "init"
    BY <2>1, Same, Unpushed DEF Moves, C!Join, C!Go, Kept, Shape
  <2>3. l \in Labels /\ l \notin {"final", "done", "loaded"} /\ (RankOf(w) = -1 => l = "pull") /\ IsSeq(meta[w])
    BY DEF Labels, Kept, Lists
  <2> HIDE DEF l
  <2> QED
    BY <2>2, <2>3, Walked, NoPiece DEF Kept, Lists
<1>2. CASE C!Barrier
  <2>1. /\ UNCHANGED <<engine, multi, op, queue, meta, wire>> /\ pc' \in [Workers -> Labels]
        /\ \A w \in Workers : \/ pc'[w] = pc[w]
                               \/ /\ RankOf(w) # -1 /\ pc[w] = "barrier"
                                  /\ pc'[w] \in {"subscribers", "start", "pull"}
    <3>1. \A w \in C!Group : w \in Workers /\ RankOf(w) # -1 /\ pc[w] = "barrier"
      BY <1>2, Same DEF C!Barrier, C!Group, C!Groups, C!RankOf, Kept, Shape
    <3> QED
      BY <1>2, <3>1, Same DEF C!Barrier, Kept, Shape, Labels
  <2> QED
    BY <2>1, GroupMoves
<1>3. CASE \E w \in Rollouts : C!Subscribed(w)
  BY <1>3, Still DEF C!Subscribed
<1> QED
  BY <1>1, <1>2, <1>3

\* The actors: a step of one that changes no metadata on the way.
LEMMA CnclActors ==
  ASSUME Kept, engine = "cncl", NEW a \in Actors,
         C!Pull(a) \/ C!Place(a) \/ (C!PullNone(a) /\ a # Master) \/ C!Finish(a)
  PROVE  Kept'
<1> USE DEF C!job, C!filling, C!net, C!work, C!device, C!Go, C!Push
<1>1. /\ a \in Workers /\ DOMAIN queue = Workers /\ DOMAIN op = Workers /\ DOMAIN meta = Workers /\ IsSeq(meta[a])
      /\ op[a].stage = "none"
  BY Cluster DEF Kept, Shape, Lists, Pending, NoOp
<1>2. RankOf(a) = -1 <=> a # Master
  BY Senders DEF Kept, Shape
<1>3. RankOf(a) = -1 => pc[a] \in {"init", "pull", "done"} /\ NoBcast(queue[a])
  BY DEF Kept, Bystanders
<1>4. CASE C!Pull(a)
  <2> DEFINE l == IF a = Master THEN "place" ELSE "pull"
             xs == <<[do |-> "gather"]>>
  <2>1. Moves(a, l, xs) /\ UNCHANGED <<op, wire, meta>> /\ pc[a] = "pull"
    BY <1>1, <1>4, Same DEF C!Pull, Moves, Kept, Shape
  <2>2. /\ l \in Labels /\ l \notin {"final", "done", "loaded"} /\ (RankOf(a) = -1 => l = "pull")
        /\ IsSeq(xs) /\ NoBcast(xs)
    BY <1>2, Pieces DEF Labels
  <2> HIDE DEF l, xs
  <2> QED
    BY <1>1, <2>1, <2>2, Walked
<1>5. CASE C!Place(a)
  <2>1. RankOf(a) # -1 /\ pc[a] = "place"
    BY <1>3, <1>5 DEF C!Place
  <2>2. CASE C!Fits(a)
    <3> DEFINE xs == <<[do |-> "fill", b |-> cur[a], at |-> offset[a], id |-> C!Id(pulled[a])]>>
               e == <<offset[a], C!Id(pulled[a])>>
    <3>1. Moves(a, "pull", xs) /\ UNCHANGED <<op, wire>> /\ meta' = [meta EXCEPT ![a] = Append(@, e)]
      BY <1>1, <1>5, <2>2 DEF C!Place, Moves, Kept, Shape
    <3>2. "pull" \in Labels /\ IsSeq(xs) /\ NoBcast(xs)
      BY Pieces DEF Labels
    <3> HIDE DEF xs, e
    <3>3. DOMAIN meta' = Workers /\ IsSeq(meta'[a]) /\ \A v \in Workers \ {a} : meta'[v] = meta[v]
      BY <1>1, <3>1, Added
    <3> QED
      BY <1>1, <2>1, <3>1, <3>2, <3>3, Walked
  <2>3. CASE ~C!Fits(a)
    <3>1. Moves(a, "flush", <<>>) /\ UNCHANGED <<op, wire, meta>> /\ "flush" \in Labels
      BY <1>1, <1>5, <2>3, Unpushed DEF C!Place, Moves, Labels, Kept, Shape
    <3> QED
      BY <1>1, <2>1, <3>1, NoPiece, Walked
  <2> QED
    BY <2>2, <2>3
<1>6. CASE (C!PullNone(a) /\ a # Master) \/ C!Finish(a)
  <2>1. Moves(a, "done", <<>>) /\ UNCHANGED <<op, wire, meta>> /\ pc[a] \in {"pull", "final"} /\ "done" \in Labels
    BY <1>1, <1>6, Same, Unpushed DEF C!PullNone, C!Finish, Moves, Labels, Kept, Shape
  <2>2. NoBcast(queue[a])
    BY <1>2, <1>3, <1>6, NoPiece DEF C!Finish, C!Drained, C!Quiet
  <2> QED
    BY <1>1, <2>1, <2>2, NoPiece, Walked
<1> QED
  BY <1>4, <1>5, <1>6

\* The sender publishes the metadata of a bucket and queues its broadcast.
LEMMA CnclSends ==
  ASSUME Kept, engine = "cncl", NEW a \in Actors, C!Flush(a) \/ (C!PullNone(a) /\ a = Master)
  PROVE  Kept'
<1> USE DEF C!job, C!filling, C!net, C!work, C!device, C!Go, C!Push
<1>1. /\ DOMAIN queue = Workers /\ DOMAIN op = Workers /\ DOMAIN meta = Workers /\ \A v \in Workers : IsSeq(meta[v])
      /\ pc \in [Workers -> Labels] /\ \A v \in Workers : "stage" \in DOMAIN op[v] /\ op[v] = NoOp
      /\ a \in Workers /\ Master \in Workers
  BY Cluster DEF Kept, Shape, Lists, Pending
<1>2. RankOf(a) # -1
  <2>1. CASE a = Master
    BY <2>1, Senders DEF Kept, Shape
  <2>2. CASE C!Flush(a)
    BY <2>2 DEF Kept, Bystanders, C!Flush
  <2> QED
    BY <2>1, <2>2
<1> DEFINE xs == <<Bcast(cur[a], BucketSize)>>
<1>3. PICK l \in {"place", "final"} :
        /\ pc' = [pc EXCEPT ![a] = l] /\ UNCHANGED <<engine, multi, op>> /\ queue' = [queue EXCEPT ![a] = @ \o xs]
        /\ meta' = [meta EXCEPT ![a] = <<>>] \/ meta' = meta
        /\ \E e : C!Deliver([meta |-> meta[a], last |-> e])
  BY <1>1, Same DEF C!Flush, C!PullNone, C!Send, C!Bcast, Bcast
<1>4. IsSeq(xs)
  BY Pieces
<1> HIDE DEF xs
<1>5. Moves(a, l, xs) /\ l \in Labels
  BY <1>1, <1>3 DEF Moves, Labels
<1>6. Shape' /\ Bystanders' /\ BuffersOutliveBroadcasts'
  BY <1>1, <1>2, <1>3, <1>4, <1>5, Moved
<1>7. DOMAIN meta' = Workers /\ \A v \in Workers : IsSeq(meta'[v])
  BY <1>1, <1>3, NoPiece
<1>8. DOMAIN wire' = Rollouts /\ \A w \in Rollouts : Mail(wire'[w])
  <2>1. PICK e : C!Deliver([meta |-> meta[a], last |-> e])
    BY <1>3
  <2> DEFINE x == [meta |-> meta[a], last |-> e]
  <2>2. x.meta = meta[a]
    OBVIOUS
  <2> HIDE DEF x
  <2>3. \A w \in Rollouts : Mail(wire[w]) /\ Mail(Append(wire[w], x))
    BY <1>1, <2>2, Added DEF Kept, Lists, Mail
  <2>4. wire' = [w \in Rollouts |-> IF sub[w] = "live" THEN Append(wire[w], x) ELSE wire[w]]
    BY <2>1, Same DEF C!Deliver, x
  <2> QED
    BY <2>3, <2>4
<1>9. Lists' /\ Pending'
  <2>1. op' = op /\ engine' = engine
    BY <1>3
  <2>2. \A v \in Workers : op[v].stage = "none"
    BY <1>1 DEF NoOp
  <2> QED
    BY <1>1, <1>7, <1>8, <2>1, <2>2, Cluster DEF Lists, Pending
<1> QED
  BY <1>6, <1>9 DEF Kept

\* The rollout workers of the CNCL engine.
LEMMA CnclReceives ==
  ASSUME Kept, engine = "cncl", NEW w \in Rollouts, C!Receive(w)
  PROVE  Kept'
<1> USE DEF C!job, C!filling, C!net, C!work, C!device, C!Go, C!Push
<1>1. /\ DOMAIN queue = Workers /\ DOMAIN op = Workers /\ DOMAIN meta = Workers /\ \A v \in Workers : IsSeq(meta[v])
      /\ pc \in [Workers -> Labels] /\ \A v \in Workers : "stage" \in DOMAIN op[v] /\ op[v] = NoOp
      /\ w \in Workers /\ w \notin Actors /\ w # Master /\ Master \in Workers
      /\ DOMAIN wire = Rollouts /\ Mail(wire[w])
  BY Cluster DEF Kept, Shape, Lists, Pending
<1> DEFINE xs == <<Bcast(1 - cur[w], BucketSize)>> \o Copies(w, meta[w], cur[w])
           h == Head(wire[w])
<1>2. /\ UNCHANGED <<engine, multi, op>> /\ pc[w] = "start" /\ pc' = [pc EXCEPT ![w] = "swap"] /\ wire[w] # <<>>
      /\ wire' = [wire EXCEPT ![w] = Tail(@)] /\ meta' = [meta EXCEPT ![w] = h.meta]
      /\ queue' = [queue EXCEPT ![w] = @ \o xs]
  BY DEF C!Receive, C!Bcast, Bcast, C!Copies, Copies
<1>3. IsSeq(xs)
  BY <1>1, Pieces, CopiesOf, Joined
<1>4. IsSeq(h.meta) /\ Mail(Tail(wire[w]))
  BY <1>1, <1>2, MailTail
<1> HIDE DEF xs, h
<1>5. Moves(w, "swap", xs) /\ "swap" \in Labels
  BY <1>1, <1>2 DEF Moves, Labels
<1>6. Shape' /\ Bystanders' /\ BuffersOutliveBroadcasts'
  BY <1>1, <1>3, <1>5, Moved
<1>7. DOMAIN wire' = Rollouts /\ \A v \in Rollouts : Mail(wire'[v])
  BY <1>1, <1>2, <1>4 DEF Kept, Lists
<1>8. DOMAIN meta' = Workers /\ \A v \in Workers : IsSeq(meta'[v])
  BY <1>1, <1>2, <1>4
<1>9. Lists' /\ Pending'
  <2>1. op' = op /\ engine' = engine /\ \A v \in Workers : op[v].stage = "none"
    BY <1>1, <1>2 DEF NoOp
  <2> QED
    BY <1>1, <1>7, <1>8, <2>1, Cluster DEF Lists, Pending
<1> QED
  BY <1>6, <1>9 DEF Kept

\* ... and the swap of their buffers.
LEMMA CnclSwaps ==
  ASSUME Kept, NEW w \in Rollouts, C!Swap(w) \/ C!Loaded(w)
  PROVE  Kept'
<1> USE DEF C!job, C!filling, C!net, C!work, C!device, C!Go, C!Push
<1>1. /\ DOMAIN queue = Workers /\ DOMAIN op = Workers /\ DOMAIN meta = Workers /\ IsSeq(meta[w])
      /\ pc \in [Workers -> Labels] /\ \A v \in Workers : "stage" \in DOMAIN op[v]
      /\ w \in Workers /\ w \notin Actors /\ w # Master
  BY Cluster DEF Kept, Shape, Lists
<1>2. queue[w] = <<>> /\ NoBcast(queue[w]) /\ UNCHANGED <<engine, multi, op, wire, meta>> /\ pc[w] # "wait"
  BY NoPiece DEF C!Swap, C!Loaded, C!Settled, C!Quiet
<1>3. CASE C!Loaded(w) \/ ~last[w]
  <2>1. PICK l \in {"loaded", "start"} : Moves(w, l, <<>>)
    BY <1>1, <1>2, <1>3, Unpushed DEF C!Swap, C!Loaded, Moves
  <2> QED
    BY <1>1, <1>2, <2>1, NoPiece, Walked DEF Labels
<1>4. CASE C!Swap(w) /\ last[w]
  <2> DEFINE xs == Copies(w, meta[w], 1 - cur[w])
  <2>1. Moves(w, "done", xs)
    BY <1>1, <1>2, <1>4 DEF C!Swap, C!Copies, Copies, Moves
  <2>2. IsSeq(xs) /\ NoBcast(xs)
    BY <1>1, CopiesOf
  <2> HIDE DEF xs
  <2> QED
    BY <1>1, <1>2, <2>1, <2>2, Walked DEF Labels
<1> QED
  BY <1>3, <1>4

\* Every step of the CNCL engine keeps all this.
LEMMA CnclKeeps ==
  ASSUME Kept, CnclStep
  PROVE  Kept'
BY CnclDevice, DrainsKeep, NextSyncIs, RestartsKeep, CnclJoins, CnclActors, CnclSends, CnclReceives, CnclSwaps, Same
   DEF CnclStep, C!Next

-----------------------------------------------------------------------------
(* The theorem.                                                              *)

\* The workers start with nothing queued.
LEMMA KeptAtFirst == Init => Kept
<1> SUFFICES ASSUME Init PROVE Kept
  OBVIOUS
<1>1. "stage" \in DOMAIN NoOp /\ NoOp.stage = "none"
  BY DEF NoOp
<1>2. Shape
  BY <1>1, NoPiece DEF Init, Shape, Labels, Kinds
<1>3. Lists
  BY <1>1, NoPiece, Cluster DEF Init, Lists, Mail
<1>4. Bystanders /\ Pending /\ BuffersOutliveBroadcasts
  BY <1>1, NoPiece, Cluster DEF Init, Bystanders, Pending, BuffersOutliveBroadcasts
<1> QED
  BY <1>2, <1>3, <1>4 DEF Kept

\* No buffer is freed under a broadcast: a worker whose sync has ended has
\* none queued.  XCCL's executor thread queues the sender's broadcasts behind
\* its coroutine's back, so the sender ends only once the thread is idle and
\* the device has run all; CNCL's coroutines synchronize the device.
THEOREM NoneFreed == Spec => []BuffersOutliveBroadcasts
<1>1. Kept /\ [Next]_vars => Kept'
  <2> SUFFICES ASSUME Kept, [Next]_vars PROVE Kept'
    OBVIOUS
  <2>1. CASE UNCHANGED vars
    BY <2>1, Still DEF vars, host, job, filling, net, work, device
  <2> QED
    BY <2>1, XcclKeeps, CnclKeeps DEF Next, Step, Stop
<1>2. Kept => BuffersOutliveBroadcasts
  BY DEF Kept
<1> QED
  BY <1>1, <1>2, KeptAtFirst, PTL DEF Spec

-----------------------------------------------------------------------------
(* How the chunks of a sync are laid out in buckets.                         *)

\* Induction over the numbers, stated of a set.
LEMMA NatSets ==
  ASSUME NEW S \in SUBSET Nat, 0 \in S, \A n \in S : n + 1 \in S
  PROVE  S = Nat
<1> DEFINE R == OpToRel(<, Nat)
<1>1. SUFFICES ASSUME Nat \ S # {} PROVE FALSE
  OBVIOUS
<1>2. IsWellFoundedOn(R, Nat) /\ Nat \ S \in SUBSET Nat
  BY NatLessThanWellFounded
<1>3. \A m \in Nat, n \in Nat : m < n => <<m, n>> \in R
  BY DEF OpToRel
<1> HIDE DEF R
<1>4. PICK n \in Nat \ S : \A m \in Nat \ S : ~(<<m, n>> \in R)
  BY <1>1, <1>2, WFMin
<1>5. n # 0 /\ n - 1 \in Nat
  BY <1>4
<1>6. n - 1 \in S
  <2>1. n \in Nat /\ n - 1 < n
    BY <1>5
  <2>2. <<n - 1, n>> \in R
    BY <1>3, <1>5, <2>1
  <2> QED
    BY <1>4, <1>5, <2>2
<1>7. (n - 1) + 1 \in S
  BY <1>6
<1> QED
  BY <1>4, <1>5, <1>7

\* The chunks of the syncs are numbered on.
LEMMA BeforeIs ==
  /\ Len(Loads) \in Nat \ {0} /\ Before \in [1..Len(Loads) + 1 -> Nat] /\ Before[1] = 0
  /\ \A s \in 1..Len(Loads) : /\ Loads[s] \in Seq(0..BucketSize) /\ Len(Loads[s]) \in Nat
                              /\ Before[s + 1] = Before[s] + Len(Loads[s])
<1>1. /\ Len(Loads) \in Nat \ {0}
      /\ \A s \in 1..Len(Loads) : Loads[s] \in Seq(0..BucketSize) /\ Len(Loads[s]) \in Nat
  BY LoadsAssumption
<1> DEFINE N == Len(Loads)
           Sum(f, n) == f \in [1..n + 1 -> Nat] /\ f[1] = 0 /\ \A s \in 1..n : f[s + 1] = f[s] + Len(Loads[s])
           G == {n \in Nat : n <= N => \E f : Sum(f, n)}
<1>2. 0 \in G
  <2>1. Sum([s \in 1..1 |-> 0], 0)
    OBVIOUS
  <2> QED
    BY <2>1
<1>3. \A n \in G : n + 1 \in G
  <2>1. ASSUME NEW n \in Nat, n + 1 <= N, NEW f, Sum(f, n)
        PROVE  \E h : Sum(h, n + 1)
    <3> DEFINE h == [s \in 1..n + 2 |-> IF s = n + 2 THEN f[n + 1] + Len(Loads[n + 1]) ELSE f[s]]
    <3>1. n + 1 \in 1..N /\ Len(Loads[n + 1]) \in Nat
      BY <1>1, <2>1
    <3>2. \A s \in 1..n + 1 : f[s] \in Nat
      BY <2>1
    <3>3. h \in [1..(n + 1) + 1 -> Nat] /\ h[1] = 0
      BY <2>1, <3>1, <3>2
    <3>4. \A s \in 1..n + 1 : h[s + 1] = h[s] + Len(Loads[s])
      BY <2>1
    <3> QED
      BY <3>3, <3>4
  <2> HIDE DEF Sum
  <2> QED
    BY <1>1, <2>1
<1>4. \E f : Sum(f, N)
  <2>1. G = Nat
    <3> HIDE DEF G
    <3>1. G \in SUBSET Nat
      BY DEF G
    <3> QED
      BY <1>2, <1>3, <3>1, NatSets
  <2>2. N \in G /\ N <= N
    <3> HIDE DEF G
    <3> QED
      BY <1>1, <2>1
  <2> QED
    BY <2>2
<1>5. PICK f : Sum(f, N)
  BY <1>4
<1>6. f = [s \in 1..N + 1 |-> IF s = 1 THEN 0 ELSE f[s - 1] + Len(Loads[s - 1])]
  <2>1. \A s \in 1..N + 1 : f[s] = IF s = 1 THEN 0 ELSE f[s - 1] + Len(Loads[s - 1])
    <3> SUFFICES ASSUME NEW s \in 1..N + 1, s # 1 PROVE f[s] = f[s - 1] + Len(Loads[s - 1])
      BY <1>5
    <3>1. s - 1 \in 1..N /\ (s - 1) + 1 = s
      BY <1>1
    <3>2. f[(s - 1) + 1] = f[s - 1] + Len(Loads[s - 1])
      BY <1>5, <3>1
    <3> QED
      BY <3>1, <3>2
  <2> QED
    BY <1>5, <2>1
<1>7. Before = [s \in 1..N + 1 |-> IF s = 1 THEN 0 ELSE Before[s - 1] + Len(Loads[s - 1])]
  BY <1>6 DEF Before
<1>8. \A s \in 1..N + 1 : Before[s] = IF s = 1 THEN 0 ELSE Before[s - 1] + Len(Loads[s - 1])
  BY <1>7
<1>9. \A s \in 1..N : Before[s + 1] = Before[s] + Len(Loads[s])
  <2> SUFFICES ASSUME NEW s \in 1..N PROVE Before[s + 1] = Before[s] + Len(Loads[s])
    OBVIOUS
  <2>1. s + 1 \in 1..N + 1 /\ s + 1 # 1 /\ (s + 1) - 1 = s
    BY <1>1
  <2> QED
    BY <1>8, <2>1
<1>10. Before[1] = 0
  BY <1>1, <1>8
<1> DEFINE H == {n \in Nat : n <= N => Before[n + 1] \in Nat}
<1>11. H = Nat
  <2>1. 0 \in H
    BY <1>10
  <2>2. \A n \in H : n + 1 \in H
    BY <1>1, <1>9
  <2> HIDE DEF H
  <2>3. H \in SUBSET Nat
    BY DEF H
  <2> QED
    BY <2>1, <2>2, <2>3, NatSets
<1>12. \A s \in 1..N + 1 : Before[s] \in Nat
  <2> SUFFICES ASSUME NEW s \in 1..N + 1 PROVE Before[s] \in Nat
    OBVIOUS
  <2>1. s - 1 \in Nat /\ s - 1 <= N /\ (s - 1) + 1 = s
    BY <1>1
  <2>2. s - 1 \in H
    <3> HIDE DEF H
    <3> QED
      BY <1>11, <2>1
  <2> QED
    BY <2>1, <2>2
<1> QED
  BY <1>1, <1>7, <1>9, <1>10, <1>12

\* Where an engine puts a chunk of a size behind what is in the bucket up to at.
PlaceIn(e, at, size) ==
  IF e = "xccl" THEN X!Place(at, size)
  ELSE IF at + size <= BucketSize THEN [at |-> at, flush |-> FALSE] ELSE [at |-> 0, flush |-> TRUE]

\* Rounding up to the alignment.
LEMMA RoundedUp ==
  ASSUME NEW a \in Nat
  PROVE  LET r == ((a + Align - 1) \div Align) * Align IN r \in Nat /\ r >= a /\ (a = 0 => r = 0)
<1> DEFINE q == (a + Align - 1) \div Align
<1>0. Align \in Nat /\ Align >= 1
  BY AlignAssumption
<1>1. q \in Nat /\ Align * q <= a + Align - 1 /\ a + Align - 1 < Align * (q + 1)
  BY <1>0
<1>2. a = 0 => q = 0
  BY <1>0
<1> HIDE DEF q
<1>3. Align * (q + 1) = q * Align + Align /\ q * Align \in Nat
  BY <1>0, <1>1
<1>4. q * Align >= a
  BY <1>0, <1>1, <1>3
<1>5. a = 0 => q * Align = 0
  BY <1>0, <1>2
<1> QED
  BY <1>3, <1>4, <1>5 DEF q

\* A chunk is put behind the others, inside the bucket, or at the start of the next.
LEMMA PlaceIs ==
  ASSUME NEW e, NEW at \in Nat, NEW size \in 0..BucketSize
  PROVE  LET p == PlaceIn(e, at, size) IN
         /\ p.at \in Nat /\ p.flush \in BOOLEAN /\ p.at + size <= BucketSize
         /\ IF p.flush THEN p.at = 0 ELSE p.at >= at
         /\ at = 0 => ~p.flush /\ p.at = 0
<1>1. BucketSize \in Nat
  BY LoadsAssumption
<1> DEFINE r == ((at + Align - 1) \div Align) * Align
<1>2. r \in Nat /\ r >= at /\ (at = 0 => r = 0)
  BY RoundedUp
<1>3. X!Place(at, size) = IF r + size > BucketSize THEN [at |-> 0, flush |-> TRUE] ELSE [at |-> r, flush |-> FALSE]
  BY DEF X!Place
<1> HIDE DEF r
<1>4. CASE e = "xccl"
  BY <1>1, <1>2, <1>3, <1>4 DEF PlaceIn
<1>5. CASE e # "xccl"
  BY <1>1, <1>5 DEF PlaceIn
<1> QED
  BY <1>4, <1>5

\* The layout z of the first n chunks of sync s: the bucket bk, the start at and the end of
\* each chunk, and the last chunk up of each bucket (and of none, before the first).
Layout(z, e, s, n) ==
  /\ z.bk \in [0..n -> Nat \ {0}] /\ z.at \in [0..n -> Nat] /\ z.end \in [0..n -> Nat]
  /\ z.bk[0] = 1 /\ z.end[0] = 0
  /\ \A i \in 1..n : LET p == PlaceIn(e, z.end[i - 1], Loads[s][i]) IN
       /\ z.at[i] = p.at /\ z.end[i] = p.at + Loads[s][i]
       /\ z.bk[i] = IF p.flush THEN z.bk[i - 1] + 1 ELSE z.bk[i - 1]
  /\ z.up \in [-1..z.bk[n] -> 0..n] /\ z.up[-1] = 0 /\ z.up[0] = 0 /\ z.up[z.bk[n]] = n
  /\ \A i \in 1..n, k \in 0..z.bk[n] : z.bk[i] <= k <=> i <= z.up[k]
IsPlan(z, e, s) == Layout(z, e, s, Len(Loads[s]))

\* One more chunk.
LEMMA LayoutGrows ==
  ASSUME NEW e, NEW s, NEW n \in Nat, NEW z, Layout(z, e, s, n), Loads[s][n + 1] \in 0..BucketSize
  PROVE  \E y : Layout(y, e, s, n + 1)
<1> DEFINE size == Loads[s][n + 1]
           p == PlaceIn(e, z.end[n], size)
           b == IF p.flush THEN z.bk[n] + 1 ELSE z.bk[n]
           K == z.bk[n]
           bk == [i \in 0..n + 1 |-> IF i = n + 1 THEN b ELSE z.bk[i]]
           at == [i \in 0..n + 1 |-> IF i = n + 1 THEN p.at ELSE z.at[i]]
           end == [i \in 0..n + 1 |-> IF i = n + 1 THEN p.at + size ELSE z.end[i]]
           up == [k \in -1..b |-> IF k = b THEN n + 1 ELSE z.up[k]]
           y == [bk |-> bk, at |-> at, end |-> end, up |-> up]
<1>0. /\ z.bk \in [0..n -> Nat \ {0}] /\ z.at \in [0..n -> Nat] /\ z.end \in [0..n -> Nat]
      /\ z.up \in [-1..K -> 0..n] /\ z.up[-1] = 0 /\ z.up[0] = 0 /\ z.up[K] = n
  BY DEF Layout
<1>1. size \in Nat /\ z.end[n] \in Nat /\ K \in Nat \ {0} /\ size \in 0..BucketSize
  <2>1. BucketSize \in Nat
    BY LoadsAssumption
  <2> QED
    BY <1>0, <2>1
<1>2. p.at \in Nat /\ p.flush \in BOOLEAN
  BY <1>1, PlaceIs
<1>3. b \in Nat \ {0} /\ b >= K /\ b \in {K, K + 1}
  BY <1>1, <1>2
<1> HIDE DEF p, b, K, size
<1>4. /\ bk \in [0..n + 1 -> Nat \ {0}] /\ at \in [0..n + 1 -> Nat] /\ end \in [0..n + 1 -> Nat]
      /\ bk[0] = 1 /\ end[0] = 0
  <2>1. p.at + size \in Nat
    BY <1>1, <1>2
  <2> QED
    BY <1>2, <1>3, <2>1 DEF Layout
<1>5. ASSUME NEW i \in 1..n + 1
      PROVE  LET r == PlaceIn(e, end[i - 1], Loads[s][i]) IN
             /\ at[i] = r.at /\ end[i] = r.at + Loads[s][i]
             /\ bk[i] = IF r.flush THEN bk[i - 1] + 1 ELSE bk[i - 1]
  <2>1. CASE i = n + 1
    <3>1. end[i - 1] = z.end[n] /\ bk[i - 1] = z.bk[n] /\ at[i] = p.at /\ end[i] = p.at + size /\ bk[i] = b
      BY <2>1
    <3> QED
      BY <2>1, <3>1 DEF p, b, size
  <2>2. CASE i \in 1..n
    <3>1. /\ i - 1 \in 0..n /\ end[i - 1] = z.end[i - 1] /\ bk[i - 1] = z.bk[i - 1]
          /\ at[i] = z.at[i] /\ end[i] = z.end[i] /\ bk[i] = z.bk[i]
      BY <2>2
    <3> HIDE DEF at, end, bk
    <3> QED
      BY <2>2, <3>1 DEF Layout
  <2> QED
    BY <2>1, <2>2
<1>6. up \in [-1..b -> 0..n + 1] /\ up[-1] = 0 /\ up[0] = 0 /\ up[b] = n + 1
  <2>1. \A k \in -1..b : k # b => k \in -1..K
    BY <1>1, <1>3
  <2>2. \A k \in -1..K : z.up[k] \in 0..n
    BY <1>0
  <2>3. \A k \in -1..b : (IF k = b THEN n + 1 ELSE z.up[k]) \in 0..n + 1
    BY <2>1, <2>2
  <2>4. up \in [-1..b -> 0..n + 1]
    BY <2>3
  <2> QED
    BY <1>0, <1>1, <1>3, <2>4
<1>7. ASSUME NEW i \in 1..n + 1, NEW k \in 0..b
      PROVE  bk[i] <= k <=> i <= up[k]
  <2>1. \A j \in 1..n, l \in 0..K : z.bk[j] <= l <=> j <= z.up[l]
    BY DEF Layout, K
  <2>2. z.up[K] = n /\ \A l \in 0..K : z.up[l] \in 0..n
    <3>1. \A l \in 0..K : l \in -1..K
      BY <1>1
    <3> QED
      BY <1>0, <3>1
  <2>3. \A j \in 1..n : z.bk[j] \in Nat /\ z.bk[j] <= K
    <3> SUFFICES ASSUME NEW j \in 1..n PROVE z.bk[j] \in Nat /\ z.bk[j] <= K
      OBVIOUS
    <3>1. K \in 0..K /\ j <= z.up[K]
      BY <1>1, <2>2
    <3>2. z.bk[j] \in Nat
      BY <1>0
    <3> QED
      BY <2>1, <3>1, <3>2
  <2>4. CASE i = n + 1
    <3>1. bk[i] = b
      BY <2>4
    <3>2. k # b => k \in 0..K /\ up[k] = z.up[k]
      BY <1>1, <1>3
    <3>3. k = b => up[k] = n + 1
      BY <1>3
    <3> HIDE DEF bk, up
    <3> QED
      BY <1>3, <2>2, <2>4, <3>1, <3>2, <3>3
  <2>5. CASE i \in 1..n /\ k = b
    <3>1. bk[i] = z.bk[i] /\ up[k] = n + 1
      BY <1>3, <2>5
    <3> HIDE DEF bk, up
    <3> QED
      BY <1>1, <1>3, <2>3, <2>5, <3>1
  <2>6. CASE i \in 1..n /\ k # b
    <3>1. bk[i] = z.bk[i] /\ up[k] = z.up[k] /\ k \in 0..K
      BY <1>1, <1>3, <2>6
    <3> HIDE DEF bk, up
    <3> QED
      BY <2>1, <2>6, <3>1
  <2> QED
    BY <2>4, <2>5, <2>6
<1>8. bk[n + 1] = b
  OBVIOUS
<1> HIDE DEF bk, at, end, up
<1>9. y.bk = bk /\ y.at = at /\ y.end = end /\ y.up = up
  OBVIOUS
<1> HIDE DEF y
<1>10. Layout(y, e, s, n + 1)
  BY <1>4, <1>5, <1>6, <1>7, <1>8, <1>9 DEF Layout
<1> QED
  BY <1>10

\* Every sync has a layout under every engine.
LEMMA PlanThere ==
  ASSUME NEW e, NEW s \in 1..Len(Loads)
  PROVE  \E z : IsPlan(z, e, s)
<1> DEFINE N == Len(Loads[s])
           There(n) == \E z : Layout(z, e, s, n)
           G == {n \in Nat : n <= N => There(n)}
<1>1. N \in Nat /\ \A i \in 1..N : Loads[s][i] \in 0..BucketSize
  <2>1. Loads[s] \in Seq(0..BucketSize)
    BY BeforeIs
  <2>2. \A S : \A q \in Seq(S) : Len(q) \in Nat /\ \A i \in 1..Len(q) : q[i] \in S
    OBVIOUS
  <2> QED
    BY <2>1, <2>2
<1>2. There(0)
  <2> DEFINE z == [bk |-> [i \in 0..0 |-> 1], at |-> [i \in 0..0 |-> 0], end |-> [i \in 0..0 |-> 0],
                   up |-> [k \in -1..1 |-> 0]]
  <2>1. /\ z.bk = [i \in 0..0 |-> 1] /\ z.at = [i \in 0..0 |-> 0] /\ z.end = [i \in 0..0 |-> 0]
        /\ z.up = [k \in -1..1 |-> 0]
    OBVIOUS
  <2> HIDE DEF z
  <2>2. /\ z.bk \in [0..0 -> Nat \ {0}] /\ z.at \in [0..0 -> Nat] /\ z.end \in [0..0 -> Nat]
        /\ z.bk[0] = 1 /\ z.end[0] = 0
        /\ z.up \in [-1..z.bk[0] -> 0..0] /\ z.up[-1] = 0 /\ z.up[0] = 0 /\ z.up[z.bk[0]] = 0
    BY <2>1
  <2>3. Layout(z, e, s, 0)
    BY <2>2 DEF Layout
  <2> QED
    BY <2>3
<1>3. \A n \in Nat : n + 1 <= N /\ There(n) => There(n + 1)
  BY <1>1, LayoutGrows
<1> HIDE DEF There
<1>4. G = Nat
  <2>1. 0 \in G /\ \A n \in G : n + 1 \in G
    BY <1>1, <1>2, <1>3
  <2> HIDE DEF G
  <2>2. G \in SUBSET Nat
    BY DEF G
  <2> QED
    BY <2>1, <2>2, NatSets
<1>5. There(N)
  <2>1. N \in G /\ N <= N
    <3> HIDE DEF G
    <3> QED
      BY <1>1, <1>4
  <2> QED
    BY <2>1
<1> QED
  BY <1>5 DEF There, IsPlan

\* What a layout is like: the chunks of a bucket follow one another, and do not overlap.
Neat(z, n) ==
  /\ n \in Nat /\ z.bk[n] \in Nat \ {0}
  /\ \A i \in 0..n : z.bk[i] \in 1..z.bk[n] /\ z.at[i] \in Nat /\ z.end[i] \in 0..BucketSize
  /\ \A k \in -1..z.bk[n] : z.up[k] \in 0..n
  /\ z.bk[0] = 1 /\ z.end[0] = 0 /\ z.up[-1] = 0 /\ z.up[0] = 0 /\ z.up[z.bk[n]] = n
  /\ \A i \in 0..n, j \in 0..n : i <= j => z.bk[i] <= z.bk[j] /\ (z.bk[i] = z.bk[j] => z.end[i] <= z.end[j])
  /\ \A i \in 1..n, j \in 1..n : i < j /\ z.bk[i] = z.bk[j] => z.end[i] <= z.at[j]
  /\ \A i \in 1..n, k \in 1..z.bk[n] : z.bk[i] = k <=> z.up[k - 1] < i /\ i <= z.up[k]
  /\ \A i \in 1..n, k \in 0..z.bk[n] : z.bk[i] <= k <=> i <= z.up[k]
  /\ \A k \in 0..z.bk[n] : z.up[k - 1] <= z.up[k]
  /\ \A i \in 1..n : \/ z.bk[i] = z.bk[i - 1] /\ z.up[z.bk[i - 1]] >= i
                     \/ z.bk[i] = z.bk[i - 1] + 1 /\ z.up[z.bk[i - 1]] = i - 1 /\ z.at[i] = 0

\* Layouts are.
LEMMA PlanIsNeat ==
  ASSUME NEW e, NEW s \in 1..Len(Loads), NEW z, IsPlan(z, e, s)
  PROVE  /\ Neat(z, Len(Loads[s]))
         /\ \A i \in 1..Len(Loads[s]) : Loads[s][i] \in 0..BucketSize /\ z.end[i] = z.at[i] + Loads[s][i]
<1> DEFINE n == Len(Loads[s])   K == z.bk[n]
<1>1. n \in Nat /\ \A i \in 1..n : Loads[s][i] \in 0..BucketSize
  <2>1. Loads[s] \in Seq(0..BucketSize) /\ Len(Loads[s]) \in Nat
    BY BeforeIs
  <2>2. \A S : \A q \in Seq(S) : \A i \in 1..Len(q) : q[i] \in S
    OBVIOUS
  <2> QED
    BY <2>1, <2>2
<1>2. /\ z.bk \in [0..n -> Nat \ {0}] /\ z.at \in [0..n -> Nat] /\ z.end \in [0..n -> Nat]
      /\ z.bk[0] = 1 /\ z.end[0] = 0
      /\ z.up \in [-1..K -> 0..n] /\ z.up[-1] = 0 /\ z.up[0] = 0 /\ z.up[K] = n
  BY DEF IsPlan, Layout
<1>16. \A i \in 0..n : z.bk[i] \in Nat /\ z.bk[i] >= 1 /\ z.at[i] \in Nat /\ z.end[i] \in Nat
  <2>1. z.bk \in [0..n -> Nat \ {0}] /\ z.at \in [0..n -> Nat] /\ z.end \in [0..n -> Nat]
    BY <1>2
  <2>2. \A i \in Nat \ {0} : i \in Nat /\ i >= 1
    OBVIOUS
  <2>3. \A f, S : f \in [0..n -> S] => \A i \in 0..n : f[i] \in S
    OBVIOUS
  <2>4. \A i \in 0..n : z.bk[i] \in Nat \ {0} /\ z.at[i] \in Nat /\ z.end[i] \in Nat
    BY ONLY <2>1, <2>3
  <2> QED
    BY ONLY <2>2, <2>4
<1>17. \A i \in 1..n : i \in 0..n /\ i - 1 \in 0..n /\ Loads[s][i] \in Nat
  <2>1. BucketSize \in Nat
    BY LoadsAssumption
  <2> QED
    BY <1>1, <2>1
<1>3. \A i \in 1..n, k \in 0..K : z.bk[i] <= k <=> i <= z.up[k]
  BY DEF IsPlan, Layout
<1>4. ASSUME NEW i \in 1..n
      PROVE  /\ z.end[i] = z.at[i] + Loads[s][i] /\ z.end[i] <= BucketSize
             /\ \/ z.bk[i] = z.bk[i - 1] /\ z.at[i] >= z.end[i - 1]
                \/ z.bk[i] = z.bk[i - 1] + 1 /\ z.at[i] = 0
  <2> DEFINE p == PlaceIn(e, z.end[i - 1], Loads[s][i])
  <2>1. /\ z.at[i] = p.at /\ z.end[i] = p.at + Loads[s][i]
        /\ z.bk[i] = IF p.flush THEN z.bk[i - 1] + 1 ELSE z.bk[i - 1]
    BY DEF IsPlan, Layout
  <2>2. z.end[i - 1] \in Nat
    BY <1>16, <1>17
  <2>3. p.flush \in BOOLEAN /\ p.at + Loads[s][i] <= BucketSize /\ IF p.flush THEN p.at = 0 ELSE p.at >= z.end[i - 1]
    BY <1>1, <2>2, PlaceIs
  <2> HIDE DEF p
  <2> QED
    BY <2>1, <2>3
<1>5. K \in Nat \ {0} /\ K >= 1
  BY <1>1, <1>2
<1>6. \A i \in 0..n : z.bk[i] \in 1..K
  <2> SUFFICES ASSUME NEW i \in 1..n PROVE z.bk[i] \in 1..K
    BY <1>2, <1>5
  <2>1. K \in 0..K /\ z.up[K] = n /\ i <= n
    BY <1>1, <1>2, <1>5
  <2>2. z.bk[i] <= K
    BY <1>3, <2>1
  <2> QED
    BY <1>5, <1>16, <1>17, <2>2
<1>7. \A k \in -1..K : z.up[k] \in 0..n
  BY <1>2
<1>8. \A i \in 0..n, j \in 0..n : i <= j => z.bk[i] <= z.bk[j]
  <2> SUFFICES ASSUME NEW i \in 1..n, NEW j \in 1..n, i <= j PROVE z.bk[i] <= z.bk[j]
    BY <1>1, <1>2, <1>6
  <2> DEFINE k == z.bk[j]
  <2>1. k \in 0..K /\ k <= k
    BY <1>6
  <2>2. z.up[k] \in 0..n
    BY <1>5, <1>7, <2>1
  <2>3. j <= z.up[k]
    BY <1>3, <2>1
  <2>4. i <= z.up[k]
    BY <2>2, <2>3
  <2> QED
    BY <1>3, <2>1, <2>4
<1>9. \A i \in 0..n, j \in 0..n : i <= j /\ z.bk[i] = z.bk[j] => z.end[i] <= z.end[j]
  <2> DEFINE T == {d \in Nat : \A i \in 0..n : i + d \in 0..n /\ z.bk[i] = z.bk[i + d] => z.end[i] <= z.end[i + d]}
  <2>1. 0 \in T
    BY <1>2
  <2>2. ASSUME NEW d \in Nat, d \in T, NEW i \in 0..n, i + (d + 1) \in 0..n, z.bk[i] = z.bk[i + (d + 1)]
        PROVE  z.end[i] <= z.end[i + (d + 1)]
    <3> DEFINE j == i + (d + 1)
    <3>1. j \in 1..n /\ j - 1 = i + d /\ i + d \in 0..n /\ i <= i + d /\ i + d <= j
      BY <1>1, <2>2
    <3>2. z.bk[i] <= z.bk[i + d] /\ z.bk[i + d] <= z.bk[j] /\ z.bk[i] = z.bk[j]
      BY <1>8, <2>2, <3>1
    <3>3. z.bk[i + d] = z.bk[i] /\ z.bk[i] \in Nat
      BY <1>6, <2>2, <3>1, <3>2
    <3>4. z.end[i] <= z.end[i + d]
      BY <2>2, <3>1, <3>3
    <3>5. z.end[j] = z.at[j] + Loads[s][j] /\ z.at[j] >= z.end[j - 1]
      BY <1>4, <3>1, <3>2, <3>3
    <3>6. z.end[i] \in Nat /\ z.end[i + d] \in Nat /\ z.at[j] \in Nat /\ Loads[s][j] \in Nat /\ j \in 0..n
      BY <1>16, <1>17, <3>1
    <3> HIDE DEF j
    <3>7. z.end[i] <= z.end[j]
      <4>1. z.end[i] <= z.end[j - 1]
        BY <3>1, <3>4
      <4>2. z.end[j - 1] \in Nat
        BY <3>1, <3>6
      <4>3. z.end[j - 1] <= z.at[j] /\ z.end[j] = z.at[j] + Loads[s][j]
        BY <3>5, <3>6, <4>2
      <4>4. \A a, b, c, x, y \in Nat : a <= b /\ b <= c /\ y = c + x => a <= y
        OBVIOUS
      <4>5. z.end[j] \in Nat
        BY <3>6, <1>16
      <4> QED
        BY <3>6, <4>1, <4>2, <4>3, <4>4, <4>5
    <3> QED
      BY <3>7 DEF j
  <2>3. \A d \in T : d + 1 \in T
    <3> SUFFICES ASSUME NEW d \in T PROVE d + 1 \in T
      OBVIOUS
    <3>1. d \in Nat /\ d + 1 \in Nat
      OBVIOUS
    <3>2. \A i \in 0..n : i + (d + 1) \in 0..n /\ z.bk[i] = z.bk[i + (d + 1)] => z.end[i] <= z.end[i + (d + 1)]
      BY <2>2, <3>1
    <3> QED
      BY <3>1, <3>2
  <2>4. T = Nat
    <3> HIDE DEF T
    <3>1. T \in SUBSET Nat
      BY DEF T
    <3> QED
      BY <2>1, <2>3, <3>1, NatSets
  <2> SUFFICES ASSUME NEW i \in 0..n, NEW j \in 0..n, i <= j, z.bk[i] = z.bk[j] PROVE z.end[i] <= z.end[j]
    OBVIOUS
  <2>5. j - i \in Nat /\ i + (j - i) = j
    BY <1>1
  <2>6. j - i \in T
    <3> HIDE DEF T
    <3> QED
      BY <2>4, <2>5
  <2> QED
    BY <2>5, <2>6
<1>10. \A i \in 1..n, j \in 1..n : i < j /\ z.bk[i] = z.bk[j] => z.end[i] <= z.at[j]
  <2> SUFFICES ASSUME NEW i \in 1..n, NEW j \in 1..n, i < j, z.bk[i] = z.bk[j] PROVE z.end[i] <= z.at[j]
    OBVIOUS
  <2>1. j - 1 \in 0..n /\ i <= j - 1 /\ j - 1 <= j /\ i \in 0..n /\ j \in 0..n
    BY <1>1
  <2>2. z.bk[i] <= z.bk[j - 1] /\ z.bk[j - 1] <= z.bk[j]
    BY <1>8, <2>1
  <2>3. z.bk[j - 1] = z.bk[j] /\ z.bk[j] \in Nat
    BY <1>6, <2>1, <2>2
  <2>4. z.end[i] <= z.end[j - 1]
    BY <1>9, <2>1, <2>3
  <2>5. z.at[j] >= z.end[j - 1]
    BY <1>4, <2>3
  <2>6. z.end[i] \in Nat /\ z.end[j - 1] \in Nat /\ z.at[j] \in Nat
    BY <1>2, <2>1
  <2> QED
    BY <2>4, <2>5, <2>6
<1>11. \A i \in 1..n, k \in 1..K : z.bk[i] = k <=> z.up[k - 1] < i /\ i <= z.up[k]
  <2> SUFFICES ASSUME NEW i \in 1..n, NEW k \in 1..K PROVE z.bk[i] = k <=> z.up[k - 1] < i /\ i <= z.up[k]
    OBVIOUS
  <2>1. k \in 0..K /\ k - 1 \in 0..K /\ k \in -1..K /\ k - 1 \in -1..K
    BY <1>5
  <2>2. z.up[k] \in Nat /\ z.up[k - 1] \in Nat /\ z.bk[i] \in Nat
    BY <1>1, <1>6, <1>7, <2>1
  <2>3. (z.bk[i] <= k <=> i <= z.up[k]) /\ (z.bk[i] <= k - 1 <=> i <= z.up[k - 1])
    BY <1>3, <2>1
  <2> QED
    BY <1>1, <2>2, <2>3
<1>12. \A k \in 0..K : z.up[k - 1] <= z.up[k]
  <2> SUFFICES ASSUME NEW k \in 1..K PROVE z.up[k - 1] <= z.up[k]
    <3>1. z.up[0 - 1] <= z.up[0]
      BY <1>2
    <3> QED
      BY <1>5, <3>1
  <2>1. k \in 0..K /\ k - 1 \in 0..K /\ k \in -1..K /\ k - 1 \in -1..K
    BY <1>5
  <2>2. z.up[k] \in 0..n /\ z.up[k - 1] \in 0..n
    BY <1>7, <2>1
  <2>3. CASE z.up[k - 1] = 0
    BY <2>2, <2>3
  <2>4. CASE z.up[k - 1] \in 1..n
    <3> DEFINE i == z.up[k - 1]
    <3>1. z.bk[i] <= k - 1
      BY <1>3, <2>1, <2>4
    <3>2. z.bk[i] <= k /\ z.bk[i] \in Nat
      BY <1>1, <1>6, <2>4, <3>1
    <3> QED
      BY <1>3, <2>1, <2>4, <3>2
  <2> QED
    BY <2>2, <2>3, <2>4
<1>13. ASSUME NEW i \in 1..n
       PROVE  \/ z.bk[i] = z.bk[i - 1] /\ z.up[z.bk[i - 1]] >= i
              \/ z.bk[i] = z.bk[i - 1] + 1 /\ z.up[z.bk[i - 1]] = i - 1 /\ z.at[i] = 0
  <2> DEFINE b == z.bk[i - 1]
  <2>1. i - 1 \in 0..n /\ b \in 0..K /\ b \in 1..K /\ z.bk[i] \in Nat
    BY <1>1, <1>5, <1>6
  <2>2. z.up[b] \in 0..n
    BY <1>5, <1>7, <2>1
  <2>3. z.bk[i] <= b <=> i <= z.up[b]
    BY <1>3, <2>1
  <2>4. CASE z.bk[i] = b
    BY <2>1, <2>2, <2>3, <2>4
  <2>5. CASE z.bk[i] = b + 1 /\ z.at[i] = 0
    <3>1. ~(i <= z.up[b])
      BY <2>1, <2>3, <2>5
    <3>2. i # 1
      <4>1. i = 1 => z.at[1] >= z.end[0] /\ z.bk[1] = z.bk[0]
        <5>1. i = 1 => PlaceIn(e, 0, Loads[s][1]).flush = FALSE /\ Loads[s][1] \in 0..BucketSize
          BY <1>1, PlaceIs
        <5>2. i = 1 => z.bk[1] = IF PlaceIn(e, z.end[0], Loads[s][1]).flush THEN z.bk[0] + 1 ELSE z.bk[0]
          <6>1. \A j \in 1..n : z.bk[j] = IF PlaceIn(e, z.end[j - 1], Loads[s][j]).flush THEN z.bk[j - 1] + 1 ELSE z.bk[j - 1]
            BY DEF IsPlan, Layout
          <6> QED
            BY <6>1
        <5> QED
          BY <1>2, <1>4, <5>1, <5>2
      <4> QED
        BY <1>2, <2>5, <4>1
    <3>3. i - 1 \in 1..n /\ z.bk[i - 1] <= b
      BY <2>1, <3>2
    <3>4. i - 1 <= z.up[b]
      BY <1>3, <2>1, <3>3
    <3> QED
      BY <2>2, <2>5, <3>1, <3>4
  <2> QED
    BY <1>4, <2>4, <2>5
<1>14. \A i \in 0..n : z.at[i] \in Nat /\ z.end[i] \in 0..BucketSize
  <2>1. BucketSize \in Nat
    BY LoadsAssumption
  <2>2. \A i \in 0..n : i = 0 \/ i \in 1..n
    BY <1>1
  <2>3. \A i \in 0..n : z.end[i] <= BucketSize
    BY <1>2, <1>4, <2>1, <2>2
  <2> QED
    BY <1>16, <2>1, <2>3
<1>15. Neat(z, n)
  <2> HIDE DEF n
  <2> QED
    BY <1>1, <1>2, <1>3, <1>5, <1>6, <1>7, <1>8, <1>9, <1>10, <1>11, <1>12, <1>13, <1>14 DEF Neat
<1> QED
  BY <1>1, <1>4, <1>15

-----------------------------------------------------------------------------
(* Where the broadcasts, or the fills, are in a queue.                       *)

\* What a queue is after a piece was added, and after one was taken out.
LEMMA Pushed ==
  ASSUME NEW q, IsSeq(q), NEW x
  PROVE  /\ IsSeq(q \o <<x>>) /\ Len(q) \in Nat /\ Len(q \o <<x>>) = Len(q) + 1 /\ DOMAIN q = 1..Len(q)
         /\ DOMAIN (q \o <<x>>) = 1..Len(q) + 1
         /\ (q \o <<x>>)[Len(q) + 1] = x /\ \A j \in 1..Len(q) : (q \o <<x>>)[j] = q[j]
<1> DEFINE S == ToSet(q) \cup {x}
<1>1. q \in Seq(S) /\ <<x>> \in Seq(S)
  BY DEF IsSeq
<1>2. IsSeq(q \o <<x>>)
  BY Joined, OnePiece
<1> HIDE DEF S
<1> QED
  BY <1>1, <1>2

\* What a queue is after the piece at i was taken out.
LEMMA Removed ==
  ASSUME NEW q, IsSeq(q), NEW i \in DOMAIN q
  PROVE  LET r == RemoveAt(q, i) IN
         /\ IsSeq(r) /\ Len(q) \in Nat /\ DOMAIN q = 1..Len(q) /\ Len(r) = Len(q) - 1 /\ DOMAIN r = 1..Len(q) - 1
         /\ \A j \in 1..Len(q) - 1 : r[j] = IF j < i THEN q[j] ELSE q[j + 1]
<1> DEFINE S == ToSet(q)   a == SubSeq(q, 1, i - 1)   b == SubSeq(q, i + 1, Len(q))
<1>1. q \in Seq(S) /\ Len(q) \in Nat /\ DOMAIN q = 1..Len(q) /\ i \in 1..Len(q)
  BY DEF IsSeq
<1> HIDE DEF S
<1>2. \A m, n \in Int : 1 <= m /\ n <= Len(q) /\ m <= n + 1 =>
        /\ SubSeq(q, m, n) \in Seq(S) /\ Len(SubSeq(q, m, n)) = n - m + 1
        /\ \A j \in 1..n - m + 1 : SubSeq(q, m, n)[j] = q[m + j - 1]
  BY <1>1
<1>3. a \in Seq(S) /\ Len(a) = i - 1 /\ \A j \in 1..i - 1 : a[j] = q[j]
  <2>1. 1 \in Int /\ i - 1 \in Int /\ 1 <= 1 /\ i - 1 <= Len(q) /\ 1 <= (i - 1) + 1
    BY <1>1
  <2>2. a \in Seq(S) /\ Len(a) = (i - 1) - 1 + 1 /\ \A j \in 1..(i - 1) - 1 + 1 : a[j] = q[1 + j - 1]
    BY <1>2, <2>1
  <2>3. (i - 1) - 1 + 1 = i - 1 /\ \A j \in 1..i - 1 : 1 + j - 1 = j
    BY <1>1
  <2> QED
    BY <2>2, <2>3
<1>4. b \in Seq(S) /\ Len(b) = Len(q) - i /\ \A j \in 1..Len(q) - i : b[j] = q[i + j]
  <2>1. i + 1 \in Int /\ Len(q) \in Int /\ 1 <= i + 1 /\ Len(q) <= Len(q) /\ i + 1 <= Len(q) + 1
    BY <1>1
  <2>2. b \in Seq(S) /\ Len(b) = Len(q) - (i + 1) + 1 /\ \A j \in 1..Len(q) - (i + 1) + 1 : b[j] = q[i + 1 + j - 1]
    BY <1>2, <2>1
  <2>3. Len(q) - (i + 1) + 1 = Len(q) - i /\ \A j \in 1..Len(q) - i : i + 1 + j - 1 = i + j
    BY <1>1
  <2> QED
    BY <2>2, <2>3
<1> HIDE DEF a, b
<1>5. /\ Len(a \o b) = Len(q) - 1 /\ DOMAIN (a \o b) = 1..Len(q) - 1
      /\ \A j \in 1..Len(q) - 1 : (a \o b)[j] = IF j <= Len(a) THEN a[j] ELSE b[j - Len(a)]
  <2>1. \A T : \A u, v \in Seq(T) : /\ Len(u \o v) = Len(u) + Len(v) /\ DOMAIN (u \o v) = 1..Len(u) + Len(v)
                                   /\ \A j \in 1..Len(u) + Len(v) : (u \o v)[j] = IF j <= Len(u) THEN u[j] ELSE v[j - Len(u)]
    OBVIOUS
  <2>2. Len(a) + Len(b) = Len(q) - 1
    BY <1>1, <1>3, <1>4
  <2>3. a \in Seq(S) /\ b \in Seq(S)
    BY <1>3, <1>4
  <2>4. /\ Len(a \o b) = Len(a) + Len(b) /\ DOMAIN (a \o b) = 1..Len(a) + Len(b)
        /\ \A j \in 1..Len(a) + Len(b) : (a \o b)[j] = IF j <= Len(a) THEN a[j] ELSE b[j - Len(a)]
    BY <2>1, <2>3
  <2> QED
    BY <2>2, <2>4
<1>6. \A j \in 1..Len(q) - 1 : (a \o b)[j] = IF j < i THEN q[j] ELSE q[j + 1]
  <2> SUFFICES ASSUME NEW j \in 1..Len(q) - 1 PROVE (a \o b)[j] = IF j < i THEN q[j] ELSE q[j + 1]
    OBVIOUS
  <2>0. (a \o b)[j] = IF j <= i - 1 THEN a[j] ELSE b[j - (i - 1)]
    BY <1>3, <1>5
  <2>1. CASE j < i
    <3>1. j \in 1..i - 1 /\ j <= i - 1
      BY <1>1, <2>1
    <3> QED
      BY <1>3, <2>0, <2>1, <3>1
  <2>2. CASE j >= i
    <3>1. j - (i - 1) \in 1..Len(q) - i /\ i + (j - (i - 1)) = j + 1
      BY <1>1, <2>2
    <3>2. b[j - (i - 1)] = q[j + 1]
      BY <1>4, <3>1
    <3>3. ~(j <= i - 1) /\ ~(j < i)
      BY <1>1, <2>2
    <3> QED
      BY <2>0, <3>2, <3>3
  <2>3. j < i \/ j >= i
    BY <1>1
  <2> QED
    BY <2>1, <2>2, <2>3
<1>7. RemoveAt(q, i) = a \o b
  BY DEF RemoveAt, a, b
<1> QED
  BY <1>1, <1>5, <1>6, <1>7, TakenOut

\* The head is the first piece.
LEMMA TailOut ==
  ASSUME NEW q, IsSeq(q), q # <<>>
  PROVE  1 \in DOMAIN q /\ Tail(q) = RemoveAt(q, 1)
<1> DEFINE S == ToSet(q)
<1>1. q \in Seq(S)
  BY DEF IsSeq
<1> HIDE DEF S
<1>2. 1 \in DOMAIN q /\ Tail(q) \in Seq(S) /\ Len(Tail(q)) = Len(q) - 1 /\ \A j \in 1..Len(q) - 1 : Tail(q)[j] = q[j + 1]
  BY <1>1
<1> DEFINE r == RemoveAt(q, 1)
<1>3. IsSeq(r) /\ Len(q) \in Nat /\ Len(r) = Len(q) - 1 /\ \A j \in 1..Len(q) - 1 : r[j] = IF j < 1 THEN q[j] ELSE q[j + 1]
  BY <1>2, Removed
<1> HIDE DEF r
<1>4. \A j \in 1..Len(q) - 1 : r[j] = Tail(q)[j]
  BY <1>2, <1>3
<1>5. r \in Seq(ToSet(r) \cup S) /\ Tail(q) \in Seq(ToSet(r) \cup S)
  BY <1>2, <1>3 DEF IsSeq
<1>6. \A T : \A u, v \in Seq(T) : Len(u) = Len(v) /\ (\A j \in 1..Len(u) : u[j] = v[j]) => u = v
  OBVIOUS
<1>7. r = Tail(q)
  BY <1>2, <1>3, <1>4, <1>5, <1>6
<1> QED
  BY <1>2, <1>7 DEF r

\* The pieces of kind d in q are number lo + 1 to hi of their kind; pos says where.
Marks(q, d, lo, hi, pos) ==
  /\ lo \in Nat /\ hi \in Nat /\ lo <= hi
  /\ pos \in [lo + 1..hi -> DOMAIN q]
  /\ \A k \in lo + 1..hi : q[pos[k]].do = d
  /\ \A j \in DOMAIN q : q[j].do = d => \E k \in lo + 1..hi : pos[k] = j
  /\ \A k \in lo + 1..hi, l \in lo + 1..hi : k < l => pos[k] < pos[l]
Fell(pos, i, k) == IF pos[k] > i THEN pos[k] - 1 ELSE pos[k]
Shifted(pos, i, lo, hi) == [k \in lo + 1..hi |-> Fell(pos, i, k)]
Extended(pos, lo, hi, j) == [k \in lo + 1..hi + 1 |-> IF k = hi + 1 THEN j ELSE pos[k]]

\* No piece is marked in an empty queue; none of another kind changes the marks.
LEMMA MarksPush ==
  ASSUME NEW q, IsSeq(q), NEW d, NEW lo, NEW hi, NEW pos, Marks(q, d, lo, hi, pos), NEW x
  PROVE  /\ x.do # d => Marks(q \o <<x>>, d, lo, hi, pos)
         /\ x.do = d => Marks(q \o <<x>>, d, lo, hi + 1, Extended(pos, lo, hi, Len(q) + 1))
<1> DEFINE r == q \o <<x>>   e == Extended(pos, lo, hi, Len(q) + 1)
<1>1. /\ Len(q) \in Nat /\ DOMAIN q = 1..Len(q) /\ DOMAIN r = 1..Len(q) + 1
      /\ r[Len(q) + 1] = x /\ \A j \in 1..Len(q) : r[j] = q[j]
  BY Pushed
<1> HIDE DEF r
<1>2. /\ lo \in Nat /\ hi \in Nat /\ lo <= hi /\ \A k \in lo + 1..hi : pos[k] \in 1..Len(q) /\ q[pos[k]].do = d
      /\ pos \in [lo + 1..hi -> 1..Len(q)]
  BY <1>1 DEF Marks
<1>3. ASSUME x.do # d PROVE Marks(r, d, lo, hi, pos)
  <2>1. pos \in [lo + 1..hi -> DOMAIN r] /\ \A k \in lo + 1..hi : r[pos[k]].do = d
    BY <1>1, <1>2
  <2>2. ASSUME NEW j \in DOMAIN r, r[j].do = d PROVE \E k \in lo + 1..hi : pos[k] = j
    BY <1>1, <1>3, <2>2 DEF Marks
  <2> QED
    BY <1>2, <2>1, <2>2 DEF Marks
<1>4. ASSUME x.do = d PROVE Marks(r, d, lo, hi + 1, e)
  <2>1. e[hi + 1] = Len(q) + 1 /\ \A k \in lo + 1..hi : e[k] = pos[k] /\ e[k] \in 1..Len(q)
    BY <1>2 DEF Extended
  <2>2. e \in [lo + 1..hi + 1 -> DOMAIN r]
    BY <1>1, <1>2 DEF Extended
  <2> HIDE DEF e
  <2>3. \A k \in lo + 1..hi + 1 : k = hi + 1 \/ k \in lo + 1..hi
    BY <1>2
  <2>4. \A k \in lo + 1..hi + 1 : r[e[k]].do = d
    BY <1>1, <1>2, <1>4, <2>1, <2>3
  <2>5. ASSUME NEW j \in DOMAIN r, r[j].do = d PROVE \E k \in lo + 1..hi + 1 : e[k] = j
    <3>1. CASE j = Len(q) + 1
      BY <1>2, <2>1, <3>1
    <3>2. CASE j \in 1..Len(q)
      <4>1. PICK k \in lo + 1..hi : pos[k] = j
        BY <1>1, <2>5, <3>2 DEF Marks
      <4> QED
        BY <1>2, <2>1, <4>1
    <3> QED
      BY <1>1, <3>1, <3>2
  <2>6. \A k \in lo + 1..hi + 1, l \in lo + 1..hi + 1 : k < l => e[k] < e[l]
    <3> SUFFICES ASSUME NEW k \in lo + 1..hi + 1, NEW l \in lo + 1..hi + 1, k < l PROVE e[k] < e[l]
      OBVIOUS
    <3>1. k \in lo + 1..hi
      BY <1>2
    <3>2. CASE l = hi + 1
      BY <1>1, <2>1, <3>1, <3>2
    <3>3. CASE l \in lo + 1..hi
      BY <2>1, <3>1, <3>3 DEF Marks
    <3> QED
      BY <2>3, <3>2, <3>3
  <2> QED
    BY <1>2, <2>2, <2>4, <2>5, <2>6 DEF Marks
<1> QED
  BY <1>3, <1>4 DEF r

\* The first of its kind is the one of the lowest number.
LEMMA MarksFirst ==
  ASSUME NEW q, IsSeq(q), NEW d, NEW lo, NEW hi, NEW pos, Marks(q, d, lo, hi, pos), NEW i \in DOMAIN q, q[i].do = d,
         \A j \in 1..i - 1 : q[j].do # d
  PROVE  lo + 1 \in lo + 1..hi /\ pos[lo + 1] = i
<1>1. /\ lo \in Nat /\ hi \in Nat /\ lo <= hi /\ Len(q) \in Nat /\ DOMAIN q = 1..Len(q)
      /\ \A k \in lo + 1..hi : pos[k] \in 1..Len(q) /\ q[pos[k]].do = d
  BY DEF Marks, IsSeq
<1>2. PICK k \in lo + 1..hi : pos[k] = i
  BY DEF Marks
<1>3. lo + 1 \in lo + 1..hi
  BY <1>1, <1>2
<1>4. k = lo + 1
  <2> SUFFICES ASSUME k # lo + 1 PROVE FALSE
    OBVIOUS
  <2>1. lo + 1 < k
    BY <1>1, <1>2
  <2>2. pos[lo + 1] < i
    BY <1>2, <1>3, <2>1 DEF Marks
  <2>3. pos[lo + 1] \in 1..i - 1
    BY <1>1, <1>3, <2>2
  <2> QED
    BY <1>1, <1>3, <2>3
<1> QED
  BY <1>2, <1>3, <1>4

\* Taking out a piece of another kind, or the first of the kind.
LEMMA MarksRemove ==
  ASSUME NEW q, IsSeq(q), NEW d, NEW lo, NEW hi, NEW pos, Marks(q, d, lo, hi, pos), NEW i \in DOMAIN q
  PROVE  LET r == RemoveAt(q, i) IN
         /\ \A k \in lo + 1..hi : pos[k] # i =>
              Fell(pos, i, k) \in DOMAIN r /\ r[Fell(pos, i, k)] = q[pos[k]]
         /\ q[i].do # d => Marks(r, d, lo, hi, Shifted(pos, i, lo, hi))
         /\ (q[i].do = d /\ \A j \in 1..i - 1 : q[j].do # d) => Marks(r, d, lo + 1, hi, Shifted(pos, i, lo + 1, hi))
<1> DEFINE r == RemoveAt(q, i)
<1>1. /\ Len(q) \in Nat /\ DOMAIN q = 1..Len(q) /\ DOMAIN r = 1..Len(q) - 1 /\ i \in 1..Len(q)
      /\ \A j \in 1..Len(q) - 1 : r[j] = IF j < i THEN q[j] ELSE q[j + 1]
  BY Removed
<1> HIDE DEF r
<1>2. /\ lo \in Nat /\ hi \in Nat /\ lo <= hi /\ \A k \in lo + 1..hi : pos[k] \in 1..Len(q) /\ q[pos[k]].do = d
  BY <1>1 DEF Marks
<1>3. ASSUME NEW k \in lo + 1..hi, pos[k] # i
      PROVE  Fell(pos, i, k) \in DOMAIN r /\ r[Fell(pos, i, k)] = q[pos[k]]
  <2>1. pos[k] \in 1..Len(q)
    BY <1>2
  <2>2. CASE pos[k] > i
    <3>1. Fell(pos, i, k) = pos[k] - 1 /\ pos[k] - 1 \in 1..Len(q) - 1 /\ ~(pos[k] - 1 < i) /\ (pos[k] - 1) + 1 = pos[k]
      BY <1>1, <2>1, <2>2 DEF Fell
    <3> QED
      BY <1>1, <3>1
  <2>3. CASE pos[k] < i
    <3>1. Fell(pos, i, k) = pos[k] /\ pos[k] \in 1..Len(q) - 1
      BY <1>1, <2>1, <2>3 DEF Fell
    <3> QED
      BY <1>1, <2>3, <3>1
  <2> QED
    BY <1>1, <1>3, <2>1, <2>2, <2>3
<1>4. ASSUME NEW a \in lo..lo + 1, a <= hi, \A k \in a + 1..hi : pos[k] # i,
             \A j \in DOMAIN q : q[j].do = d /\ j # i => \E k \in a + 1..hi : pos[k] = j
      PROVE  Marks(r, d, a, hi, Shifted(pos, i, a, hi))
  <2> DEFINE s == Shifted(pos, i, a, hi)
  <2>1. a \in Nat /\ \A k \in a + 1..hi : k \in lo + 1..hi /\ s[k] = Fell(pos, i, k)
    BY <1>2 DEF Shifted
  <2>2. \A k \in a + 1..hi : s[k] \in DOMAIN r /\ r[s[k]].do = d
    BY <1>2, <1>3, <1>4, <2>1
  <2>3. s \in [a + 1..hi -> DOMAIN r]
    BY <2>2 DEF Shifted
  <2> HIDE DEF s
  <2>4. ASSUME NEW j \in DOMAIN r, r[j].do = d PROVE \E k \in a + 1..hi : s[k] = j
    <3> DEFINE j0 == IF j < i THEN j ELSE j + 1
    <3>1. j0 \in 1..Len(q) /\ j0 # i /\ q[j0].do = d
      BY <1>1, <2>4
    <3>2. PICK k \in a + 1..hi : pos[k] = j0
      BY <1>1, <1>4, <3>1
    <3>3. Fell(pos, i, k) = j
      BY <1>1, <3>2 DEF Fell
    <3> QED
      BY <2>1, <3>2, <3>3
  <2>5. \A k \in a + 1..hi, l \in a + 1..hi : k < l => s[k] < s[l]
    <3> SUFFICES ASSUME NEW k \in a + 1..hi, NEW l \in a + 1..hi, k < l PROVE s[k] < s[l]
      OBVIOUS
    <3>1. pos[k] < pos[l] /\ pos[k] \in 1..Len(q) /\ pos[l] \in 1..Len(q) /\ pos[k] # i /\ pos[l] # i
      BY <1>2, <1>4, <2>1 DEF Marks
    <3>2. Fell(pos, i, k) < Fell(pos, i, l)
      BY <1>1, <3>1 DEF Fell
    <3> QED
      BY <2>1, <3>2
  <2> QED
    BY <1>2, <1>4, <2>1, <2>2, <2>3, <2>4, <2>5 DEF Marks, s
<1>5. ASSUME q[i].do # d PROVE Marks(r, d, lo, hi, Shifted(pos, i, lo, hi))
  <2>1. \A k \in lo + 1..hi : pos[k] # i
    BY <1>2, <1>5
  <2>2. \A j \in DOMAIN q : q[j].do = d /\ j # i => \E k \in lo + 1..hi : pos[k] = j
    BY DEF Marks
  <2> QED
    BY <1>2, <1>4, <2>1, <2>2
<1>6. ASSUME q[i].do = d, \A j \in 1..i - 1 : q[j].do # d PROVE Marks(r, d, lo + 1, hi, Shifted(pos, i, lo + 1, hi))
  <2>1. lo + 1 \in lo + 1..hi /\ pos[lo + 1] = i
    BY <1>6, MarksFirst
  <2>2. ASSUME NEW k \in (lo + 1) + 1..hi PROVE pos[k] # i
    <3>1. k \in lo + 1..hi /\ lo + 1 < k
      BY <1>2
    <3>2. i < pos[k] /\ pos[k] \in Nat
      BY <1>1, <1>2, <2>1, <3>1 DEF Marks
    <3> QED
      BY <1>1, <3>2
  <2>3. \A j \in DOMAIN q : q[j].do = d /\ j # i => \E k \in (lo + 1) + 1..hi : pos[k] = j
    <3> SUFFICES ASSUME NEW j \in DOMAIN q, q[j].do = d, j # i PROVE \E k \in (lo + 1) + 1..hi : pos[k] = j
      OBVIOUS
    <3>1. PICK k \in lo + 1..hi : pos[k] = j
      BY DEF Marks
    <3>2. k # lo + 1
      BY <2>1, <3>1
    <3> QED
      BY <1>2, <3>1, <3>2
  <2> QED
    BY <1>2, <1>4, <2>1, <2>2, <2>3
<1> QED
  BY <1>3, <1>5, <1>6 DEF r

-----------------------------------------------------------------------------
(* What a sync under way is like, in terms of the layout.                    *)

\* z is the layout of sync s under engine e.
Planned(z, e, s) ==
  /\ e \in Kinds /\ s \in 1..Len(Loads) /\ IsPlan(z, e, s)
  /\ z.kind = e /\ z.n = Len(Loads[s]) /\ z.base = Before[s] /\ z.last = z.bk[z.n]

Seg(z, i) == [at |-> z.at[i], id |-> z.base + i - 1]
\* The fill and the copy of chunk i, the length of bucket k, its metadata and its message.
FillOf(z, i) == [do |-> "fill", b |-> (z.bk[i] - 1) % 2, at |-> z.at[i], id |-> z.base + i - 1]
CopyOf(z, i) == [do |-> "copy", b |-> z.bk[i] % 2, at |-> z.at[i], id |-> z.base + i - 1]
LenOf(z, k) == IF z.kind = "xccl" THEN z.end[z.up[k]] ELSE BucketSize
Parts(z, from, to) == [j \in 1..to - from |-> <<z.at[from + j], z.base + (from + j) - 1>>]
MetaOf(z, k) == Parts(z, z.up[k - 1], z.up[k])
MsgOf(z, k) ==
  IF z.kind = "xccl" THEN [meta |-> MetaOf(z, k), last |-> (k = z.last), len |-> LenOf(z, k)]
  ELSE [meta |-> MetaOf(z, k), last |-> (k = z.last)]

\* The sender's queue: fills f + 1 to m and broadcasts e + 1 to r wait in it.  A broadcast comes
\* after the fills of its bucket; a fill after the broadcast of the bucket that it overwrites.
Lined(z, q, f, m, e, r, pf, pb) ==
  /\ IsSeq(q) /\ Marks(q, "fill", f, m, pf) /\ Marks(q, "bcast", e, r, pb)
  /\ \A j \in DOMAIN q : q[j].do \in {"gather", "fill", "bcast"}
  /\ \A i \in f + 1..m : q[pf[i]] = FillOf(z, i)
  /\ \A k \in e + 1..r : q[pb[k]] = Bcast((k - 1) % 2, LenOf(z, k))
  /\ \A i \in f + 1..m, k \in e + 1..r :
       /\ i <= z.up[k] => pf[i] < pb[k]
       /\ z.bk[i] >= k + 2 => z.kind = "xccl" /\ pb[k] < pf[i]

\* The sender's buffers hold the chunks, of those filled, whose bucket has yet to be broadcast.
Filled(z, f, e, b) ==
  /\ \A i \in 1..f : z.bk[i] > e => Seg(z, i) \in b[(z.bk[i] - 1) % 2]
  /\ \A x \in {0, 1} : \A g \in b[x] : \E i \in 1..f : g = Seg(z, i)

\* The bucket F + 1 that the sender fills, up to chunk m; or that chunk m + 1 begins.
Filling(z, F, m) ==
  /\ F = z.bk[m] - 1 /\ offset[Master] = z.end[m] /\ meta[Master] = Parts(z, z.up[F], m)
Begins(z, F, m) == m < z.n /\ z.up[F] = m /\ z.bk[m + 1] = F + 1
Ends(z, F, m) == m < z.n /\ z.up[F + 1] = m /\ z.bk[m + 1] = F + 2

Idle == {"init", "barrier", "subscribers", "failed"}
\* The hosts of the senders: F buckets were handed over, P published, Q queued, E broadcast.
XcclHost(z, F, m, P, Q) ==
  LET l == pc[Master] p == pulled[Master] o == op[Master] IN
  /\ l \in Idle \cup {"pull", "step", "place", "sync", "await", "fill", "drain", "final", "done"}
  /\ last[Master] \in BOOLEAN /\ (NumSenders # 1 /\ l \in {"pull", "place", "sync", "await"} => o = NoOp)
  /\ l \in Idle => F = 0 /\ m = 0 /\ p = 0 /\ Filling(z, F, m) /\ ~last[Master] /\ o = NoOp
  /\ l \in Idle \cup {"pull", "step", "place", "sync", "await", "fill"} => cur[Master] = F % 2
  /\ l \in {"pull", "step"} => p = m /\ Filling(z, F, m) /\ ~last[Master]
  /\ l = "place" => p = m + 1 /\ m < z.n /\ Filling(z, F, m) /\ ~last[Master]
  /\ l \in {"sync", "await"} => /\ Filling(z, F, m) /\ z.up[F + 1] = m
                                /\ IF last[Master] THEN p = m /\ m = z.n ELSE p = m + 1 /\ Ends(z, F, m)
  /\ l = "fill" => p = m + 1 /\ Begins(z, F, m) /\ ~last[Master]
  /\ l \in {"drain", "final", "done"} => F = z.last /\ m = z.n
  /\ l = "done" => queue[Master] = <<>>
  /\ \/ o = NoOp /\ P = F /\ Q = F
     \/ o.stage = "publish" /\ F >= 1 /\ P = F - 1 /\ Q = F - 1 /\ l \notin {"final", "done"}
        /\ o = [stage |-> "publish", meta |-> MetaOf(z, F), last |-> (F = z.last), len |-> LenOf(z, F),
                b |-> (F - 1) % 2]
     \/ o.stage = "queue" /\ F >= 1 /\ P = F /\ Q = F - 1 /\ o.len = LenOf(z, F) /\ o.b = (F - 1) % 2
        /\ l \notin {"final", "done"}

CnclHost(z, F, m, P, Q, E) ==
  LET l == pc[Master] p == pulled[Master] IN
  /\ l \in {"init", "barrier", "pull", "place", "flush", "final", "done"}
  /\ op[Master] = NoOp /\ P = F /\ Q = F
  /\ l \in {"init", "barrier"} => F = 0 /\ m = 0 /\ p = 0 /\ Filling(z, F, m)
  /\ l \in {"init", "barrier", "pull", "place", "flush"} => cur[Master] = F % 2 /\ E >= F - 1
  /\ l = "pull" => p = m /\ Filling(z, F, m)
  /\ l = "place" => /\ p = m + 1 /\ m < z.n
                    /\ \/ Filling(z, F, m)
                       \/ Begins(z, F, m) /\ offset[Master] = 0 /\ meta[Master] = <<>>
  /\ l = "flush" => p = m + 1 /\ Filling(z, F, m) /\ Ends(z, F, m)
  /\ l \in {"final", "done"} => F = z.last /\ m = z.n
  /\ l = "done" => queue[Master] = <<>>

Sender(z, F, m, E, Q, P, f) ==
  /\ F \in 0..z.last /\ m \in 0..z.n /\ E \in Nat /\ Q \in Nat /\ P \in Nat /\ f \in Nat
  /\ z.up[F] <= m /\ z.bk[m] <= F + 1
  /\ IF z.kind = "xccl" THEN XcclHost(z, F, m, P, Q) ELSE CnclHost(z, F, m, P, Q, E)
  /\ \E pf, pb : Lined(z, queue[Master], f, m, E, Q, pf, pb)
  /\ Filled(z, f, E, buf[Master])

\* In a queue q wait the broadcasts e + 1 to r, of the length of their buckets.
Casts(z, q, e, r, pb) ==
  IsSeq(q) /\ Marks(q, "bcast", e, r, pb) /\ \A k \in e + 1..r : q[pb[k]].len = LenOf(z, k)

\* A relay a has queued r broadcasts, of which e have run.
Relay(z, e, a, r, pb) ==
  LET l == pc[a] p == pulled[a] q == queue[a] IN
  /\ l \in {"init", "barrier", "pull", "place", "final", "done"}
  /\ l \in {"init", "barrier"} => p = 0
  /\ l \in {"init", "barrier", "pull"} => p \in 0..z.n /\ r = z.bk[p] - 1 /\ offset[a] = z.end[p]
  /\ l = "place" => p \in 1..z.n /\ r = z.bk[p - 1] - 1 /\ offset[a] = z.end[p - 1]
  /\ l \in {"final", "done"} => r = z.last
  /\ Casts(z, q, e, r, pb)

\* A rollout worker's queue: the copies c + 1 to up[t], and at x the broadcast of bucket t + 1.
Given(z, q, t, c) ==
  IsSeq(q) /\ Len(q) = z.up[t] - c /\ \A j \in 1..z.up[t] - c : q[j] = CopyOf(z, c + j)
Asking(z, q, t, c, x) ==
  /\ IsSeq(q) /\ Len(q) = z.up[t] - c + 1 /\ x \in 1..Len(q) /\ q[x] = Bcast((t + 1) % 2, LenOf(z, t + 1))
  /\ \A j \in 1..x - 1 : q[j] = CopyOf(z, c + j)
  /\ \A j \in x + 1..Len(q) : q[j] = CopyOf(z, c + j - 1)
Asked(z, q, t, c, e) ==
  \/ e = t /\ \E x \in DOMAIN q : Asking(z, q, t, c, x)
  \/ e = t + 1 /\ Given(z, q, t, c)
Coming(z, v, from, to) ==
  from <= to /\ IsSeq(v) /\ Len(v) = to - from /\ \A j \in 1..to - from : v[j] = MsgOf(z, from + j)

\* Its buffers: the last two buckets that were broadcast.
Stored(z, e, b) ==
  \A i \in 1..z.n : z.bk[i] \in {e - 1, e} => Seg(z, i) \in b[z.bk[i] % 2]

\* A rollout worker w has been through t buckets and has copied c chunks; e were broadcast and P published.
Taker(z, e, P, w, t, c) ==
  LET l == pc[w] q == queue[w] o == op[w] v == wire[w] IN
  /\ t \in 0..z.last /\ c \in z.up[t - 1]..z.up[t] /\ P \in Nat /\ e \in Nat
  /\ got[w] = [j \in 1..z.base + c |-> j - 1]
  /\ Stored(z, e, buf[w])
  /\ l \in {"init", "barrier", "start", "wait", "swap", "done", "loaded"}
  /\ l \notin {"done", "loaded"} => t < z.last /\ cur[w] = t % 2
  /\ l \in {"init", "barrier", "start"} =>
       e = t /\ o = NoOp /\ meta[w] = MetaOf(z, t) /\ c = z.up[t - 1] /\ q = <<>> /\ Coming(z, v, t, P)
  /\ l \in {"init", "barrier"} => t = 0
  /\ l = "wait" =>
       /\ meta[w] = MetaOf(z, t)
       /\ \/ o = [stage |-> "receive", b |-> (t + 1) % 2] /\ e = t /\ Given(z, q, t, c) /\ Coming(z, v, t, P)
          \/ o = [stage |-> "ready", m |-> MsgOf(z, t + 1)] /\ Asked(z, q, t, c, e) /\ Coming(z, v, t + 1, P)
  /\ l = "swap" => /\ o = NoOp /\ meta[w] = MetaOf(z, t + 1) /\ last[w] = (t + 1 = z.last)
                   /\ Asked(z, q, t, c, e) /\ Coming(z, v, t + 1, P)
  /\ l \in {"done", "loaded"} =>
       t = z.last /\ e = t /\ o = NoOp /\ Given(z, q, t, c) /\ Coming(z, v, t, P)
  /\ l = "loaded" => q = <<>>

\* The subscriptions: none is missing when the sender sends.
Live == {w \in Rollouts : sub[w] = "live"}
Subscriptions ==
  /\ sub \in [Rollouts -> {"none", "sent", "live"}] /\ frames \in Nat /\ count \in Nat
  /\ engine = "xccl" => frames + count = Cardinality(Live)
  /\ engine = "cncl" => \A w \in Rollouts : sub[w] # "sent" /\ (pc[w] # "init" => sub[w] = "live")
  /\ pc[Master] \notin Idle => Live = Rollouts

Domains ==
  /\ engine \in Kinds /\ sync \in 1..Len(Loads)
  /\ DOMAIN meta = Workers /\ DOMAIN last = Workers /\ DOMAIN cur = Workers /\ DOMAIN op = Workers
  /\ DOMAIN pulled = Actors /\ DOMAIN offset = Actors
  /\ DOMAIN wire = Rollouts /\ DOMAIN got = Rollouts
  /\ DOMAIN buf = Workers /\ \A w \in Workers : DOMAIN buf[w] = {0, 1}

Relays(z, E) == \A a \in Actors \ {Master} : RankOf(a) # -1 => \E r, pb : Relay(z, E, a, r, pb)
Takers(z, E, P) == \A w \in Rollouts : \E t, c : Taker(z, E, P, w, t, c)
Under(z, F, m, E, Q, P, f) ==
  Planned(z, engine, sync) /\ Sender(z, F, m, E, Q, P, f) /\ Relays(z, E) /\ Takers(z, E, P)
InOrder == Kept /\ Domains /\ Subscriptions /\ \E z, F, m, E, Q, P, f : Under(z, F, m, E, Q, P, f)

\* A sync has a layout, and what it is like.
LEMMA PlannedThere == ASSUME NEW e \in Kinds, NEW s \in 1..Len(Loads) PROVE \E z : Planned(z, e, s)
<1>1. PICK y : IsPlan(y, e, s)
  BY PlanThere
<1> DEFINE n == Len(Loads[s])
           z == [bk |-> y.bk, at |-> y.at, end |-> y.end, up |-> y.up, kind |-> e, n |-> n, base |-> Before[s],
                 last |-> y.bk[n]]
<1>2. /\ z.bk = y.bk /\ z.at = y.at /\ z.end = y.end /\ z.up = y.up /\ z.kind = e /\ z.n = n /\ z.base = Before[s]
      /\ z.last = y.bk[n]
  OBVIOUS
<1> HIDE DEF z
<1>3. IsPlan(z, e, s)
  BY <1>1, <1>2 DEF IsPlan, Layout
<1> QED
  BY <1>2, <1>3 DEF Planned

\* What a layout is, in numbers.
LEMMA PlanFacts ==
  ASSUME NEW z, NEW e, NEW s, Planned(z, e, s)
  PROVE  /\ Neat(z, z.n) /\ z.kind = e /\ e \in Kinds /\ s \in 1..Len(Loads) /\ Len(Loads[s]) = z.n
         /\ z.n \in Nat /\ z.last \in Nat /\ z.last >= 1 /\ z.last = z.bk[z.n] /\ z.base \in Nat /\ Before[s] = z.base
         /\ z.base + z.n = Before[s + 1]
         /\ \A i \in 1..z.n : /\ Loads[s][i] \in 0..BucketSize /\ z.end[i] = z.at[i] + Loads[s][i]
                              /\ LET p == PlaceIn(e, z.end[i - 1], Loads[s][i]) IN
                                 /\ p.at = z.at[i] /\ p.flush \in BOOLEAN
                                 /\ p.flush <=> z.bk[i] # z.bk[i - 1]
<1>1. /\ e \in Kinds /\ s \in 1..Len(Loads) /\ IsPlan(z, e, s)
      /\ z.kind = e /\ z.n = Len(Loads[s]) /\ z.base = Before[s] /\ z.last = z.bk[z.n]
  BY DEF Planned
<1>2. /\ Neat(z, z.n)
      /\ \A i \in 1..z.n : Loads[s][i] \in 0..BucketSize /\ z.end[i] = z.at[i] + Loads[s][i]
  BY <1>1, PlanIsNeat
<1>3. z.base \in Nat /\ z.base + z.n = Before[s + 1] /\ z.n \in Nat
  <2>1. Before[s + 1] = Before[s] + Len(Loads[s]) /\ Before \in [1..Len(Loads) + 1 -> Nat] /\ Len(Loads) \in Nat
        /\ Len(Loads[s]) \in Nat
    BY <1>1, BeforeIs
  <2>2. s \in 1..Len(Loads) + 1
    BY <1>1, <2>1
  <2> QED
    BY <1>1, <2>1, <2>2
<1>4. z.last \in Nat /\ z.last >= 1
  BY <1>1, <1>2 DEF Neat
<1>5. ASSUME NEW i \in 1..z.n
      PROVE  LET p == PlaceIn(e, z.end[i - 1], Loads[s][i]) IN
             /\ p.at = z.at[i] /\ p.flush \in BOOLEAN
             /\ p.flush <=> z.bk[i] # z.bk[i - 1]
  <2> DEFINE p == PlaceIn(e, z.end[i - 1], Loads[s][i])
  <2>1. z.at[i] = p.at /\ z.bk[i] = IF p.flush THEN z.bk[i - 1] + 1 ELSE z.bk[i - 1]
    BY <1>1 DEF IsPlan, Layout
  <2>2. i - 1 \in 0..z.n
    BY <1>3
  <2>3. z.end[i - 1] \in 0..BucketSize /\ z.bk[i - 1] \in 1..z.bk[z.n]
    BY <1>2, <2>2 DEF Neat
  <2>4. p.flush \in BOOLEAN
    <3>1. z.end[i - 1] \in Nat
      BY <2>3, LoadsAssumption
    <3>2. Loads[s][i] \in 0..BucketSize
      BY <1>2
    <3> QED
      BY <3>1, <3>2, PlaceIs
  <2> HIDE DEF p
  <2>5. z.bk[i - 1] + 1 # z.bk[i - 1]
    BY <1>1, <1>4, <2>3
  <2>6. p.at = z.at[i] /\ p.flush \in BOOLEAN /\ (p.flush <=> z.bk[i] # z.bk[i - 1])
    BY <2>1, <2>4, <2>5
  <2> QED
    BY <2>6 DEF p
<1> QED
  BY <1>1, <1>2, <1>3, <1>4, <1>5

-----------------------------------------------------------------------------
(* Steps of one worker leave the others' part of the invariant alone.        *)

\* Nothing of worker w changes.
StaysPut(w) ==
  /\ pc'[w] = pc[w] /\ queue'[w] = queue[w] /\ op'[w] = op[w] /\ meta'[w] = meta[w] /\ last'[w] = last[w]
  /\ cur'[w] = cur[w] /\ buf'[w] = buf[w]
  /\ w \in Actors => pulled'[w] = pulled[w] /\ offset'[w] = offset[w]
  /\ w \in Rollouts => wire'[w] = wire[w] /\ got'[w] = got[w]
SameJob == engine' = engine /\ multi' = multi /\ sync' = sync

\* The sender stays as it was.
LEMMA SenderStays ==
  ASSUME NEW z, NEW F, NEW m, NEW E, NEW Q, NEW P, NEW f, Sender(z, F, m, E, Q, P, f), SameJob, StaysPut(Master)
  PROVE  Sender(z, F, m, E, Q, P, f)'
<1>1. NumSenders' = NumSenders
  BY DEF NumSenders, RankOf, SameJob
<1> QED
  BY <1>1, Cluster DEF Sender, XcclHost, CnclHost, Filling, StaysPut

\* A relay of which nothing changes stays as it was.
LEMMA RelayStays ==
  ASSUME NEW z, NEW e, NEW a \in Actors, NEW r, NEW pb, Relay(z, e, a, r, pb), StaysPut(a)
  PROVE  Relay(z, e, a, r, pb)'
BY DEF Relay, StaysPut

\* A rollout worker of which nothing changes stays as it was.
LEMMA TakerStays ==
  ASSUME NEW z, NEW e, NEW P, NEW w \in Rollouts, NEW t, NEW c, Taker(z, e, P, w, t, c), StaysPut(w)
  PROVE  Taker(z, e, P, w, t, c)'
BY DEF Taker, StaysPut

\* So only what changes need be shown: of the sender,
LEMMA SenderMoves ==
  ASSUME NEW z, NEW F, NEW m, NEW E, NEW Q, NEW P, NEW f, Under(z, F, m, E, Q, P, f), SameJob,
         \A v \in Workers \ {Master} : StaysPut(v),
         NEW F1, NEW m1, NEW Q1, NEW f1, Sender(z, F1, m1, E, Q1, P, f1)'
  PROVE  Under(z, F1, m1, E, Q1, P, f1)'
<1>1. \A v : RankOf(v)' = RankOf(v)
  BY DEF RankOf, SameJob
<1>2. Relays(z, E)'
  <2> SUFFICES ASSUME NEW a \in Actors \ {Master}, RankOf(a)' # -1 PROVE \E r, pb : Relay(z, E, a, r, pb)'
    BY DEF Relays
  <2>1. PICK r, pb : Relay(z, E, a, r, pb)
    BY <1>1 DEF Under, Relays
  <2>2. Relay(z, E, a, r, pb)'
    BY <2>1, RelayStays, Cluster
  <2> QED
    BY <2>2
<1>3. Takers(z, E, P)'
  <2> SUFFICES ASSUME NEW w \in Rollouts PROVE \E t, c : Taker(z, E, P, w, t, c)'
    BY DEF Takers
  <2>1. PICK t, c : Taker(z, E, P, w, t, c)
    BY DEF Under, Takers
  <2>2. Taker(z, E, P, w, t, c)'
    BY <2>1, TakerStays, Cluster
  <2> QED
    BY <2>2
<1>4. Planned(z, engine', sync')
  BY DEF Under, SameJob
<1> QED
  BY <1>2, <1>3, <1>4 DEF Under

\* If one other actor alone moves, only its part need be shown.
LEMMA ActorMoves ==
  ASSUME NEW z, NEW F, NEW m, NEW E, NEW Q, NEW P, NEW f, Under(z, F, m, E, Q, P, f), SameJob,
         NEW a \in Actors \ {Master}, \A v \in Workers \ {a} : StaysPut(v),
         RankOf(a) # -1 => \E r, pb : Relay(z, E, a, r, pb)'
  PROVE  Under(z, F, m, E, Q, P, f)'
<1>1. \A v : RankOf(v)' = RankOf(v)
  BY DEF RankOf, SameJob
<1>2. Relays(z, E)'
  <2> SUFFICES ASSUME NEW b \in Actors \ {Master}, RankOf(b)' # -1 PROVE \E r, pb : Relay(z, E, b, r, pb)'
    BY DEF Relays
  <2>1. CASE b = a
    BY <1>1, <2>1
  <2>2. CASE b # a
    <3>1. PICK r, pb : Relay(z, E, b, r, pb)
      BY <1>1 DEF Under, Relays
    <3>2. Relay(z, E, b, r, pb)'
      BY <2>2, <3>1, RelayStays, Cluster
    <3> QED
      BY <3>2
  <2> QED
    BY <2>1, <2>2
<1>3. Takers(z, E, P)'
  <2> SUFFICES ASSUME NEW w \in Rollouts PROVE \E t, c : Taker(z, E, P, w, t, c)'
    BY DEF Takers
  <2>1. PICK t, c : Taker(z, E, P, w, t, c)
    BY DEF Under, Takers
  <2>2. Taker(z, E, P, w, t, c)'
    BY <2>1, TakerStays, Cluster
  <2> QED
    BY <2>2
<1>4. Planned(z, engine', sync') /\ Sender(z, F, m, E, Q, P, f)'
  BY SenderStays, Cluster DEF Under, SameJob
<1> QED
  BY <1>2, <1>3, <1>4 DEF Under

\* If one rollout worker alone moves, only its part need be shown.
LEMMA TakerMoves ==
  ASSUME NEW z, NEW F, NEW m, NEW E, NEW Q, NEW P, NEW f, Under(z, F, m, E, Q, P, f), SameJob,
         NEW w \in Rollouts, \A v \in Workers \ {w} : StaysPut(v),
         \E t, c : Taker(z, E, P, w, t, c)'
  PROVE  Under(z, F, m, E, Q, P, f)'
<1>1. \A v : RankOf(v)' = RankOf(v)
  BY DEF RankOf, SameJob
<1>2. Relays(z, E)'
  <2> SUFFICES ASSUME NEW a \in Actors \ {Master}, RankOf(a)' # -1 PROVE \E r, pb : Relay(z, E, a, r, pb)'
    BY DEF Relays
  <2>1. PICK r, pb : Relay(z, E, a, r, pb)
    BY <1>1 DEF Under, Relays
  <2>2. Relay(z, E, a, r, pb)'
    BY <2>1, RelayStays, Cluster
  <2> QED
    BY <2>2
<1>3. Takers(z, E, P)'
  <2> SUFFICES ASSUME NEW v \in Rollouts PROVE \E t, c : Taker(z, E, P, v, t, c)'
    BY DEF Takers
  <2>1. CASE v = w
    BY <2>1
  <2>2. CASE v # w
    <3>1. PICK t, c : Taker(z, E, P, v, t, c)
      BY DEF Under, Takers
    <3>2. Taker(z, E, P, v, t, c)'
      BY <2>2, <3>1, TakerStays, Cluster
    <3> QED
      BY <3>2
  <2> QED
    BY <2>1, <2>2
<1>4. Planned(z, engine', sync') /\ Sender(z, F, m, E, Q, P, f)'
  BY SenderStays, Cluster DEF Under, SameJob
<1> QED
  BY <1>2, <1>3, <1>4 DEF Under

-----------------------------------------------------------------------------
(* The queues and the mail of the rollout workers.                           *)

\* The buffers alternate.
LEMMA Parity ==
  /\ \A t \in Nat : t % 2 \in {0, 1} /\ 1 - (t % 2) = (t + 1) % 2 /\ 1 - ((t + 1) % 2) = t % 2 /\ (t + 1) % 2 # t % 2
  /\ 0 % 2 = 0
  /\ \A t \in Nat : (t + 2) % 2 = t % 2
OBVIOUS

\* A list written out as a function is a sequence.
LEMMA Listed ==
  ASSUME NEW n \in Nat, NEW q, DOMAIN q = 1..n, q = [j \in 1..n |-> q[j]]
  PROVE  IsSeq(q) /\ Len(q) = n
<1>1. \A j \in 1..n : q[j] \in ToSet(q)
  BY DEF ToSet
<1>2. q \in [1..n -> ToSet(q)]
  BY <1>1
<1> QED
  BY <1>2 DEF IsSeq

\* Metadata are a list.
LEMMA PartsAre ==
  ASSUME NEW z, NEW a \in Nat, NEW b \in Nat, a <= b
  PROVE  /\ IsSeq(Parts(z, a, b)) /\ Len(Parts(z, a, b)) = b - a /\ DOMAIN Parts(z, a, b) = 1..b - a
         /\ \A j \in 1..b - a : Parts(z, a, b)[j] = <<z.at[a + j], z.base + (a + j) - 1>>
<1> DEFINE p == Parts(z, a, b)
<1>1. b - a \in Nat /\ DOMAIN p = 1..b - a /\ p = [j \in 1..b - a |-> p[j]]
  BY DEF Parts
<1>2. \A j \in 1..b - a : p[j] = <<z.at[a + j], z.base + (a + j) - 1>>
  BY DEF Parts
<1> HIDE DEF p
<1>3. IsSeq(p) /\ Len(p) = b - a
  BY <1>1, Listed
<1> QED
  BY <1>1, <1>2, <1>3 DEF p

\* No chunks at all.
LEMMA NoParts == ASSUME NEW z, NEW a \in Nat PROVE Parts(z, a, a) = <<>>
<1>1. a - a = 0
  OBVIOUS
<1>2. Parts(z, a, a) = [j \in 1..0 |-> <<z.at[a + j], z.base + (a + j) - 1>>]
  BY <1>1 DEF Parts
<1> QED
  BY <1>2

\* The copies of a bucket, queued.
LEMMA CopiesGiven ==
  ASSUME NEW z, NEW e, NEW s, Planned(z, e, s), NEW t \in 0..z.last, NEW w
  PROVE  Given(z, Copies(w, MetaOf(z, t), t % 2), t, z.up[t - 1])
<1> DEFINE a == z.up[t - 1]   b == z.up[t]   m == MetaOf(z, t)   q == Copies(w, m, t % 2)
<1>1. Neat(z, z.n) /\ z.last \in Nat /\ z.last = z.bk[z.n] /\ z.n \in Nat
  BY PlanFacts
<1>2. a \in Nat /\ b \in Nat /\ a <= b /\ b <= z.n
  <2>1. t \in -1..z.last /\ t - 1 \in -1..z.last
    BY <1>1
  <2>2. z.up[t] \in 0..z.n /\ z.up[t - 1] \in 0..z.n /\ z.up[t - 1] <= z.up[t]
    BY <1>1, <2>1 DEF Neat
  <2> QED
    BY <1>1, <2>2
<1>3. /\ IsSeq(m) /\ DOMAIN m = 1..b - a /\ \A j \in 1..b - a : m[j] = <<z.at[a + j], z.base + (a + j) - 1>>
  BY <1>2, PartsAre DEF MetaOf
<1> HIDE DEF m
<1>4. /\ DOMAIN q = 1..b - a /\ IsSeq(q)
      /\ \A j \in 1..b - a : q[j] = [do |-> "copy", b |-> t % 2, at |-> m[j][1], id |-> m[j][2]]
  BY <1>3, CopiesOf DEF Copies
<1> HIDE DEF q
<1>5. \A j \in 1..b - a : z.bk[a + j] = t
  <2> SUFFICES ASSUME NEW j \in 1..b - a PROVE z.bk[a + j] = t
    OBVIOUS
  <2>1. a + j \in 1..z.n /\ a < a + j /\ a + j <= b
    BY <1>1, <1>2
  <2>2. t # 0
    <3>1. t = 0 => a = 0 /\ b = 0
      BY <1>1 DEF Neat
    <3> QED
      BY <2>1, <3>1
  <2>3. t \in 1..z.bk[z.n]
    BY <1>1, <2>2
  <2> QED
    BY <1>1, <2>1, <2>3 DEF Neat
<1>6. \A j \in 1..b - a : q[j] = CopyOf(z, a + j)
  <2> SUFFICES ASSUME NEW j \in 1..b - a PROVE q[j] = CopyOf(z, a + j)
    OBVIOUS
  <2>1. m[j][1] = z.at[a + j] /\ m[j][2] = z.base + (a + j) - 1
    BY <1>3
  <2> QED
    BY <1>4, <1>5, <2>1 DEF CopyOf
<1>7. Len(q) = b - a
  BY <1>2, <1>4 DEF IsSeq
<1> HIDE DEF a, b
<1>8. Given(z, q, t, a)
  BY <1>4, <1>6, <1>7 DEF Given, b
<1> QED
  BY <1>8 DEF q, m, a

\* The broadcast of the next bucket, queued behind the copies, or before them.
LEMMA AsksLast ==
  ASSUME NEW z, NEW q, NEW t \in Nat, NEW c \in Nat, z.up[t] \in Nat, c <= z.up[t], Given(z, q, t, c)
  PROVE  LET r == q \o <<Bcast((t + 1) % 2, LenOf(z, t + 1))>> IN \E x \in DOMAIN r : Asking(z, r, t, c, x)
<1> DEFINE y == Bcast((t + 1) % 2, LenOf(z, t + 1))   r == q \o <<y>>   u == z.up[t]   d == u - c
<1> HIDE DEF y
<1>0. u \in Nat /\ c <= u
  OBVIOUS
<1> HIDE DEF u
<1>1. IsSeq(q) /\ Len(q) = d /\ d \in Nat /\ \A j \in 1..d : q[j] = CopyOf(z, c + j)
  BY <1>0 DEF Given, u
<1>2. /\ IsSeq(r) /\ Len(r) = Len(q) + 1 /\ DOMAIN r = 1..Len(q) + 1 /\ r[Len(q) + 1] = y
      /\ \A j \in 1..Len(q) : r[j] = q[j]
  <2>1. IsSeq(q)
    BY <1>1
  <2> QED
    BY <2>1, Pushed
<1> HIDE DEF r, d
<1>3. d + 1 \in 1..Len(r) /\ d + 1 \in DOMAIN r /\ Len(r) = d + 1 /\ r[d + 1] = y
  BY <1>1, <1>2
<1>4. \A j \in 1..d : r[j] = CopyOf(z, c + j)
  BY <1>1, <1>2
<1>6. (d + 1) - 1 = d /\ \A j \in (d + 1) + 1..Len(r) : FALSE
  BY <1>1, <1>3
<1>5. Asking(z, r, t, c, d + 1)
  BY <1>2, <1>3, <1>4, <1>6 DEF Asking, y, d, u
<1> QED
  BY <1>3, <1>5 DEF r, y

\* The broadcast of the next bucket, queued before the copies.
LEMMA AsksFirst ==
  ASSUME NEW z, NEW q, NEW t \in Nat, NEW c \in Nat, z.up[t] \in Nat, c <= z.up[t], Given(z, q, t, c)
  PROVE  LET r == <<Bcast((t + 1) % 2, LenOf(z, t + 1))>> \o q IN \E x \in DOMAIN r : Asking(z, r, t, c, x)
<1> DEFINE y == Bcast((t + 1) % 2, LenOf(z, t + 1))   r == <<y>> \o q   u == z.up[t]   d == u - c
<1> HIDE DEF y
<1>0. u \in Nat /\ c <= u
  OBVIOUS
<1> HIDE DEF u
<1>1. IsSeq(q) /\ Len(q) = d /\ d \in Nat /\ \A j \in 1..d : q[j] = CopyOf(z, c + j)
  BY <1>0 DEF Given, u
<1>2. /\ IsSeq(r) /\ Len(r) = d + 1 /\ DOMAIN r = 1..d + 1 /\ r[1] = y
      /\ \A j \in 2..d + 1 : r[j] = q[j - 1]
  <2>1. IsSeq(r)
    BY <1>1, Joined, OnePiece
  <2> DEFINE S == ToSet(q) \cup {y}
  <2>2. q \in Seq(S) /\ <<y>> \in Seq(S)
    BY <1>1 DEF IsSeq
  <2> HIDE DEF S
  <2> QED
    BY <1>1, <2>1, <2>2
<1> HIDE DEF r, d
<1>3. ASSUME NEW j \in 2..d + 1 PROVE r[j] = CopyOf(z, c + j - 1)
  <2>1. j \in 2..d + 1 /\ j - 1 \in 1..d /\ c + (j - 1) = c + j - 1
    BY <1>1, <1>2, <1>3
  <2> QED
    BY <1>1, <1>2, <2>1
<1>4. 1 \in 1..Len(r) /\ 1 \in DOMAIN r
  BY <1>1, <1>2
<1>5. Asking(z, r, t, c, 1)
  BY <1>2, <1>3, <1>4 DEF Asking, y, d, u
<1> QED
  BY <1>4, <1>5 DEF r, y

\* The broadcast has run.
LEMMA AskedRuns ==
  ASSUME NEW z, NEW q, NEW t \in Nat, NEW c \in Nat, NEW x, z.up[t] \in Nat, c <= z.up[t], Asking(z, q, t, c, x),
         q # <<>>, q[1].do = "bcast"
  PROVE  Given(z, Tail(q), t, c) /\ q[1] = Bcast((t + 1) % 2, LenOf(z, t + 1))
<1> DEFINE u == z.up[t]   d == u - c   r == RemoveAt(q, 1)   y == Bcast((t + 1) % 2, LenOf(z, t + 1))
<1>0. u \in Nat /\ c <= u /\ d \in Nat
  OBVIOUS
<1>1. IsSeq(q) /\ Len(q) = d + 1 /\ x \in 1..Len(q) /\ q[x] = y
  BY DEF Asking
<1>2. (\A j \in 1..x - 1 : q[j] = CopyOf(z, c + j)) /\ \A j \in x + 1..Len(q) : q[j] = CopyOf(z, c + j - 1)
  BY DEF Asking
<1> HIDE DEF u, d, y
<1>3. x = 1
  <2>1. x # 1 => 1 \in 1..x - 1
    BY <1>0, <1>1
  <2>2. x # 1 => q[1] = CopyOf(z, c + 1)
    BY <1>2, <2>1
  <2> QED
    BY <2>2 DEF CopyOf
<1>4. /\ IsSeq(r) /\ Len(r) = Len(q) - 1 /\ 1 \in DOMAIN q /\ Tail(q) = r
      /\ \A j \in 1..Len(q) - 1 : r[j] = IF j < 1 THEN q[j] ELSE q[j + 1]
  BY <1>1, Removed, TailOut
<1> HIDE DEF r
<1>5. ASSUME NEW j \in 1..d PROVE r[j] = CopyOf(z, c + j)
  <2>1. j \in 1..Len(q) - 1 /\ ~(j < 1) /\ j + 1 \in x + 1..Len(q) /\ c + (j + 1) - 1 = c + j
    BY <1>0, <1>1, <1>3
  <2> QED
    BY <1>2, <1>4, <2>1
<1>6. Len(r) = d
  BY <1>0, <1>1, <1>4
<1>7. Given(z, r, t, c)
  BY <1>4, <1>5, <1>6 DEF Given, d, u
<1> QED
  BY <1>1, <1>3, <1>4, <1>7 DEF y

\* A copy that may run is the next one; what is left.
LEMMA GivenRuns ==
  ASSUME NEW z, NEW q, NEW t \in Nat, NEW c \in Nat, z.up[t] \in Nat, c <= z.up[t], Given(z, q, t, c),
         NEW i \in DOMAIN q, i = 1 \/ \A j \in 1..i - 1 : q[j].do = "bcast"
  PROVE  q[i] = CopyOf(z, c + 1) /\ c + 1 <= z.up[t] /\ Given(z, RemoveAt(q, i), t, c + 1)
<1> DEFINE u == z.up[t]   d == u - c   r == RemoveAt(q, i)
<1>0. u \in Nat /\ c <= u
  OBVIOUS
<1> HIDE DEF u
<1>1. IsSeq(q) /\ Len(q) = d /\ d \in Nat /\ (\A j \in 1..d : q[j] = CopyOf(z, c + j)) /\ i \in 1..d
  BY <1>0 DEF Given, IsSeq, u
<1>2. i = 1
  <2>1. q[1] = CopyOf(z, c + 1)
    BY <1>1
  <2>2. q[1].do # "bcast"
    BY <2>1 DEF CopyOf
  <2> QED
    BY <1>1, <2>2
<1>3. IsSeq(r) /\ Len(r) = Len(q) - 1 /\ \A j \in 1..Len(q) - 1 : r[j] = IF j < i THEN q[j] ELSE q[j + 1]
  BY <1>1, Removed
<1> HIDE DEF r
<1>4. ASSUME NEW j \in 1..d - 1 PROVE r[j] = CopyOf(z, (c + 1) + j)
  <2>1. j + 1 \in 1..d /\ ~(j < 1) /\ c + (j + 1) = (c + 1) + j
    BY <1>1
  <2> QED
    BY <1>1, <1>2, <1>3, <2>1
<1>5. u - (c + 1) = d - 1
  BY <1>0
<1>6. Given(z, r, t, c + 1)
  BY <1>1, <1>3, <1>4, <1>5 DEF Given, u
<1>7. q[i] = CopyOf(z, c + 1) /\ c + 1 <= u
  <2>1. 1 \in 1..d
    BY <1>1, <1>2
  <2>2. c + 1 <= u
    BY <1>0, <2>1 DEF d
  <2> QED
    BY <1>1, <1>2, <2>1, <2>2
<1> QED
  BY <1>6, <1>7 DEF r, u

\* A copy that may run is the next one, with a broadcast among the copies.
LEMMA AskingRuns ==
  ASSUME NEW z, NEW q, NEW t \in Nat, NEW c \in Nat, NEW x, z.up[t] \in Nat, c <= z.up[t], Asking(z, q, t, c, x),
         NEW i \in DOMAIN q, i = 1 \/ (\A j \in 1..i - 1 : q[j].do = "bcast"), q[i].do # "bcast"
  PROVE  /\ q[i] = CopyOf(z, c + 1) /\ c + 1 <= z.up[t]
         /\ \E y \in DOMAIN RemoveAt(q, i) : Asking(z, RemoveAt(q, i), t, c + 1, y)
<1> DEFINE u == z.up[t]   d == u - c   r == RemoveAt(q, i)   b == Bcast((t + 1) % 2, LenOf(z, t + 1))
<1>0. u \in Nat /\ c <= u /\ d \in Nat
  OBVIOUS
<1>1. IsSeq(q) /\ Len(q) = d + 1 /\ x \in 1..Len(q) /\ q[x] = b /\ i \in 1..Len(q)
  <2>1. IsSeq(q) /\ Len(q) = d + 1 /\ x \in 1..Len(q) /\ q[x] = b
    BY DEF Asking
  <2> HIDE DEF u, d, r, b
  <2>2. DOMAIN q = 1..Len(q)
    BY <2>1 DEF IsSeq
  <2> QED
    BY <2>1, <2>2
<1>2. (\A j \in 1..x - 1 : q[j] = CopyOf(z, c + j)) /\ \A j \in x + 1..Len(q) : q[j] = CopyOf(z, c + j - 1)
  BY DEF Asking
<1>3. q[x].do = "bcast"
  BY <1>1 DEF Bcast
<1> HIDE DEF u, d, b
<1>4. (\A j \in 1..x - 1 : q[j].do # "bcast") /\ \A j \in x + 1..Len(q) : q[j].do # "bcast"
  <2>1. \A k : CopyOf(z, k).do # "bcast"
    BY DEF CopyOf
  <2> QED
    BY <1>2, <2>1
<1>5. (i = 1 /\ 1 < x) \/ (i = 2 /\ x = 1)
  <2>0. i # x
    BY <1>3
  <2>1. CASE i = 1
    BY <1>1, <2>0, <2>1
  <2>2. CASE i # 1
    <3>1. 1 \in 1..i - 1 /\ i - 1 \in 1..i - 1
      BY <1>0, <1>1, <2>2
    <3>2. q[1].do = "bcast" /\ q[i - 1].do = "bcast"
      BY <2>2, <3>1
    <3>3. x = 1
      BY <1>0, <1>1, <1>4, <3>2
    <3>4. i - 1 = x
      BY <1>0, <1>1, <1>4, <2>2, <3>2, <3>3
    <3> QED
      BY <1>1, <3>3, <3>4
  <2> QED
    BY <2>1, <2>2
<1>6. IsSeq(r) /\ Len(r) = Len(q) - 1 /\ (\A j \in 1..Len(q) - 1 : r[j] = IF j < i THEN q[j] ELSE q[j + 1]) /\ DOMAIN r = 1..Len(q) - 1
  BY <1>1, Removed
<1> HIDE DEF r
<1>7. Len(q) - 1 = d /\ u - (c + 1) + 1 = d /\ d >= 1
  <2>1. Len(q) - 1 = d /\ d >= 1
    BY <1>0, <1>1, <1>5
  <2>2. u - (c + 1) + 1 = u - c
    BY <1>0
  <2> QED
    BY <2>1, <2>2 DEF d
<1>8. c + 1 <= u
  BY <1>0, <1>7
<1>9. CASE i = 1 /\ 1 < x
  <2>1. x - 1 \in 1..d /\ ~(x - 1 < i) /\ (x - 1) + 1 = x /\ 1 \in 1..x - 1
    BY <1>0, <1>1, <1>9
  <2>2. r[x - 1] = b
    BY <1>1, <1>6, <1>7, <2>1
  <2>3. ASSUME NEW j \in 1..(x - 1) - 1 PROVE r[j] = CopyOf(z, (c + 1) + j)
    <3>1. j \in 1..d /\ ~(j < i) /\ j + 1 \in 1..x - 1 /\ c + (j + 1) = (c + 1) + j
      BY <1>0, <1>1, <1>9
    <3> QED
      BY <1>2, <1>6, <1>7, <3>1
  <2>4. ASSUME NEW j \in (x - 1) + 1..d PROVE r[j] = CopyOf(z, (c + 1) + j - 1)
    <3>1. j \in 1..d /\ ~(j < i) /\ j + 1 \in x + 1..Len(q) /\ c + (j + 1) - 1 = (c + 1) + j - 1
      BY <1>0, <1>1, <1>9
    <3> QED
      BY <1>2, <1>6, <1>7, <3>1
  <2>5. Asking(z, r, t, c + 1, x - 1)
    BY <1>6, <1>7, <2>1, <2>2, <2>3, <2>4 DEF Asking, u, b
  <2>6. q[i] = CopyOf(z, c + 1) /\ x - 1 \in DOMAIN r
    BY <1>2, <1>6, <1>7, <1>9, <2>1
  <2> QED
    BY <1>8, <2>5, <2>6 DEF r, u
<1>10. CASE i = 2 /\ x = 1
  <2>1. 1 \in 1..d /\ 1 < i /\ 2 \in x + 1..Len(q) /\ c + 2 - 1 = c + 1 /\ \A j \in 1..1 - 1 : FALSE
    BY <1>0, <1>1, <1>7, <1>10
  <2>2. r[1] = b
    BY <1>1, <1>6, <1>7, <1>10, <2>1
  <2>3. ASSUME NEW j \in 1 + 1..d PROVE r[j] = CopyOf(z, (c + 1) + j - 1)
    <3>1. j \in 1..d /\ ~(j < i) /\ j + 1 \in x + 1..Len(q) /\ c + (j + 1) - 1 = (c + 1) + j - 1
      BY <1>0, <1>1, <1>10
    <3> QED
      BY <1>2, <1>6, <1>7, <3>1
  <2>4. Asking(z, r, t, c + 1, 1)
    BY <1>6, <1>7, <2>1, <2>2, <2>3 DEF Asking, u, b
  <2>5. q[i] = CopyOf(z, c + 1) /\ 1 \in DOMAIN r
    BY <1>2, <1>6, <1>7, <1>10, <2>1
  <2> QED
    BY <1>8, <2>4, <2>5 DEF r, u
<1> QED
  BY <1>5, <1>9, <1>10

\* Mail: a message comes in, and is read.
LEMMA MailComes ==
  ASSUME NEW z, NEW v, NEW t \in Nat, NEW P \in Nat, Coming(z, v, t, P)
  PROVE  /\ Coming(z, Append(v, MsgOf(z, P + 1)), t, P + 1)
         /\ v # <<>> => t + 1 <= P /\ Head(v) = MsgOf(z, t + 1) /\ Coming(z, Tail(v), t + 1, P)
<1> DEFINE x == MsgOf(z, P + 1)   d == P - t   r == Append(v, x)
<1> HIDE DEF x
<1>1. t <= P /\ IsSeq(v) /\ Len(v) = d /\ d \in Nat /\ \A j \in 1..d : v[j] = MsgOf(z, t + j)
  BY DEF Coming
<1>2. v \in Seq(ToSet(v) \cup {x}) /\ DOMAIN v = 1..d
  BY <1>1 DEF IsSeq
<1>3. Coming(z, r, t, P + 1)
  <2>1. IsSeq(r) /\ Len(r) = d + 1 /\ r[d + 1] = x /\ \A j \in 1..d : r[j] = v[j]
    BY <1>1, <1>2, Added
  <2> HIDE DEF r
  <2>2. P + 1 - t = d + 1 /\ t <= P + 1
    BY <1>1
  <2>3. \A j \in 1..d + 1 : r[j] = MsgOf(z, t + j)
    <3> SUFFICES ASSUME NEW j \in 1..d + 1 PROVE r[j] = MsgOf(z, t + j)
      OBVIOUS
    <3>1. CASE j = d + 1
      <4>1. t + j = P + 1
        BY <3>1
      <4> QED
        BY <2>1, <3>1, <4>1 DEF x
    <3>2. CASE j \in 1..d
      BY <1>1, <2>1, <3>2
    <3> QED
      BY <1>1, <3>1, <3>2
  <2> QED
    BY <2>1, <2>2, <2>3 DEF Coming
<1>4. ASSUME v # <<>> PROVE t + 1 <= P /\ Head(v) = MsgOf(z, t + 1) /\ Coming(z, Tail(v), t + 1, P)
  <2> DEFINE s == Tail(v)
  <2>1. 1 \in DOMAIN v /\ Head(v) = v[1] /\ Len(s) = d - 1 /\ \A j \in 1..d - 1 : s[j] = v[j + 1]
    BY <1>1, <1>2, <1>4
  <2>2. IsSeq(s)
    BY <1>1, <1>4, TailIs
  <2> HIDE DEF s
  <2>3. d >= 1 /\ t + 1 <= P /\ P - (t + 1) = d - 1
    BY <1>1, <1>2, <2>1
  <2>4. \A j \in 1..d - 1 : s[j] = MsgOf(z, (t + 1) + j)
    <3> SUFFICES ASSUME NEW j \in 1..d - 1 PROVE s[j] = MsgOf(z, (t + 1) + j)
      OBVIOUS
    <3>1. j + 1 \in 1..d /\ t + (j + 1) = (t + 1) + j
      BY <1>1
    <3> QED
      BY <1>1, <2>1, <3>1
  <2>5. v[1] = MsgOf(z, t + 1)
    BY <1>1, <2>3
  <2> QED
    BY <2>1, <2>2, <2>3, <2>4, <2>5 DEF Coming, s
<1> QED
  BY <1>3, <1>4 DEF r, x

-----------------------------------------------------------------------------
(* The steps of a rollout worker's host.                                     *)

\* Worker w alone steps.
Lone(w) == SameJob /\ \A v \in Workers \ {w} : StaysPut(v)

\* A layout in numbers, at bucket t.
LEMMA UpNums ==
  ASSUME NEW z, NEW e, NEW s, Planned(z, e, s), NEW t \in 0..z.last
  PROVE  /\ t \in Nat /\ z.last \in Nat /\ z.n \in Nat /\ z.up[t] \in Nat /\ z.up[t - 1] \in Nat
         /\ z.up[t - 1] <= z.up[t] /\ z.up[t] <= z.n /\ z.base \in Nat
<1>1. Neat(z, z.n) /\ z.last \in Nat /\ z.last = z.bk[z.n] /\ z.n \in Nat /\ z.base \in Nat
  BY PlanFacts
<1>2. t \in -1..z.last /\ t - 1 \in -1..z.last
  BY <1>1
<1>3. z.up[t] \in 0..z.n /\ z.up[t - 1] \in 0..z.n /\ z.up[t - 1] <= z.up[t]
  BY <1>1, <1>2 DEF Neat
<1> QED
  BY <1>1, <1>3

\* A rollout worker's place in the layout, in numbers.
LEMMA TakerNums ==
  ASSUME NEW z, NEW k, NEW s, Planned(z, k, s), NEW e, NEW P, NEW w \in Rollouts, NEW t, NEW c, Taker(z, e, P, w, t, c)
  PROVE  /\ t \in 0..z.last /\ t \in Nat /\ c \in Nat /\ P \in Nat /\ e \in Nat
         /\ z.up[t] \in Nat /\ z.up[t - 1] \in Nat /\ z.up[t - 1] <= c /\ c <= z.up[t] /\ z.up[t] <= z.n
<1>1. t \in 0..z.last /\ c \in z.up[t - 1]..z.up[t] /\ P \in Nat /\ e \in Nat
  BY DEF Taker
<1> QED
  BY <1>1, UpNums

\* A queue that has run dry.
LEMMA RunDry ==
  ASSUME NEW z, NEW t \in Nat, NEW c \in Nat, z.up[t] \in Nat, c <= z.up[t], NEW e
  PROVE  /\ Given(z, <<>>, t, c) => c = z.up[t]
         /\ Asked(z, <<>>, t, c, e) => e = t + 1 /\ c = z.up[t]
         /\ Given(z, <<>>, t, z.up[t])
<1> DEFINE u == z.up[t]
<1>0. u \in Nat /\ c <= u
  OBVIOUS
<1> HIDE DEF u
<1>1. Given(z, <<>>, t, c) => c = u
  <2>1. Given(z, <<>>, t, c) => Len(<<>>) = u - c
    BY DEF Given, u
  <2>2. Len(<<>>) = 0
    OBVIOUS
  <2> QED
    BY <1>0, <2>1, <2>2
<1>2. Asked(z, <<>>, t, c, e) => e = t + 1 /\ Given(z, <<>>, t, c)
  <2>1. DOMAIN <<>> = {}
    OBVIOUS
  <2> QED
    BY <2>1 DEF Asked
<1>3. Given(z, <<>>, t, u)
  <2>1. u - u = 0 /\ Len(<<>>) = 0 /\ \A j \in 1..0 : FALSE
    BY <1>0
  <2> QED
    BY <2>1, NoPiece DEF Given, u
<1> QED
  BY <1>1, <1>2, <1>3 DEF u

\* Rollout workers are members of the group.
LEMMA RolloutsRanked == ASSUME multi \in BOOLEAN, NEW w \in Rollouts PROVE RankOf(w) # -1 /\ w \in Group
<1> DEFINE senders == IF multi THEN NodeMates ELSE SingleSender
<1>1. Ranks[multi][w] = Cardinality(senders) + w - NumActors
  BY Cluster DEF Ranks
<1>2. Cardinality(senders) \in Nat
  <2>1. senders \subseteq Actors
    BY Cluster DEF NodeMates, SingleSender
  <2>2. IsFiniteSet(Actors)
    BY ClusterAssumption, FS_Interval DEF Actors
  <2>3. IsFiniteSet(senders)
    BY <2>1, <2>2, FS_Subset
  <2> QED
    BY <2>3, FS_CardinalityType
<1> HIDE DEF senders
<1>3. w \in Int /\ w >= NumActors /\ NumActors \in Nat
  BY ClusterAssumption DEF Rollouts
<1>4. Ranks[multi][w] \in Int /\ Ranks[multi][w] >= 0
  BY <1>1, <1>2, <1>3
<1> QED
  BY <1>4, Cluster DEF RankOf, Group, Groups

\* It joins, or its loader is through.
LEMMA TakerWalks ==
  ASSUME NEW z, NEW e, NEW P, NEW w \in Rollouts, NEW t, NEW c, Taker(z, e, P, w, t, c),
         \/ pc[w] = "init" /\ pc'[w] = "barrier"
         \/ pc[w] = "barrier" /\ pc'[w] = "start"
         \/ pc[w] = "done" /\ pc'[w] = "loaded" /\ queue[w] = <<>>,
         queue'[w] = queue[w], op'[w] = op[w], meta'[w] = meta[w], last'[w] = last[w],
         cur'[w] = cur[w], buf'[w] = buf[w], wire'[w] = wire[w], got'[w] = got[w]
  PROVE  Taker(z, e, P, w, t, c)'
BY DEF Taker

\* It swaps its buffers: one more bucket is through.
LEMMA TakerSwaps ==
  ASSUME NEW z, NEW k, NEW s, Planned(z, k, s), NEW e, NEW P, NEW w \in Rollouts, NEW t, NEW c, Taker(z, e, P, w, t, c),
         pc[w] = "swap", queue[w] = <<>>, cur'[w] = 1 - cur[w],
         pc'[w] = IF last[w] THEN "done" ELSE "start",
         queue'[w] = IF last[w] THEN Copies(w, meta[w], 1 - cur[w]) ELSE <<>>,
         op'[w] = op[w], meta'[w] = meta[w], last'[w] = last[w],
         buf'[w] = buf[w], wire'[w] = wire[w], got'[w] = got[w]
  PROVE  Taker(z, e, P, w, t + 1, c)'
<1>1. /\ t \in 0..z.last /\ t \in Nat /\ c \in Nat /\ P \in Nat /\ e \in Nat
      /\ z.up[t] \in Nat /\ c <= z.up[t] /\ z.last \in Nat
  BY TakerNums, PlanFacts
<1>2. /\ t < z.last /\ cur[w] = t % 2 /\ op[w] = NoOp /\ meta[w] = MetaOf(z, t + 1) /\ last[w] = (t + 1 = z.last)
      /\ Asked(z, <<>>, t, c, e) /\ Coming(z, wire[w], t + 1, P) /\ got[w] = [j \in 1..z.base + c |-> j - 1]
      /\ Stored(z, e, buf[w])
  BY DEF Taker
<1>3. e = t + 1 /\ c = z.up[t]
  BY <1>1, <1>2, RunDry
<1>4. t + 1 \in 0..z.last /\ (t + 1) - 1 = t /\ t + 1 # 0
  BY <1>1, <1>2
<1>5. z.up[t + 1] \in Nat /\ z.up[t] <= z.up[t + 1]
  BY <1>4, UpNums
<1>6. c \in z.up[(t + 1) - 1]..z.up[t + 1]
  BY <1>1, <1>3, <1>4, <1>5
<1>7. 1 - cur[w] = (t + 1) % 2
  BY <1>1, <1>2, Parity
<1>8. CASE last[w]
  <2>1. Given(z, Copies(w, MetaOf(z, t + 1), (t + 1) % 2), t + 1, z.up[(t + 1) - 1])
    BY <1>4, CopiesGiven
  <2>2. Given(z, queue'[w], t + 1, c)
    BY <1>2, <1>3, <1>4, <1>7, <1>8, <2>1
  <2>3. pc'[w] = "done" /\ t + 1 = z.last
    BY <1>2, <1>8
  <2> QED
    BY <1>1, <1>2, <1>3, <1>4, <1>6, <2>2, <2>3 DEF Taker
<1>9. CASE ~last[w]
  <2>0. t + 1 # z.last
    BY <1>2, <1>9
  <2>1. pc'[w] = "start" /\ queue'[w] = <<>> /\ t + 1 < z.last
    <3>1. t + 1 < z.last
      BY <1>1, <1>2, <2>0
    <3> QED
      BY <1>9, <3>1
  <2>2. cur'[w] = (t + 1) % 2 /\ c = z.up[(t + 1) - 1]
    BY <1>3, <1>4, <1>7
  <2> QED
    BY <1>1, <1>2, <1>3, <1>4, <1>6, <2>1, <2>2 DEF Taker
<1> QED
  BY <1>8, <1>9

\* XCCL: it queues the copies of the bucket it has, and asks for the next.
LEMMA TakerStarts ==
  ASSUME NEW z, NEW k, NEW s, Planned(z, k, s), NEW e, NEW P, NEW w \in Rollouts, NEW t, NEW c, Taker(z, e, P, w, t, c),
         pc[w] = "start", pc'[w] = "wait", op'[w] = [stage |-> "receive", b |-> 1 - cur[w]],
         queue'[w] = queue[w] \o Copies(w, meta[w], cur[w]),
         meta'[w] = meta[w], last'[w] = last[w], cur'[w] = cur[w],
         buf'[w] = buf[w], wire'[w] = wire[w], got'[w] = got[w]
  PROVE  Taker(z, e, P, w, t, c)'
<1>1. /\ t \in 0..z.last /\ t \in Nat /\ c \in z.up[t - 1]..z.up[t] /\ P \in Nat /\ e \in Nat
  BY TakerNums DEF Taker
<1>2. /\ t < z.last /\ cur[w] = t % 2 /\ queue[w] = <<>> /\ meta[w] = MetaOf(z, t) /\ c = z.up[t - 1] /\ e = t
      /\ Coming(z, wire[w], t, P) /\ got[w] = [j \in 1..z.base + c |-> j - 1] /\ Stored(z, e, buf[w])
  BY DEF Taker
<1> DEFINE q == Copies(w, meta[w], cur[w])
<1>3. Given(z, q, t, c)
  BY <1>1, <1>2, CopiesGiven
<1> HIDE DEF q
<1>4. queue'[w] = q
  <2>1. q \in Seq(ToSet(q))
    BY <1>3 DEF Given, IsSeq
  <2>2. <<>> \o q = q
    BY <2>1
  <2> QED
    BY <1>2, <2>2 DEF q
<1>5. op'[w] = [stage |-> "receive", b |-> (t + 1) % 2]
  BY <1>1, <1>2, Parity
<1> QED
  BY <1>1, <1>2, <1>3, <1>4, <1>5 DEF Taker

\* XCCL: it queues the broadcast of the next bucket.
LEMMA TakerAsks ==
  ASSUME NEW z, NEW s, Planned(z, "xccl", s), NEW e, NEW P, NEW w \in Rollouts, NEW t, NEW c, Taker(z, e, P, w, t, c),
         Kept, op[w].stage = "receive", wire[w] # <<>>, op'[w] = [stage |-> "ready", m |-> Head(wire[w])],
         queue'[w] = queue[w] \o <<Bcast(op[w].b, Head(wire[w]).len)>>, wire'[w] = Tail(wire[w]),
         pc'[w] = pc[w], meta'[w] = meta[w], last'[w] = last[w], cur'[w] = cur[w],
         buf'[w] = buf[w], got'[w] = got[w]
  PROVE  Taker(z, e, P, w, t, c)'
<1>1. /\ t \in 0..z.last /\ t \in Nat /\ c \in Nat /\ c \in z.up[t - 1]..z.up[t] /\ P \in Nat /\ e \in Nat
      /\ z.up[t] \in Nat /\ c <= z.up[t]
  BY TakerNums DEF Taker
<1>2. pc[w] = "wait"
  BY DEF Kept, Pending
<1>3. /\ t < z.last /\ cur[w] = t % 2 /\ meta[w] = MetaOf(z, t) /\ got[w] = [j \in 1..z.base + c |-> j - 1]
      /\ Stored(z, e, buf[w])
  BY <1>2 DEF Taker
<1>4. op[w] = [stage |-> "receive", b |-> (t + 1) % 2] /\ e = t /\ Given(z, queue[w], t, c) /\ Coming(z, wire[w], t, P)
  <2>1. op[w] # [stage |-> "ready", m |-> MsgOf(z, t + 1)]
    OBVIOUS
  <2> QED
    BY <1>2, <2>1 DEF Taker
<1>5. Head(wire[w]) = MsgOf(z, t + 1) /\ Coming(z, Tail(wire[w]), t + 1, P)
  BY <1>1, <1>4, MailComes
<1>6. MsgOf(z, t + 1).len = LenOf(z, t + 1)
  <2>1. z.kind = "xccl"
    BY PlanFacts
  <2> QED
    BY <2>1 DEF MsgOf
<1>7. op[w].b = (t + 1) % 2
  BY <1>4
<1>8. \E x \in DOMAIN queue'[w] : Asking(z, queue'[w], t, c, x)
  <2> DEFINE r == queue[w] \o <<Bcast((t + 1) % 2, LenOf(z, t + 1))>>
  <2>1. queue'[w] = r
    BY <1>5, <1>6, <1>7
  <2>2. \E x \in DOMAIN r : Asking(z, r, t, c, x)
    BY <1>1, <1>4, AsksLast
  <2> HIDE DEF r
  <2> QED
    BY <2>1, <2>2
<1>9. Asked(z, queue'[w], t, c, e)
  BY <1>4, <1>8 DEF Asked
<1> QED
  BY <1>1, <1>2, <1>3, <1>5, <1>9 DEF Taker

\* XCCL: it learns what is in the bucket.
LEMMA TakerLearns ==
  ASSUME NEW z, NEW s, Planned(z, "xccl", s), NEW e, NEW P, NEW w \in Rollouts, NEW t, NEW c, Taker(z, e, P, w, t, c),
         pc[w] = "wait", op[w].stage = "ready", op'[w] = NoOp, pc'[w] = "swap",
         meta'[w] = op[w].m.meta, last'[w] = op[w].m.last,
         queue'[w] = queue[w], wire'[w] = wire[w], cur'[w] = cur[w], buf'[w] = buf[w], got'[w] = got[w]
  PROVE  Taker(z, e, P, w, t, c)'
<1>1. /\ t \in 0..z.last /\ t \in Nat /\ c \in Nat /\ c \in z.up[t - 1]..z.up[t] /\ P \in Nat /\ e \in Nat
  BY TakerNums DEF Taker
<1>2. /\ t < z.last /\ cur[w] = t % 2 /\ got[w] = [j \in 1..z.base + c |-> j - 1]
      /\ Stored(z, e, buf[w])
  BY DEF Taker
<1>3. op[w] = [stage |-> "ready", m |-> MsgOf(z, t + 1)] /\ Asked(z, queue[w], t, c, e) /\ Coming(z, wire[w], t + 1, P)
  <2>1. op[w] # [stage |-> "receive", b |-> (t + 1) % 2]
    OBVIOUS
  <2> QED
    BY <2>1 DEF Taker
<1>4. op[w].m = MsgOf(z, t + 1)
  BY <1>3
<1>5. MsgOf(z, t + 1).meta = MetaOf(z, t + 1) /\ MsgOf(z, t + 1).last = (t + 1 = z.last)
  BY DEF MsgOf
<1> QED
  BY <1>1, <1>2, <1>3, <1>4, <1>5 DEF Taker

\* CNCL: all three at once, but the broadcast is queued before the copies.
LEMMA TakerReceives ==
  ASSUME NEW z, NEW s, Planned(z, "cncl", s), NEW e, NEW P, NEW w \in Rollouts, NEW t, NEW c, Taker(z, e, P, w, t, c),
         pc[w] = "start", wire[w] # <<>>, wire'[w] = Tail(wire[w]),
         queue'[w] = queue[w] \o (<<Bcast(1 - cur[w], BucketSize)>> \o Copies(w, meta[w], cur[w])),
         meta'[w] = Head(wire[w]).meta, last'[w] = Head(wire[w]).last, pc'[w] = "swap",
         op'[w] = op[w], cur'[w] = cur[w], buf'[w] = buf[w], got'[w] = got[w]
  PROVE  Taker(z, e, P, w, t, c)'
<1>1. /\ t \in 0..z.last /\ t \in Nat /\ c \in Nat /\ c \in z.up[t - 1]..z.up[t] /\ P \in Nat /\ e \in Nat
      /\ z.up[t] \in Nat /\ c <= z.up[t]
  BY TakerNums DEF Taker
<1>2. /\ t < z.last /\ cur[w] = t % 2 /\ queue[w] = <<>> /\ meta[w] = MetaOf(z, t) /\ c = z.up[t - 1] /\ e = t
      /\ Coming(z, wire[w], t, P) /\ got[w] = [j \in 1..z.base + c |-> j - 1] /\ Stored(z, e, buf[w]) /\ op[w] = NoOp
  BY DEF Taker
<1>3. Head(wire[w]) = MsgOf(z, t + 1) /\ Coming(z, Tail(wire[w]), t + 1, P)
  BY <1>1, <1>2, MailComes
<1>4. MsgOf(z, t + 1).meta = MetaOf(z, t + 1) /\ MsgOf(z, t + 1).last = (t + 1 = z.last)
  BY DEF MsgOf
<1>5. LenOf(z, t + 1) = BucketSize
  <2>1. z.kind = "cncl"
    BY PlanFacts
  <2> QED
    BY <2>1 DEF LenOf
<1> DEFINE q == Copies(w, meta[w], cur[w])   r == <<Bcast((t + 1) % 2, LenOf(z, t + 1))>> \o q
<1>6. Given(z, q, t, c)
  BY <1>1, <1>2, CopiesGiven
<1> HIDE DEF q
<1>7. \E x \in DOMAIN r : Asking(z, r, t, c, x)
  BY <1>1, <1>6, AsksFirst
<1>8. queue'[w] = r
  <2>1. <<Bcast(1 - cur[w], BucketSize)>> \o q = r
    BY <1>1, <1>2, <1>5, Parity
  <2> HIDE DEF r
  <2>2. r \in Seq(ToSet(r))
    BY <1>7 DEF Asking, IsSeq
  <2>3. <<>> \o r = r
    BY <2>2
  <2> QED
    BY <1>2, <2>1, <2>3 DEF q
<1> HIDE DEF r
<1>9. Asked(z, queue'[w], t, c, e)
  BY <1>2, <1>7, <1>8 DEF Asked
<1> QED
  BY <1>1, <1>2, <1>3, <1>4, <1>9 DEF Taker

\* The steps of the XCCL engine's rollout workers,
LEMMA XcclTakes ==
  ASSUME Kept, Domains, engine = "xccl", NEW w \in Rollouts,
         X!Join(w) \/ X!ReceiveMetadata(w) \/ X!StartReceive(w) \/ X!Received(w) \/ X!Swap(w) \/ X!Loaded(w),
         NEW z, Planned(z, engine, sync), NEW e, NEW P, NEW t, NEW c, Taker(z, e, P, w, t, c)
  PROVE  Lone(w) /\ \E t1, c1 : Taker(z, e, P, w, t1, c1)'
<1> USE DEF X!job, X!filling, X!net, X!work, X!device, X!Go, X!Push
<1>1. /\ DOMAIN queue = Workers /\ DOMAIN op = Workers /\ DOMAIN meta = Workers /\ DOMAIN last = Workers
      /\ DOMAIN cur = Workers /\ DOMAIN buf = Workers /\ DOMAIN wire = Rollouts /\ DOMAIN got = Rollouts
      /\ pc \in [Workers -> Labels] /\ w \in Workers /\ IsSeq(queue[w])
  BY Cluster DEF Kept, Shape, Domains
<1>2. Planned(z, "xccl", sync)
  OBVIOUS
<1>3. CASE X!Join(w)
  <2>1. RankOf(w) # -1
    BY RolloutsRanked DEF Kept, Shape
  <2>2. /\ SameJob /\ UNCHANGED <<queue, op, meta, last, cur, buf, wire, got, pulled, offset>>
        /\ pc[w] = "init" /\ pc' = [pc EXCEPT ![w] = "barrier"]
    BY <1>3, <2>1, Same DEF X!Join, SameJob
  <2>3. Lone(w)
    BY <1>1, <2>2 DEF Lone, StaysPut
  <2>4. Taker(z, e, P, w, t, c)'
    BY <1>1, <2>2, TakerWalks
  <2> QED
    BY <2>3, <2>4
<1>4. CASE X!ReceiveMetadata(w)
  <2>1. /\ SameJob /\ UNCHANGED <<pc, meta, last, cur, buf, got, pulled, offset>>
        /\ op[w].stage = "receive" /\ wire[w] # <<>>
        /\ op' = [op EXCEPT ![w] = [stage |-> "ready", m |-> Head(wire[w])]]
        /\ wire' = [wire EXCEPT ![w] = Tail(@)]
        /\ queue' = [queue EXCEPT ![w] = @ \o <<Bcast(op[w].b, Head(wire[w]).len)>>]
    BY <1>4 DEF X!ReceiveMetadata, X!Bcast, Bcast, SameJob
  <2>2. Lone(w)
    BY <1>1, <2>1 DEF Lone, StaysPut
  <2>3. Taker(z, e, P, w, t, c)'
    BY <1>1, <1>2, <2>1, TakerAsks
  <2> QED
    BY <2>2, <2>3
<1>5. CASE X!StartReceive(w)
  <2>1. /\ SameJob /\ UNCHANGED <<meta, last, cur, wire, buf, got, pulled, offset>>
        /\ pc[w] = "start" /\ pc' = [pc EXCEPT ![w] = "wait"]
        /\ op' = [op EXCEPT ![w] = [stage |-> "receive", b |-> 1 - cur[w]]]
        /\ queue' = [queue EXCEPT ![w] = @ \o Copies(w, meta[w], cur[w])]
    BY <1>5 DEF X!StartReceive, X!Copies, Copies, SameJob
  <2>2. Lone(w)
    BY <1>1, <2>1 DEF Lone, StaysPut
  <2>3. Taker(z, e, P, w, t, c)'
    BY <1>1, <1>2, <2>1, TakerStarts
  <2> QED
    BY <2>2, <2>3
<1>6. CASE X!Received(w)
  <2>1. /\ SameJob /\ UNCHANGED <<queue, cur, wire, buf, got, pulled, offset>>
        /\ pc[w] = "wait" /\ pc' = [pc EXCEPT ![w] = "swap"]
        /\ op[w].stage = "ready" /\ op' = [op EXCEPT ![w] = NoOp]
        /\ meta' = [meta EXCEPT ![w] = op[w].m.meta] /\ last' = [last EXCEPT ![w] = op[w].m.last]
    BY <1>6 DEF X!Received, X!NoOp, NoOp, SameJob
  <2>2. Lone(w)
    BY <1>1, <2>1 DEF Lone, StaysPut
  <2>3. Taker(z, e, P, w, t, c)'
    BY <1>1, <1>2, <2>1, TakerLearns
  <2> QED
    BY <2>2, <2>3
<1>7. CASE X!Swap(w)
  <2> DEFINE xs == Copies(w, meta[w], 1 - cur[w])
  <2>1. /\ SameJob /\ UNCHANGED <<op, meta, last, wire, buf, got, pulled, offset>>
        /\ pc[w] = "swap" /\ queue[w] = <<>> /\ cur' = [cur EXCEPT ![w] = 1 - @]
        /\ IF last[w] THEN pc' = [pc EXCEPT ![w] = "done"] /\ queue' = [queue EXCEPT ![w] = @ \o xs]
           ELSE pc' = [pc EXCEPT ![w] = "start"] /\ queue' = queue
    BY <1>7 DEF X!Swap, X!Settled, X!Quiet, X!Copies, Copies, SameJob
  <2>2. IsSeq(xs)
    BY <1>1, CopiesOf DEF Kept, Lists
  <2> HIDE DEF xs
  <2>3. <<>> \o xs = xs
    BY <2>2 DEF IsSeq
  <2>4. Lone(w)
    BY <1>1, <2>1 DEF Lone, StaysPut
  <2>5. /\ pc'[w] = IF last[w] THEN "done" ELSE "start"
        /\ queue'[w] = IF last[w] THEN xs ELSE <<>>
        /\ cur'[w] = 1 - cur[w]
    BY <1>1, <2>1, <2>3
  <2>6. Taker(z, e, P, w, t + 1, c)'
    BY <1>2, <2>1, <2>5, TakerSwaps DEF xs
  <2> QED
    BY <2>4, <2>6
<1>8. CASE X!Loaded(w)
  <2>1. /\ SameJob /\ UNCHANGED <<queue, op, meta, last, cur, buf, wire, got, pulled, offset>>
        /\ pc[w] = "done" /\ pc' = [pc EXCEPT ![w] = "loaded"] /\ queue[w] = <<>>
    BY <1>8 DEF X!Loaded, X!Quiet, SameJob
  <2>2. Lone(w)
    BY <1>1, <2>1 DEF Lone, StaysPut
  <2>3. Taker(z, e, P, w, t, c)'
    BY <1>1, <2>1, TakerWalks
  <2> QED
    BY <2>2, <2>3
<1> QED
  BY <1>3, <1>4, <1>5, <1>6, <1>7, <1>8

\* The steps of the CNCL engine's rollout workers.
LEMMA CnclTakes ==
  ASSUME Kept, Domains, engine = "cncl", NEW w \in Rollouts,
         C!Join(w) \/ C!Receive(w) \/ C!Swap(w) \/ C!Loaded(w),
         NEW z, Planned(z, engine, sync), NEW e, NEW P, NEW t, NEW c, Taker(z, e, P, w, t, c)
  PROVE  Lone(w) /\ \E t1, c1 : Taker(z, e, P, w, t1, c1)'
<1> USE DEF C!job, C!filling, C!net, C!work, C!device, C!Go, C!Push
<1>1. /\ DOMAIN queue = Workers /\ DOMAIN op = Workers /\ DOMAIN meta = Workers /\ DOMAIN last = Workers
      /\ DOMAIN cur = Workers /\ DOMAIN buf = Workers /\ DOMAIN wire = Rollouts /\ DOMAIN got = Rollouts
      /\ pc \in [Workers -> Labels] /\ w \in Workers /\ IsSeq(queue[w])
  BY Cluster DEF Kept, Shape, Domains
<1>2. Planned(z, "cncl", sync)
  OBVIOUS
<1>3. CASE C!Join(w)
  <2>1. RankOf(w) # -1
    BY RolloutsRanked DEF Kept, Shape
  <2>2. /\ SameJob /\ UNCHANGED <<queue, op, meta, last, cur, buf, wire, got, pulled, offset>>
        /\ pc[w] = "init" /\ pc' = [pc EXCEPT ![w] = "barrier"]
    BY <1>3, <2>1, Same DEF C!Join, SameJob
  <2>3. Lone(w)
    BY <1>1, <2>2 DEF Lone, StaysPut
  <2>4. Taker(z, e, P, w, t, c)'
    BY <1>1, <2>2, TakerWalks
  <2> QED
    BY <2>3, <2>4
<1>4. CASE C!Receive(w)
  <2> DEFINE xs == <<Bcast(1 - cur[w], BucketSize)>> \o Copies(w, meta[w], cur[w])
  <2>1. /\ SameJob /\ UNCHANGED <<op, cur, buf, got, pulled, offset>>
        /\ pc[w] = "start" /\ pc' = [pc EXCEPT ![w] = "swap"] /\ wire[w] # <<>>
        /\ wire' = [wire EXCEPT ![w] = Tail(@)]
        /\ meta' = [meta EXCEPT ![w] = Head(wire[w]).meta] /\ last' = [last EXCEPT ![w] = Head(wire[w]).last]
        /\ queue' = [queue EXCEPT ![w] = @ \o xs]
    BY <1>4 DEF C!Receive, C!Bcast, Bcast, C!Copies, Copies, SameJob
  <2> HIDE DEF xs
  <2>2. Lone(w)
    BY <1>1, <2>1 DEF Lone, StaysPut
  <2>3. /\ queue'[w] = queue[w] \o xs /\ wire'[w] = Tail(wire[w]) /\ meta'[w] = Head(wire[w]).meta
        /\ last'[w] = Head(wire[w]).last /\ pc'[w] = "swap" /\ op'[w] = op[w] /\ cur'[w] = cur[w]
        /\ buf'[w] = buf[w] /\ got'[w] = got[w]
    BY <1>1, <2>1
  <2>4. Taker(z, e, P, w, t, c)'
    BY <1>2, <2>1, <2>3, TakerReceives DEF xs
  <2> QED
    BY <2>2, <2>4
<1>5. CASE C!Swap(w)
  <2> DEFINE xs == Copies(w, meta[w], 1 - cur[w])
  <2>1. /\ SameJob /\ UNCHANGED <<op, meta, last, wire, buf, got, pulled, offset>>
        /\ pc[w] = "swap" /\ queue[w] = <<>> /\ cur' = [cur EXCEPT ![w] = 1 - @]
        /\ IF last[w] THEN pc' = [pc EXCEPT ![w] = "done"] /\ queue' = [queue EXCEPT ![w] = @ \o xs]
           ELSE pc' = [pc EXCEPT ![w] = "start"] /\ queue' = queue
    BY <1>5 DEF C!Swap, C!Settled, C!Quiet, C!Copies, Copies, SameJob
  <2>2. IsSeq(xs)
    BY <1>1, CopiesOf DEF Kept, Lists
  <2> HIDE DEF xs
  <2>3. <<>> \o xs = xs
    BY <2>2 DEF IsSeq
  <2>4. Lone(w)
    BY <1>1, <2>1 DEF Lone, StaysPut
  <2>5. /\ pc'[w] = IF last[w] THEN "done" ELSE "start"
        /\ queue'[w] = IF last[w] THEN xs ELSE <<>>
        /\ cur'[w] = 1 - cur[w]
    BY <1>1, <2>1, <2>3
  <2>6. Taker(z, e, P, w, t + 1, c)'
    BY <1>2, <2>1, <2>5, TakerSwaps DEF xs
  <2> QED
    BY <2>4, <2>6
<1>6. CASE C!Loaded(w)
  <2>1. /\ SameJob /\ UNCHANGED <<queue, op, meta, last, cur, buf, wire, got, pulled, offset>>
        /\ pc[w] = "done" /\ pc' = [pc EXCEPT ![w] = "loaded"] /\ queue[w] = <<>>
    BY <1>6 DEF C!Loaded, C!Quiet, SameJob
  <2>2. Lone(w)
    BY <1>1, <2>1 DEF Lone, StaysPut
  <2>3. Taker(z, e, P, w, t, c)'
    BY <1>1, <2>1, TakerWalks
  <2> QED
    BY <2>2, <2>3
<1> QED
  BY <1>3, <1>4, <1>5, <1>6

-----------------------------------------------------------------------------
(* What the sender queues.                                                   *)

\* A gather changes nothing.
LEMMA LinedGather ==
  ASSUME NEW z, NEW q, NEW f, NEW m, NEW e, NEW r, NEW pf, NEW pb, Lined(z, q, f, m, e, r, pf, pb)
  PROVE  Lined(z, q \o <<[do |-> "gather"]>>, f, m, e, r, pf, pb)
<1> DEFINE x == [do |-> "gather"]   p == q \o <<x>>
<1>0. x.do = "gather"
  OBVIOUS
<1> HIDE DEF x
<1>1. /\ IsSeq(q) /\ Marks(q, "fill", f, m, pf) /\ Marks(q, "bcast", e, r, pb)
      /\ \A j \in DOMAIN q : q[j].do \in {"gather", "fill", "bcast"}
      /\ \A i \in f + 1..m : q[pf[i]] = FillOf(z, i)
      /\ \A k \in e + 1..r : q[pb[k]] = Bcast((k - 1) % 2, LenOf(z, k))
  BY DEF Lined
<1>2. /\ \A i \in f + 1..m : pf[i] \in DOMAIN q
      /\ \A k \in e + 1..r : pb[k] \in DOMAIN q
  BY <1>1 DEF Marks
<1>3. /\ IsSeq(p) /\ Len(q) \in Nat /\ DOMAIN q = 1..Len(q) /\ DOMAIN p = 1..Len(q) + 1
      /\ p[Len(q) + 1] = x /\ \A j \in 1..Len(q) : p[j] = q[j]
  BY <1>1, Pushed
<1>4. Marks(p, "fill", f, m, pf) /\ Marks(p, "bcast", e, r, pb)
  BY <1>0, <1>1, MarksPush
<1> HIDE DEF p
<1>5. \A j \in DOMAIN p : p[j].do \in {"gather", "fill", "bcast"}
  <2> SUFFICES ASSUME NEW j \in 1..Len(q) + 1 PROVE p[j].do \in {"gather", "fill", "bcast"}
    BY <1>3
  <2>1. j = Len(q) + 1 \/ j \in 1..Len(q)
    BY <1>3
  <2> QED
    BY <1>0, <1>1, <1>3, <2>1
<1>6. /\ \A i \in f + 1..m : p[pf[i]] = FillOf(z, i)
      /\ \A k \in e + 1..r : p[pb[k]] = Bcast((k - 1) % 2, LenOf(z, k))
  BY <1>1, <1>2, <1>3
<1>7. \A i \in f + 1..m, k \in e + 1..r :
        /\ i <= z.up[k] => pf[i] < pb[k]
        /\ z.bk[i] >= k + 2 => z.kind = "xccl" /\ pb[k] < pf[i]
  BY DEF Lined
<1>8. Lined(z, p, f, m, e, r, pf, pb)
  BY <1>3, <1>4, <1>5, <1>6, <1>7 DEF Lined
<1> QED
  BY <1>8 DEF p, x

\* The next chunk, of a bucket that has yet to be handed over.
LEMMA LinedFill ==
  ASSUME NEW z, NEW q, NEW f, NEW m, NEW e, NEW r, NEW pf, NEW pb, Lined(z, q, f, m, e, r, pf, pb),
         \A k \in e + 1..r : ~(m + 1 <= z.up[k]) /\ (z.bk[m + 1] >= k + 2 => z.kind = "xccl")
  PROVE  \E pg : Lined(z, q \o <<FillOf(z, m + 1)>>, f, m + 1, e, r, pg, pb)
<1> DEFINE x == FillOf(z, m + 1)   p == q \o <<x>>   pg == Extended(pf, f, m, Len(q) + 1)
<1>0. x.do = "fill"
  BY DEF FillOf
<1>1. /\ IsSeq(q) /\ Marks(q, "fill", f, m, pf) /\ Marks(q, "bcast", e, r, pb)
      /\ \A j \in DOMAIN q : q[j].do \in {"gather", "fill", "bcast"}
      /\ \A i \in f + 1..m : q[pf[i]] = FillOf(z, i)
      /\ \A k \in e + 1..r : q[pb[k]] = Bcast((k - 1) % 2, LenOf(z, k))
  BY DEF Lined
<1>2. /\ \A i \in f + 1..m : pf[i] \in DOMAIN q
      /\ \A k \in e + 1..r : pb[k] \in DOMAIN q
      /\ f \in Nat /\ m \in Nat /\ e \in Nat /\ r \in Nat /\ f <= m
  BY <1>1 DEF Marks
<1> HIDE DEF x
<1>3. /\ IsSeq(p) /\ Len(q) \in Nat /\ DOMAIN q = 1..Len(q) /\ DOMAIN p = 1..Len(q) + 1
      /\ p[Len(q) + 1] = x /\ \A j \in 1..Len(q) : p[j] = q[j]
  BY <1>1, Pushed
<1>4. Marks(p, "fill", f, m + 1, pg) /\ Marks(p, "bcast", e, r, pb)
  BY <1>0, <1>1, MarksPush
<1> HIDE DEF p
<1>5. \A j \in DOMAIN p : p[j].do \in {"gather", "fill", "bcast"}
  <2> SUFFICES ASSUME NEW j \in 1..Len(q) + 1 PROVE p[j].do \in {"gather", "fill", "bcast"}
    BY <1>3
  <2>1. j = Len(q) + 1 \/ j \in 1..Len(q)
    BY <1>3
  <2> QED
    BY <1>0, <1>1, <1>3, <2>1
<1>6. \A i \in f + 1..m + 1 : pg[i] = IF i = m + 1 THEN Len(q) + 1 ELSE pf[i]
  BY DEF Extended
<1>7. \A i \in f + 1..m + 1 : i = m + 1 \/ (i # m + 1 /\ i \in f + 1..m)
  BY <1>2
<1> HIDE DEF pg
<1>8. ASSUME NEW i \in f + 1..m + 1 PROVE p[pg[i]] = FillOf(z, i)
  BY <1>1, <1>2, <1>3, <1>6, <1>7 DEF x
<1>9. \A k \in e + 1..r : p[pb[k]] = Bcast((k - 1) % 2, LenOf(z, k))
  BY <1>1, <1>2, <1>3
<1>10. ASSUME NEW i \in f + 1..m + 1, NEW k \in e + 1..r
       PROVE  /\ i <= z.up[k] => pg[i] < pb[k]
              /\ z.bk[i] >= k + 2 => z.kind = "xccl" /\ pb[k] < pg[i]
  <2>1. CASE i = m + 1
    <3>1. pg[i] = Len(q) + 1 /\ pb[k] \in 1..Len(q)
      BY <1>2, <1>3, <1>6, <2>1
    <3>2. pb[k] < pg[i]
      BY <1>3, <3>1
    <3> QED
      BY <2>1, <3>2
  <2>2. CASE i # m + 1
    BY <1>6, <1>7, <2>2 DEF Lined
  <2> QED
    BY <2>1, <2>2
<1>11. Lined(z, p, f, m + 1, e, r, pg, pb)
  BY <1>3, <1>4, <1>5, <1>8, <1>9, <1>10 DEF Lined
<1> QED
  BY <1>11 DEF p, x

\* The broadcast of the next bucket, of which and of the next after it are the chunks that were queued.
LEMMA LinedCast ==
  ASSUME NEW z, NEW q, NEW f, NEW m, NEW e, NEW r, NEW pf, NEW pb, Lined(z, q, f, m, e, r, pf, pb),
         \A i \in f + 1..m : ~(z.bk[i] >= (r + 1) + 2)
  PROVE  \E pc1 : Lined(z, q \o <<Bcast(r % 2, LenOf(z, r + 1))>>, f, m, e, r + 1, pf, pc1)
<1> DEFINE x == Bcast(r % 2, LenOf(z, r + 1))   p == q \o <<x>>   pg == Extended(pb, e, r, Len(q) + 1)
<1>0. x.do = "bcast"
  BY DEF Bcast
<1>1. /\ IsSeq(q) /\ Marks(q, "fill", f, m, pf) /\ Marks(q, "bcast", e, r, pb)
      /\ \A j \in DOMAIN q : q[j].do \in {"gather", "fill", "bcast"}
      /\ \A i \in f + 1..m : q[pf[i]] = FillOf(z, i)
      /\ \A k \in e + 1..r : q[pb[k]] = Bcast((k - 1) % 2, LenOf(z, k))
  BY DEF Lined
<1>2. /\ \A i \in f + 1..m : pf[i] \in DOMAIN q
      /\ \A k \in e + 1..r : pb[k] \in DOMAIN q
      /\ f \in Nat /\ m \in Nat /\ e \in Nat /\ r \in Nat /\ e <= r
  BY <1>1 DEF Marks
<1> HIDE DEF x
<1>3. /\ IsSeq(p) /\ Len(q) \in Nat /\ DOMAIN q = 1..Len(q) /\ DOMAIN p = 1..Len(q) + 1
      /\ p[Len(q) + 1] = x /\ \A j \in 1..Len(q) : p[j] = q[j]
  BY <1>1, Pushed
<1>4. Marks(p, "fill", f, m, pf) /\ Marks(p, "bcast", e, r + 1, pg)
  BY <1>0, <1>1, MarksPush
<1> HIDE DEF p
<1>5. \A j \in DOMAIN p : p[j].do \in {"gather", "fill", "bcast"}
  <2> SUFFICES ASSUME NEW j \in 1..Len(q) + 1 PROVE p[j].do \in {"gather", "fill", "bcast"}
    BY <1>3
  <2>1. j = Len(q) + 1 \/ j \in 1..Len(q)
    BY <1>3
  <2> QED
    BY <1>0, <1>1, <1>3, <2>1
<1>6. \A k \in e + 1..r + 1 : pg[k] = IF k = r + 1 THEN Len(q) + 1 ELSE pb[k]
  BY DEF Extended
<1>7. \A k \in e + 1..r + 1 : k = r + 1 \/ (k # r + 1 /\ k \in e + 1..r)
  BY <1>2
<1> HIDE DEF pg
<1>8. ASSUME NEW k \in e + 1..r + 1 PROVE p[pg[k]] = Bcast((k - 1) % 2, LenOf(z, k))
  <2>1. CASE k = r + 1
    <3>1. k - 1 = r
      BY <1>2, <2>1
    <3> QED
      BY <1>3, <1>6, <2>1, <3>1 DEF x
  <2>2. CASE k # r + 1
    <3>1. k \in e + 1..r /\ pg[k] = pb[k] /\ pb[k] \in 1..Len(q)
      BY <1>2, <1>3, <1>6, <1>7, <2>2
    <3> QED
      BY <1>1, <1>3, <3>1
  <2> QED
    BY <2>1, <2>2
<1>9. \A i \in f + 1..m : p[pf[i]] = FillOf(z, i)
  BY <1>1, <1>2, <1>3
<1>10. ASSUME NEW i \in f + 1..m, NEW k \in e + 1..r + 1
       PROVE  /\ i <= z.up[k] => pf[i] < pg[k]
              /\ z.bk[i] >= k + 2 => z.kind = "xccl" /\ pg[k] < pf[i]
  <2>1. CASE k = r + 1
    <3>1. pg[k] = Len(q) + 1 /\ pf[i] \in 1..Len(q)
      BY <1>2, <1>3, <1>6, <2>1
    <3>2. pf[i] < pg[k]
      BY <1>3, <3>1
    <3> QED
      BY <2>1, <3>2
  <2>2. CASE k # r + 1
    BY <1>6, <1>7, <2>2 DEF Lined
  <2> QED
    BY <2>1, <2>2
<1>11. Lined(z, p, f, m, e, r + 1, pf, pg)
  BY <1>3, <1>4, <1>5, <1>8, <1>9, <1>10 DEF Lined
<1> QED
  BY <1>11 DEF p, x

\* Nothing is queued: all was filled and broadcast.
LEMMA LinedNone ==
  ASSUME NEW z, NEW f, NEW m, NEW e, NEW r, NEW pf, NEW pb, Lined(z, <<>>, f, m, e, r, pf, pb)
  PROVE  f = m /\ e = r
<1>1. Marks(<<>>, "fill", f, m, pf) /\ Marks(<<>>, "bcast", e, r, pb)
  BY DEF Lined
<1>2. \A j \in DOMAIN <<>> : FALSE
  OBVIOUS
<1>3. ASSUME NEW d, NEW lo, NEW hi, NEW pos, Marks(<<>>, d, lo, hi, pos) PROVE lo = hi
  <2>1. lo \in Nat /\ hi \in Nat /\ lo <= hi /\ pos \in [lo + 1..hi -> DOMAIN <<>>]
    BY <1>3 DEF Marks
  <2>2. lo + 1 \in lo + 1..hi => pos[lo + 1] \in DOMAIN <<>>
    BY <2>1
  <2>3. lo + 1 \notin lo + 1..hi
    BY <1>2, <2>2
  <2> QED
    BY <2>1, <2>3
<1> QED
  BY <1>1, <1>3

\* One more chunk in the metadata.
LEMMA PartsGrow ==
  ASSUME NEW z, NEW a \in Nat, NEW b \in Nat, a <= b
  PROVE  Append(Parts(z, a, b), <<z.at[b + 1], z.base + b>>) = Parts(z, a, b + 1)
<1> DEFINE p == Parts(z, a, b)   x == <<z.at[b + 1], z.base + b>>   r == Append(p, x)   s == Parts(z, a, b + 1)   d == b - a
<1>1. /\ IsSeq(p) /\ Len(p) = b - a /\ \A j \in 1..b - a : p[j] = <<z.at[a + j], z.base + (a + j) - 1>>
  BY PartsAre
<1>2. b + 1 \in Nat /\ a <= b + 1 /\ (b + 1) - a = (b - a) + 1 /\ b - a \in Nat
  OBVIOUS
<1>3. IsSeq(s) /\ Len(s) = (b - a) + 1 /\ \A j \in 1..(b - a) + 1 : s[j] = <<z.at[a + j], z.base + (a + j) - 1>>
  <2>1. IsSeq(s) /\ Len(s) = (b + 1) - a /\ \A j \in 1..(b + 1) - a : s[j] = <<z.at[a + j], z.base + (a + j) - 1>>
    <3>1. \A h \in Nat : a <= h => /\ IsSeq(Parts(z, a, h)) /\ Len(Parts(z, a, h)) = h - a
                                  /\ \A j \in 1..h - a : Parts(z, a, h)[j] = <<z.at[a + j], z.base + (a + j) - 1>>
      BY PartsAre
    <3> QED
      BY <1>2, <3>1
  <2> QED
    BY <1>2, <2>1
<1>4. s[d + 1] = x
  <2>1. d + 1 \in 1..(b - a) + 1 /\ a + (d + 1) = b + 1 /\ (b + 1) - 1 = b
    BY <1>2
  <2>2. s[d + 1] = <<z.at[b + 1], z.base + (b + 1) - 1>>
    BY <1>3, <2>1
  <2>3. z.base + (b + 1) - 1 = z.base + b
    OBVIOUS
  <2> QED
    BY <2>2, <2>3
<1> HIDE DEF p, x, s
<1>5. IsSeq(r) /\ Len(r) = d + 1 /\ r[d + 1] = x /\ \A j \in 1..d : r[j] = p[j]
  <2>1. IsSeq(r)
    BY <1>1, Added
  <2>2. p \in Seq(ToSet(p) \cup {x}) /\ x \in ToSet(p) \cup {x}
    BY <1>1 DEF IsSeq
  <2> QED
    BY <1>1, <1>2, <2>1, <2>2
<1> HIDE DEF r
<1>6. \A j \in 1..d + 1 : r[j] = s[j]
  <2> SUFFICES ASSUME NEW j \in 1..d + 1 PROVE r[j] = s[j]
    OBVIOUS
  <2>1. j = d + 1 \/ (j \in 1..d /\ j \in 1..b - a /\ j \in 1..(b - a) + 1)
    BY <1>2
  <2> QED
    BY <1>1, <1>3, <1>4, <1>5, <2>1
<1>7. r \in Seq(ToSet(r) \cup ToSet(s)) /\ s \in Seq(ToSet(r) \cup ToSet(s))
  BY <1>3, <1>5 DEF IsSeq
<1>8. \A T : \A u, v \in Seq(T) : Len(u) = Len(v) /\ (\A j \in 1..Len(u) : u[j] = v[j]) => u = v
  OBVIOUS
<1>9. Len(r) = Len(s) /\ Len(r) = d + 1
  BY <1>3, <1>5
<1>10. r = s
  BY <1>6, <1>7, <1>8, <1>9
<1> QED
  BY <1>10 DEF r, s, p, x

\* The engines' names for the same things.
LEMMA SameToo ==
  /\ X!Before = Before /\ C!Before = Before /\ X!Sizes = Sizes /\ C!Sizes = Sizes
  /\ \A i : X!Id(i) = Id(i) /\ C!Id(i) = Id(i)
  /\ X!NumSenders = NumSenders /\ X!Group = Group /\ C!Group = Group
  /\ \A i : X!ChunkSize(i) = ChunkSize(i) /\ C!ChunkSize(i) = ChunkSize(i)
<1>1. X!Before = Before /\ C!Before = Before
  BY DEF X!Before, C!Before, Before
<1>2. X!Sizes = Sizes /\ C!Sizes = Sizes
  BY DEF X!Sizes, C!Sizes, Sizes
<1>3. \A i : X!Id(i) = Id(i) /\ C!Id(i) = Id(i)
  BY <1>1 DEF X!Id, C!Id, Id
<1>4. X!NumSenders = NumSenders
  BY Same DEF X!NumSenders, NumSenders
<1>5. X!Group = Group /\ C!Group = Group
  <2>1. X!Ranks = Ranks /\ C!Ranks = Ranks
    BY DEF X!Workers, X!Actors, X!Rollouts, X!Master, C!Workers, C!Actors, C!Rollouts, C!Master, Workers, Actors,
       Rollouts, Master, X!Ranks, C!Ranks, Ranks, X!NodeMates, C!NodeMates, NodeMates,
       X!SingleSender, C!SingleSender, SingleSender, X!Cardinality, C!Cardinality, Cardinality
  <2>2. X!Workers = Workers /\ C!Workers = Workers
    BY Same
  <2> QED
    BY <2>1, <2>2 DEF X!Group, C!Group, Group, X!Groups, C!Groups, Groups
<1>6. \A i : X!ChunkSize(i) = ChunkSize(i) /\ C!ChunkSize(i) = ChunkSize(i)
  BY <1>1, <1>2 DEF X!ChunkSize, C!ChunkSize, ChunkSize
<1> QED
  BY <1>1, <1>2, <1>3, <1>4, <1>5, <1>6

-----------------------------------------------------------------------------
(* The steps of the sender's host.                                           *)

\* Where the next chunk goes.
LEMMA NextChunk ==
  ASSUME NEW z, NEW k, NEW s, Planned(z, k, s), NEW i \in Nat, i < z.n
  PROVE  LET p == PlaceIn(k, z.end[i], Loads[s][i + 1]) IN
         /\ i + 1 \in 1..z.n /\ Loads[s][i + 1] \in 0..BucketSize /\ z.end[i + 1] = z.at[i + 1] + Loads[s][i + 1]
         /\ p.at = z.at[i + 1] /\ p.flush \in BOOLEAN
         /\ p.flush => z.bk[i + 1] = z.bk[i] + 1 /\ z.up[z.bk[i]] = i /\ z.at[i + 1] = 0
         /\ ~p.flush => z.bk[i + 1] = z.bk[i]
         /\ z.bk[i + 1] \in 1..z.last /\ z.bk[i] \in 1..z.last /\ z.end[i] \in 0..BucketSize
<1> DEFINE p == PlaceIn(k, z.end[i], Loads[s][i + 1])
<1>1. i + 1 \in 1..z.n /\ (i + 1) - 1 = i /\ i \in 0..z.n /\ i + 1 \in 0..z.n /\ z.n \in Nat
  BY PlanFacts
<1>2. /\ Neat(z, z.n) /\ z.last = z.bk[z.n]
      /\ Loads[s][i + 1] \in 0..BucketSize /\ z.end[i + 1] = z.at[i + 1] + Loads[s][i + 1]
  BY <1>1, PlanFacts
<1>3. p.at = z.at[i + 1] /\ p.flush \in BOOLEAN /\ (p.flush <=> z.bk[i + 1] # z.bk[i])
  <2>1. LET r == PlaceIn(k, z.end[(i + 1) - 1], Loads[s][i + 1]) IN
        r.at = z.at[i + 1] /\ r.flush \in BOOLEAN /\ (r.flush <=> z.bk[i + 1] # z.bk[(i + 1) - 1])
    BY <1>1, PlanFacts
  <2> QED
    BY <1>1, <2>1
<1> HIDE DEF p
<1>4. \/ z.bk[i + 1] = z.bk[i] /\ z.up[z.bk[i]] >= i + 1
      \/ z.bk[i + 1] = z.bk[i] + 1 /\ z.up[z.bk[i]] = i /\ z.at[i + 1] = 0
  <2>1. \/ z.bk[i + 1] = z.bk[(i + 1) - 1] /\ z.up[z.bk[(i + 1) - 1]] >= i + 1
        \/ z.bk[i + 1] = z.bk[(i + 1) - 1] + 1 /\ z.up[z.bk[(i + 1) - 1]] = (i + 1) - 1 /\ z.at[i + 1] = 0
    BY <1>1, <1>2 DEF Neat
  <2> QED
    BY <1>1, <2>1
<1>5. z.bk[i + 1] \in 1..z.last /\ z.bk[i] \in 1..z.last /\ z.end[i] \in 0..BucketSize
  BY <1>1, <1>2 DEF Neat
<1> QED
  BY <1>1, <1>2, <1>3, <1>4, <1>5 DEF p

\* The first chunk of a bucket starts at 0.
LEMMA BeginsAtZero ==
  ASSUME NEW z, NEW k, NEW s, Planned(z, k, s), NEW m \in Nat, m < z.n, NEW F \in 0..z.last,
         z.up[F] = m, z.bk[m + 1] = F + 1
  PROVE  z.at[m + 1] = 0
<1> DEFINE p == PlaceIn(k, z.end[m], Loads[s][m + 1])
<1>1. /\ p.at = z.at[m + 1] /\ p.flush \in BOOLEAN /\ Loads[s][m + 1] \in 0..BucketSize
      /\ p.flush => z.at[m + 1] = 0
      /\ ~p.flush => z.bk[m + 1] = z.bk[m]
  BY NextChunk
<1>2. CASE m = 0
  <2>1. z.end[m] = 0
    BY <1>2, PlanFacts DEF Neat
  <2>2. p.at = 0
    <3>1. PlaceIn(k, 0, Loads[s][m + 1]).at = 0
      BY <1>1, PlaceIs
    <3> QED
      BY <2>1, <3>1
  <2> QED
    BY <1>1, <2>2
<1>3. CASE m # 0
  <2>1. z.bk[m] <= F
    <3>1. Neat(z, z.n) /\ z.last = z.bk[z.n] /\ m \in 1..z.n /\ F \in 0..z.bk[z.n]
      BY <1>3, PlanFacts
    <3>2. z.bk[m] <= F <=> m <= z.up[F]
      BY <3>1 DEF Neat
    <3> QED
      BY <3>2
  <2>2. z.bk[m] \in Nat /\ F \in Nat
    <3>1. z.bk[m] \in 1..z.last /\ z.last \in Nat
      BY NextChunk, PlanFacts
    <3> QED
      BY <3>1
  <2>3. p.flush
    BY <1>1, <2>1, <2>2
  <2> QED
    BY <1>1, <2>3
<1> QED
  BY <1>2, <1>3

\* The sender in numbers.
LEMMA SenderNums ==
  ASSUME NEW z, NEW k, NEW s, Planned(z, k, s),
         NEW F, NEW m, NEW E, NEW Q, NEW P, NEW f, Sender(z, F, m, E, Q, P, f)
  PROVE  /\ F \in 0..z.last /\ F \in Nat /\ m \in 0..z.n /\ m \in Nat /\ E \in Nat /\ Q \in Nat /\ P \in Nat /\ f \in Nat
         /\ z.up[F] \in Nat /\ z.up[F] <= m /\ z.bk[m] <= F + 1 /\ z.bk[m] \in 1..z.last /\ z.bk[m] \in Nat
         /\ z.last \in Nat /\ z.last >= 1 /\ z.n \in Nat /\ z.last = z.bk[z.n] /\ z.up[z.last] = z.n /\ z.base \in Nat
<1>1. F \in 0..z.last /\ m \in 0..z.n /\ E \in Nat /\ Q \in Nat /\ P \in Nat /\ f \in Nat /\ z.up[F] <= m /\ z.bk[m] <= F + 1
  BY DEF Sender
<1>2. z.last \in Nat /\ z.last >= 1 /\ z.n \in Nat /\ z.last = z.bk[z.n] /\ Neat(z, z.n) /\ z.base \in Nat
  BY PlanFacts
<1>3. z.up[F] \in 0..z.n /\ z.bk[m] \in 1..z.last /\ z.up[z.last] = z.n
  <2>1. F \in -1..z.bk[z.n]
    BY <1>1, <1>2
  <2> QED
    BY <1>1, <1>2, <2>1 DEF Neat
<1>4. F \in Nat /\ m \in Nat /\ z.up[F] \in Nat /\ z.bk[m] \in Nat
  BY <1>1, <1>2, <1>3
<1> QED
  BY <1>1, <1>2, <1>3, <1>4

\* It queues the fill of its next chunk,
LEMMA SenderFills ==
  ASSUME NEW z, NEW k, NEW s, Planned(z, k, s),
         NEW F, NEW m, NEW E, NEW Q, NEW P, NEW f, Sender(z, F, m, E, Q, P, f),
         m < z.n, z.bk[m + 1] = F + 1, Q <= F, z.kind # "xccl" => E >= F - 1
  PROVE  \E pf, pb : Lined(z, queue[Master] \o <<FillOf(z, m + 1)>>, f, m + 1, E, Q, pf, pb)
<1>1. /\ F \in 0..z.last /\ F \in Nat /\ m \in Nat /\ E \in Nat /\ Q \in Nat /\ z.last \in Nat /\ z.n \in Nat
      /\ z.last = z.bk[z.n]
  BY SenderNums
<1>2. PICK pf, pb : Lined(z, queue[Master], f, m, E, Q, pf, pb)
  BY DEF Sender
<1>3. ASSUME NEW j \in E + 1..Q PROVE ~(m + 1 <= z.up[j]) /\ (z.bk[m + 1] >= j + 2 => z.kind = "xccl")
  <2>1. j \in 0..z.bk[z.n] /\ m + 1 \in 1..z.n /\ j < F + 1 /\ j >= E + 1
    BY <1>1
  <2>2. z.bk[m + 1] <= j <=> m + 1 <= z.up[j]
    BY <2>1, PlanFacts DEF Neat
  <2>3. ~(F + 1 <= j)
    BY <1>1, <2>1
  <2>4. F + 1 >= j + 2 => z.kind = "xccl"
    BY <1>1, <2>1
  <2> QED
    BY <2>2, <2>3, <2>4
<1> QED
  BY <1>2, <1>3, LinedFill

\* The sender queues the broadcast of the next bucket.
LEMMA SenderCasts ==
  ASSUME NEW z, NEW k, NEW s, Planned(z, k, s),
         NEW F, NEW m, NEW E, NEW Q, NEW P, NEW f, Sender(z, F, m, E, Q, P, f), z.bk[m] <= Q + 2
  PROVE  \E pf, pb : Lined(z, queue[Master] \o <<Bcast(Q % 2, LenOf(z, Q + 1))>>, f, m, E, Q + 1, pf, pb)
<1>1. /\ F \in 0..z.last /\ m \in Nat /\ E \in Nat /\ Q \in Nat /\ z.last \in Nat /\ z.n \in Nat /\ m \in 0..z.n /\ f \in Nat
      /\ z.last = z.bk[z.n] /\ z.bk[m] \in Nat
  BY SenderNums
<1>2. PICK pf, pb : Lined(z, queue[Master], f, m, E, Q, pf, pb)
  BY DEF Sender
<1>3. ASSUME NEW i \in f + 1..m PROVE ~(z.bk[i] >= (Q + 1) + 2)
  <2>1. i \in 0..z.n /\ i <= m
    BY <1>1
  <2>2. z.bk[i] <= z.bk[m] /\ z.bk[i] \in 1..z.bk[z.n]
    BY <1>1, <2>1, PlanFacts DEF Neat
  <2>3. z.bk[i] \in Nat
    BY <1>1, <2>2
  <2> QED
    BY <1>1, <2>2, <2>3
<1>4. \E pc1 : Lined(z, queue[Master] \o <<Bcast(Q % 2, LenOf(z, Q + 1))>>, f, m, E, Q + 1, pf, pc1)
  BY <1>2, <1>3, LinedCast
<1> QED
  BY <1>4

\* The sender queues the gather of a weight.
LEMMA SenderGathers ==
  ASSUME NEW z, NEW F, NEW m, NEW E, NEW Q, NEW P, NEW f, Sender(z, F, m, E, Q, P, f)
  PROVE  \E pf, pb : Lined(z, queue[Master] \o <<[do |-> "gather"]>>, f, m, E, Q, pf, pb)
<1>1. PICK pf, pb : Lined(z, queue[Master], f, m, E, Q, pf, pb)
  BY DEF Sender
<1> QED
  BY <1>1, LinedGather

\* What it has filled of a bucket grows by a chunk.
LEMMA FillingGrows ==
  ASSUME NEW z, NEW k, NEW s, Planned(z, k, s),
         NEW F, NEW m, NEW E, NEW Q, NEW P, NEW f, Sender(z, F, m, E, Q, P, f), m < z.n, z.bk[m + 1] = F + 1,
         \/ Filling(z, F, m) /\ meta'[Master] = Append(meta[Master], <<z.at[m + 1], z.base + m>>)
         \/ z.up[F] = m /\ meta'[Master] = Append(<<>>, <<z.at[m + 1], z.base + m>>),
         offset'[Master] = z.end[m + 1]
  PROVE  Filling(z, F, m + 1)' /\ m + 1 \in 0..z.n /\ z.up[F] <= m + 1 /\ z.bk[m + 1] <= F + 1
<1>1. F \in Nat /\ m \in Nat /\ z.n \in Nat /\ z.up[F] \in Nat /\ z.up[F] <= m
  BY SenderNums
<1>2. m + 1 \in 0..z.n /\ z.up[F] <= m + 1 /\ z.bk[m + 1] <= F + 1 /\ F = z.bk[m + 1] - 1
  BY <1>1
<1>3. Append(Parts(z, z.up[F], m), <<z.at[m + 1], z.base + m>>) = Parts(z, z.up[F], m + 1)
  BY <1>1, PartsGrow
<1>4. CASE Filling(z, F, m) /\ meta'[Master] = Append(meta[Master], <<z.at[m + 1], z.base + m>>)
  BY <1>2, <1>3, <1>4 DEF Filling
<1>5. CASE z.up[F] = m /\ meta'[Master] = Append(<<>>, <<z.at[m + 1], z.base + m>>)
  <2>1. Parts(z, z.up[F], m) = <<>>
    BY <1>1, <1>5, NoParts
  <2>2. meta'[Master] = Parts(z, z.up[F], m + 1)
    BY <1>3, <1>5, <2>1
  <2> QED
    BY <1>2, <2>2 DEF Filling
<1> QED
  BY <1>4, <1>5

\* What the steps of a sender change must fit again.
LEMMA SenderAgain ==
  ASSUME NEW z, NEW F, NEW m, NEW E, NEW Q, NEW P, NEW f, Sender(z, F, m, E, Q, P, f), buf'[Master] = buf[Master],
         NEW F1 \in 0..z.last, NEW m1 \in 0..z.n, NEW Q1 \in Nat, NEW P1 \in Nat, z.up[F1] <= m1, z.bk[m1] <= F1 + 1,
         \E pf, pb : Lined(z, queue'[Master], f, m1, E, Q1, pf, pb),
         IF z.kind = "xccl" THEN XcclHost(z, F1, m1, P1, Q1)' ELSE CnclHost(z, F1, m1, P1, Q1, E)'
  PROVE  Sender(z, F1, m1, E, Q1, P1, f)'
BY DEF Sender

\* XCCL: from one sync point to the next.
LEMMA XcclWalks ==
  ASSUME Kept, Domains, engine = "xccl", NEW z, Planned(z, engine, sync),
         NEW F, NEW m, NEW E, NEW Q, NEW P, NEW f, Sender(z, F, m, E, Q, P, f), SameJob,
         \/ pc[Master] = "init" /\ pc'[Master] = "barrier"
         \/ pc[Master] = "barrier" /\ pc'[Master] = "subscribers"
         \/ pc[Master] = "subscribers" /\ pc'[Master] \in {"pull", "failed"}
         \/ pc[Master] = "sync" /\ pc'[Master] = "await"
         \/ pc[Master] = "step" /\ pc'[Master] = "pull" /\ (NumSenders = 1 \/ op[Master] = NoOp)
         \/ pc[Master] = "drain" /\ pc'[Master] = "final" /\ op[Master] = NoOp
         \/ pc[Master] = "final" /\ pc'[Master] = "done" /\ queue[Master] = <<>>,
         UNCHANGED <<queue, op, meta, last, cur, buf, pulled, offset>>
  PROVE  Sender(z, F, m, E, Q, P, f)'
<1>1. z.kind = "xccl"
  BY PlanFacts
<1>2. XcclHost(z, F, m, P, Q)
  BY <1>1 DEF Sender
<1>3. NumSenders' = NumSenders
  BY DEF NumSenders, RankOf, SameJob
<1>4. pc[Master] # "final" => pc'[Master] # "done"
  OBVIOUS
<1>5. XcclHost(z, F, m, P, Q)'
  <2>1. Filling(z, F, m)' = Filling(z, F, m)
    BY DEF Filling
  <2>2. CASE pc[Master] = "init"
    BY <1>2, <1>3, <2>1, <2>2 DEF XcclHost, Idle
  <2>3. CASE pc[Master] = "barrier"
    BY <1>2, <1>3, <2>1, <2>3 DEF XcclHost, Idle
  <2>4. CASE pc[Master] = "subscribers"
    BY <1>2, <1>3, <2>1, <2>4 DEF XcclHost, Idle
  <2>5. CASE pc[Master] = "sync"
    BY <1>2, <1>3, <2>1, <2>5 DEF XcclHost, Idle
  <2>6. CASE pc[Master] = "step"
    BY <1>2, <1>3, <2>1, <2>6 DEF XcclHost, Idle
  <2>7. CASE pc[Master] = "drain"
    BY <1>2, <1>3, <2>1, <2>7 DEF XcclHost, Idle, NoOp
  <2>8. CASE pc[Master] = "final"
    BY <1>2, <1>3, <2>1, <2>8 DEF XcclHost, Idle, NoOp
  <2> QED
    BY <2>2, <2>3, <2>4, <2>5, <2>6, <2>7, <2>8
<1> QED
  BY <1>1, <1>5 DEF Sender, Lined, Filled

\* XCCL: it takes a weight from the generator, or finds that there is none left.
LEMMA XcclPullsOne ==
  ASSUME Kept, Domains, engine = "xccl", NEW z, Planned(z, engine, sync),
         NEW F, NEW m, NEW E, NEW Q, NEW P, NEW f, Sender(z, F, m, E, Q, P, f), SameJob, pc[Master] = "pull",
         UNCHANGED <<op, meta, cur, buf, offset>>,
         \/ /\ pulled[Master] < z.n /\ pc'[Master] = "place" /\ pulled'[Master] = pulled[Master] + 1 /\ last' = last
            /\ queue'[Master] = queue[Master] \o <<[do |-> "gather"]>>
         \/ /\ pulled[Master] = z.n /\ pc'[Master] = "sync" /\ last'[Master] = TRUE /\ UNCHANGED <<queue, pulled>>
  PROVE  Sender(z, F, m, E, Q, P, f)'
<1>1. z.kind = "xccl"
  BY PlanFacts
<1>2. XcclHost(z, F, m, P, Q)
  BY <1>1 DEF Sender
<1>3. NumSenders' = NumSenders
  BY DEF NumSenders, RankOf, SameJob
<1>4. Filling(z, F, m)' = Filling(z, F, m)
  BY DEF Filling
<1>5. /\ F \in 0..z.last /\ m \in 0..z.n /\ Q \in Nat /\ P \in Nat /\ z.up[F] <= m /\ z.bk[m] <= F + 1
      /\ m \in Nat /\ z.n \in Nat /\ z.last = z.bk[z.n] /\ z.up[z.last] = z.n /\ z.last \in Nat /\ F \in Nat
  BY SenderNums
<1>6. pulled[Master] = m /\ Filling(z, F, m) /\ ~last[Master] /\ cur[Master] = F % 2
  BY <1>2 DEF XcclHost
<1>7. CASE pc'[Master] = "place"
  <2>1. /\ pulled'[Master] = m + 1 /\ m < z.n /\ last' = last
        /\ queue'[Master] = queue[Master] \o <<[do |-> "gather"]>>
    BY <1>6, <1>7
  <2>2. XcclHost(z, F, m, P, Q)'
    BY <1>2, <1>3, <1>4, <1>7, <2>1 DEF XcclHost, Idle
  <2>3. \E pf, pb : Lined(z, queue'[Master], f, m, E, Q, pf, pb)
    BY <2>1, SenderGathers
  <2> QED
    BY <1>1, <1>5, <2>2, <2>3, SenderAgain
<1>8. CASE pc'[Master] = "sync"
  <2>1. m = z.n /\ last'[Master] = TRUE /\ UNCHANGED <<queue, pulled>>
    BY <1>6, <1>8
  <2>2. F + 1 = z.last
    BY <1>5, <1>6, <2>1 DEF Filling
  <2>3. XcclHost(z, F, m, P, Q)'
    BY <1>2, <1>3, <1>4, <1>5, <1>6, <1>8, <2>1, <2>2 DEF XcclHost, Idle
  <2>4. \E pf, pb : Lined(z, queue'[Master], f, m, E, Q, pf, pb)
    BY <2>1 DEF Sender
  <2> QED
    BY <1>1, <1>5, <2>3, <2>4, SenderAgain
<1> QED
  BY <1>7, <1>8

\* XCCL: a chunk goes into the bucket, or finds it full.
LEMMA XcclPlacesOne ==
  ASSUME Kept, Domains, engine = "xccl", NEW z, Planned(z, engine, sync),
         NEW F, NEW m, NEW E, NEW Q, NEW P, NEW f, Sender(z, F, m, E, Q, P, f), SameJob,
         pc[Master] \in {"place", "fill"}, UNCHANGED <<op, last, cur, buf, pulled>>,
         NEW p, p = IF pc[Master] = "place" THEN PlaceIn("xccl", offset[Master], Sizes[pulled[Master]])
                    ELSE [at |-> 0, flush |-> FALSE],
         \/ p.flush /\ pc'[Master] = "sync" /\ UNCHANGED <<queue, meta, offset>>
         \/ /\ ~p.flush /\ pc'[Master] = "step"
            /\ queue'[Master] = queue[Master] \o <<[do |-> "fill", b |-> cur[Master], at |-> p.at, id |-> Id(pulled[Master])]>>
            /\ meta'[Master] = Append(IF pc[Master] = "fill" THEN <<>> ELSE meta[Master], <<p.at, Id(pulled[Master])>>)
            /\ offset'[Master] = p.at + Sizes[pulled[Master]]
  PROVE  \E m1 : Sender(z, F, m1, E, Q, P, f)'
<1>1. z.kind = "xccl"
  BY PlanFacts
<1>2. XcclHost(z, F, m, P, Q)
  BY <1>1 DEF Sender
<1>3. NumSenders' = NumSenders
  BY DEF NumSenders, RankOf, SameJob
<1>5. /\ F \in 0..z.last /\ m \in 0..z.n /\ Q \in Nat /\ P \in Nat /\ z.up[F] <= m /\ z.bk[m] <= F + 1
      /\ m \in Nat /\ z.n \in Nat /\ z.last = z.bk[z.n] /\ z.up[z.last] = z.n /\ z.last \in Nat /\ F \in Nat
      /\ z.bk[m] \in Nat /\ z.base \in Nat
  BY SenderNums
<1>6. pulled[Master] = m + 1 /\ m < z.n /\ ~last[Master] /\ cur[Master] = F % 2
      /\ (pc[Master] = "place" => Filling(z, F, m)) /\ (pc[Master] = "fill" => Begins(z, F, m))
  BY <1>2 DEF XcclHost, Begins
<1>7. Q <= F
  BY <1>2, <1>5 DEF XcclHost
<1>8. Id(pulled[Master]) = z.base + m /\ Sizes = Loads[sync]
  <2>1. Before[sync] = z.base
    BY PlanFacts
  <2> QED
    BY <1>5, <1>6, <2>1 DEF Id, Sizes
<1> DEFINE size == Loads[sync][m + 1]   r == PlaceIn("xccl", z.end[m], size)
<1>9. /\ m + 1 \in 1..z.n /\ size \in 0..BucketSize /\ z.end[m + 1] = z.at[m + 1] + size
      /\ r.at = z.at[m + 1] /\ r.flush \in BOOLEAN
      /\ r.flush => z.bk[m + 1] = z.bk[m] + 1 /\ z.up[z.bk[m]] = m
      /\ ~r.flush => z.bk[m + 1] = z.bk[m]
      /\ z.bk[m + 1] \in 1..z.last
  <2>1. Planned(z, "xccl", sync) /\ m \in Nat /\ m < z.n
    BY <1>5, <1>6
  <2> QED
    BY <2>1, NextChunk
<1> HIDE DEF r
<1>10. pc[Master] = "place" => p = r
  BY <1>6, <1>8 DEF Filling, r
<1>11. CASE p.flush
  <2>1. pc[Master] = "place" /\ p = r /\ Filling(z, F, m) /\ F = z.bk[m] - 1
    BY <1>6, <1>10, <1>11 DEF Filling
  <2>2. z.bk[m + 1] = F + 2 /\ z.up[F + 1] = m
    <3>1. r.flush
      BY <1>11, <2>1
    <3>2. z.bk[m + 1] = z.bk[m] + 1 /\ z.up[z.bk[m]] = m
      BY <1>9, <3>1
    <3>3. z.bk[m] = F + 1 /\ z.bk[m] + 1 = F + 2
      BY <1>5, <2>1
    <3> QED
      BY <3>2, <3>3
  <2>3. pc'[Master] = "sync" /\ UNCHANGED <<queue, meta, offset>>
    BY <1>11
  <2>4. Filling(z, F, m)'
    BY <2>1, <2>3 DEF Filling
  <2>5. XcclHost(z, F, m, P, Q)'
    BY <1>2, <1>3, <1>5, <1>6, <2>1, <2>2, <2>3, <2>4 DEF XcclHost, Idle, Ends
  <2>6. \E pf, pb : Lined(z, queue'[Master], f, m, E, Q, pf, pb)
    BY <2>3 DEF Sender
  <2>7. Sender(z, F, m, E, Q, P, f)'
    BY <1>1, <1>5, <2>5, <2>6, SenderAgain
  <2> QED
    BY <2>7
<1>12. CASE ~p.flush
  <2>1. z.bk[m + 1] = F + 1 /\ p.at = z.at[m + 1]
    <3>1. CASE pc[Master] = "place"
      <4>1. p = r /\ F = z.bk[m] - 1
        BY <1>6, <1>10, <3>1 DEF Filling
      <4> QED
        BY <1>5, <1>9, <1>12, <4>1
    <3>2. CASE pc[Master] = "fill"
      <4>1. z.up[F] = m /\ z.bk[m + 1] = F + 1 /\ p.at = 0
        BY <1>6, <3>2 DEF Begins
      <4>2. z.at[m + 1] = 0
        BY <1>5, <1>6, <4>1, BeginsAtZero
      <4> QED
        BY <4>1, <4>2
    <3> QED
      BY <3>1, <3>2
  <2>2. /\ pc'[Master] = "step"
        /\ queue'[Master] = queue[Master] \o <<[do |-> "fill", b |-> cur[Master], at |-> p.at, id |-> Id(pulled[Master])]>>
        /\ meta'[Master] = Append(IF pc[Master] = "fill" THEN <<>> ELSE meta[Master], <<p.at, Id(pulled[Master])>>)
        /\ offset'[Master] = p.at + Sizes[pulled[Master]]
    BY <1>12
  <2>3. [do |-> "fill", b |-> cur[Master], at |-> p.at, id |-> Id(pulled[Master])] = FillOf(z, m + 1)
    <3>1. cur[Master] = (z.bk[m + 1] - 1) % 2 /\ z.base + (m + 1) - 1 = z.base + m
      BY <1>5, <1>6, <2>1
    <3> QED
      BY <1>8, <2>1, <3>1 DEF FillOf
  <2>4. \E pf, pb : Lined(z, queue'[Master], f, m + 1, E, Q, pf, pb)
    BY <1>1, <1>6, <1>7, <2>1, <2>2, <2>3, SenderFills
  <2>5. offset'[Master] = z.end[m + 1]
    BY <1>6, <1>8, <1>9, <2>1, <2>2
  <2>6. \/ Filling(z, F, m) /\ meta'[Master] = Append(meta[Master], <<z.at[m + 1], z.base + m>>)
        \/ z.up[F] = m /\ meta'[Master] = Append(<<>>, <<z.at[m + 1], z.base + m>>)
    BY <1>6, <1>8, <2>1, <2>2 DEF Begins
  <2>7. Filling(z, F, m + 1)' /\ m + 1 \in 0..z.n /\ z.up[F] <= m + 1 /\ z.bk[m + 1] <= F + 1
    BY <1>6, <2>1, <2>5, <2>6, FillingGrows
  <2>8. XcclHost(z, F, m + 1, P, Q)'
    BY <1>2, <1>3, <1>6, <2>2, <2>7 DEF XcclHost, Idle
  <2>9. Sender(z, F, m + 1, E, Q, P, f)'
    BY <1>1, <1>5, <2>4, <2>7, <2>8, SenderAgain
  <2> QED
    BY <2>9
<1> QED
  BY <1>11, <1>12

\* XCCL: the bucket is handed over to the executor.
LEMMA XcclHandsOver ==
  ASSUME Kept, Domains, engine = "xccl", NEW z, Planned(z, engine, sync),
         NEW F, NEW m, NEW E, NEW Q, NEW P, NEW f, Sender(z, F, m, E, Q, P, f), SameJob,
         pc[Master] = "await", NumSenders = 1 => op[Master] = NoOp,
         op'[Master] = [stage |-> "publish", meta |-> meta[Master], last |-> last[Master],
                        len |-> offset[Master], b |-> cur[Master]],
         cur'[Master] = IF last[Master] THEN cur[Master] ELSE 1 - cur[Master],
         pc'[Master] = IF last[Master] THEN "drain" ELSE "fill",
         UNCHANGED <<queue, meta, last, buf, pulled, offset>>
  PROVE  Sender(z, F + 1, m, E, Q, P, f)'
<1>1. z.kind = "xccl"
  BY PlanFacts
<1>2. XcclHost(z, F, m, P, Q)
  BY <1>1 DEF Sender
<1>3. NumSenders' = NumSenders
  BY DEF NumSenders, RankOf, SameJob
<1>4. op[Master] = NoOp
  BY <1>2 DEF XcclHost
<1>5. /\ F \in 0..z.last /\ m \in 0..z.n /\ Q \in Nat /\ P \in Nat /\ z.up[F] <= m /\ z.bk[m] <= F + 1
      /\ m \in Nat /\ z.n \in Nat /\ z.last = z.bk[z.n] /\ z.up[z.last] = z.n /\ z.last \in Nat /\ F \in Nat
      /\ z.bk[m] \in Nat /\ z.base \in Nat
  BY SenderNums
<1>6. /\ Filling(z, F, m) /\ z.up[F + 1] = m /\ cur[Master] = F % 2 /\ last[Master] \in BOOLEAN
      /\ last[Master] => m = z.n
      /\ ~last[Master] => pulled[Master] = m + 1 /\ Ends(z, F, m)
  BY <1>2 DEF XcclHost
<1>7. P = F /\ Q = F
  BY <1>2, <1>4 DEF XcclHost, NoOp
<1>8. F + 1 \in 0..z.last /\ last[Master] = (F + 1 = z.last)
  <2>1. CASE last[Master]
    <3>1. F + 1 = z.last
      BY <1>5, <1>6, <2>1 DEF Filling
    <3>2. last[Master] = TRUE
      BY <1>6, <2>1
    <3>3. F + 1 \in 0..z.last
      BY <1>5, <3>1
    <3> QED
      BY <3>1, <3>2, <3>3
  <2>2. CASE ~last[Master]
    <3>1. z.bk[m + 1] = F + 2 /\ m < z.n
      BY <1>6, <2>2 DEF Ends
    <3>2. z.bk[m + 1] \in 1..z.last
      BY <1>5, <3>1, NextChunk
    <3>3. F + 1 \in 0..z.last /\ F + 1 # z.last
      BY <1>5, <3>1, <3>2
    <3> QED
      BY <1>6, <2>2, <3>3
  <2> QED
    BY <1>6, <2>1, <2>2
<1>9. (F + 1) - 1 = F /\ F + 1 >= 1 /\ z.bk[m] <= (F + 1) + 1
  BY <1>5
<1>10. op'[Master] = [stage |-> "publish", meta |-> MetaOf(z, F + 1), last |-> (F + 1 = z.last),
                      len |-> LenOf(z, F + 1), b |-> ((F + 1) - 1) % 2]
  <2>1. meta[Master] = MetaOf(z, F + 1)
    BY <1>6, <1>9 DEF Filling, MetaOf
  <2>2. offset[Master] = LenOf(z, F + 1)
    BY <1>1, <1>6 DEF Filling, LenOf
  <2> QED
    BY <1>6, <1>8, <1>9, <2>1, <2>2
<1>11. \/ pc'[Master] = "drain" /\ F + 1 = z.last /\ m = z.n
       \/ pc'[Master] = "fill" /\ pulled'[Master] = m + 1 /\ Begins(z, F + 1, m) /\ ~last'[Master] /\ cur'[Master] = (F + 1) % 2
  <2>1. CASE last[Master]
    BY <1>6, <1>8, <2>1
  <2>2. CASE ~last[Master]
    <3>1. 1 - cur[Master] = (F + 1) % 2
      BY <1>5, <1>6, Parity
    <3>2. Begins(z, F + 1, m)
      <4>1. z.bk[m + 1] = (F + 1) + 1
        BY <1>5, <1>6, <2>2 DEF Ends
      <4> QED
        BY <1>6, <2>2, <4>1 DEF Ends, Begins
    <3> QED
      BY <1>6, <2>2, <3>1, <3>2
  <2> QED
    BY <2>1, <2>2
<1>12. XcclHost(z, F + 1, m, P, Q)'
  <2>1. op'[Master].stage = "publish" /\ P = (F + 1) - 1 /\ Q = (F + 1) - 1
    BY <1>7, <1>9, <1>10
  <2>2. last'[Master] \in BOOLEAN
    BY <1>6
  <2> QED
    BY <1>9, <1>10, <1>11, <2>1, <2>2 DEF XcclHost, Idle
<1>13. z.up[F + 1] <= m /\ \E pf, pb : Lined(z, queue'[Master], f, m, E, Q, pf, pb)
  BY <1>5, <1>6 DEF Sender
<1> QED
  BY <1>1, <1>5, <1>8, <1>9, <1>12, <1>13, SenderAgain

\* XCCL: the executor has published the metadata; it queues the broadcast.
LEMMA XcclQueues ==
  ASSUME Kept, Domains, engine = "xccl", NEW z, Planned(z, engine, sync),
         NEW F, NEW m, NEW E, NEW Q, NEW P, NEW f, Sender(z, F, m, E, Q, P, f), SameJob,
         op[Master].stage = "queue", op'[Master] = NoOp,
         queue'[Master] = queue[Master] \o <<Bcast(op[Master].b, op[Master].len)>>,
         UNCHANGED <<pc, meta, last, cur, buf, pulled, offset>>
  PROVE  Sender(z, F, m, E, Q + 1, P, f)'
<1>1. z.kind = "xccl"
  BY PlanFacts
<1>2. XcclHost(z, F, m, P, Q)
  BY <1>1 DEF Sender
<1>3. NumSenders' = NumSenders
  BY DEF NumSenders, RankOf, SameJob
<1>4. Filling(z, F, m)' = Filling(z, F, m)
  BY DEF Filling
<1>5. /\ F \in 0..z.last /\ m \in 0..z.n /\ Q \in Nat /\ P \in Nat /\ z.up[F] <= m /\ z.bk[m] <= F + 1
      /\ F \in Nat /\ z.bk[m] \in Nat
  BY SenderNums
<1>6. F >= 1 /\ P = F /\ Q = F - 1 /\ op[Master].len = LenOf(z, F) /\ op[Master].b = (F - 1) % 2
      /\ pc[Master] \notin {"final", "done"} /\ pc[Master] \notin Idle
  <2>1. op[Master] # NoOp /\ op[Master].stage # "publish"
    BY DEF NoOp
  <2> QED
    BY <1>2, <2>1 DEF XcclHost
<1>7. Q + 1 = F /\ z.bk[m] <= Q + 2 /\ Q + 1 \in Nat
  BY <1>5, <1>6
<1>8. \E pf, pb : Lined(z, queue'[Master], f, m, E, Q + 1, pf, pb)
  <2>1. Bcast(op[Master].b, op[Master].len) = Bcast(Q % 2, LenOf(z, Q + 1))
    BY <1>6, <1>7
  <2> QED
    BY <1>7, <2>1, SenderCasts
<1>9. XcclHost(z, F, m, P, Q + 1)'
  BY <1>2, <1>3, <1>4, <1>6, <1>7 DEF XcclHost, Idle
<1> QED
  BY <1>1, <1>5, <1>7, <1>8, <1>9, SenderAgain

\* CNCL: from one sync point to the next, or the next weight.
LEMMA CnclWalks ==
  ASSUME Kept, Domains, engine = "cncl", NEW z, Planned(z, engine, sync),
         NEW F, NEW m, NEW E, NEW Q, NEW P, NEW f, Sender(z, F, m, E, Q, P, f), SameJob,
         UNCHANGED <<op, meta, last, cur, buf, offset>>,
         \/ pc[Master] = "init" /\ pc'[Master] = "barrier" /\ UNCHANGED <<queue, pulled>>
         \/ pc[Master] = "barrier" /\ pc'[Master] = "pull" /\ UNCHANGED <<queue, pulled>>
         \/ pc[Master] = "final" /\ pc'[Master] = "done" /\ queue[Master] = <<>> /\ UNCHANGED <<queue, pulled>>
         \/ /\ pc[Master] = "pull" /\ pc'[Master] = "place"
            /\ pulled[Master] < z.n /\ pulled'[Master] = pulled[Master] + 1
            /\ queue'[Master] = queue[Master] \o <<[do |-> "gather"]>>
  PROVE  Sender(z, F, m, E, Q, P, f)'
<1>1. z.kind = "cncl"
  BY PlanFacts
<1>2. CnclHost(z, F, m, P, Q, E)
  BY <1>1 DEF Sender
<1>4. Filling(z, F, m)' = Filling(z, F, m)
  BY DEF Filling
<1>5. F \in 0..z.last /\ m \in 0..z.n /\ Q \in Nat /\ P \in Nat /\ z.up[F] <= m /\ z.bk[m] <= F + 1
  BY SenderNums
<1>6. CnclHost(z, F, m, P, Q, E)'
  <2>1. CASE pc[Master] = "init"
    BY <1>2, <1>4, <2>1 DEF CnclHost
  <2>2. CASE pc[Master] = "barrier"
    BY <1>2, <1>4, <2>2 DEF CnclHost
  <2>3. CASE pc[Master] = "final"
    BY <1>2, <1>4, <2>3 DEF CnclHost
  <2>4. CASE pc[Master] = "pull"
    BY <1>2, <1>4, <2>4 DEF CnclHost
  <2> QED
    BY <2>1, <2>2, <2>3, <2>4
<1>7. \E pf, pb : Lined(z, queue'[Master], f, m, E, Q, pf, pb)
  <2>1. CASE queue' = queue
    BY <2>1 DEF Sender
  <2>2. CASE queue'[Master] = queue[Master] \o <<[do |-> "gather"]>>
    BY <2>2, SenderGathers
  <2> QED
    BY <2>1, <2>2
<1> QED
  BY <1>1, <1>5, <1>6, <1>7, SenderAgain

\* CNCL: a chunk goes into the bucket, or finds it full.
LEMMA CnclPlacesOne ==
  ASSUME Kept, Domains, engine = "cncl", NEW z, Planned(z, engine, sync),
         NEW F, NEW m, NEW E, NEW Q, NEW P, NEW f, Sender(z, F, m, E, Q, P, f), SameJob,
         pc[Master] = "place", UNCHANGED <<op, last, cur, buf, pulled>>,
         IF offset[Master] + Sizes[pulled[Master]] <= BucketSize
         THEN /\ pc'[Master] = "pull"
              /\ queue'[Master] = queue[Master] \o <<[do |-> "fill", b |-> cur[Master], at |-> offset[Master], id |-> Id(pulled[Master])]>>
              /\ meta'[Master] = Append(meta[Master], <<offset[Master], Id(pulled[Master])>>)
              /\ offset'[Master] = offset[Master] + Sizes[pulled[Master]]
         ELSE pc'[Master] = "flush" /\ UNCHANGED <<queue, meta, offset>>
  PROVE  \E m1 : Sender(z, F, m1, E, Q, P, f)'
<1>1. z.kind = "cncl"
  BY PlanFacts
<1>2. CnclHost(z, F, m, P, Q, E)
  BY <1>1 DEF Sender
<1>5. /\ F \in 0..z.last /\ m \in 0..z.n /\ Q \in Nat /\ P \in Nat /\ z.up[F] <= m /\ z.bk[m] <= F + 1
      /\ m \in Nat /\ z.n \in Nat /\ z.last = z.bk[z.n] /\ z.last \in Nat /\ F \in Nat
      /\ z.bk[m] \in Nat /\ z.base \in Nat
  BY SenderNums
<1>6. /\ pulled[Master] = m + 1 /\ m < z.n /\ cur[Master] = F % 2 /\ E >= F - 1 /\ Q = F /\ P = F /\ op[Master] = NoOp
      /\ Filling(z, F, m) \/ (Begins(z, F, m) /\ offset[Master] = 0 /\ meta[Master] = <<>>)
  BY <1>2 DEF CnclHost
<1>8. Id(pulled[Master]) = z.base + m /\ Sizes = Loads[sync]
  <2>1. Before[sync] = z.base
    BY PlanFacts
  <2> QED
    BY <1>5, <1>6, <2>1 DEF Id, Sizes
<1> DEFINE size == Loads[sync][m + 1]   r == PlaceIn("cncl", z.end[m], size)
<1>9. /\ m + 1 \in 1..z.n /\ size \in 0..BucketSize /\ z.end[m + 1] = z.at[m + 1] + size
      /\ r.at = z.at[m + 1] /\ r.flush \in BOOLEAN
      /\ r.flush => z.bk[m + 1] = z.bk[m] + 1 /\ z.up[z.bk[m]] = m
      /\ ~r.flush => z.bk[m + 1] = z.bk[m]
      /\ z.bk[m + 1] \in 1..z.last /\ z.end[m] \in 0..BucketSize
  <2>1. Planned(z, "cncl", sync) /\ m \in Nat /\ m < z.n
    BY <1>5, <1>6
  <2> QED
    BY <2>1, NextChunk
<1>10. IF z.end[m] + size <= BucketSize THEN ~r.flush /\ r.at = z.end[m] ELSE r.flush
  BY DEF PlaceIn
<1> HIDE DEF r
<1>11. CASE ~(offset[Master] + size <= BucketSize)
  <2>1. pc'[Master] = "flush" /\ UNCHANGED <<queue, meta, offset>>
    BY <1>6, <1>8, <1>11
  <2>2. Filling(z, F, m)
    <3>1. size <= BucketSize /\ 0 + size = size
      BY <1>9, LoadsAssumption
    <3> QED
      BY <1>6, <1>11, <3>1
  <2>3. r.flush /\ F = z.bk[m] - 1
    BY <1>10, <1>11, <2>2 DEF Filling
  <2>4. z.bk[m + 1] = F + 2 /\ z.up[F + 1] = m
    <3>1. z.bk[m + 1] = z.bk[m] + 1 /\ z.up[z.bk[m]] = m
      BY <1>9, <2>3
    <3>2. z.bk[m] = F + 1 /\ z.bk[m] + 1 = F + 2
      BY <1>5, <2>3
    <3> QED
      BY <3>1, <3>2
  <2>5. Filling(z, F, m)'
    BY <2>1, <2>2 DEF Filling
  <2>6. CnclHost(z, F, m, P, Q, E)'
    BY <1>6, <2>1, <2>4, <2>5 DEF CnclHost, Ends
  <2>7. \E pf, pb : Lined(z, queue'[Master], f, m, E, Q, pf, pb)
    BY <2>1 DEF Sender
  <2>8. Sender(z, F, m, E, Q, P, f)'
    BY <1>1, <1>5, <2>6, <2>7, SenderAgain
  <2> QED
    BY <2>8
<1>12. CASE offset[Master] + size <= BucketSize
  <2>1. z.bk[m + 1] = F + 1 /\ offset[Master] = z.at[m + 1]
    <3>1. CASE Filling(z, F, m)
      <4>1. ~r.flush /\ r.at = z.end[m] /\ offset[Master] = z.end[m] /\ F = z.bk[m] - 1
        BY <1>10, <1>12, <3>1 DEF Filling
      <4> QED
        BY <1>5, <1>9, <4>1
    <3>2. CASE Begins(z, F, m) /\ offset[Master] = 0
      <4>1. z.up[F] = m /\ z.bk[m + 1] = F + 1
        BY <3>2 DEF Begins
      <4>2. z.at[m + 1] = 0
        BY <1>5, <1>6, <4>1, BeginsAtZero
      <4> QED
        BY <3>2, <4>1, <4>2
    <3> QED
      BY <1>6, <3>1, <3>2
  <2>2. /\ pc'[Master] = "pull"
        /\ queue'[Master] = queue[Master] \o <<[do |-> "fill", b |-> cur[Master], at |-> offset[Master], id |-> Id(pulled[Master])]>>
        /\ meta'[Master] = Append(meta[Master], <<offset[Master], Id(pulled[Master])>>)
        /\ offset'[Master] = offset[Master] + Sizes[pulled[Master]]
    BY <1>6, <1>8, <1>12
  <2>3. [do |-> "fill", b |-> cur[Master], at |-> offset[Master], id |-> Id(pulled[Master])] = FillOf(z, m + 1)
    <3>1. cur[Master] = (z.bk[m + 1] - 1) % 2 /\ z.base + (m + 1) - 1 = z.base + m
      BY <1>5, <1>6, <2>1
    <3> QED
      BY <1>8, <2>1, <3>1 DEF FillOf
  <2>4. \E pf, pb : Lined(z, queue'[Master], f, m + 1, E, Q, pf, pb)
    <3>1. Q <= F
      BY <1>5, <1>6
    <3> QED
      BY <1>6, <2>1, <2>2, <2>3, <3>1, SenderFills
  <2>5. offset'[Master] = z.end[m + 1]
    BY <1>6, <1>8, <1>9, <2>1, <2>2
  <2>6. \/ Filling(z, F, m) /\ meta'[Master] = Append(meta[Master], <<z.at[m + 1], z.base + m>>)
        \/ z.up[F] = m /\ meta'[Master] = Append(<<>>, <<z.at[m + 1], z.base + m>>)
    BY <1>6, <1>8, <2>1, <2>2 DEF Begins
  <2>7. Filling(z, F, m + 1)' /\ m + 1 \in 0..z.n /\ z.up[F] <= m + 1 /\ z.bk[m + 1] <= F + 1
    BY <1>6, <2>1, <2>5, <2>6, FillingGrows
  <2>8. CnclHost(z, F, m + 1, P, Q, E)'
    BY <1>6, <2>2, <2>7 DEF CnclHost
  <2>9. Sender(z, F, m + 1, E, Q, P, f)'
    BY <1>1, <1>5, <2>4, <2>7, <2>8, SenderAgain
  <2> QED
    BY <2>9
<1> QED
  BY <1>11, <1>12

\* A full bucket, or the last, is sent.
Sends(z, isLast) ==
  \/ /\ pc[Master] = "flush" /\ queue[Master] = <<>> /\ isLast = FALSE /\ pc'[Master] = "place"
     /\ cur'[Master] = 1 - cur[Master] /\ meta'[Master] = <<>> /\ offset'[Master] = 0
  \/ /\ pc[Master] = "pull" /\ pulled[Master] = z.n /\ isLast = TRUE /\ pc'[Master] = "final"
     /\ UNCHANGED <<cur, meta, offset>>

\* CNCL: the bucket is sent: its metadata are those of bucket F + 1.
LEMMA CnclSendsOne ==
  ASSUME Kept, Domains, engine = "cncl", NEW z, Planned(z, engine, sync),
         NEW F, NEW m, NEW E, NEW Q, NEW P, NEW f, Sender(z, F, m, E, Q, P, f), SameJob,
         NEW isLast, Sends(z, isLast),
         queue'[Master] = queue[Master] \o <<Bcast(cur[Master], BucketSize)>>, UNCHANGED <<op, last, buf, pulled>>
  PROVE  /\ Sender(z, F + 1, m, E, Q + 1, P + 1, f)'
         /\ [meta |-> meta[Master], last |-> isLast] = MsgOf(z, P + 1)
<1> USE DEF Sends
<1>1. z.kind = "cncl" /\ z.kind # "xccl"
  BY PlanFacts
<1>2. CnclHost(z, F, m, P, Q, E)
  BY <1>1 DEF Sender
<1>5. /\ F \in 0..z.last /\ m \in 0..z.n /\ Q \in Nat /\ P \in Nat /\ z.up[F] <= m /\ z.bk[m] <= F + 1
      /\ m \in Nat /\ z.n \in Nat /\ z.last = z.bk[z.n] /\ z.up[z.last] = z.n /\ z.last \in Nat /\ F \in Nat
      /\ z.bk[m] \in Nat /\ E \in Nat
  BY SenderNums
<1>6. cur[Master] = F % 2 /\ Filling(z, F, m) /\ Q = F /\ P = F /\ op[Master] = NoOp /\ F = z.bk[m] - 1
  BY <1>2 DEF CnclHost, Filling
<1>7. /\ F + 1 \in 0..z.last /\ z.up[F + 1] = m /\ isLast = (F + 1 = z.last)
      /\ isLast => m = z.n /\ F + 1 = z.last
      /\ ~isLast => Ends(z, F, m) /\ pulled[Master] = m + 1 /\ E = F
  <2>1. CASE pc[Master] = "flush"
    <3>1. Ends(z, F, m) /\ pulled[Master] = m + 1 /\ isLast = FALSE
      BY <1>2, <2>1 DEF CnclHost
    <3>2. m < z.n /\ z.up[F + 1] = m /\ z.bk[m + 1] = F + 2
      BY <3>1 DEF Ends
    <3>3. z.bk[m + 1] \in 1..z.last
      BY <1>5, <3>2, NextChunk
    <3>4. F + 1 \in 0..z.last /\ F + 1 # z.last
      <4>1. z.last \in Nat /\ F \in Nat
        BY <1>5
      <4>2. F + 2 \in 1..z.last
        BY <3>2, <3>3
      <4> QED
        BY <4>1, <4>2
    <3>5. E = Q
      <4>1. PICK pf, pb : Lined(z, queue[Master], f, m, E, Q, pf, pb)
        BY DEF Sender
      <4>2. queue[Master] = <<>>
        BY <2>1
      <4> QED
        BY <4>1, <4>2, LinedNone
    <3> QED
      BY <1>6, <3>1, <3>2, <3>4, <3>5
  <2>2. CASE pc[Master] = "pull"
    <3>1. m = z.n /\ isLast = TRUE
      BY <1>2, <2>2 DEF CnclHost
    <3>2. F + 1 = z.last
      <4>1. F = z.bk[m] - 1
        BY <1>6
      <4>2. z.bk[m] = z.last /\ z.last \in Nat
        BY <1>5, <3>1
      <4> QED
        BY <4>1, <4>2
    <3>3. F + 1 \in 0..z.last /\ z.up[F + 1] = m
      BY <1>5, <3>1, <3>2
    <3>4. isLast = (F + 1 = z.last)
      BY <3>1, <3>2
    <3> QED
      BY <3>1, <3>2, <3>3, <3>4
  <2> QED
    BY <2>1, <2>2
<1>8. (F + 1) - 1 = F /\ z.bk[m] <= (F + 1) + 1 /\ z.bk[m] <= Q + 2 /\ Q + 1 \in Nat /\ P + 1 \in Nat
  <2>1. Q = F /\ P = F
    BY <1>6
  <2>2. F \in Nat /\ z.bk[m] \in Nat /\ z.bk[m] <= F + 1
    BY <1>5
  <2> QED
    BY <2>1, <2>2
<1>9. [meta |-> meta[Master], last |-> isLast] = MsgOf(z, P + 1)
  BY <1>1, <1>6, <1>7, <1>8 DEF MsgOf, MetaOf, Filling
<1>10. \E pf, pb : Lined(z, queue'[Master], f, m, E, Q + 1, pf, pb)
  <2>1. Bcast(cur[Master], BucketSize) = Bcast(Q % 2, LenOf(z, Q + 1))
    BY <1>1, <1>6 DEF LenOf
  <2> QED
    BY <1>8, <2>1, SenderCasts
<1>11. CnclHost(z, F + 1, m, P + 1, Q + 1, E)'
  <2>1. CASE pc[Master] = "flush"
    <3>1. /\ pc'[Master] = "place" /\ cur'[Master] = 1 - cur[Master] /\ meta'[Master] = <<>> /\ offset'[Master] = 0
          /\ isLast = FALSE
      BY <2>1
    <3>2. cur'[Master] = (F + 1) % 2
      <4>1. F \in Nat /\ cur'[Master] = 1 - (F % 2)
        BY <1>5, <1>6, <3>1
      <4> QED
        BY <4>1, Parity
    <3>3. Begins(z, F + 1, m)
      <4>1. z.bk[m + 1] = (F + 1) + 1 /\ m < z.n
        BY <1>5, <1>7, <3>1 DEF Ends
      <4> QED
        BY <1>7, <4>1 DEF Begins
    <3>4. E >= (F + 1) - 1 /\ pulled'[Master] = m + 1 /\ m < z.n
      BY <1>5, <1>7, <1>8, <3>1 DEF Ends
    <3> QED
      BY <1>6, <3>1, <3>2, <3>3, <3>4 DEF CnclHost
  <2>2. CASE pc[Master] = "pull"
    <3>1. pc'[Master] = "final" /\ isLast
      BY <2>2
    <3> QED
      BY <1>6, <1>7, <3>1 DEF CnclHost
  <2> QED
    BY <2>1, <2>2
<1>12. z.up[F + 1] <= m
  BY <1>5, <1>7
<1>13. Sender(z, F + 1, m, E, Q + 1, P + 1, f)'
  BY <1>1, <1>5, <1>7, <1>8, <1>10, <1>11, <1>12, SenderAgain
<1> QED
  BY <1>9, <1>13

\* XCCL: the executor publishes the metadata of bucket P + 1.
LEMMA XcclPublishes ==
  ASSUME Kept, Domains, engine = "xccl", NEW z, Planned(z, engine, sync),
         NEW F, NEW m, NEW E, NEW Q, NEW P, NEW f, Sender(z, F, m, E, Q, P, f), SameJob,
         op[Master].stage = "publish", op' = [op EXCEPT ![Master].stage = "queue"],
         UNCHANGED <<pc, queue, meta, last, cur, buf, pulled, offset>>
  PROVE  /\ Sender(z, F, m, E, Q, P + 1, f)' /\ pc[Master] \notin Idle
         /\ [meta |-> op[Master].meta, last |-> op[Master].last, len |-> op[Master].len] = MsgOf(z, P + 1)
<1>1. z.kind = "xccl"
  BY PlanFacts
<1>2. XcclHost(z, F, m, P, Q)
  BY <1>1 DEF Sender
<1>3. NumSenders' = NumSenders
  BY DEF NumSenders, RankOf, SameJob
<1>4. Filling(z, F, m)' = Filling(z, F, m)
  BY DEF Filling
<1>5. /\ F \in 0..z.last /\ m \in 0..z.n /\ Q \in Nat /\ P \in Nat /\ z.up[F] <= m /\ z.bk[m] <= F + 1
      /\ F \in Nat /\ DOMAIN op = Workers /\ Master \in Workers
  BY SenderNums, Cluster DEF Kept, Shape
<1>6. /\ F >= 1 /\ P = F - 1 /\ Q = F - 1 /\ pc[Master] \notin {"final", "done"} /\ pc[Master] \notin Idle
      /\ op[Master] = [stage |-> "publish", meta |-> MetaOf(z, F), last |-> (F = z.last), len |-> LenOf(z, F), b |-> (F - 1) % 2]
      /\ ~(NumSenders # 1 /\ pc[Master] \in {"pull", "place", "sync", "await"})
  <2>1. op[Master] # NoOp /\ op[Master].stage # "queue"
    BY DEF NoOp
  <2> QED
    BY <1>2, <2>1 DEF XcclHost
<1>7. op'[Master] = [stage |-> "queue", meta |-> MetaOf(z, F), last |-> (F = z.last), len |-> LenOf(z, F), b |-> (F - 1) % 2]
  BY <1>5, <1>6
<1>8. P + 1 = F /\ P + 1 \in Nat
  BY <1>5, <1>6
<1>9. [meta |-> op[Master].meta, last |-> op[Master].last, len |-> op[Master].len] = MsgOf(z, P + 1)
  BY <1>1, <1>6, <1>8 DEF MsgOf
<1>10. XcclHost(z, F, m, P + 1, Q)'
  <2>1. op'[Master].stage = "queue" /\ op'[Master].len = LenOf(z, F) /\ op'[Master].b = (F - 1) % 2
    BY <1>7
  <2> QED
    BY <1>2, <1>3, <1>4, <1>6, <1>8, <2>1 DEF XcclHost, Idle
<1>11. \E pf, pb : Lined(z, queue'[Master], f, m, E, Q, pf, pb)
  BY DEF Sender
<1>12. Sender(z, F, m, E, Q, P + 1, f)'
  BY <1>1, <1>5, <1>8, <1>10, <1>11, SenderAgain
<1> QED
  BY <1>6, <1>9, <1>12

\* Every rollout worker is told of the next bucket.
LEMMA TakerTold ==
  ASSUME NEW z, NEW k, NEW s, Planned(z, k, s), NEW e, NEW P, NEW w \in Rollouts, NEW t, NEW c, Taker(z, e, P, w, t, c),
         wire'[w] = Append(wire[w], MsgOf(z, P + 1)),
         pc'[w] = pc[w], queue'[w] = queue[w], op'[w] = op[w], meta'[w] = meta[w], last'[w] = last[w],
         cur'[w] = cur[w], buf'[w] = buf[w], got'[w] = got[w]
  PROVE  Taker(z, e, P + 1, w, t, c)'
<1>1. t \in Nat /\ P \in Nat /\ P + 1 \in Nat /\ t + 1 \in Nat
  <2>1. t \in Nat /\ P \in Nat
    BY TakerNums
  <2> QED
    BY <2>1
<1>2. /\ Coming(z, wire[w], t, P) => Coming(z, wire'[w], t, P + 1)
      /\ Coming(z, wire[w], t + 1, P) => Coming(z, wire'[w], t + 1, P + 1)
  BY <1>1, MailComes
<1> QED
  BY <1>1, <1>2 DEF Taker

\* So only the sender's part need be shown.
LEMMA Told ==
  ASSUME NEW z, NEW F, NEW m, NEW E, NEW Q, NEW P, NEW f, Under(z, F, m, E, Q, P, f), SameJob,
         wire' = [w \in Rollouts |-> Append(wire[w], MsgOf(z, P + 1))], UNCHANGED <<buf, got>>,
         \A v \in Workers \ {Master} :
           /\ pc'[v] = pc[v] /\ queue'[v] = queue[v] /\ op'[v] = op[v] /\ meta'[v] = meta[v] /\ last'[v] = last[v]
           /\ cur'[v] = cur[v] /\ (v \in Actors => pulled'[v] = pulled[v] /\ offset'[v] = offset[v]),
         NEW F1, NEW Q1, Sender(z, F1, m, E, Q1, P + 1, f)'
  PROVE  Under(z, F1, m, E, Q1, P + 1, f)'
<1>1. \A v : RankOf(v)' = RankOf(v)
  BY DEF RankOf, SameJob
<1>2. Relays(z, E)'
  <2> SUFFICES ASSUME NEW a \in Actors \ {Master}, RankOf(a)' # -1 PROVE \E r, pb : Relay(z, E, a, r, pb)'
    BY DEF Relays
  <2>1. PICK r, pb : Relay(z, E, a, r, pb)
    BY <1>1 DEF Under, Relays
  <2>2. StaysPut(a)
    BY Cluster DEF StaysPut
  <2>3. Relay(z, E, a, r, pb)'
    BY <2>1, <2>2, RelayStays, Cluster
  <2> QED
    BY <2>3
<1>3. Takers(z, E, P + 1)'
  <2> SUFFICES ASSUME NEW w \in Rollouts PROVE \E t, c : Taker(z, E, P + 1, w, t, c)'
    BY DEF Takers
  <2>1. PICK t, c : Taker(z, E, P, w, t, c)
    BY DEF Under, Takers
  <2>2. w \in Workers \ {Master}
    BY Cluster
  <2>3. Taker(z, E, P + 1, w, t, c)'
    BY <2>1, <2>2, TakerTold DEF Under
  <2> QED
    BY <2>3
<1>4. Planned(z, engine', sync')
  BY DEF Under, SameJob
<1> QED
  BY <1>2, <1>3, <1>4 DEF Under

-----------------------------------------------------------------------------
(* The steps of a relay, and of an actor outside the group.                  *)

\* A relay queues the broadcast of its next bucket,
LEMMA RelayCasts ==
  ASSUME NEW z, NEW q, NEW e, NEW r, NEW pb, Casts(z, q, e, r, pb), NEW b, NEW n, n = LenOf(z, r + 1),
         NEW p, p = q \o <<Bcast(b, n)>>
  PROVE  \E pg : Casts(z, p, e, r + 1, pg)
<1> DEFINE x == Bcast(b, n)   pg == Extended(pb, e, r, Len(q) + 1)
<1>1. x.do = "bcast" /\ x.len = LenOf(z, r + 1) /\ p = q \o <<x>>
  BY DEF Bcast
<1>2. /\ IsSeq(q) /\ Marks(q, "bcast", e, r, pb) /\ \A k \in e + 1..r : q[pb[k]].len = LenOf(z, k)
      /\ e \in Nat /\ r \in Nat /\ e <= r /\ \A k \in e + 1..r : pb[k] \in DOMAIN q
  BY DEF Casts, Marks
<1> HIDE DEF x
<1>3. /\ IsSeq(p) /\ Len(q) \in Nat /\ DOMAIN q = 1..Len(q)
      /\ p[Len(q) + 1] = x /\ \A j \in 1..Len(q) : p[j] = q[j]
  BY <1>1, <1>2, Pushed
<1>4. Marks(p, "bcast", e, r + 1, pg)
  BY <1>1, <1>2, MarksPush
<1>5. \A k \in e + 1..r + 1 : pg[k] = IF k = r + 1 THEN Len(q) + 1 ELSE pb[k]
  BY DEF Extended
<1> HIDE DEF pg
<1>6. ASSUME NEW k \in e + 1..r + 1 PROVE p[pg[k]].len = LenOf(z, k)
  <2>1. CASE k = r + 1
    BY <1>1, <1>3, <1>5, <2>1
  <2>2. CASE k # r + 1
    <3>1. k \in e + 1..r
      BY <1>2, <2>2
    <3>2. pg[k] = pb[k] /\ pb[k] \in 1..Len(q)
      BY <1>2, <1>3, <1>5, <2>2, <3>1
    <3> QED
      BY <1>2, <1>3, <3>1, <3>2
  <2> QED
    BY <2>1, <2>2
<1>7. Casts(z, p, e, r + 1, pg)
  BY <1>3, <1>4, <1>6 DEF Casts
<1> QED
  BY <1>7

\* A relay queues a gather.
LEMMA RelayGathers ==
  ASSUME NEW z, NEW q, NEW e, NEW r, NEW pb, Casts(z, q, e, r, pb), NEW p, p = q \o <<[do |-> "gather"]>>
  PROVE  Casts(z, p, e, r, pb)
<1> DEFINE x == [do |-> "gather"]
<1>1. x.do # "bcast" /\ p = q \o <<x>>
  OBVIOUS
<1>2. /\ IsSeq(q) /\ Marks(q, "bcast", e, r, pb) /\ \A k \in e + 1..r : q[pb[k]].len = LenOf(z, k)
      /\ e \in Nat /\ r \in Nat /\ e <= r /\ \A k \in e + 1..r : pb[k] \in DOMAIN q
  BY DEF Casts, Marks
<1> HIDE DEF x
<1>3. IsSeq(p) /\ DOMAIN q = 1..Len(q) /\ \A j \in 1..Len(q) : p[j] = q[j]
  BY <1>1, <1>2, Pushed
<1>4. Marks(p, "bcast", e, r, pb)
  BY <1>1, <1>2, MarksPush
<1>5. \A k \in e + 1..r : p[pb[k]].len = LenOf(z, k)
  BY <1>2, <1>3
<1> QED
  BY <1>3, <1>4, <1>5 DEF Casts

\* A relay walks, or pulls.
LEMMA RelayWalks ==
  ASSUME NEW z, NEW k, NEW s, Planned(z, k, s), NEW e, NEW a \in Actors, NEW r, NEW pb, Relay(z, e, a, r, pb),
         \/ pc[a] = "init" /\ pc'[a] = "barrier" /\ pulled'[a] = pulled[a] /\ queue'[a] = queue[a]
         \/ pc[a] = "barrier" /\ pc'[a] = "pull" /\ pulled'[a] = pulled[a] /\ queue'[a] = queue[a]
         \/ pc[a] = "final" /\ pc'[a] = "done" /\ pulled'[a] = pulled[a] /\ queue'[a] = queue[a]
         \/ /\ pc[a] = "pull" /\ pc'[a] = "place" /\ pulled[a] < z.n /\ pulled'[a] = pulled[a] + 1
            /\ queue'[a] = queue[a] \o <<[do |-> "gather"]>>,
         offset'[a] = offset[a]
  PROVE  Relay(z, e, a, r, pb)'
<1>1. CASE pc[a] \in {"init", "barrier", "final"}
  BY <1>1 DEF Relay
<1>2. CASE pc[a] = "pull"
  <2>1. /\ pc'[a] = "place" /\ pulled[a] < z.n /\ pulled'[a] = pulled[a] + 1
        /\ queue'[a] = queue[a] \o <<[do |-> "gather"]>>
    BY <1>2
  <2>2. /\ pulled[a] \in 0..z.n /\ r = z.bk[pulled[a]] - 1 /\ offset[a] = z.end[pulled[a]]
        /\ Casts(z, queue[a], e, r, pb)
    BY <1>2 DEF Relay
  <2>3. z.n \in Nat
    BY PlanFacts
  <2>4. pulled'[a] \in 1..z.n /\ pulled'[a] - 1 = pulled[a]
    BY <2>1, <2>2, <2>3
  <2>5. Casts(z, queue'[a], e, r, pb)
    BY <2>1, <2>2, RelayGathers
  <2>6. r = z.bk[pulled'[a] - 1] - 1 /\ offset'[a] = z.end[pulled'[a] - 1]
    BY <2>2, <2>4
  <2> QED
    BY <2>1, <2>4, <2>5, <2>6 DEF Relay
<1> QED
  BY <1>1, <1>2

\* It comes to the end of the weights.
LEMMA RelayEnds ==
  ASSUME NEW z, NEW s, Planned(z, "xccl", s), NEW e, NEW a \in Actors, NEW r, NEW pb, Relay(z, e, a, r, pb),
         pc[a] = "pull", pulled[a] = z.n, pc'[a] = "final", queue'[a] = queue[a] \o <<Bcast(0, offset[a])>>
  PROVE  \E r1, pg : Relay(z, e, a, r1, pg)'
<1>1. /\ r = z.bk[pulled[a]] - 1 /\ offset[a] = z.end[pulled[a]]
      /\ Casts(z, queue[a], e, r, pb)
  BY DEF Relay
<1>2. z.kind = "xccl" /\ z.last \in Nat /\ z.last = z.bk[z.n] /\ z.up[z.last] = z.n
  BY PlanFacts DEF Neat
<1>3. r + 1 = z.last
  BY <1>1, <1>2
<1>4. offset[a] = LenOf(z, r + 1)
  BY <1>1, <1>2, <1>3 DEF LenOf
<1>5. \E pg : Casts(z, queue'[a], e, r + 1, pg)
  BY <1>1, <1>4, RelayCasts
<1>6. PICK pg : Casts(z, queue'[a], e, r + 1, pg)
  BY <1>5
<1>7. Relay(z, e, a, r + 1, pg)'
  BY <1>3, <1>5, <1>6 DEF Relay
<1> QED
  BY <1>7

\* It drops a chunk, and broadcasts the bucket that it would not have fitted into.
LEMMA RelayDrops ==
  ASSUME NEW z, NEW s, Planned(z, "xccl", s), NEW e, NEW a \in Actors, NEW r, NEW pb, Relay(z, e, a, r, pb),
         pc[a] = "place", pc'[a] = "pull", pulled'[a] = pulled[a],
         NEW p, p = PlaceIn("xccl", offset[a], Loads[s][pulled[a]]),
         queue'[a] = queue[a] \o (IF p.flush THEN <<Bcast(0, offset[a])>> ELSE <<>>),
         offset'[a] = p.at + Loads[s][pulled[a]]
  PROVE  \E r1, pg : Relay(z, e, a, r1, pg)'
<1>1. /\ pulled[a] \in 1..z.n /\ r = z.bk[pulled[a] - 1] - 1 /\ offset[a] = z.end[pulled[a] - 1]
      /\ Casts(z, queue[a], e, r, pb)
  BY DEF Relay
<1>2. z.kind = "xccl" /\ z.n \in Nat /\ z.last \in Nat
  BY PlanFacts
<1>3. PICK i \in Nat : i = pulled[a] - 1 /\ i < z.n /\ i + 1 = pulled[a]
  BY <1>1, <1>2
<1> DEFINE y == PlaceIn("xccl", z.end[i], Loads[s][i + 1])
<1>4. /\ z.end[i + 1] = z.at[i + 1] + Loads[s][i + 1] /\ y.at = z.at[i + 1] /\ y.flush \in BOOLEAN
      /\ y.flush => z.bk[i + 1] = z.bk[i] + 1 /\ z.up[z.bk[i]] = i
      /\ ~y.flush => z.bk[i + 1] = z.bk[i]
      /\ z.bk[i] \in 1..z.last
  <2>1. Planned(z, "xccl", s) /\ i \in Nat /\ i < z.n
    BY <1>3
  <2> QED
    BY <2>1, NextChunk
<1>5. p = y
  BY <1>1, <1>3
<1> HIDE DEF y
<1>6. z.bk[i] \in Nat /\ r + 1 = z.bk[i] /\ r = z.bk[i] - 1 /\ offset[a] = z.end[i]
  BY <1>1, <1>2, <1>3, <1>4
<1>7. offset'[a] = z.end[pulled'[a]] /\ pulled'[a] = i + 1 /\ pulled'[a] \in 0..z.n
  BY <1>1, <1>2, <1>3, <1>4, <1>5
<1>8. CASE p.flush
  <2>1. y.flush
    BY <1>5, <1>8
  <2>2. offset[a] = LenOf(z, r + 1)
    BY <1>2, <1>4, <1>6, <2>1 DEF LenOf
  <2>3. queue'[a] = queue[a] \o <<Bcast(0, offset[a])>>
    BY <1>8
  <2>4. \E pg : Casts(z, queue'[a], e, r + 1, pg)
    BY <1>1, <2>2, <2>3, RelayCasts
  <2>5. PICK pg : Casts(z, queue'[a], e, r + 1, pg)
    BY <2>4
  <2>6. r + 1 = z.bk[pulled'[a]] - 1
    BY <1>4, <1>6, <1>7, <2>1
  <2>7. Relay(z, e, a, r + 1, pg)'
    BY <1>7, <2>4, <2>5, <2>6 DEF Relay
  <2> QED
    BY <2>7
<1>9. CASE ~p.flush
  <2>1. queue'[a] = queue[a]
    <3>1. queue[a] \in Seq(ToSet(queue[a]))
      BY <1>1 DEF IsSeq, Casts
    <3>2. queue[a] \o <<>> = queue[a]
      BY <3>1
    <3> QED
      BY <1>9, <3>2
  <2>2. r = z.bk[pulled'[a]] - 1
    BY <1>4, <1>5, <1>6, <1>7, <1>9
  <2>3. Relay(z, e, a, r, pb)'
    BY <1>1, <1>7, <2>1, <2>2 DEF Relay
  <2> QED
    BY <2>3
<1> QED
  BY <1>8, <1>9
=============================================================================
