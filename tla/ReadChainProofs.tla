--------------------------- MODULE ReadChainProofs ---------------------------
(***************************************************************************)
(* Theorems about ReadChain, for every number of agents, every load and    *)
(* every transfer that fails: no buffer is read into while the next agent  *)
(* or the loader uses it, every loader has every chunk once, in order, and *)
(* the agents' reads are a weight broadcast.                               *)
(***************************************************************************)
EXTENDS ReadChain, WellFoundedInduction, TLAPS

\* The chain as build_topology makes it, for more than one rollout worker.
Last == NumActors + NumRollouts
Up(w) == IF w = NumActors + 1 THEN Sender ELSE w - 1
Down(u) == IF u = Sender THEN NumActors + 1 ELSE IF u = Last THEN None ELSE u + 1

Messages == [chunks : Seq(Nat \X Nat), last : BOOLEAN]
Letters == [m : Messages, b : {0, 1}, key : Nat]
Reads == {NoRead} \cup [state : {"reading", "done"}, b : {0, 1}, from : {0, 1}, key : Nat]
Copying == [do : {"fill", "copy"}, b : {0, 1}, chunk : Nat \X Nat]
Labels == {"init", "refused", "pull", "announce", "first", "swap", "read", "await", "drain", "done", "loaded",
           "dead"}
Types ==
  /\ sync \in 1..Len(Loads) /\ base \in Nat /\ pulled \in 0..Len(Sizes) /\ offset \in Nat
  /\ pc \in [Agents -> Labels]
  /\ cur \in [Agents -> {0, 1}] /\ held \in [Agents -> Messages] /\ coming \in [Agents -> Messages]
  /\ key \in [Agents -> Nat] /\ fresh \in Nat \ {0}
  /\ mail \in [Agents -> Seq(Letters)] /\ notes \in [Agents -> Seq(Nat)]
  /\ read \in [Agents -> Reads] /\ queue \in [Agents -> Seq(Copying)]
  /\ buf \in [Agents -> [{0, 1} -> SUBSET (Int \X Int)]] /\ got \in [Rollouts -> Seq(Int)]

\* Where the coroutines are: the last worker waits for nobody, the idle actors do nothing.
Placed ==
  /\ pc[Sender] \in {"init", "pull", "await", "announce", "drain", "done"}
  /\ \A w \in Rollouts : /\ pc[w] \notin {"pull", "announce"}
                         /\ w = Last => pc[w] \notin {"await", "drain"}
  /\ \A w \in Agents : w # Sender /\ w \notin Rollouts => pc[w] \in {"init", "done"} /\ queue[w] = <<>>

\* An agent that has joined knows its neighbours.
Joined ==
  /\ prev \in [Agents -> Int] /\ next \in [Agents -> Int]
  /\ pc[Sender] # "init" => next[Sender] = Down(Sender)
  /\ \A w \in Rollouts : pc[w] \notin {"init", "refused"} => prev[w] = Up(w) /\ next[w] = Down(w)

Numbered(chunks, n) == \A j \in DOMAIN chunks : chunks[j][2] = n + j - 1
In(chunks, cells) == \A j \in DOMAIN chunks : chunks[j] \in cells

\* The chunks follow each other in the buffer; the last ones of them are queued.
Ordered(chunks, end) ==
  /\ \A j \in DOMAIN chunks : chunks[j][1] < end
  /\ \A i, j \in DOMAIN chunks : i < j => chunks[i][1] < chunks[j][1]
Waiting(fills, chunks, b) ==
  /\ Len(fills) <= Len(chunks)
  /\ \A i \in DOMAIN fills : fills[i].do = "fill" /\ fills[i].b = b
                             /\ fills[i].chunk = chunks[Len(chunks) - Len(fills) + i]
Stored(chunks, n, cells) == \A j \in 1..n : chunks[j] \in cells

\* The sender's bucket: its chunks are in send_buf but for the fills still queued.
Bucket ==
  LET chunks == held[Sender].chunks   fills == queue[Sender] IN
  /\ pc[Sender] # "pull" => fills = <<>>
  /\ pc[Sender] = "init" => chunks = <<>> /\ pulled = 0 /\ key[Sender] = 0
  /\ pc[Sender] = "done" => pulled = Len(Sizes)
  /\ held[Sender].last => pulled = Len(Sizes)
  /\ pc[Sender] = "drain" => held[Sender].last
  /\ pc[Sender] \notin {"drain", "done"} => /\ Numbered(chunks, base + pulled - Len(chunks))
                                            /\ Ordered(chunks, offset)
                                            /\ Waiting(fills, chunks, cur[Sender])
                                            /\ Stored(chunks, Len(chunks) - Len(fills), buf[Sender][cur[Sender]])

\* The chunks that a worker has given to its loader, announced, and taken.
Given(w) == Len(got[w]) + Len(queue[w])
Had(u) == IF u = Sender
          THEN base + pulled - (IF pc[u] \in {"drain", "done"} THEN 0 ELSE Len(held[u].chunks))
          ELSE Given(u) + (IF pc[u] = "read" THEN Len(held[u].chunks) ELSE 0)
Taken(w) == Given(w) + (IF pc[w] = "read" THEN Len(held[w].chunks)
                        ELSE IF pc[w] \in {"await", "swap"} THEN Len(coming[w].chunks) ELSE 0)

\* What a worker's loader has had and has yet to have, in order and from send_buf.
LoaderOf(w) ==
    /\ \A i \in DOMAIN got[w] : got[w][i] = i - 1
    /\ pc[w] \in {"init", "refused", "first", "read", "loaded"} => queue[w] = <<>>
    /\ \A i \in DOMAIN queue[w] : /\ queue[w][i].do = "copy" /\ queue[w][i].b = cur[w]
                                  /\ queue[w][i].chunk \in buf[w][cur[w]]
                                  /\ queue[w][i].chunk[2] = Len(got[w]) + i - 1
    /\ pc[w] = "read" => Numbered(held[w].chunks, Given(w)) /\ In(held[w].chunks, buf[w][cur[w]])
\* What a worker reads goes into the other buffer.
ReaderOf(w) ==
    /\ pc[w] \notin {"await", "swap"} => read[w] = NoRead
    /\ pc[w] \in {"await", "swap"} => /\ read[w] # NoRead /\ read[w].b = 1 - cur[w]
                                      /\ Numbered(coming[w].chunks, Given(w))
    /\ read[w].state = "done" => In(coming[w].chunks, buf[w][1 - cur[w]])

\* A bucket that was announced is in the buffer until the next agent has read it.
Out(u) == IF u = Sender THEN pc[u] \in {"await", "drain"} \/ (pc[u] = "pull" /\ key[u] # 0)
          ELSE pc[u] \in {"read", "await", "drain"}
Announced(u) == IF u = Sender /\ pc[u] # "drain" THEN 1 - cur[u] ELSE cur[u]
IsReading(w) == read[w].state = "reading"
Letter(w) == mail[w][1]

SentOf(w) ==
    LET u == Up(w) IN
    /\ Len(mail[w]) <= 1
    /\ mail[w] # <<>> => /\ Letter(w).b = Announced(u)
                         /\ Numbered(Letter(w).m.chunks, Taken(w))
                         /\ In(Letter(w).m.chunks, buf[u][Announced(u)])
    /\ IsReading(w) => /\ mail[w] = <<>> /\ read[w].from = Announced(u)
                       /\ In(coming[w].chunks, buf[u][Announced(u)])

\* It is in one place: on its way, being read, or its end is notified.  No end is
\* notified if the reader died.
PlaceOf(w) ==
    LET u == Up(w) IN
    pc[u] # "dead" =>
      /\ ~Out(u) => mail[w] = <<>> /\ ~IsReading(w) /\ notes[u] = <<>>
      /\ pc[w] = "dead" => Out(u) /\ mail[w] = <<>> /\ notes[u] = <<>>
      /\ Out(u) /\ pc[w] # "dead" =>
            \/ mail[w] # <<>> /\ Letter(w).key = key[u] /\ ~IsReading(w) /\ notes[u] = <<>>
            \/ mail[w] = <<>> /\ IsReading(w) /\ read[w].key = key[u] /\ notes[u] = <<>>
            \/ mail[w] = <<>> /\ ~IsReading(w) /\ notes[u] = <<key[u]>>

\* Nothing is lost or read twice: what one agent announced the next has taken, or has yet to.
CountOf(w) ==
    pc[Up(w)] # "dead" /\ pc[w] # "dead" =>
      Had(Up(w)) = Taken(w) + (IF mail[w] = <<>> THEN 0 ELSE Len(Letter(w).m.chunks))

Loader == \A w \in Rollouts : LoaderOf(w)
Reader == \A w \in Rollouts : ReaderOf(w)
Sent == \A w \in Rollouts : SentOf(w)
InOnePlace == \A w \in Rollouts : PlaceOf(w)
Counted == \A w \in Rollouts : CountOf(w)
Chained == Types /\ Placed /\ Joined /\ Bucket /\ Loader /\ Reader /\ Sent /\ InOnePlace /\ Counted

-----------------------------------------------------------------------------
(* The chain.                                                                *)

\* What the proofs below use of the chain's shape.
LEMMA Shape ==
  /\ Sender \in Agents /\ Sender \notin Rollouts /\ None \notin Agents
  /\ Down(Sender) \in Rollouts /\ Up(Down(Sender)) = Sender
  /\ \A w \in Rollouts :
       /\ w \in Agents /\ w # Sender /\ Up(w) \in Agents /\ Up(w) # w /\ Down(Up(w)) = w
       /\ Up(w) = Sender \/ Up(w) \in Rollouts \ {Last}
       /\ w = Last <=> Down(w) = None
       /\ Down(w) # None => Down(w) \in Rollouts /\ Up(Down(w)) = w /\ Down(w) # w
  /\ \A w, v \in Rollouts : Up(w) = Up(v) => w = v
BY ChainAssumption DEF Sender, Agents, Rollouts, None, Up, Down, Last

\* A slice of the metadata list holds the agents at its places.
LEMMA Slices ==
  ASSUME NEW n \in Nat, NEW s \in Seq(Nat), Len(s) = n, \A a \in 1..n : s[a] = a,
         NEW i \in 1..n, NEW j \in 0..n, i <= j + 1
  PROVE  /\ SubSeq(s, i, j) \in Seq(Nat) /\ Len(SubSeq(s, i, j)) = j - i + 1
         /\ \A x \in 1..j - i + 1 : SubSeq(s, i, j)[x] = i + x - 1
OBVIOUS

\* The list of next agents ends in None.
LEMMA EndOfChain ==
  ASSUME NEW s \in Seq(Nat)
  PROVE  \A i \in 1..Len(s) + 1 : (s \o <<0>>)[i] = IF i = Len(s) + 1 THEN 0 ELSE s[i]
OBVIOUS

\* build_topology chains the agents in this way; with one rollout worker, that
\* worker's assertion fails.
LEMMA Topology ==
  /\ Fits(Sender) /\ PrevOf(Sender) = None /\ NextOf(Sender) = Down(Sender)
  /\ \A w \in Agents : PrevOf(w) \in Int /\ NextOf(w) \in Int
  /\ \A w \in Agents : w # Sender /\ w \notin Rollouts => Fits(w)
  /\ \A w \in Rollouts : Fits(w) => PrevOf(w) = Up(w) /\ NextOf(w) = Down(w)
<1> USE ChainAssumption DEF Sender, None
<1>1. Metadata \in Seq(Nat) /\ Len(Metadata) = Last /\ \A a \in 1..Last : Metadata[a] = a
  BY DEF Metadata, Agents, Last
<1>0. Last \in Nat /\ Last = NumActors + NumRollouts
  BY DEF Last
<1>2. /\ From(-NumRollouts) \in Seq(Nat) /\ Len(From(-NumRollouts)) = NumRollouts
      /\ \A i \in 1..NumRollouts : From(-NumRollouts)[i] = NumActors + i
  <2>1. From(-NumRollouts) = SubSeq(Metadata, NumActors + 1, Last)
    <3>1. Bound(-NumRollouts) + 1 = NumActors + 1
      BY <1>0, <1>1 DEF Bound
    <3> QED
      BY ONLY <3>1, <1>1 DEF From
  <2>2. /\ SubSeq(Metadata, NumActors + 1, Last) \in Seq(Nat)
        /\ Len(SubSeq(Metadata, NumActors + 1, Last)) = NumRollouts
        /\ \A i \in 1..NumRollouts : SubSeq(Metadata, NumActors + 1, Last)[i] = NumActors + i
    BY <1>0, <1>1, Slices
  <2> QED
    BY <2>1, <2>2
<1>3. /\ Slice(-NumRollouts, -1) \in Seq(Nat) /\ Len(Slice(-NumRollouts, -1)) = NumRollouts - 1
      /\ \A i \in 1..NumRollouts - 1 : Slice(-NumRollouts, -1)[i] = NumActors + i
  <2>1. Slice(-NumRollouts, -1) = SubSeq(Metadata, NumActors + 1, Last - 1)
    BY <1>0, <1>1 DEF Slice, Bound
  <2>2. /\ SubSeq(Metadata, NumActors + 1, Last - 1) \in Seq(Nat)
        /\ Len(SubSeq(Metadata, NumActors + 1, Last - 1)) = NumRollouts - 1
        /\ \A i \in 1..NumRollouts - 1 : SubSeq(Metadata, NumActors + 1, Last - 1)[i] = NumActors + i
    BY <1>0, <1>1, Slices
  <2> QED
    BY <2>1, <2>2
<1>4. \A i \in 1..NumRollouts : RolloutPrev[i] = IF i = 1 THEN 1 ELSE NumActors + i - 1
  BY <1>3 DEF RolloutPrev
<1>5. ASSUME NumRollouts > 1
      PROVE  \A i \in 1..NumRollouts : RolloutNext[i] = IF i = NumRollouts THEN 0 ELSE NumActors + i + 1
  <2>1. From(-NumRollouts + 1) = SubSeq(Metadata, NumActors + 2, Last)
    <3>1. Bound(-NumRollouts + 1) = NumActors + 1
      BY <1>0, <1>1, <1>5 DEF Bound
    <3>2. Bound(-NumRollouts + 1) + 1 = NumActors + 2
      BY <3>1
    <3> QED
      BY ONLY <3>2, <1>1 DEF From
  <2>2. /\ SubSeq(Metadata, NumActors + 2, Last) \in Seq(Nat)
        /\ Len(SubSeq(Metadata, NumActors + 2, Last)) = NumRollouts - 1
        /\ \A i \in 1..NumRollouts - 1 : SubSeq(Metadata, NumActors + 2, Last)[i] = NumActors + i + 1
    BY <1>0, <1>1, <1>5, Slices
  <2>3. RolloutNext = SubSeq(Metadata, NumActors + 2, Last) \o <<0>>
    BY <2>1 DEF RolloutNext
  <2> QED
    BY <2>2, <2>3, <1>5, EndOfChain
<1>6. ASSUME NumRollouts = 1 PROVE RolloutNext[1] = 1
  <2>1. From(-NumRollouts + 1) = SubSeq(Metadata, 1, Last)
    <3>1. Bound(-NumRollouts + 1) = 0
      BY <1>0, <1>1, <1>6 DEF Bound
    <3>2. Bound(-NumRollouts + 1) + 1 = 1
      BY <3>1
    <3> QED
      BY ONLY <3>2, <1>1 DEF From
  <2>2. /\ SubSeq(Metadata, 1, Last) \in Seq(Nat) /\ Len(SubSeq(Metadata, 1, Last)) = Last
        /\ SubSeq(Metadata, 1, Last)[1] = 1
    BY <1>0, <1>1, Slices
  <2>3. RolloutNext = SubSeq(Metadata, 1, Last) \o <<0>>
    BY <2>1 DEF RolloutNext
  <2> QED
    BY <2>2, <2>3, <1>0
<1>7. \A w \in Actors : /\ PrevOf(w) = 0
                        /\ NextOf(w) = IF w = 1 THEN NumActors + 1 ELSE 0
  BY <1>2 DEF PrevOf, NextOf, ActorPrev, ActorNext, Actors
<1>8. \A w \in Rollouts : /\ w \notin Actors /\ w - NumActors \in 1..NumRollouts
                          /\ PrevOf(w) = RolloutPrev[w - NumActors] /\ NextOf(w) = RolloutNext[w - NumActors]
  BY DEF Rollouts, Actors, PrevOf, NextOf
<1>9. Agents = Actors \cup Rollouts /\ Sender \in Actors
  BY DEF Agents, Actors, Rollouts
<1>10. \A w \in Rollouts : /\ PrevOf(w) = Up(w) /\ PrevOf(w) \in Int /\ NextOf(w) \in Int
                           /\ NumRollouts > 1 => NextOf(w) = Down(w)
  <2> SUFFICES ASSUME NEW w \in Rollouts
               PROVE  /\ PrevOf(w) = Up(w) /\ PrevOf(w) \in Int /\ NextOf(w) \in Int
                      /\ NumRollouts > 1 => NextOf(w) = Down(w)
    OBVIOUS
  <2>1. w \in NumActors + 1..NumActors + NumRollouts
    BY DEF Rollouts
  <2>2. w - NumActors \in 1..NumRollouts /\ PrevOf(w) = RolloutPrev[w - NumActors]
        /\ NextOf(w) = RolloutNext[w - NumActors]
    BY <1>8
  <2>3. PrevOf(w) = Up(w) /\ PrevOf(w) \in Int
    BY <2>1, <2>2, <1>4 DEF Up
  <2>4. CASE NumRollouts > 1
    BY <2>1, <2>2, <2>3, <2>4, <1>5 DEF Down, Last
  <2>5. CASE NumRollouts = 1
    BY <2>1, <2>2, <2>3, <2>5, <1>6
  <2> QED
    BY <2>4, <2>5
<1>11. \A w \in Rollouts : Fits(w) => NumRollouts > 1
  BY <1>6, <1>8 DEF Fits, RankOf, Rollouts, Actors
<1>12. \A w \in Actors : Fits(w)
  BY <1>7, <1>8, <1>9 DEF Fits, RankOf, Actors
<1> QED
  BY <1>7, <1>8, <1>9, <1>10, <1>11, <1>12 DEF Down, Actors

\* A load's chunks have sizes.
LEMMA SizesAre ==
  \A s \in 1..Len(Loads) : Loads[s] \in Seq(Nat \ {0})
BY ChainAssumption

\* The empty bucket is a message.
LEMMA NothingIs == /\ Nothing \in Messages /\ Nothing.chunks = <<>> /\ ~Nothing.last
                  /\ Len(Nothing.chunks) = 0 /\ DOMAIN Nothing.chunks = {} /\ DOMAIN <<>> = {}
BY DEF Nothing, Messages

\* One copy per chunk of the bucket.
LEMMA CopiesAre ==
  ASSUME NEW w, NEW m \in Messages, NEW b \in {0, 1}
  PROVE  /\ Copies(w, m, b) \in Seq(Copying) /\ Len(Copies(w, m, b)) = Len(m.chunks)
         /\ \A i \in 1..Len(m.chunks) : /\ Copies(w, m, b)[i].do = "copy" /\ Copies(w, m, b)[i].b = b
                                        /\ Copies(w, m, b)[i].chunk = m.chunks[i]
<1>1. m.chunks \in Seq(Nat \X Nat)
  BY DEF Messages
<1>2. \A i \in 1..Len(m.chunks) : [do |-> "copy", b |-> b, chunk |-> m.chunks[i]] \in Copying
  BY <1>1 DEF Copying
<1> QED
  <2> DEFINE C == [i \in 1..Len(m.chunks) |-> [do |-> "copy", b |-> b, chunk |-> m.chunks[i]]]
  <2>1. Copies(w, m, b) = C
    BY <1>1 DEF Copies
  <2>2. C \in Seq(Copying) /\ Len(C) = Len(m.chunks)
    BY <1>1, <1>2
  <2> QED
    BY <2>1, <2>2

\* An agent reads from an agent, when it is in the loop.
LEMMA ReadsIt ==
  ASSUME Chained, NEW w \in Rollouts, read[w].state = "reading"
  PROVE  /\ read[w] \in [state : {"reading", "done"}, b : {0, 1}, from : {0, 1}, key : Nat]
         /\ prev[w] = Up(w) /\ prev[w] \in Agents /\ pc[w] \in {"await", "swap"}
<1>1. read[w] # NoRead
  BY DEF NoRead
<1>2. pc[w] \in {"await", "swap"}
  BY <1>1 DEF Chained, Reader, ReaderOf
<1>3. read[w] \in Reads
  BY Shape DEF Chained, Types
<1>4. prev[w] = Up(w) /\ Up(w) \in Agents
  BY <1>2, Shape DEF Chained, Joined
<1> QED
  BY <1>1, <1>2, <1>3, <1>4 DEF Reads

-----------------------------------------------------------------------------
(* Chained is inductive.                                                     *)

\* The invariant holds at the start.
LEMMA ChainedInit == Init => Chained
<1> SUFFICES ASSUME Init PROVE Chained
  OBVIOUS
<1> USE Shape, SizesAre, NothingIs, ChainAssumption DEF Init
<1>1. Types
  BY DEF Types, Labels, Reads, Sizes, Rollouts, Sender
<1>2. Joined /\ Placed
  <2>1. 0 \in Int
    OBVIOUS
  <2> QED
    BY <2>1 DEF Joined, Placed, None
<1>3. Bucket
  <2>1. held[Sender] = Nothing /\ queue[Sender] = <<>> /\ pc[Sender] = "init"
    OBVIOUS
  <2> QED
    BY <2>1 DEF Bucket, Numbered, Ordered, Waiting, Stored
<1>4. \A w \in Rollouts : /\ pc[w] = "init" /\ queue[w] = <<>> /\ got[w] = <<>> /\ read[w] = NoRead
                          /\ mail[w] = <<>> /\ notes[Up(w)] = <<>> /\ pc[Up(w)] = "init"
                          /\ Given(w) = 0
  BY DEF Given
<1>5. Loader /\ Reader
  <2>1. NoRead.state = "none"
    BY DEF NoRead
  <2> QED
    BY <1>4, <2>1 DEF Loader, LoaderOf, Reader, ReaderOf
<1>6. Sent /\ InOnePlace
  BY <1>4 DEF Sent, SentOf, InOnePlace, PlaceOf, IsReading, NoRead, Out
<1>7. Counted
  <2>1. \A w \in Rollouts : Taken(w) = 0
    BY <1>4 DEF Taken
  <2>2. \A w \in Rollouts : Had(Up(w)) = 0
    <3>1. Had(Sender) = 0
      BY DEF Had
    <3>2. \A u \in Rollouts : Had(u) = 0
      BY <1>4 DEF Had
    <3> QED
      BY <3>1, <3>2
  <2> QED
    BY <1>4, <2>1, <2>2 DEF Counted, CountOf
<1> QED
  BY <1>1, <1>2, <1>3, <1>5, <1>6, <1>7 DEF Chained


-----------------------------------------------------------------------------
(* What the steps change.                                                    *)

\* The variables, typed.
LEMMA TypedFns ==
  ASSUME Chained
  PROVE  /\ pc \in [Agents -> Labels] /\ cur \in [Agents -> {0, 1}] /\ held \in [Agents -> Messages]
         /\ coming \in [Agents -> Messages] /\ key \in [Agents -> Nat] /\ mail \in [Agents -> Seq(Letters)]
         /\ notes \in [Agents -> Seq(Nat)] /\ read \in [Agents -> Reads] /\ queue \in [Agents -> Seq(Copying)]
         /\ buf \in [Agents -> [{0, 1} -> SUBSET (Int \X Int)]] /\ got \in [Rollouts -> Seq(Int)]
         /\ prev \in [Agents -> Int] /\ next \in [Agents -> Int]
BY DEF Chained, Types, Joined

\* The sender's neighbour, once it has joined.
LEMMA NextOfSender == Chained /\ pc[Sender] # "init" => next[Sender] = Down(Sender)
BY DEF Chained, Joined

\* A worker's neighbours, once it has joined.
LEMMA NextOfWorker ==
  ASSUME Chained, NEW w \in Rollouts, pc[w] \notin {"init", "refused"}
  PROVE  prev[w] = Up(w) /\ next[w] = Down(w)
BY DEF Chained, Joined

\* What a step leaves alone.
Same(x) == /\ pc'[x] = pc[x] /\ cur'[x] = cur[x] /\ held'[x] = held[x] /\ coming'[x] = coming[x]
           /\ read'[x] = read[x] /\ queue'[x] = queue[x] /\ buf'[x] = buf[x] /\ key'[x] = key[x]
           /\ x \in Rollouts => got'[x] = got[x]
SameLink(x) == mail'[x] = mail[x] /\ notes'[Up(x)] = notes[Up(x)]
SenderStep == FillChunk \/ Synchronize \/ SenderAwaits \/ AnnounceBucket \/ SenderEnds
RolloutStep(w) == FirstRead(w) \/ Swap(w) \/ ReadNext(w) \/ Await(w) \/ Ends(w) \/ Loaded(w) \/ Transfer(w) \/ TransferError(w)

\* The sender's steps are its own, and reach the first worker only.
LEMMA SenderFrame ==
  ASSUME Chained, SenderStep
  PROVE  /\ base' = base /\ sync' = sync /\ Sizes' = Sizes /\ prev' = prev /\ next' = next
         /\ \A x \in Agents \ {Sender} : Same(x)
         /\ \A x \in Rollouts : got'[x] = got[x] /\ Same(x) /\ (x # Down(Sender) => SameLink(x))
<1> USE DEF Same, SameLink
<1> USE Shape DEF chain, fill, op, Go
<1>1. CASE FillChunk
  BY <1>1, TypedFns, NextOfSender DEF FillChunk, Sizes
<1>2. CASE Synchronize
  BY <1>2, TypedFns, NextOfSender DEF Synchronize, Sizes
<1>3. CASE SenderAwaits
  BY <1>3, TypedFns, NextOfSender DEF SenderAwaits, Sizes, Notified
<1>4. CASE AnnounceBucket
  <2>1. next[Sender] = Down(Sender)
    BY <1>4, NextOfSender DEF AnnounceBucket
  <2>2. \A x \in Agents \ {Down(Sender)} : mail'[x] = mail[x]
    BY <1>4, <2>1, TypedFns DEF AnnounceBucket, Announce
  <2>3. notes' = notes /\ got' = got /\ \A x \in Agents \ {Sender} : Same(x)
    BY <1>4, TypedFns DEF AnnounceBucket, Announce
  <2> QED
    BY <1>4, <2>2, <2>3 DEF AnnounceBucket, Sizes
<1>5. CASE SenderEnds
  BY <1>5, TypedFns, NextOfSender DEF SenderEnds, Sizes, Notified
<1> QED
  BY <1>1, <1>2, <1>3, <1>4, <1>5 DEF SenderStep

\* A worker's steps are its own, but for the message to the next one and the
\* notification to the one before.
LEMMA RolloutFrame ==
  ASSUME Chained, NEW w \in Rollouts, RolloutStep(w)
  PROVE  /\ base' = base /\ pulled' = pulled /\ offset' = offset /\ sync' = sync /\ Sizes' = Sizes
         /\ prev' = prev /\ next' = next
         /\ \A x \in Agents \ {w} : Same(x)
         /\ \A x \in Rollouts \ {w} : x # Down(w) => SameLink(x)
<1> USE DEF Same, SameLink
<1> USE Shape DEF chain, fill, op, Go
<1>1. CASE FirstRead(w)
  BY <1>1, TypedFns, NextOfWorker, ReadsIt DEF FirstRead, Sizes, BeginRead
<1>2. CASE Swap(w)
  <2>1. next[w] = Down(w)
    BY <1>2, NextOfWorker DEF Swap
  <2>2. \A x \in Agents \ {Down(w)} : mail'[x] = mail[x]
    <3>1. CASE Forwards(w, coming[w])
      <4>1. \E l : mail' = [mail EXCEPT ![next[w]] = l]
        BY <1>2, <3>1 DEF Swap, Announce
      <4> QED
        BY <4>1, <2>1, TypedFns
    <3>2. CASE ~Forwards(w, coming[w])
      BY <1>2, <3>2 DEF Swap, NoAnnounce
    <3> QED
      BY <3>1, <3>2
  <2>3. notes' = notes /\ got' = got /\ \A x \in Agents \ {w} : Same(x)
    <3>1. \A x \in Agents \ {w} : key'[x] = key[x]
      <4>1. \E l : key' = [key EXCEPT ![w] = l]
        BY <1>2 DEF Swap, Announce, NoAnnounce
      <4> QED
        BY <4>1, TypedFns
    <3>2. \A x \in Agents \ {w} : pc'[x] = pc[x]
      <4>1. \E l : pc' = [pc EXCEPT ![w] = l]
        BY <1>2 DEF Swap
      <4> QED
        BY <4>1, TypedFns
    <3>3. \A x \in Agents \ {w} : queue'[x] = queue[x]
      <4>1. CASE coming[w].last
        <5>1. \E l : queue' = [queue EXCEPT ![w] = l]
          BY <1>2, <4>1 DEF Swap
        <5> QED
          BY <5>1, TypedFns
      <4>2. CASE ~coming[w].last
        BY <1>2, <4>2 DEF Swap
      <4> QED
        BY <4>1, <4>2
    <3> QED
      BY <1>2, <3>1, <3>2, <3>3, TypedFns DEF Swap
  <2> QED
    BY <1>2, <2>2, <2>3 DEF Swap, Sizes
<1>3. CASE ReadNext(w)
  BY <1>3, TypedFns, NextOfWorker, ReadsIt DEF ReadNext, Sizes, BeginRead
<1>4. CASE Await(w)
  BY <1>4, TypedFns, NextOfWorker, ReadsIt DEF Await, Sizes, Notified
<1>5. CASE Ends(w)
  BY <1>5, TypedFns, NextOfWorker, ReadsIt DEF Ends, Sizes, Notified
<1>6. CASE Loaded(w)
  BY <1>6, TypedFns, NextOfWorker, ReadsIt DEF Loaded, Sizes
<1>7. CASE Transfer(w)
  BY <1>7, TypedFns, NextOfWorker, ReadsIt DEF Transfer, Sizes
<1>8. CASE TransferError(w)
  BY <1>8, TypedFns, NextOfWorker, ReadsIt DEF TransferError, Sizes
<1> QED
  BY <1>1, <1>2, <1>3, <1>4, <1>5, <1>6, <1>7, <1>8 DEF RolloutStep

\* Joining and a device's work change only the agent they are of.
LEMMA OwnFrame ==
  ASSUME Chained, NEW w \in Agents, Join(w) \/ Device(w)
  PROVE  /\ UNCHANGED <<base, pulled, offset, sync, Sizes, mail, notes, cur, held, coming, read, key>>
         /\ \A x \in Agents \ {w} : Same(x) /\ prev'[x] = prev[x] /\ next'[x] = next[x]
<1> USE DEF Same
<1> USE Shape DEF chain, fill, op, Go, Sizes
<1>1. CASE Join(w)
  <2>1. \A x \in Agents \ {w} : pc'[x] = pc[x] /\ prev'[x] = prev[x] /\ next'[x] = next[x]
    <3>1. \E l : pc' = [pc EXCEPT ![w] = l]
      BY <1>1 DEF Join
    <3>2. CASE Fits(w)
      <4>1. prev' = [prev EXCEPT ![w] = PrevOf(w)] /\ next' = [next EXCEPT ![w] = NextOf(w)]
        BY <1>1, <3>2 DEF Join
      <4> QED
        BY <3>1, <4>1, TypedFns
    <3>3. CASE ~Fits(w)
      <4>1. prev' = prev /\ next' = next
        BY <1>1, <3>3 DEF Join
      <4> QED
        BY <3>1, <4>1, TypedFns
    <3> QED
      BY <3>2, <3>3
  <2> QED
    BY <1>1, <2>1 DEF Join
<1>2. CASE Device(w)
  <2>1. \A x \in Agents \ {w} : queue'[x] = queue[x] /\ buf'[x] = buf[x] /\ (x \in Rollouts => got'[x] = got[x])
    <3>1. queue' = [queue EXCEPT ![w] = Tail(queue[w])]
      BY <1>2 DEF Device
    <3>2. CASE Head(queue[w]).do = "fill"
      <4>1. \E i, c : buf' = [buf EXCEPT ![w] = [buf[w] EXCEPT ![i] = c]]
        BY <1>2, <3>2 DEF Device
      <4>2. got' = got
        BY <1>2, <3>2 DEF Device
      <4> QED
        BY <3>1, <4>1, <4>2, TypedFns
    <3>3. CASE Head(queue[w]).do # "fill"
      <4>1. \E l : got' = [got EXCEPT ![w] = l]
        BY <1>2, <3>3 DEF Device
      <4>2. buf' = buf
        BY <1>2, <3>3 DEF Device
      <4> QED
        BY <3>1, <4>1, <4>2, TypedFns
    <3> QED
      BY <3>2, <3>3
  <2> QED
    BY <1>2, <2>1 DEF Device
<1> QED
  BY <1>1, <1>2

\* The notification that an agent waits for is of its last announcement.
LEMMA Noticed ==
  ASSUME Chained, NEW w \in Rollouts, NEW u, u = Up(w), pc[u] # "dead", notes[u] # <<>>
  PROVE  /\ Out(u) /\ notes[u] = <<key[u]>> /\ Head(notes[u]) = key[u] /\ Tail(notes[u]) = <<>>
         /\ mail[w] = <<>> /\ ~IsReading(w)
<1>1. PlaceOf(w)
  BY DEF Chained, InOnePlace
<1>2. notes[u] = <<key[u]>> /\ Out(u) /\ mail[w] = <<>> /\ ~IsReading(w)
  BY <1>1 DEF PlaceOf
<1> QED
  BY <1>2

\* The sender is notified of its last announcement.
LEMMA SenderNoticed ==
  ASSUME Chained, notes[Sender] # <<>>
  PROVE  Out(Sender) /\ Head(notes[Sender]) = key[Sender]
<1>1. pc[Sender] # "dead"
  BY DEF Chained, Placed
<1> QED
  BY <1>1, Noticed, Shape

\* So is a worker.
LEMMA WorkerNoticed ==
  ASSUME Chained, NEW w \in Rollouts, pc[w] \in {"await", "drain"}, notes[w] # <<>>
  PROVE  Head(notes[w]) = key[w]
<1>1. Down(w) \in Rollouts /\ w = Up(Down(w))
  BY Shape DEF Chained, Placed
<1> QED
  BY <1>1, Noticed

\* Every step keeps the types.
LEMMA TypesStep ==
  ASSUME Chained, [Next]_vars
  PROVE  Types'
<1>sync. sync \in 1..Len(Loads)
  BY DEF Chained, Types
<1>base. base \in Nat
  BY DEF Chained, Types
<1>pulled. pulled \in 0..Len(Sizes)
  BY DEF Chained, Types
<1>offset. offset \in Nat
  BY DEF Chained, Types
<1>pc. pc \in [Agents -> Labels]
  BY DEF Chained, Types
<1>cur. cur \in [Agents -> {0, 1}]
  BY DEF Chained, Types
<1>held. held \in [Agents -> Messages]
  BY DEF Chained, Types
<1>coming. coming \in [Agents -> Messages]
  BY DEF Chained, Types
<1>key. key \in [Agents -> Nat]
  BY DEF Chained, Types
<1>fresh. fresh \in Nat \ {0}
  BY DEF Chained, Types
<1>mail. mail \in [Agents -> Seq(Letters)]
  BY DEF Chained, Types
<1>notes. notes \in [Agents -> Seq(Nat)]
  BY DEF Chained, Types
<1>read. read \in [Agents -> Reads]
  BY DEF Chained, Types
<1>queue. queue \in [Agents -> Seq(Copying)]
  BY DEF Chained, Types
<1>buf. buf \in [Agents -> [{0, 1} -> SUBSET (Int \X Int)]]
  BY DEF Chained, Types
<1>got. got \in [Rollouts -> Seq(Int)]
  BY DEF Chained, Types
<1>1. CASE NextSync
  <2>1. sync' \in 1..Len(Loads)
    BY <1>1, <1>sync, ChainAssumption DEF NextSync
  <2>2. base' \in Nat
    BY <1>1, <1>base, <1>sync, SizesAre DEF NextSync, Sizes
  <2>3. pulled' \in 0..Len(Sizes)'
    <3>1. pulled' = 0 /\ sync' \in 1..Len(Loads)
      BY <1>1, <1>sync, ChainAssumption DEF NextSync
    <3> QED
      BY <3>1, SizesAre DEF Sizes
  <2>4. offset' \in Nat
    BY <1>1 DEF NextSync
  <2>5. pc' \in [Agents -> Labels]
    BY <1>1 DEF NextSync, Labels
  <2>6. cur' \in [Agents -> {0, 1}]
    BY <1>1 DEF NextSync
  <2>7. held' \in [Agents -> Messages]
    BY <1>1, NothingIs DEF NextSync
  <2>8. coming' \in [Agents -> Messages]
    BY <1>1, NothingIs DEF NextSync
  <2>9. key' \in [Agents -> Nat]
    BY <1>1 DEF NextSync
  <2>10. fresh' = fresh /\ mail' = mail /\ notes' = notes /\ read' = read /\ queue' = queue /\ buf' = buf /\ got' = got
    BY <1>1 DEF NextSync, Sizes
  <2> QED
    BY <2>1, <2>2, <2>3, <2>4, <2>5, <2>6, <2>7, <2>8, <2>9, <2>10, <1>fresh, <1>mail, <1>notes, <1>read, <1>queue, <1>buf, <1>got DEF Types
<1>2. CASE FillChunk
  <2>1. /\ <<offset, Id(pulled + 1)>> \in Nat \X Nat /\ Sizes[pulled + 1] \in Nat \ {0} /\ pulled + 1 \in 0..Len(Sizes)
    <3>2. Sizes \in Seq(Nat \ {0})
      BY <1>sync, SizesAre DEF Sizes
    <3>1. pulled + 1 \in 1..Len(Sizes)
      BY <1>2, <1>pulled, <3>2 DEF FillChunk
    <3> QED
      BY <3>1, <3>2, <1>base, <1>pulled, <1>offset DEF Id
  <2>2. queue' \in [Agents -> Seq(Copying)]
    <3>1. queue' = [queue EXCEPT ![Sender] = Append(queue[Sender], [do |-> "fill", b |-> cur[Sender], chunk |-> <<offset, Id(pulled + 1)>>])]
      BY <1>2 DEF FillChunk, chain, fill, op
    <3>2. Sender \in Agents => (Append(queue[Sender], [do |-> "fill", b |-> cur[Sender], chunk |-> <<offset, Id(pulled + 1)>>])) \in Seq(Copying)
      <4>1. [do |-> "fill", b |-> cur[Sender], chunk |-> <<offset, Id(pulled + 1)>>] \in Copying
        BY <2>1, <1>cur, Shape DEF Copying
      <4> HIDE DEF Copying
      <4> QED
        BY <4>1, <1>queue, Shape
    <3> QED
      BY <3>1, <3>2, <1>queue
  <2>3. held' \in [Agents -> Messages]
    <3>1. held' = [held EXCEPT ![Sender] = [held[Sender] EXCEPT !.chunks = Append(held[Sender].chunks, <<offset, Id(pulled + 1)>>)]]
      BY <1>2 DEF FillChunk, chain, fill, op
    <3>2. Sender \in Agents => ([held[Sender] EXCEPT !.chunks = Append(held[Sender].chunks, <<offset, Id(pulled + 1)>>)]) \in Messages
      <4>1. held[Sender].chunks \in Seq(Nat \X Nat) /\ held[Sender] \in Messages
        BY <1>held, Shape DEF Messages
      <4>2. Append(held[Sender].chunks, <<offset, Id(pulled + 1)>>) \in Seq(Nat \X Nat)
        BY <4>1, <2>1
      <4> QED
        BY <4>1, <4>2 DEF Messages
    <3> QED
      BY <3>1, <3>2, <1>held
  <2>4. offset' \in Nat
    BY <1>2, <2>1, <1>offset DEF FillChunk
  <2>5. pulled' \in 0..Len(Sizes)'
    BY <1>2, <2>1, <1>pulled DEF FillChunk, chain, Sizes
  <2>6. sync' = sync /\ base' = base /\ pc' = pc /\ cur' = cur /\ coming' = coming /\ key' = key /\ fresh' = fresh /\ mail' = mail /\ notes' = notes /\ read' = read /\ buf' = buf /\ got' = got /\ Sizes' = Sizes
    BY <1>2 DEF FillChunk, chain, fill, op, Sizes
  <2> QED
    BY <2>2, <2>3, <2>4, <2>5, <2>6, <1>sync, <1>base, <1>pc, <1>cur, <1>coming, <1>key, <1>fresh, <1>mail, <1>notes, <1>read, <1>buf, <1>got DEF Types
<1>3. CASE Synchronize
  <2>1. pc' \in [Agents -> Labels]
    <3>1. pc' = [pc EXCEPT ![Sender] = IF key[Sender] = 0 THEN "announce" ELSE "await"]
      BY <1>3 DEF Synchronize, chain, fill, op, Go
    <3>2. Sender \in Agents => (IF key[Sender] = 0 THEN "announce" ELSE "await") \in Labels
      BY DEF Labels
    <3> QED
      BY <3>1, <3>2, <1>pc
  <2>2. held' \in [Agents -> Messages]
    <3>1. held' = [held EXCEPT ![Sender] = [held[Sender] EXCEPT !.last = (pulled = Len(Sizes))]]
      BY <1>3 DEF Synchronize, chain, fill, op, Go
    <3>2. Sender \in Agents => ([held[Sender] EXCEPT !.last = (pulled = Len(Sizes))]) \in Messages
      BY <1>held DEF Messages
    <3> QED
      BY <3>1, <3>2, <1>held
  <2>3. sync' = sync /\ base' = base /\ pulled' = pulled /\ offset' = offset /\ cur' = cur /\ coming' = coming /\ key' = key /\ fresh' = fresh /\ mail' = mail /\ notes' = notes /\ read' = read /\ queue' = queue /\ buf' = buf /\ got' = got /\ Sizes' = Sizes
    BY <1>3 DEF Synchronize, chain, fill, op, Go, Sizes
  <2> QED
    BY <2>1, <2>2, <2>3, <1>sync, <1>base, <1>pulled, <1>offset, <1>cur, <1>coming, <1>key, <1>fresh, <1>mail, <1>notes, <1>read, <1>queue, <1>buf, <1>got DEF Types
<1>4. CASE SenderAwaits
  <2>1. notes' \in [Agents -> Seq(Nat)]
    <3>1. notes' = [notes EXCEPT ![Sender] = Tail(notes[Sender])]
      BY <1>4 DEF SenderAwaits, chain, fill, op, Go, Notified
    <3>2. Sender \in Agents => (Tail(notes[Sender])) \in Seq(Nat)
      <4>1. notes[Sender] \in Seq(Nat) /\ notes[Sender] # <<>>
        BY <1>4, <1>notes, Shape DEF SenderAwaits, Notified
      <4> QED
        BY <4>1
    <3> QED
      BY <3>1, <3>2, <1>notes
  <2>2. pc' \in [Agents -> Labels]
    <3>1. pc' = [pc EXCEPT ![Sender] = IF Head(notes[Sender]) = key[Sender] THEN "announce" ELSE "refused"]
      BY <1>4 DEF SenderAwaits, chain, fill, op, Go, Notified
    <3>2. Sender \in Agents => (IF Head(notes[Sender]) = key[Sender] THEN "announce" ELSE "refused") \in Labels
      BY DEF Labels
    <3> QED
      BY <3>1, <3>2, <1>pc
  <2>3. sync' = sync /\ base' = base /\ pulled' = pulled /\ offset' = offset /\ cur' = cur /\ held' = held /\ coming' = coming /\ key' = key /\ fresh' = fresh /\ mail' = mail /\ read' = read /\ queue' = queue /\ buf' = buf /\ got' = got /\ Sizes' = Sizes
    BY <1>4 DEF SenderAwaits, chain, fill, op, Go, Notified, Sizes
  <2> QED
    BY <2>1, <2>2, <2>3, <1>sync, <1>base, <1>pulled, <1>offset, <1>cur, <1>held, <1>coming, <1>key, <1>fresh, <1>mail, <1>read, <1>queue, <1>buf, <1>got DEF Types
<1>5. CASE AnnounceBucket
  <2>1. fresh' \in Nat \ {0}
    BY <1>5, <1>fresh DEF AnnounceBucket, Announce
  <2>2. key' \in [Agents -> Nat]
    <3>1. key' = [key EXCEPT ![Sender] = fresh]
      BY <1>5 DEF AnnounceBucket, chain, Go, Announce
    <3>2. Sender \in Agents => (fresh) \in Nat
      BY <1>fresh
    <3> QED
      BY <3>1, <3>2, <1>key
  <2>3. mail' \in [Agents -> Seq(Letters)]
    <3>1. mail' = [mail EXCEPT ![next[Sender]] = Append(mail[next[Sender]], [m |-> held[Sender], b |-> cur[Sender], key |-> fresh])]
      BY <1>5 DEF AnnounceBucket, chain, Go, Announce
    <3>2. next[Sender] \in Agents => (Append(mail[next[Sender]], [m |-> held[Sender], b |-> cur[Sender], key |-> fresh])) \in Seq(Letters)
      <4>1. [m |-> held[Sender], b |-> cur[Sender], key |-> fresh] \in Letters
        BY <1>held, <1>cur, <1>fresh, Shape DEF Letters
      <4> QED
        BY <4>1, <1>mail
    <3> QED
      BY <3>1, <3>2, <1>mail
  <2>4. cur' \in [Agents -> {0, 1}]
    <3>1. cur' = [cur EXCEPT ![Sender] = IF held[Sender].last THEN cur[Sender] ELSE 1 - cur[Sender]]
      BY <1>5 DEF AnnounceBucket, chain, Go
    <3>2. Sender \in Agents => (IF held[Sender].last THEN cur[Sender] ELSE 1 - cur[Sender]) \in {0, 1}
      BY <1>cur
    <3> QED
      BY <3>1, <3>2, <1>cur
  <2>5. held' \in [Agents -> Messages]
    <3>1. held' = [held EXCEPT ![Sender] = IF held[Sender].last THEN held[Sender] ELSE Nothing]
      BY <1>5 DEF AnnounceBucket, chain, Go
    <3>2. Sender \in Agents => (IF held[Sender].last THEN held[Sender] ELSE Nothing) \in Messages
      BY <1>held, NothingIs
    <3> QED
      BY <3>1, <3>2, <1>held
  <2>6. offset' \in Nat
    BY <1>5, <1>offset DEF AnnounceBucket
  <2>7. pc' \in [Agents -> Labels]
    <3>1. pc' = [pc EXCEPT ![Sender] = IF held[Sender].last THEN "drain" ELSE "pull"]
      BY <1>5 DEF AnnounceBucket, chain, Go
    <3>2. Sender \in Agents => (IF held[Sender].last THEN "drain" ELSE "pull") \in Labels
      BY DEF Labels
    <3> QED
      BY <3>1, <3>2, <1>pc
  <2>8. sync' = sync /\ base' = base /\ pulled' = pulled /\ coming' = coming /\ notes' = notes /\ read' = read /\ queue' = queue /\ buf' = buf /\ got' = got /\ Sizes' = Sizes
    BY <1>5 DEF AnnounceBucket, chain, Go, Sizes
  <2> QED
    BY <2>1, <2>2, <2>3, <2>4, <2>5, <2>6, <2>7, <2>8, <1>sync, <1>base, <1>pulled, <1>coming, <1>notes, <1>read, <1>queue, <1>buf, <1>got DEF Types
<1>6. CASE SenderEnds
  <2>1. notes' \in [Agents -> Seq(Nat)]
    <3>1. notes' = [notes EXCEPT ![Sender] = Tail(notes[Sender])]
      BY <1>6 DEF SenderEnds, chain, fill, op, Go, Notified
    <3>2. Sender \in Agents => (Tail(notes[Sender])) \in Seq(Nat)
      <4>1. notes[Sender] \in Seq(Nat) /\ notes[Sender] # <<>>
        BY <1>6, <1>notes, Shape DEF SenderEnds, Notified
      <4> QED
        BY <4>1
    <3> QED
      BY <3>1, <3>2, <1>notes
  <2>2. pc' \in [Agents -> Labels]
    <3>1. pc' = [pc EXCEPT ![Sender] = IF Head(notes[Sender]) = key[Sender] THEN "done" ELSE "refused"]
      BY <1>6 DEF SenderEnds, chain, fill, op, Go, Notified
    <3>2. Sender \in Agents => (IF Head(notes[Sender]) = key[Sender] THEN "done" ELSE "refused") \in Labels
      BY DEF Labels
    <3> QED
      BY <3>1, <3>2, <1>pc
  <2>3. sync' = sync /\ base' = base /\ pulled' = pulled /\ offset' = offset /\ cur' = cur /\ held' = held /\ coming' = coming /\ key' = key /\ fresh' = fresh /\ mail' = mail /\ read' = read /\ queue' = queue /\ buf' = buf /\ got' = got /\ Sizes' = Sizes
    BY <1>6 DEF SenderEnds, chain, fill, op, Go, Notified, Sizes
  <2> QED
    BY <2>1, <2>2, <2>3, <1>sync, <1>base, <1>pulled, <1>offset, <1>cur, <1>held, <1>coming, <1>key, <1>fresh, <1>mail, <1>read, <1>queue, <1>buf, <1>got DEF Types
<1>7. ASSUME NEW w \in Agents, Join(w) PROVE Types'
  <2>1. pc' \in [Agents -> Labels]
    <3>1. \E l \in Labels : pc' = [pc EXCEPT ![w] = l]
      BY <1>7 DEF Join, Go, Labels
    <3> QED
      BY <3>1, <1>pc
  <2>2. sync' = sync /\ base' = base /\ pulled' = pulled /\ offset' = offset /\ cur' = cur /\ held' = held /\ coming' = coming /\ key' = key /\ fresh' = fresh /\ mail' = mail /\ notes' = notes /\ read' = read /\ queue' = queue /\ buf' = buf /\ got' = got /\ Sizes' = Sizes
    BY <1>7 DEF Join, fill, op, Go, Sizes
  <2> QED
    BY <2>1, <2>2, <1>sync, <1>base, <1>pulled, <1>offset, <1>cur, <1>held, <1>coming, <1>key, <1>fresh, <1>mail, <1>notes, <1>read, <1>queue, <1>buf, <1>got DEF Types
<1>8. ASSUME NEW w \in Agents, Device(w) PROVE Types'
  <2>1. /\ Head(queue[w]) \in Copying /\ Tail(queue[w]) \in Seq(Copying)
    <3>1. queue[w] \in Seq(Copying) /\ queue[w] # <<>>
      BY <1>8, <1>queue DEF Device
    <3> QED
      BY <3>1
  <2>2. queue' \in [Agents -> Seq(Copying)]
    <3>1. queue' = [queue EXCEPT ![w] = Tail(queue[w])]
      BY <1>8 DEF Device, chain, fill, op
    <3>2. w \in Agents => (Tail(queue[w])) \in Seq(Copying)
      BY <2>1
    <3> QED
      BY <3>1, <3>2, <1>queue
  <2>3. buf' \in [Agents -> [{0, 1} -> SUBSET (Int \X Int)]]
    <3>1. CASE Head(queue[w]).do = "fill"
      <4> DEFINE x == Head(queue[w])
      <4>1. buf' = [buf EXCEPT ![w] = [buf[w] EXCEPT ![x.b] = {c \in buf[w][x.b] : c[1] < x.chunk[1]} \cup {x.chunk}]]
        BY <1>8, <3>1 DEF Device
      <4>2. x.b \in {0, 1} /\ x.chunk \in Int \X Int
        BY <2>1 DEF Copying
      <4>3. {c \in buf[w][x.b] : c[1] < x.chunk[1]} \cup {x.chunk} \in SUBSET (Int \X Int)
        BY <4>2, <1>buf
      <4> HIDE DEF x
      <4> QED
        BY <4>1, <4>2, <4>3, <1>buf
    <3>2. CASE Head(queue[w]).do # "fill"
      BY <1>8, <3>2, <1>buf DEF Device
    <3> QED
      BY <3>1, <3>2
  <2>4. got' \in [Rollouts -> Seq(Int)]
    <3>1. CASE Head(queue[w]).do = "fill"
      BY <1>8, <3>1, <1>got DEF Device
    <3>2. CASE Head(queue[w]).do # "fill"
      <4> DEFINE x == Head(queue[w])
                 e == IF x.chunk \in buf[w][x.b] THEN x.chunk[2] ELSE Junk
      <4>1. got' = [got EXCEPT ![w] = Append(got[w], e)]
        BY <1>8, <3>2 DEF Device
      <4>2. e \in Int
        BY <2>1 DEF Copying, Junk
      <4> HIDE DEF e, x
      <4>3. w \in Rollouts => got[w] \in Seq(Int)
        BY <1>got
      <4>4. w \in Rollouts => Append(got[w], e) \in Seq(Int)
        BY <4>2, <4>3
      <4> QED
        BY <4>1, <4>4, <1>got
    <3> QED
      BY <3>1, <3>2
  <2>5. sync' = sync /\ base' = base /\ pulled' = pulled /\ offset' = offset /\ pc' = pc /\ cur' = cur /\ held' = held /\ coming' = coming /\ key' = key /\ fresh' = fresh /\ mail' = mail /\ notes' = notes /\ read' = read /\ Sizes' = Sizes
    BY <1>8 DEF Device, chain, fill, op, Sizes
  <2> QED
    BY <2>2, <2>3, <2>4, <2>5, <1>sync, <1>base, <1>pulled, <1>offset, <1>pc, <1>cur, <1>held, <1>coming, <1>key, <1>fresh, <1>mail, <1>notes, <1>read DEF Types
<1>9. ASSUME NEW w \in Rollouts, FirstRead(w) PROVE Types'
  <2>1. /\ w \in Agents /\ Head(mail[w]) \in Letters /\ Tail(mail[w]) \in Seq(Letters) /\ cur[w] \in {0, 1}
    <3>1. mail[w] \in Seq(Letters) /\ mail[w] # <<>> /\ w \in Agents
      BY <1>9, <1>mail, Shape DEF FirstRead, BeginRead
    <3> QED
      BY <3>1, <1>cur
  <2>2. coming' \in [Agents -> Messages]
    <3>1. coming' = [coming EXCEPT ![w] = Head(mail[w]).m]
      BY <1>9 DEF FirstRead, chain, fill, Go, BeginRead
    <3>2. w \in Agents => (Head(mail[w]).m) \in Messages
      BY <2>1 DEF Letters
    <3> QED
      BY <3>1, <3>2, <1>coming
  <2>3. read' \in [Agents -> Reads]
    <3>1. read' = [read EXCEPT ![w] = [state |-> "reading", b |-> 1 - cur[w], from |-> Head(mail[w]).b, key |-> Head(mail[w]).key]]
      BY <1>9 DEF FirstRead, chain, fill, Go, BeginRead
    <3>2. w \in Agents => ([state |-> "reading", b |-> 1 - cur[w], from |-> Head(mail[w]).b, key |-> Head(mail[w]).key]) \in Reads
      BY <2>1 DEF Letters, Reads
    <3> QED
      BY <3>1, <3>2, <1>read
  <2>4. mail' \in [Agents -> Seq(Letters)]
    <3>1. mail' = [mail EXCEPT ![w] = Tail(mail[w])]
      BY <1>9 DEF FirstRead, chain, fill, Go, BeginRead
    <3>2. w \in Agents => (Tail(mail[w])) \in Seq(Letters)
      BY <2>1
    <3> QED
      BY <3>1, <3>2, <1>mail
  <2>5. buf' \in [Agents -> [{0, 1} -> SUBSET (Int \X Int)]]
    <3>1. buf' = [buf EXCEPT ![w] = [buf[w] EXCEPT ![1 - cur[w]] = Changing]]
      BY <1>9 DEF FirstRead, chain, fill, Go, BeginRead
    <3>2. w \in Agents => ([buf[w] EXCEPT ![1 - cur[w]] = Changing]) \in [{0, 1} -> SUBSET (Int \X Int)]
      BY <2>1, <1>buf DEF Changing
    <3> QED
      BY <3>1, <3>2, <1>buf
  <2>6. pc' \in [Agents -> Labels]
    <3>1. pc' = [pc EXCEPT ![w] = "swap"]
      BY <1>9 DEF FirstRead, chain, fill, Go, BeginRead
    <3>2. w \in Agents => ("swap") \in Labels
      BY DEF Labels
    <3> QED
      BY <3>1, <3>2, <1>pc
  <2>7. sync' = sync /\ base' = base /\ pulled' = pulled /\ offset' = offset /\ cur' = cur /\ held' = held /\ key' = key /\ fresh' = fresh /\ notes' = notes /\ queue' = queue /\ got' = got /\ Sizes' = Sizes
    BY <1>9 DEF FirstRead, chain, fill, Go, BeginRead, Sizes
  <2> QED
    BY <2>2, <2>3, <2>4, <2>5, <2>6, <2>7, <1>sync, <1>base, <1>pulled, <1>offset, <1>cur, <1>held, <1>key, <1>fresh, <1>notes, <1>queue, <1>got DEF Types
<1>10. ASSUME NEW w \in Rollouts, Swap(w) PROVE Types'
  <2>1. cur' \in [Agents -> {0, 1}]
    <3>1. cur' = [cur EXCEPT ![w] = 1 - cur[w]]
      BY <1>10 DEF Swap, chain, fill, Go
    <3>2. w \in Agents => (1 - cur[w]) \in {0, 1}
      BY <1>cur
    <3> QED
      BY <3>1, <3>2, <1>cur
  <2>2. held' \in [Agents -> Messages]
    <3>1. held' = [held EXCEPT ![w] = coming[w]]
      BY <1>10 DEF Swap, chain, fill, Go
    <3>2. w \in Agents => (coming[w]) \in Messages
      BY <1>coming
    <3> QED
      BY <3>1, <3>2, <1>held
  <2>3. read' \in [Agents -> Reads]
    <3>1. read' = [read EXCEPT ![w] = NoRead]
      BY <1>10 DEF Swap, chain, fill, Go
    <3>2. w \in Agents => (NoRead) \in Reads
      BY DEF Reads
    <3> QED
      BY <3>1, <3>2, <1>read
  <2>4. fresh' \in Nat \ {0}
    BY <1>10, <1>fresh DEF Swap, Announce, NoAnnounce
  <2>5. key' \in [Agents -> Nat]
    <3>1. key' = [key EXCEPT ![w] = fresh] \/ key' = [key EXCEPT ![w] = 0]
      BY <1>10 DEF Swap, Announce, NoAnnounce
    <3> QED
      BY <3>1, <1>key, <1>fresh
  <2>6. mail' \in [Agents -> Seq(Letters)]
    <3> DEFINE l == [m |-> coming[w], b |-> 1 - cur[w], key |-> fresh]
    <3>1. mail' = mail \/ mail' = [mail EXCEPT ![next[w]] = Append(mail[next[w]], l)]
      BY <1>10 DEF Swap, Announce, NoAnnounce
    <3>2. l \in Letters
      BY <1>coming, <1>cur, <1>fresh, Shape DEF Letters
    <3> HIDE DEF l
    <3> QED
      BY <3>1, <3>2, <1>mail
  <2>7. queue' \in [Agents -> Seq(Copying)]
    <3>1. queue' = queue \/ queue' = [queue EXCEPT ![w] = queue[w] \o Copies(w, coming[w], 1 - cur[w])]
      BY <1>10 DEF Swap
    <3>2. w \in Agents /\ 1 - cur[w] \in {0, 1} /\ coming[w] \in Messages
      BY <1>cur, <1>coming, Shape
    <3>3. queue[w] \o Copies(w, coming[w], 1 - cur[w]) \in Seq(Copying)
      BY <3>2, <1>queue, CopiesAre
    <3> QED
      BY <3>1, <3>3, <1>queue
  <2>8. pc' \in [Agents -> Labels]
    <3>1. \E l \in Labels : pc' = [pc EXCEPT ![w] = l]
      BY <1>10 DEF Swap, Go, Labels
    <3> QED
      BY <3>1, <1>pc
  <2>9. sync' = sync /\ base' = base /\ pulled' = pulled /\ offset' = offset /\ coming' = coming /\ notes' = notes /\ buf' = buf /\ got' = got /\ Sizes' = Sizes
    BY <1>10 DEF Swap, chain, fill, Go, Sizes
  <2> QED
    BY <2>1, <2>2, <2>3, <2>4, <2>5, <2>6, <2>7, <2>8, <2>9, <1>sync, <1>base, <1>pulled, <1>offset, <1>coming, <1>notes, <1>buf, <1>got DEF Types
<1>11. ASSUME NEW w \in Rollouts, ReadNext(w) PROVE Types'
  <2>1. /\ w \in Agents /\ Head(mail[w]) \in Letters /\ Tail(mail[w]) \in Seq(Letters) /\ cur[w] \in {0, 1}
    <3>1. mail[w] \in Seq(Letters) /\ mail[w] # <<>> /\ w \in Agents
      BY <1>11, <1>mail, Shape DEF ReadNext, BeginRead
    <3> QED
      BY <3>1, <1>cur
  <2>2. coming' \in [Agents -> Messages]
    <3>1. coming' = [coming EXCEPT ![w] = Head(mail[w]).m]
      BY <1>11 DEF ReadNext, chain, fill, Go, BeginRead
    <3>2. w \in Agents => (Head(mail[w]).m) \in Messages
      BY <2>1 DEF Letters
    <3> QED
      BY <3>1, <3>2, <1>coming
  <2>3. read' \in [Agents -> Reads]
    <3>1. read' = [read EXCEPT ![w] = [state |-> "reading", b |-> 1 - cur[w], from |-> Head(mail[w]).b, key |-> Head(mail[w]).key]]
      BY <1>11 DEF ReadNext, chain, fill, Go, BeginRead
    <3>2. w \in Agents => ([state |-> "reading", b |-> 1 - cur[w], from |-> Head(mail[w]).b, key |-> Head(mail[w]).key]) \in Reads
      BY <2>1 DEF Letters, Reads
    <3> QED
      BY <3>1, <3>2, <1>read
  <2>4. mail' \in [Agents -> Seq(Letters)]
    <3>1. mail' = [mail EXCEPT ![w] = Tail(mail[w])]
      BY <1>11 DEF ReadNext, chain, fill, Go, BeginRead
    <3>2. w \in Agents => (Tail(mail[w])) \in Seq(Letters)
      BY <2>1
    <3> QED
      BY <3>1, <3>2, <1>mail
  <2>5. buf' \in [Agents -> [{0, 1} -> SUBSET (Int \X Int)]]
    <3>1. buf' = [buf EXCEPT ![w] = [buf[w] EXCEPT ![1 - cur[w]] = Changing]]
      BY <1>11 DEF ReadNext, chain, fill, Go, BeginRead
    <3>2. w \in Agents => ([buf[w] EXCEPT ![1 - cur[w]] = Changing]) \in [{0, 1} -> SUBSET (Int \X Int)]
      BY <2>1, <1>buf DEF Changing
    <3> QED
      BY <3>1, <3>2, <1>buf
  <2>6. pc' \in [Agents -> Labels]
    <3>1. pc' = [pc EXCEPT ![w] = IF next[w] # None THEN "await" ELSE "swap"]
      BY <1>11 DEF ReadNext, chain, fill, Go, BeginRead
    <3>2. w \in Agents => (IF next[w] # None THEN "await" ELSE "swap") \in Labels
      BY DEF Labels
    <3> QED
      BY <3>1, <3>2, <1>pc
  <2>7. queue' \in [Agents -> Seq(Copying)]
    <3>1. queue' = [queue EXCEPT ![w] = queue[w] \o Copies(w, held[w], cur[w])]
      BY <1>11 DEF ReadNext, chain, fill, Go, BeginRead
    <3>2. w \in Agents => (queue[w] \o Copies(w, held[w], cur[w])) \in Seq(Copying)
      BY <1>queue, <1>held, <1>cur, CopiesAre
    <3> QED
      BY <3>1, <3>2, <1>queue
  <2>8. sync' = sync /\ base' = base /\ pulled' = pulled /\ offset' = offset /\ cur' = cur /\ held' = held /\ key' = key /\ fresh' = fresh /\ notes' = notes /\ got' = got /\ Sizes' = Sizes
    BY <1>11 DEF ReadNext, chain, fill, Go, BeginRead, Sizes
  <2> QED
    BY <2>2, <2>3, <2>4, <2>5, <2>6, <2>7, <2>8, <1>sync, <1>base, <1>pulled, <1>offset, <1>cur, <1>held, <1>key, <1>fresh, <1>notes, <1>got DEF Types
<1>12. ASSUME NEW w \in Rollouts, Await(w) PROVE Types'
  <2>1. notes' \in [Agents -> Seq(Nat)]
    <3>1. notes' = [notes EXCEPT ![w] = Tail(notes[w])]
      BY <1>12 DEF Await, chain, fill, op, Go, Notified
    <3>2. w \in Agents => (Tail(notes[w])) \in Seq(Nat)
      <4>1. notes[w] \in Seq(Nat) /\ notes[w] # <<>>
        BY <1>12, <1>notes, Shape DEF Await, Notified
      <4> QED
        BY <4>1
    <3> QED
      BY <3>1, <3>2, <1>notes
  <2>2. pc' \in [Agents -> Labels]
    <3>1. pc' = [pc EXCEPT ![w] = IF Head(notes[w]) = key[w] THEN "swap" ELSE "refused"]
      BY <1>12 DEF Await, chain, fill, op, Go, Notified
    <3>2. w \in Agents => (IF Head(notes[w]) = key[w] THEN "swap" ELSE "refused") \in Labels
      BY DEF Labels
    <3> QED
      BY <3>1, <3>2, <1>pc
  <2>3. sync' = sync /\ base' = base /\ pulled' = pulled /\ offset' = offset /\ cur' = cur /\ held' = held /\ coming' = coming /\ key' = key /\ fresh' = fresh /\ mail' = mail /\ read' = read /\ queue' = queue /\ buf' = buf /\ got' = got /\ Sizes' = Sizes
    BY <1>12 DEF Await, chain, fill, op, Go, Notified, Sizes
  <2> QED
    BY <2>1, <2>2, <2>3, <1>sync, <1>base, <1>pulled, <1>offset, <1>cur, <1>held, <1>coming, <1>key, <1>fresh, <1>mail, <1>read, <1>queue, <1>buf, <1>got DEF Types
<1>13. ASSUME NEW w \in Rollouts, Ends(w) PROVE Types'
  <2>1. notes' \in [Agents -> Seq(Nat)]
    <3>1. notes' = [notes EXCEPT ![w] = Tail(notes[w])]
      BY <1>13 DEF Ends, chain, fill, op, Go, Notified
    <3>2. w \in Agents => (Tail(notes[w])) \in Seq(Nat)
      <4>1. notes[w] \in Seq(Nat) /\ notes[w] # <<>>
        BY <1>13, <1>notes, Shape DEF Ends, Notified
      <4> QED
        BY <4>1
    <3> QED
      BY <3>1, <3>2, <1>notes
  <2>2. pc' \in [Agents -> Labels]
    <3>1. pc' = [pc EXCEPT ![w] = IF Head(notes[w]) = key[w] THEN "done" ELSE "refused"]
      BY <1>13 DEF Ends, chain, fill, op, Go, Notified
    <3>2. w \in Agents => (IF Head(notes[w]) = key[w] THEN "done" ELSE "refused") \in Labels
      BY DEF Labels
    <3> QED
      BY <3>1, <3>2, <1>pc
  <2>3. sync' = sync /\ base' = base /\ pulled' = pulled /\ offset' = offset /\ cur' = cur /\ held' = held /\ coming' = coming /\ key' = key /\ fresh' = fresh /\ mail' = mail /\ read' = read /\ queue' = queue /\ buf' = buf /\ got' = got /\ Sizes' = Sizes
    BY <1>13 DEF Ends, chain, fill, op, Go, Notified, Sizes
  <2> QED
    BY <2>1, <2>2, <2>3, <1>sync, <1>base, <1>pulled, <1>offset, <1>cur, <1>held, <1>coming, <1>key, <1>fresh, <1>mail, <1>read, <1>queue, <1>buf, <1>got DEF Types
<1>14. ASSUME NEW w \in Rollouts, Loaded(w) PROVE Types'
  <2>1. pc' \in [Agents -> Labels]
    <3>1. pc' = [pc EXCEPT ![w] = "loaded"]
      BY <1>14 DEF Loaded, chain, fill, op, Go
    <3>2. w \in Agents => ("loaded") \in Labels
      BY DEF Labels
    <3> QED
      BY <3>1, <3>2, <1>pc
  <2>2. sync' = sync /\ base' = base /\ pulled' = pulled /\ offset' = offset /\ cur' = cur /\ held' = held /\ coming' = coming /\ key' = key /\ fresh' = fresh /\ mail' = mail /\ notes' = notes /\ read' = read /\ queue' = queue /\ buf' = buf /\ got' = got /\ Sizes' = Sizes
    BY <1>14 DEF Loaded, chain, fill, op, Go, Sizes
  <2> QED
    BY <2>1, <2>2, <1>sync, <1>base, <1>pulled, <1>offset, <1>cur, <1>held, <1>coming, <1>key, <1>fresh, <1>mail, <1>notes, <1>read, <1>queue, <1>buf, <1>got DEF Types
<1>15. ASSUME NEW w \in Rollouts, Transfer(w) PROVE Types'
  <2>1. buf' \in [Agents -> [{0, 1} -> SUBSET (Int \X Int)]]
    <3> DEFINE here == buf[prev[w]][read[w].from]
    <3>1. buf' = [buf EXCEPT ![w] = [buf[w] EXCEPT ![read[w].b] = here]]
      BY <1>15 DEF Transfer
    <3>2. prev[w] \in Agents /\ read[w].from \in {0, 1}
      BY <1>15, ReadsIt DEF Transfer
    <3>3. here \in SUBSET (Int \X Int)
      BY <3>2, <1>buf
    <3> HIDE DEF here
    <3> QED
      BY <3>1, <3>3, <1>buf
  <2>2. notes' \in [Agents -> Seq(Nat)]
    <3>1. notes' = [notes EXCEPT ![prev[w]] = Append(notes[prev[w]], read[w].key)]
      BY <1>15 DEF Transfer, chain, fill, op
    <3>2. prev[w] \in Agents => (Append(notes[prev[w]], read[w].key)) \in Seq(Nat)
      BY <1>15, <1>notes, ReadsIt DEF Transfer
    <3> QED
      BY <3>1, <3>2, <1>notes
  <2>3. read' \in [Agents -> Reads]
    <3>1. read' = [read EXCEPT ![w] = [read[w] EXCEPT !.state = "done"]]
      BY <1>15 DEF Transfer, chain, fill, op
    <3>2. w \in Agents => ([read[w] EXCEPT !.state = "done"]) \in Reads
      BY <1>15, ReadsIt DEF Reads, Transfer
    <3> QED
      BY <3>1, <3>2, <1>read
  <2>4. sync' = sync /\ base' = base /\ pulled' = pulled /\ offset' = offset /\ pc' = pc /\ cur' = cur /\ held' = held /\ coming' = coming /\ key' = key /\ fresh' = fresh /\ mail' = mail /\ queue' = queue /\ got' = got /\ Sizes' = Sizes
    BY <1>15 DEF Transfer, chain, fill, op, Sizes
  <2> QED
    BY <2>1, <2>2, <2>3, <2>4, <1>sync, <1>base, <1>pulled, <1>offset, <1>pc, <1>cur, <1>held, <1>coming, <1>key, <1>fresh, <1>mail, <1>queue, <1>got DEF Types
<1>16. ASSUME NEW w \in Rollouts, TransferError(w) PROVE Types'
  <2>1. pc' \in [Agents -> Labels]
    <3>1. pc' = [pc EXCEPT ![w] = "dead"]
      BY <1>16 DEF TransferError, fill, op, Go
    <3>2. w \in Agents => ("dead") \in Labels
      BY DEF Labels
    <3> QED
      BY <3>1, <3>2, <1>pc
  <2>2. read' \in [Agents -> Reads]
    <3>1. read' = [read EXCEPT ![w] = NoRead]
      BY <1>16 DEF TransferError, fill, op, Go
    <3>2. w \in Agents => (NoRead) \in Reads
      BY DEF Reads
    <3> QED
      BY <3>1, <3>2, <1>read
  <2>3. sync' = sync /\ base' = base /\ pulled' = pulled /\ offset' = offset /\ cur' = cur /\ held' = held /\ coming' = coming /\ key' = key /\ fresh' = fresh /\ mail' = mail /\ notes' = notes /\ queue' = queue /\ buf' = buf /\ got' = got /\ Sizes' = Sizes
    BY <1>16 DEF TransferError, fill, op, Go, Sizes
  <2> QED
    BY <2>1, <2>2, <2>3, <1>sync, <1>base, <1>pulled, <1>offset, <1>cur, <1>held, <1>coming, <1>key, <1>fresh, <1>mail, <1>notes, <1>queue, <1>buf, <1>got DEF Types
<1>17. CASE UNCHANGED vars
  BY <1>17 DEF Chained, Types, Sizes, vars, chain, fill, op
<1> QED
  BY <1>1, <1>2, <1>3, <1>4, <1>5, <1>6, <1>7, <1>8, <1>9, <1>10, <1>11, <1>12, <1>13, <1>14, <1>15, <1>16, <1>17 DEF Next, Step, Stop

\* Every step keeps each coroutine among its own labels.
LEMMA PlacedStep ==
  ASSUME Chained, [Next]_vars, Types'
  PROVE  Placed'
<1> USE Shape DEF Chained, Placed
<1>1. CASE NextSync
  BY <1>1 DEF NextSync, HasEnded
<1>2. CASE FillChunk
  <2>1. pc'[Sender] \in {"pull"}
    BY <1>2, TypedFns DEF FillChunk
  <2> QED
    BY <1>2, <2>1, SenderFrame DEF SenderStep, Same
<1>3. CASE Synchronize
  <2>1. pc'[Sender] \in {"announce", "await"}
    BY <1>3, TypedFns DEF Synchronize, Go
  <2> QED
    BY <1>3, <2>1, SenderFrame DEF SenderStep, Same
<1>4. CASE SenderAwaits
  <2>1. pc'[Sender] \in {"announce"}
    BY <1>4, TypedFns, SenderNoticed DEF SenderAwaits, Go, Notified
  <2> QED
    BY <1>4, <2>1, SenderFrame DEF SenderStep, Same
<1>5. CASE AnnounceBucket
  <2>1. pc'[Sender] \in {"drain", "pull"}
    BY <1>5, TypedFns DEF AnnounceBucket, Go
  <2> QED
    BY <1>5, <2>1, SenderFrame DEF SenderStep, Same
<1>6. CASE SenderEnds
  <2>1. pc'[Sender] \in {"done"}
    BY <1>6, TypedFns, SenderNoticed DEF SenderEnds, Go, Notified
  <2> QED
    BY <1>6, <2>1, SenderFrame DEF SenderStep, Same
<1>7. ASSUME NEW w \in Agents, Join(w) PROVE Placed'
  <2>1. /\ pc[w] = "init"
        /\ pc'[w] = IF Fits(w) THEN IF w = Sender THEN "pull" ELSE IF w \in Rollouts THEN "first" ELSE "done" ELSE "refused"
        /\ prev'[w] = (IF Fits(w) THEN PrevOf(w) ELSE prev[w]) /\ next'[w] = (IF Fits(w) THEN NextOf(w) ELSE next[w])
        /\ queue' = queue /\ prev' \in [Agents -> Int] /\ next' \in [Agents -> Int]
    <3>1. PrevOf(w) \in Int /\ NextOf(w) \in Int
      BY Topology
    <3>2. CASE Fits(w)
      <4>1. pc' = [pc EXCEPT ![w] = CASE w = Sender -> "pull" [] w \in Rollouts -> "first" [] OTHER -> "done"]
        BY <1>7, <3>2 DEF Join, Go
      <4>2. (CASE w = Sender -> "pull" [] w \in Rollouts -> "first" [] OTHER -> "done")
              = IF w = Sender THEN "pull" ELSE IF w \in Rollouts THEN "first" ELSE "done"
        BY Shape
      <4>3. /\ pc[w] = "init" /\ prev' = [prev EXCEPT ![w] = PrevOf(w)] /\ next' = [next EXCEPT ![w] = NextOf(w)]
            /\ queue' = queue
        BY <1>7, <3>2 DEF Join
      <4>4. pc'[w] = IF w = Sender THEN "pull" ELSE IF w \in Rollouts THEN "first" ELSE "done"
        BY <4>1, <4>2, TypedFns
      <4> QED
        BY <3>1, <3>2, <4>3, <4>4, TypedFns
    <3>3. CASE ~Fits(w)
      BY <1>7, <3>3, TypedFns DEF Join, Go
    <3> QED
      BY <3>2, <3>3
  <2>2. \A x \in Agents \ {w} : pc'[x] = pc[x]
    BY <1>7, OwnFrame DEF Same
  <2> QED
    BY <2>1, <2>2, Topology
<1>8. ASSUME NEW w \in Agents, Device(w) PROVE Placed'
  <2>1. pc' = pc /\ queue[w] # <<>>
    BY <1>8 DEF Device
  <2>2. \A x \in Agents \ {w} : queue'[x] = queue[x]
    BY <1>8, OwnFrame DEF Same
  <2> QED
    BY <2>1, <2>2
<1>9. ASSUME NEW w \in Rollouts, FirstRead(w) PROVE Placed'
  <2>1. pc'[w] = "swap"
    BY <1>9, TypedFns DEF FirstRead, Go, BeginRead
  <2>2. next[w] = Down(w)
    BY <1>9, NextOfWorker, ReadsIt DEF FirstRead
  <2>3. pc'[Sender] = pc[Sender] /\ queue'[Sender] = queue[Sender]
        /\ \A x \in Agents \ {w} : pc'[x] = pc[x] /\ queue'[x] = queue[x]
    BY <1>9, RolloutFrame DEF RolloutStep, Same
  <2> QED
    BY <2>1, <2>2, <2>3
<1>10. ASSUME NEW w \in Rollouts, Swap(w) PROVE Placed'
  <2>1. pc'[w] = IF coming[w].last THEN IF next[w] # None THEN "drain" ELSE "done" ELSE "read"
    <3>1. CASE coming[w].last
      <4>1. pc' = [pc EXCEPT ![w] = IF next[w] # None THEN "drain" ELSE "done"]
        BY <1>10, <3>1 DEF Swap, Go
      <4> QED
        BY <3>1, <4>1, TypedFns
    <3>2. CASE ~coming[w].last
      <4>1. pc' = [pc EXCEPT ![w] = "read"]
        BY <1>10, <3>2 DEF Swap, Go
      <4> QED
        BY <3>2, <4>1, TypedFns
    <3> QED
      BY <3>1, <3>2
  <2>2. next[w] = Down(w)
    BY <1>10, NextOfWorker, ReadsIt DEF Swap
  <2>3. pc'[Sender] = pc[Sender] /\ queue'[Sender] = queue[Sender]
        /\ \A x \in Agents \ {w} : pc'[x] = pc[x] /\ queue'[x] = queue[x]
    BY <1>10, RolloutFrame DEF RolloutStep, Same
  <2> QED
    BY <2>1, <2>2, <2>3
<1>11. ASSUME NEW w \in Rollouts, ReadNext(w) PROVE Placed'
  <2>1. pc'[w] = IF next[w] # None THEN "await" ELSE "swap"
    BY <1>11, TypedFns DEF ReadNext, Go, BeginRead
  <2>2. next[w] = Down(w)
    BY <1>11, NextOfWorker, ReadsIt DEF ReadNext
  <2>3. pc'[Sender] = pc[Sender] /\ queue'[Sender] = queue[Sender]
        /\ \A x \in Agents \ {w} : pc'[x] = pc[x] /\ queue'[x] = queue[x]
    BY <1>11, RolloutFrame DEF RolloutStep, Same
  <2> QED
    BY <2>1, <2>2, <2>3
<1>12. ASSUME NEW w \in Rollouts, Await(w) PROVE Placed'
  <2>1. pc'[w] = "swap"
    BY <1>12, TypedFns, WorkerNoticed DEF Await, Go, Notified
  <2>2. next[w] = Down(w)
    BY <1>12, NextOfWorker, ReadsIt DEF Await
  <2>3. pc'[Sender] = pc[Sender] /\ queue'[Sender] = queue[Sender]
        /\ \A x \in Agents \ {w} : pc'[x] = pc[x] /\ queue'[x] = queue[x]
    BY <1>12, RolloutFrame DEF RolloutStep, Same
  <2> QED
    BY <2>1, <2>2, <2>3
<1>13. ASSUME NEW w \in Rollouts, Ends(w) PROVE Placed'
  <2>1. pc'[w] = "done"
    BY <1>13, TypedFns, WorkerNoticed DEF Ends, Go, Notified
  <2>2. next[w] = Down(w)
    BY <1>13, NextOfWorker, ReadsIt DEF Ends
  <2>3. pc'[Sender] = pc[Sender] /\ queue'[Sender] = queue[Sender]
        /\ \A x \in Agents \ {w} : pc'[x] = pc[x] /\ queue'[x] = queue[x]
    BY <1>13, RolloutFrame DEF RolloutStep, Same
  <2> QED
    BY <2>1, <2>2, <2>3
<1>14. ASSUME NEW w \in Rollouts, Loaded(w) PROVE Placed'
  <2>1. pc'[w] = "loaded"
    BY <1>14, TypedFns DEF Loaded, Go
  <2>2. next[w] = Down(w)
    BY <1>14, NextOfWorker, ReadsIt DEF Loaded
  <2>3. pc'[Sender] = pc[Sender] /\ queue'[Sender] = queue[Sender]
        /\ \A x \in Agents \ {w} : pc'[x] = pc[x] /\ queue'[x] = queue[x]
    BY <1>14, RolloutFrame DEF RolloutStep, Same
  <2> QED
    BY <2>1, <2>2, <2>3
<1>15. ASSUME NEW w \in Rollouts, Transfer(w) PROVE Placed'
  <2>1. pc'[w] = pc[w]
    BY <1>15, TypedFns DEF Transfer
  <2>2. next[w] = Down(w)
    BY <1>15, NextOfWorker, ReadsIt DEF Transfer
  <2>3. pc'[Sender] = pc[Sender] /\ queue'[Sender] = queue[Sender]
        /\ \A x \in Agents \ {w} : pc'[x] = pc[x] /\ queue'[x] = queue[x]
    BY <1>15, RolloutFrame DEF RolloutStep, Same
  <2> QED
    BY <2>1, <2>2, <2>3
<1>16. ASSUME NEW w \in Rollouts, TransferError(w) PROVE Placed'
  <2>1. pc'[w] = "dead"
    BY <1>16, TypedFns DEF TransferError, Go
  <2>2. next[w] = Down(w)
    BY <1>16, NextOfWorker, ReadsIt DEF TransferError
  <2>3. pc'[Sender] = pc[Sender] /\ queue'[Sender] = queue[Sender]
        /\ \A x \in Agents \ {w} : pc'[x] = pc[x] /\ queue'[x] = queue[x]
    BY <1>16, RolloutFrame DEF RolloutStep, Same
  <2> QED
    BY <2>1, <2>2, <2>3
<1>17. CASE UNCHANGED vars
  BY <1>17 DEF vars, chain, fill, op
<1> QED
  BY <1>1, <1>2, <1>3, <1>4, <1>5, <1>6, <1>7, <1>8, <1>9, <1>10, <1>11, <1>12, <1>13, <1>14, <1>15, <1>16, <1>17 DEF Next, Step, Stop

\* Every step keeps the neighbours of those that have joined.
LEMMA JoinedStep ==
  ASSUME Chained, [Next]_vars, Types'
  PROVE  Joined'
<1> USE Shape DEF Chained, Joined
<1>1. CASE NextSync
  <2>1. /\ pc' = [x \in Agents |-> "init"] /\ prev' = [x \in Agents |-> None] /\ next' = [x \in Agents |-> None]
    BY <1>1 DEF NextSync
  <2>2. None \in Int
    BY DEF None
  <2> QED
    BY <2>1, <2>2
<1>2. CASE FillChunk
  <2>1. pc[Sender] # "init"
    BY <1>2 DEF FillChunk
  <2> QED
    BY <1>2, <2>1, SenderFrame DEF SenderStep, Same
<1>3. CASE Synchronize
  <2>1. pc[Sender] # "init"
    BY <1>3 DEF Synchronize
  <2> QED
    BY <1>3, <2>1, SenderFrame DEF SenderStep, Same
<1>4. CASE SenderAwaits
  <2>1. pc[Sender] # "init"
    BY <1>4 DEF SenderAwaits
  <2> QED
    BY <1>4, <2>1, SenderFrame DEF SenderStep, Same
<1>5. CASE AnnounceBucket
  <2>1. pc[Sender] # "init"
    BY <1>5 DEF AnnounceBucket
  <2> QED
    BY <1>5, <2>1, SenderFrame DEF SenderStep, Same
<1>6. CASE SenderEnds
  <2>1. pc[Sender] # "init"
    BY <1>6 DEF SenderEnds
  <2> QED
    BY <1>6, <2>1, SenderFrame DEF SenderStep, Same
<1>7. ASSUME NEW w \in Agents, Join(w) PROVE Joined'
  <2>1. /\ pc[w] = "init"
        /\ pc'[w] = IF Fits(w) THEN IF w = Sender THEN "pull" ELSE IF w \in Rollouts THEN "first" ELSE "done" ELSE "refused"
        /\ prev'[w] = (IF Fits(w) THEN PrevOf(w) ELSE prev[w]) /\ next'[w] = (IF Fits(w) THEN NextOf(w) ELSE next[w])
        /\ queue' = queue /\ prev' \in [Agents -> Int] /\ next' \in [Agents -> Int]
    <3>1. PrevOf(w) \in Int /\ NextOf(w) \in Int
      BY Topology
    <3>2. CASE Fits(w)
      <4>1. pc' = [pc EXCEPT ![w] = CASE w = Sender -> "pull" [] w \in Rollouts -> "first" [] OTHER -> "done"]
        BY <1>7, <3>2 DEF Join, Go
      <4>2. (CASE w = Sender -> "pull" [] w \in Rollouts -> "first" [] OTHER -> "done")
              = IF w = Sender THEN "pull" ELSE IF w \in Rollouts THEN "first" ELSE "done"
        BY Shape
      <4>3. /\ pc[w] = "init" /\ prev' = [prev EXCEPT ![w] = PrevOf(w)] /\ next' = [next EXCEPT ![w] = NextOf(w)]
            /\ queue' = queue
        BY <1>7, <3>2 DEF Join
      <4>4. pc'[w] = IF w = Sender THEN "pull" ELSE IF w \in Rollouts THEN "first" ELSE "done"
        BY <4>1, <4>2, TypedFns
      <4> QED
        BY <3>1, <3>2, <4>3, <4>4, TypedFns
    <3>3. CASE ~Fits(w)
      BY <1>7, <3>3, TypedFns DEF Join, Go
    <3> QED
      BY <3>2, <3>3
  <2>2. \A x \in Agents \ {w} : pc'[x] = pc[x] /\ prev'[x] = prev[x] /\ next'[x] = next[x]
    BY <1>7, OwnFrame DEF Same
  <2> QED
    BY <2>1, <2>2, Topology
<1>8. ASSUME NEW w \in Agents, Device(w) PROVE Joined'
  BY <1>8 DEF Device, chain
<1>9. ASSUME NEW w \in Rollouts, FirstRead(w) PROVE Joined'
  <2>1. pc[w] \notin {"init", "refused"}
    BY <1>9, ReadsIt DEF FirstRead
  <2> QED
    BY <1>9, <2>1, RolloutFrame DEF RolloutStep, Same
<1>10. ASSUME NEW w \in Rollouts, Swap(w) PROVE Joined'
  <2>1. pc[w] \notin {"init", "refused"}
    BY <1>10, ReadsIt DEF Swap
  <2> QED
    BY <1>10, <2>1, RolloutFrame DEF RolloutStep, Same
<1>11. ASSUME NEW w \in Rollouts, ReadNext(w) PROVE Joined'
  <2>1. pc[w] \notin {"init", "refused"}
    BY <1>11, ReadsIt DEF ReadNext
  <2> QED
    BY <1>11, <2>1, RolloutFrame DEF RolloutStep, Same
<1>12. ASSUME NEW w \in Rollouts, Await(w) PROVE Joined'
  <2>1. pc[w] \notin {"init", "refused"}
    BY <1>12, ReadsIt DEF Await
  <2> QED
    BY <1>12, <2>1, RolloutFrame DEF RolloutStep, Same
<1>13. ASSUME NEW w \in Rollouts, Ends(w) PROVE Joined'
  <2>1. pc[w] \notin {"init", "refused"}
    BY <1>13, ReadsIt DEF Ends
  <2> QED
    BY <1>13, <2>1, RolloutFrame DEF RolloutStep, Same
<1>14. ASSUME NEW w \in Rollouts, Loaded(w) PROVE Joined'
  <2>1. pc[w] \notin {"init", "refused"}
    BY <1>14, ReadsIt DEF Loaded
  <2> QED
    BY <1>14, <2>1, RolloutFrame DEF RolloutStep, Same
<1>15. ASSUME NEW w \in Rollouts, Transfer(w) PROVE Joined'
  <2>1. pc[w] \notin {"init", "refused"}
    BY <1>15, ReadsIt DEF Transfer
  <2> QED
    BY <1>15, <2>1, RolloutFrame DEF RolloutStep, Same
<1>16. ASSUME NEW w \in Rollouts, TransferError(w) PROVE Joined'
  <2>1. pc[w] \notin {"init", "refused"}
    BY <1>16, ReadsIt DEF TransferError
  <2> QED
    BY <1>16, <2>1, RolloutFrame DEF RolloutStep, Same
<1>17. CASE UNCHANGED vars
  BY <1>17 DEF vars, chain, fill, op
<1> QED
  BY <1>1, <1>2, <1>3, <1>4, <1>5, <1>6, <1>7, <1>8, <1>9, <1>10, <1>11, <1>12, <1>13, <1>14, <1>15, <1>16, <1>17 DEF Next, Step, Stop


\* A step of another agent keeps the sender's bucket.
LEMMA BucketSame ==
  ASSUME Bucket, base' = base, pulled' = pulled, offset' = offset, Sizes' = Sizes, Same(Sender)
  PROVE  Bucket'
BY DEF Bucket, Same, Numbered

\* What Bucket says of the sender's variables, by name.
LEMMA BucketFacts ==
  ASSUME Chained
  PROVE  /\ held[Sender] \in Messages /\ held[Sender].chunks \in Seq(Nat \X Nat) /\ queue[Sender] \in Seq(Copying)
         /\ base \in Nat /\ pulled \in Nat /\ offset \in Nat /\ cur[Sender] \in {0, 1}
         /\ buf[Sender] \in [{0, 1} -> SUBSET (Int \X Int)] /\ pc[Sender] \in Labels
         /\ Sizes \in Seq(Nat \ {0})
<1>1. Sizes \in Seq(Nat \ {0}) /\ held[Sender] \in Messages
  BY Shape, SizesAre DEF Chained, Types, Sizes
<1>2. held[Sender].chunks \in Seq(Nat \X Nat)
  BY <1>1 DEF Messages
<1>3. pulled \in Nat /\ base \in Nat /\ offset \in Nat
  BY <1>1 DEF Chained, Types
<1> QED
  BY <1>1, <1>2, <1>3, TypedFns, Shape

\* What appending does.
LEMMA AppendIs ==
  ASSUME NEW S, NEW s \in Seq(S), NEW c \in S
  PROVE  /\ Append(s, c) \in Seq(S) /\ Len(s) \in Nat /\ Len(Append(s, c)) = Len(s) + 1
         /\ DOMAIN s = 1..Len(s) /\ DOMAIN Append(s, c) = 1..Len(s) + 1
         /\ Append(s, c)[Len(s) + 1] = c /\ Append(s, c) # <<>>
         /\ \A j \in 1..Len(s) : Append(s, c)[j] = s[j] /\ s[j] \in S
         /\ \A j \in 1..Len(s) + 1 : j \in 1..Len(s) \/ j = Len(s) + 1
OBVIOUS

\* What taking the head off does.
LEMMA TailIs ==
  ASSUME NEW S, NEW s \in Seq(S), s # <<>>
  PROVE  /\ Len(s) \in Nat /\ Len(s) >= 1 /\ Head(s) = s[1] /\ Head(s) \in S /\ DOMAIN s = 1..Len(s)
         /\ Tail(s) \in Seq(S) /\ Len(Tail(s)) = Len(s) - 1 /\ DOMAIN Tail(s) = 1..Len(s) - 1
         /\ \A i \in 1..Len(s) - 1 : Tail(s)[i] = s[i + 1]
OBVIOUS

\* What joining two sequences does.
LEMMA ConcatIs ==
  ASSUME NEW S, NEW s \in Seq(S), NEW t \in Seq(S)
  PROVE  /\ s \o t \in Seq(S) /\ Len(s) \in Nat /\ Len(t) \in Nat /\ Len(s \o t) = Len(s) + Len(t)
         /\ DOMAIN s = 1..Len(s) /\ DOMAIN t = 1..Len(t) /\ DOMAIN (s \o t) = 1..Len(s) + Len(t)
         /\ \A i \in 1..Len(s) : (s \o t)[i] = s[i]
         /\ \A i \in 1..Len(t) : (s \o t)[Len(s) + i] = t[i]
OBVIOUS

\* A chunk that is filled in after the others keeps the bucket.
LEMMA OneMore ==
  ASSUME NEW s \in Seq(Nat \X Nat), NEW q \in Seq(Copying), NEW c \in Nat \X Nat, NEW f \in Copying,
         NEW end \in Nat, NEW d \in Nat \ {0}, NEW n \in Int, NEW b, NEW cells,
         c[1] = end, c[2] = n + Len(s), f.do = "fill", f.b = b, f.chunk = c,
         Numbered(s, n), Ordered(s, end), Waiting(q, s, b), Stored(s, Len(s) - Len(q), cells)
  PROVE  /\ Numbered(Append(s, c), n) /\ Ordered(Append(s, c), end + d)
         /\ Waiting(Append(q, f), Append(s, c), b)
         /\ Stored(Append(s, c), Len(Append(s, c)) - Len(Append(q, f)), cells)
<1> DEFINE t == Append(s, c)   r == Append(q, f)
<1>1. /\ Len(t) = Len(s) + 1 /\ DOMAIN t = 1..Len(s) + 1 /\ t[Len(s) + 1] = c /\ Len(s) \in Nat
      /\ DOMAIN s = 1..Len(s)
      /\ \A j \in 1..Len(s) : t[j] = s[j] /\ s[j] \in Nat \X Nat
  BY ONLY AppendIs, s \in Seq(Nat \X Nat), c \in Nat \X Nat
<1>2. /\ Len(r) = Len(q) + 1 /\ DOMAIN r = 1..Len(q) + 1 /\ r[Len(q) + 1] = f /\ Len(q) \in Nat
      /\ DOMAIN q = 1..Len(q) /\ \A j \in 1..Len(q) : r[j] = q[j]
  BY ONLY AppendIs, q \in Seq(Copying), f \in Copying
<1> HIDE DEF t, r
<1>0. \A m \in Nat : \A j \in 1..m + 1 : j \in 1..m \/ j = m + 1
  BY ONLY TRUE
<1>3. Numbered(t, n)
  <2>1. \A j \in 1..Len(s) : s[j][2] = n + j - 1
    BY <1>1 DEF Numbered
  <2>2. ASSUME NEW j \in 1..Len(s) + 1 PROVE t[j][2] = n + j - 1
    <3>1. CASE j \in 1..Len(s)
      BY <1>1, <2>1, <3>1
    <3>2. CASE j = Len(s) + 1
      BY <1>1, <3>2
    <3> QED
      BY <1>0, <3>1, <3>2
  <2> QED
    BY <1>1, <2>2 DEF Numbered
<1>4. Ordered(t, end + d)
  <2>1. \A j \in 1..Len(s) : s[j][1] < end
    BY <1>1 DEF Ordered
  <2>4. \A i, j \in 1..Len(s) : i < j => s[i][1] < s[j][1]
    BY <1>1 DEF Ordered
  <2>2. ASSUME NEW j \in 1..Len(s) + 1 PROVE t[j][1] < end + d
    <3>1. CASE j \in 1..Len(s)
      <4>1. t[j][1] = s[j][1] /\ s[j][1] \in Nat /\ s[j][1] < end
        <5>1. t[j] = s[j] /\ s[j] \in Nat \X Nat /\ s[j][1] < end
          BY <1>1, <2>1, <3>1
        <5> QED
          BY <5>1
      <4>2. \A a \in Nat : a < end => a < end + d
        BY ONLY end \in Nat, d \in Nat \ {0}
      <4> QED
        BY <4>1, <4>2
    <3>2. CASE j = Len(s) + 1
      <4>1. t[j][1] = end
        BY <1>1, <3>2
      <4>2. end < end + d
        OBVIOUS
      <4> QED
        BY <4>1, <4>2
    <3> QED
      BY <1>0, <3>1, <3>2
  <2>3. ASSUME NEW i \in 1..Len(s) + 1, NEW j \in 1..Len(s) + 1, i < j PROVE t[i][1] < t[j][1]
    <3>0. i \in 1..Len(s)
      BY ONLY <1>1, <2>3, i \in 1..Len(s) + 1, j \in 1..Len(s) + 1
    <3>1. i \in 1..Len(s) /\ t[i] = s[i] /\ s[i][1] < end
      BY <1>1, <2>1, <3>0
    <3>2. CASE j \in 1..Len(s)
      BY <1>1, <2>3, <2>4, <3>1, <3>2
    <3>3. CASE j = Len(s) + 1
      <4>1. t[j][1] = end
        BY <1>1, <3>3
      <4> QED
        BY <3>1, <4>1
    <3> QED
      BY <1>0, <1>1, <3>2, <3>3
  <2> QED
    BY <1>1, <2>2, <2>3 DEF Ordered
<1>5. Len(q) <= Len(s) /\ \A i \in 1..Len(q) : q[i].do = "fill" /\ q[i].b = b /\ q[i].chunk = s[Len(s) - Len(q) + i]
  BY <1>2 DEF Waiting
<1> DEFINE m == Len(s) - Len(q)
<1>6. /\ m \in Nat /\ Len(s) = m + Len(q) /\ Len(t) - Len(r) = m /\ Len(r) <= Len(t)
  BY ONLY <1>1, <1>2, <1>5
<1> HIDE DEF m
<1>7. ASSUME NEW i \in 1..Len(q) + 1
      PROVE  r[i].do = "fill" /\ r[i].b = b /\ r[i].chunk = t[m + i]
  <2>1. CASE i \in 1..Len(q)
    <3>1. m + i \in 1..Len(s) /\ r[i] = q[i]
      BY <1>1, <1>2, <1>6, <2>1
    <3>2. q[i].do = "fill" /\ q[i].b = b /\ q[i].chunk = s[m + i]
      BY <1>5, <2>1 DEF m
    <3> QED
      BY <1>1, <3>1, <3>2
  <2>2. CASE i = Len(q) + 1
    <3>1. m + i = Len(s) + 1
      BY ONLY <1>2, <1>6, <2>2
    <3>2. r[i] = f /\ t[m + i] = c
      BY <1>1, <1>2, <2>2, <3>1
    <3> QED
      BY <3>2
  <2> QED
    BY <1>0, <1>2, <2>1, <2>2
<1>8. Waiting(r, t, b)
  <2>1. \A i \in DOMAIN r : r[i].do = "fill" /\ r[i].b = b /\ r[i].chunk = t[Len(t) - Len(r) + i]
    BY <1>2, <1>6, <1>7
  <2> QED
    BY <1>6, <2>1 DEF Waiting
<1>9. Stored(t, Len(t) - Len(r), cells)
  <2>1. \A j \in 1..m : s[j] \in cells
    BY DEF Stored, m
  <2>2. \A j \in 1..m : j \in 1..Len(s)
    BY ONLY <1>2, <1>6
  <2>3. \A j \in 1..m : t[j] \in cells
    BY <1>1, <2>1, <2>2
  <2> QED
    BY <1>6, <2>3 DEF Stored
<1> QED
  BY <1>3, <1>4, <1>8, <1>9 DEF t, r

\* A fill that has been done keeps the bucket.
LEMMA OneDone ==
  ASSUME NEW s \in Seq(Nat \X Nat), NEW q \in Seq(Copying), q # <<>>, NEW end \in Nat, NEW b, NEW cells,
         Ordered(s, end), Waiting(q, s, b), Stored(s, Len(s) - Len(q), cells)
  PROVE  /\ Head(q).do = "fill" /\ Head(q).b = b
         /\ Waiting(Tail(q), s, b)
         /\ Stored(s, Len(s) - Len(Tail(q)), {c \in cells : c[1] < Head(q).chunk[1]} \cup {Head(q).chunk})
<1>1. /\ Len(q) \in Nat /\ Len(q) >= 1 /\ Head(q) = q[1] /\ DOMAIN q = 1..Len(q)
      /\ Len(Tail(q)) = Len(q) - 1 /\ \A i \in 1..Len(q) - 1 : Tail(q)[i] = q[i + 1]
      /\ DOMAIN Tail(q) = 1..Len(q) - 1
  OBVIOUS
<1>2. Len(s) \in Nat /\ DOMAIN s = 1..Len(s)
  OBVIOUS
<1>3. Len(q) <= Len(s) /\ \A i \in 1..Len(q) : q[i].do = "fill" /\ q[i].b = b /\ q[i].chunk = s[Len(s) - Len(q) + i]
  BY <1>1 DEF Waiting
<1> DEFINE n == Len(s) - Len(q)
<1>4. n \in Nat /\ Len(s) - Len(Tail(q)) = n + 1 /\ n + 1 \in 1..Len(s)
  BY <1>1, <1>2, <1>3
<1>5. q[1].do = "fill" /\ q[1].b = b /\ q[1].chunk = s[n + 1]
  BY <1>1, <1>3
<1>6. ASSUME NEW i \in 1..Len(q) - 1
      PROVE  Tail(q)[i].do = "fill" /\ Tail(q)[i].b = b /\ Tail(q)[i].chunk = s[Len(s) - Len(Tail(q)) + i]
  <2>1. i + 1 \in 1..Len(q) /\ Len(s) - Len(Tail(q)) + i = Len(s) - Len(q) + (i + 1)
    BY <1>1, <1>2
  <2> QED
    BY <1>1, <1>3, <2>1
<1>7. Waiting(Tail(q), s, b)
  <2>1. Len(Tail(q)) <= Len(s)
    BY <1>1, <1>2, <1>3
  <2> QED
    BY <1>1, <1>6, <2>1 DEF Waiting
<1> HIDE DEF n
<1>8. \A j \in 1..n : s[j] \in cells /\ s[j][1] < s[n + 1][1]
  <2>1. \A j \in 1..n : s[j] \in cells
    BY DEF Stored, n
  <2>2. \A i, j \in 1..Len(s) : i < j => s[i][1] < s[j][1]
    BY <1>2 DEF Ordered
  <2>3. \A j \in 1..n : j \in 1..Len(s) /\ j < n + 1
    BY <1>2, <1>4
  <2> QED
    BY <1>4, <2>1, <2>2, <2>3
<1>9. Stored(s, n + 1, {c \in cells : c[1] < s[n + 1][1]} \cup {s[n + 1]})
  <2>1. \A j \in 1..n + 1 : j \in 1..n \/ j = n + 1
    BY <1>4
  <2> QED
    BY <1>8, <2>1 DEF Stored
<1> QED
  BY <1>1, <1>4, <1>5, <1>7, <1>9 DEF n


\* Every step keeps the sender's bucket.
LEMMA BucketStep ==
  ASSUME Chained, [Next]_vars, Types'
  PROVE  Bucket'
<1> USE Shape DEF Same
<1>1. CASE NextSync
  <2>1. /\ held'[Sender] = Nothing /\ queue'[Sender] = queue[Sender] /\ pc'[Sender] = "init" /\ pc[Sender] = "done"
        /\ pulled' = 0 /\ key'[Sender] = 0
    BY <1>1, Shape DEF NextSync, HasEnded
  <2>2. queue[Sender] = <<>>
    BY <2>1 DEF Chained, Bucket
  <2> QED
    BY <2>1, <2>2, NothingIs DEF Bucket, Numbered, Ordered, Waiting, Stored
<1>2. CASE FillChunk
  <2> DEFINE chunks == held[Sender].chunks   chunk == <<offset, base + pulled>>
             letter == [do |-> "fill", b |-> cur[Sender], chunk |-> chunk]
  <2>1. /\ pc[Sender] = "pull" /\ pc' = pc /\ pulled < Len(Sizes) /\ pulled' = pulled + 1 /\ base' = base
        /\ offset' = offset + Sizes[pulled + 1] /\ cur' = cur /\ buf' = buf /\ sync' = sync
    BY <1>2 DEF FillChunk, op, chain
  <2>2. Sizes' = Sizes /\ Sizes[pulled + 1] \in Nat \ {0}
    BY <2>1, BucketFacts DEF Sizes
  <2>3. Id(pulled + 1) = base + pulled
    BY BucketFacts DEF Id
  <2>4. held' = [held EXCEPT ![Sender].chunks = Append(chunks, chunk)]
    BY <1>2, <2>3 DEF FillChunk
  <2>5. queue' = [queue EXCEPT ![Sender] = Append(queue[Sender], letter)]
    BY <1>2, <2>3 DEF FillChunk
  <2>6. chunk \in Nat \X Nat /\ letter \in Copying /\ chunk[1] = offset /\ chunk[2] = base + pulled
        /\ letter.do = "fill" /\ letter.b = cur[Sender] /\ letter.chunk = chunk
    BY BucketFacts DEF Copying
  <2> HIDE DEF chunk, letter
  <2>7. held'[Sender].chunks = Append(chunks, chunk) /\ held'[Sender].last = held[Sender].last
    BY <2>4, TypedFns, Shape DEF Messages
  <2>8. queue'[Sender] = Append(queue[Sender], letter)
    BY <2>5, TypedFns, Shape
  <2>0. ~held[Sender].last
    <3>1. held[Sender].last => pulled = Len(Sizes)
      BY DEF Chained, Bucket
    <3>2. pulled # Len(Sizes)
      BY <2>1, BucketFacts
    <3> QED
      BY <3>1, <3>2
  <2>9. /\ Numbered(chunks, base + pulled - Len(chunks)) /\ Ordered(chunks, offset)
        /\ Waiting(queue[Sender], chunks, cur[Sender])
        /\ Stored(chunks, Len(chunks) - Len(queue[Sender]), buf[Sender][cur[Sender]])
    BY <2>1 DEF Chained, Bucket
  <2> HIDE DEF chunks
  <2>10. chunks \in Seq(Nat \X Nat) /\ queue[Sender] \in Seq(Copying) /\ Len(chunks) \in Nat
    BY BucketFacts DEF chunks
  <2>11. base + pulled = base + pulled - Len(chunks) + Len(chunks)
         /\ base + (pulled + 1) - Len(Append(chunks, chunk)) = base + pulled - Len(chunks)
         /\ base + pulled - Len(chunks) \in Int
    <3>1. Len(Append(chunks, chunk)) = Len(chunks) + 1
      BY <2>6, <2>10
    <3> QED
      BY <2>10, <3>1, BucketFacts
  <2>12. /\ Numbered(Append(chunks, chunk), base + pulled - Len(chunks))
         /\ Ordered(Append(chunks, chunk), offset + Sizes[pulled + 1])
         /\ Waiting(Append(queue[Sender], letter), Append(chunks, chunk), cur[Sender])
         /\ Stored(Append(chunks, chunk), Len(Append(chunks, chunk)) - Len(Append(queue[Sender], letter)),
                   buf[Sender][cur[Sender]])
    BY <2>2, <2>6, <2>9, <2>10, <2>11, OneMore, BucketFacts
  <2> QED
    BY <2>0, <2>1, <2>2, <2>7, <2>8, <2>9, <2>11, <2>12 DEF Bucket
<1>3. CASE Synchronize
  <2>1. /\ pc[Sender] = "pull" /\ pulled' = pulled /\ base' = base /\ offset' = offset /\ cur' = cur /\ buf' = buf
        /\ queue' = queue /\ queue[Sender] = <<>> /\ Sizes' = Sizes
    BY <1>3 DEF Synchronize, fill, chain, Quiet, Sizes
  <2>2. pc'[Sender] \in {"announce", "await"}
    BY <1>3, TypedFns, Shape DEF Synchronize, Go
  <2>3. held'[Sender] = [held[Sender] EXCEPT !.last = (pulled = Len(Sizes))]
    BY <1>3, TypedFns, Shape DEF Synchronize
  <2>4. held'[Sender].chunks = held[Sender].chunks /\ (held'[Sender].last <=> pulled = Len(Sizes))
    BY <2>3, BucketFacts DEF Messages
  <2> QED
    BY <2>1, <2>2, <2>4 DEF Chained, Bucket, Numbered
<1>4. CASE SenderAwaits
  <2>1. /\ pc[Sender] = "await" /\ pulled' = pulled /\ base' = base /\ offset' = offset /\ cur' = cur /\ buf' = buf
        /\ queue' = queue /\ held' = held /\ Sizes' = Sizes
    BY <1>4 DEF SenderAwaits, fill, chain, Sizes
  <2>2. pc'[Sender] = "announce"
    BY <1>4, TypedFns, Shape, SenderNoticed DEF SenderAwaits, Notified, Go
  <2> QED
    BY <2>1, <2>2 DEF Chained, Bucket, Numbered
<1>5. CASE AnnounceBucket
  <2>1. /\ pc[Sender] = "announce" /\ pulled' = pulled /\ base' = base /\ buf' = buf
        /\ queue' = queue /\ Sizes' = Sizes
    BY <1>5 DEF AnnounceBucket, chain, Sizes
  <2>2. queue[Sender] = <<>> /\ (held[Sender].last => pulled = Len(Sizes))
    BY <2>1 DEF Chained, Bucket
  <2>3. CASE held[Sender].last
    <3>1. pc'[Sender] = "drain" /\ held'[Sender] = held[Sender] /\ offset' = offset /\ cur'[Sender] = cur[Sender]
      BY <1>5, <2>3, TypedFns, Shape DEF AnnounceBucket, Go
    <3> QED
      BY <2>1, <2>2, <2>3, <3>1 DEF Chained, Bucket
  <2>4. CASE ~held[Sender].last
    <3>1. pc'[Sender] = "pull" /\ held'[Sender] = Nothing
      BY <1>5, <2>4, TypedFns, Shape DEF AnnounceBucket, Go
    <3> QED
      BY <2>1, <2>2, <3>1, NothingIs DEF Bucket, Numbered, Ordered, Waiting, Stored
  <2> QED
    BY <2>3, <2>4
<1>6. CASE SenderEnds
  <2>1. /\ pc[Sender] = "drain" /\ pulled' = pulled /\ base' = base /\ offset' = offset /\ cur' = cur /\ buf' = buf
        /\ queue' = queue /\ held' = held /\ Sizes' = Sizes
    BY <1>6 DEF SenderEnds, fill, chain, Sizes
  <2>2. pc'[Sender] = "done"
    BY <1>6, TypedFns, Shape, SenderNoticed DEF SenderEnds, Notified, Go
  <2> QED
    BY <2>1, <2>2 DEF Chained, Bucket, Numbered
<1>7. ASSUME NEW w \in Agents, Join(w) PROVE Bucket'
  <2>1. CASE w = Sender
    <3>1. pc[Sender] = "init" /\ pc'[Sender] = "pull"
      BY <1>7, <2>1, Topology, TypedFns, Shape DEF Join, Go
    <3>2. /\ held' = held /\ queue' = queue /\ pulled' = pulled /\ base' = base /\ offset' = offset /\ buf' = buf
          /\ cur' = cur
      BY <1>7 DEF Join, fill, op
    <3>3. held[Sender].chunks = <<>> /\ queue[Sender] = <<>> /\ Numbered(held[Sender].chunks, base + pulled - Len(held[Sender].chunks))
          /\ (held[Sender].last => pulled = Len(Sizes))
      BY <3>1 DEF Chained, Bucket
    <3>4. Sizes' = Sizes
      BY <1>7 DEF Join, Sizes
    <3>5. Ordered(<<>>, offset) /\ Waiting(<<>>, <<>>, cur[Sender]) /\ Stored(<<>>, Len(<<>>) - Len(<<>>), buf[Sender][cur[Sender]])
      BY DEF Ordered, Waiting, Stored
    <3> QED
      BY <3>1, <3>2, <3>3, <3>4, <3>5 DEF Bucket, Numbered
  <2>2. CASE w # Sender
    BY <1>7, <2>2, BucketSame, OwnFrame, Shape DEF Chained
  <2> QED
    BY <2>1, <2>2
<1>8. ASSUME NEW w \in Agents, Device(w) PROVE Bucket'
  <2>1. CASE w # Sender
    BY <1>8, <2>1, BucketSame, OwnFrame, Shape DEF Chained
  <2>2. CASE w = Sender
    <3> DEFINE chunks == held[Sender].chunks   q == queue[Sender]   b == cur[Sender]
    <3>1. /\ q # <<>> /\ queue'[Sender] = Tail(q) /\ pc' = pc /\ pulled' = pulled /\ base' = base
          /\ offset' = offset /\ cur' = cur /\ held' = held /\ Sizes' = Sizes
      BY <1>8, <2>2, TypedFns, Shape DEF Device, fill, chain, Sizes
    <3>2. /\ chunks \in Seq(Nat \X Nat) /\ q \in Seq(Copying) /\ buf[Sender] \in [{0, 1} -> SUBSET (Int \X Int)]
          /\ b \in {0, 1} /\ offset \in Nat
      BY BucketFacts
    <3>3. pc[Sender] = "pull"
      BY <3>1 DEF Chained, Bucket
    <3>4. /\ Numbered(chunks, base + pulled - Len(chunks)) /\ Ordered(chunks, offset) /\ Waiting(q, chunks, b)
          /\ Stored(chunks, Len(chunks) - Len(q), buf[Sender][b])
          /\ held[Sender].last => pulled = Len(Sizes)
      BY <3>3 DEF Chained, Bucket
    <3> HIDE DEF chunks, q, b
    <3>5. /\ Head(q).do = "fill" /\ Head(q).b = b /\ Waiting(Tail(q), chunks, b)
          /\ Stored(chunks, Len(chunks) - Len(Tail(q)),
                    {c \in buf[Sender][b] : c[1] < Head(q).chunk[1]} \cup {Head(q).chunk})
      BY <3>1, <3>2, <3>4, OneDone
    <3>6. buf'[Sender][b] = {c \in buf[Sender][b] : c[1] < Head(q).chunk[1]} \cup {Head(q).chunk}
      <4>1. buf' = [buf EXCEPT ![Sender] = [buf[Sender] EXCEPT ![Head(q).b] =
                     {c \in buf[Sender][Head(q).b] : c[1] < Head(q).chunk[1]} \cup {Head(q).chunk}]]
        BY <1>8, <2>2, <3>5 DEF Device, q
      <4> QED
        BY <4>1, <3>5, <3>2, TypedFns, Shape
    <3> QED
      BY <3>1, <3>3, <3>4, <3>5, <3>6 DEF Bucket, chunks, q, b
  <2> QED
    BY <2>1, <2>2
<1>9. ASSUME NEW w \in Rollouts, FirstRead(w) PROVE Bucket'
  BY <1>9, BucketSame, RolloutFrame, Shape DEF Chained, RolloutStep
<1>10. ASSUME NEW w \in Rollouts, Swap(w) PROVE Bucket'
  BY <1>10, BucketSame, RolloutFrame, Shape DEF Chained, RolloutStep
<1>11. ASSUME NEW w \in Rollouts, ReadNext(w) PROVE Bucket'
  BY <1>11, BucketSame, RolloutFrame, Shape DEF Chained, RolloutStep
<1>12. ASSUME NEW w \in Rollouts, Await(w) PROVE Bucket'
  BY <1>12, BucketSame, RolloutFrame, Shape DEF Chained, RolloutStep
<1>13. ASSUME NEW w \in Rollouts, Ends(w) PROVE Bucket'
  BY <1>13, BucketSame, RolloutFrame, Shape DEF Chained, RolloutStep
<1>14. ASSUME NEW w \in Rollouts, Loaded(w) PROVE Bucket'
  BY <1>14, BucketSame, RolloutFrame, Shape DEF Chained, RolloutStep
<1>15. ASSUME NEW w \in Rollouts, Transfer(w) PROVE Bucket'
  BY <1>15, BucketSame, RolloutFrame, Shape DEF Chained, RolloutStep
<1>16. ASSUME NEW w \in Rollouts, TransferError(w) PROVE Bucket'
  BY <1>16, BucketSame, RolloutFrame, Shape DEF Chained, RolloutStep
<1>17. CASE UNCHANGED vars
  BY <1>17, BucketSame DEF Chained, Sizes, vars, chain, fill, op, Same
<1> QED
  BY <1>1, <1>2, <1>3, <1>4, <1>5, <1>6, <1>7, <1>8, <1>9, <1>10, <1>11, <1>12, <1>13, <1>14, <1>15, <1>16, <1>17 DEF Next, Step, Stop

-----------------------------------------------------------------------------
(* What the steps do to the agent that takes them.                           *)

\* A worker's variables, typed.
LEMMA OfWorker ==
  ASSUME Chained, NEW w \in Rollouts
  PROVE  /\ w \in Agents /\ pc[w] \in Labels /\ cur[w] \in {0, 1} /\ 1 - cur[w] \in {0, 1} /\ 1 - cur[w] # cur[w]
         /\ 1 - (1 - cur[w]) = cur[w]
         /\ held[w] \in Messages /\ coming[w] \in Messages /\ mail[w] \in Seq(Letters) /\ notes[w] \in Seq(Nat)
         /\ read[w] \in Reads /\ queue[w] \in Seq(Copying) /\ buf[w] \in [{0, 1} -> SUBSET (Int \X Int)]
         /\ got[w] \in Seq(Int)
         /\ held[w].chunks \in Seq(Nat \X Nat) /\ coming[w].chunks \in Seq(Nat \X Nat)
<1>1. /\ w \in Agents /\ pc[w] \in Labels /\ cur[w] \in {0, 1}
      /\ held[w] \in Messages /\ coming[w] \in Messages /\ mail[w] \in Seq(Letters) /\ notes[w] \in Seq(Nat)
      /\ read[w] \in Reads /\ queue[w] \in Seq(Copying) /\ buf[w] \in [{0, 1} -> SUBSET (Int \X Int)]
      /\ got[w] \in Seq(Int)
  BY TypedFns, Shape
<1>2. \A m \in Messages : m.chunks \in Seq(Nat \X Nat)
  BY DEF Messages
<1>3. \A c \in {0, 1} : 1 - c \in {0, 1} /\ 1 - c # c /\ 1 - (1 - c) = c
  OBVIOUS
<1> HIDE DEF Messages
<1> QED
  BY <1>1, <1>2, <1>3

\* A length is a number.
LEMMA LenIs ==
  ASSUME NEW S, NEW s \in Seq(S)
  PROVE  Len(s) \in Nat
OBVIOUS

\* The counts are numbers.
LEMMA GivenIs ==
  ASSUME Chained, NEW w \in Rollouts
  PROVE  Given(w) \in Nat /\ Taken(w) \in Nat
<1>1. /\ Len(got[w]) \in Nat /\ Len(queue[w]) \in Nat /\ Len(held[w].chunks) \in Nat
      /\ Len(coming[w].chunks) \in Nat
  <2>1. got[w] \in Seq(Int) /\ queue[w] \in Seq(Copying) /\ held[w].chunks \in Seq(Nat \X Nat)
        /\ coming[w].chunks \in Seq(Nat \X Nat)
    BY OfWorker
  <2> QED
    BY <2>1, LenIs
<1>2. \A a, b \in Nat : a + b \in Nat /\ a + 0 \in Nat
  OBVIOUS
<1>3. Given(w) \in Nat
  BY <1>1, <1>2 DEF Given
<1> QED
  BY <1>1, <1>2, <1>3 DEF Taken

\* A sequence of at most one element.
LEMMA AtMostOne ==
  ASSUME NEW S, NEW s \in Seq(S), s # <<>>, Len(s) <= 1
  PROVE  Len(s) = 1 /\ Head(s) = s[1] /\ s[1] \in S /\ Tail(s) = <<>>
<1>1. Len(s) = 1 /\ Head(s) = s[1] /\ s[1] \in S
  OBVIOUS
<1>2. Tail(s) \in Seq(S) /\ Len(Tail(s)) = 0
  BY <1>1
<1>3. \A t \in Seq(S) : Len(t) = 0 => t = <<>>
  OBVIOUS
<1> QED
  BY <1>1, <1>2, <1>3

\* A message box holds one letter.
LEMMA OneLetter ==
  ASSUME Chained, NEW w \in Rollouts, mail[w] # <<>>
  PROVE  /\ Head(mail[w]) = Letter(w) /\ Tail(mail[w]) = <<>> /\ Letter(w) \in Letters
         /\ Letter(w).m \in Messages /\ Letter(w).m.chunks \in Seq(Nat \X Nat)
<1>1. mail[w] \in Seq(Letters) /\ Len(mail[w]) <= 1
  BY OfWorker DEF Chained, Sent, SentOf
<1>2. Head(mail[w]) = mail[w][1] /\ mail[w][1] \in Letters /\ Tail(mail[w]) = <<>>
  BY <1>1, AtMostOne
<1> QED
  BY <1>2 DEF Letter, Letters, Messages

\* A read begins: the letter is taken, and the other buffer changes.
LEMMA BeginsRead ==
  ASSUME Chained, NEW w \in Rollouts, FirstRead(w) \/ ReadNext(w)
  PROVE  /\ mail[w] # <<>> /\ mail'[w] = <<>> /\ coming'[w] = Letter(w).m
         /\ read'[w] = [state |-> "reading", b |-> 1 - cur[w], from |-> Letter(w).b, key |-> Letter(w).key]
         /\ buf'[w] = [buf[w] EXCEPT ![1 - cur[w]] = Changing]
         /\ buf'[w][cur[w]] = buf[w][cur[w]]
         /\ cur' = cur /\ held' = held /\ got' = got /\ key' = key /\ fresh' = fresh /\ notes' = notes
         /\ base' = base /\ pulled' = pulled
<1>1. /\ mail[w] # <<>> /\ coming' = [coming EXCEPT ![w] = Head(mail[w]).m]
      /\ read' = [read EXCEPT ![w] = [state |-> "reading", b |-> 1 - cur[w], from |-> Head(mail[w]).b,
                                      key |-> Head(mail[w]).key]]
      /\ buf' = [buf EXCEPT ![w] = [buf[w] EXCEPT ![1 - cur[w]] = Changing]]
      /\ mail' = [mail EXCEPT ![w] = Tail(mail[w])]
      /\ cur' = cur /\ held' = held /\ got' = got /\ key' = key /\ fresh' = fresh /\ notes' = notes
      /\ base' = base /\ pulled' = pulled
  BY DEF FirstRead, ReadNext, BeginRead, fill
<1> QED
  BY <1>1, OneLetter, OfWorker, TypedFns

\* The first read of a sync.
LEMMA FirstReadDoes ==
  ASSUME Chained, NEW w \in Rollouts, FirstRead(w)
  PROVE  pc[w] = "first" /\ pc'[w] = "swap" /\ queue' = queue
BY TypedFns, Shape DEF FirstRead, BeginRead, Go

\* The later reads: the loader gets the chunks of the bucket before.
LEMMA ReadNextDoes ==
  ASSUME Chained, NEW w \in Rollouts, ReadNext(w)
  PROVE  /\ pc[w] = "read" /\ pc'[w] = IF Down(w) # None THEN "await" ELSE "swap"
         /\ queue[w] = <<>> /\ queue'[w] = Copies(w, held[w], cur[w])
<1>1. pc[w] = "read" /\ next[w] = Down(w)
  BY NextOfWorker DEF ReadNext
<1>2. queue[w] = <<>>
  BY <1>1 DEF Chained, Loader, LoaderOf
<1>3. queue' = [queue EXCEPT ![w] = queue[w] \o Copies(w, held[w], cur[w])]
  BY DEF ReadNext
<1>4. Copies(w, held[w], cur[w]) \in Seq(Copying)
  BY CopiesAre, OfWorker
<1>5. pc' = [pc EXCEPT ![w] = IF Down(w) # None THEN "await" ELSE "swap"]
  BY <1>1 DEF ReadNext, BeginRead, Go
<1>6. \A s \in Seq(Copying) : <<>> \o s = s
  OBVIOUS
<1> QED
  BY <1>1, <1>2, <1>3, <1>4, <1>5, <1>6, TypedFns, Shape

\* An announcement meets an empty box.
LEMMA BoxIsEmpty ==
  ASSUME Chained, NEW w \in Rollouts, NEW u, u = Up(w), pc[u] # "dead", ~Out(u)
  PROVE  mail[w] = <<>> /\ ~IsReading(w) /\ notes[u] = <<>>
BY DEF Chained, InOnePlace, PlaceOf

\* The buffers are swapped, and the bucket is announced to the next agent.
LEMMA SwapDoes ==
  ASSUME Chained, NEW w \in Rollouts, Swap(w)
  PROVE  /\ pc[w] = "swap" /\ read[w].state = "done" /\ queue[w] = <<>> /\ Given(w) = Len(got[w])
         /\ read'[w] = NoRead /\ cur'[w] = 1 - cur[w] /\ held'[w] = coming[w] /\ coming' = coming
         /\ queue'[w] = IF coming[w].last THEN Copies(w, coming[w], 1 - cur[w]) ELSE <<>>
         /\ pc'[w] = IF coming[w].last THEN IF Down(w) # None THEN "drain" ELSE "done" ELSE "read"
         /\ buf' = buf /\ got' = got /\ notes' = notes /\ base' = base /\ pulled' = pulled
         /\ mail'[w] = mail[w]
         /\ Down(w) # None =>
               /\ mail'[Down(w)] = <<[m |-> coming[w], b |-> 1 - cur[w], key |-> fresh]>> /\ key'[w] = fresh
               /\ notes[w] = <<>> /\ ~IsReading(Down(w)) /\ mail[Down(w)] = <<>>
<1>1. /\ pc[w] = "swap" /\ read[w].state = "done" /\ queue[w] = <<>>
      /\ cur' = [cur EXCEPT ![w] = 1 - cur[w]] /\ held' = [held EXCEPT ![w] = coming[w]]
      /\ read' = [read EXCEPT ![w] = NoRead] /\ coming' = coming
      /\ buf' = buf /\ got' = got /\ notes' = notes /\ base' = base /\ pulled' = pulled
  BY DEF Swap, Settled, Quiet, fill
<1>2. next[w] = Down(w)
  BY <1>1, NextOfWorker
<1>3. Given(w) = Len(got[w])
  BY <1>1, OfWorker DEF Given
<1>4. Copies(w, coming[w], 1 - cur[w]) \in Seq(Copying)
  BY CopiesAre, OfWorker
<1>5. queue'[w] = IF coming[w].last THEN Copies(w, coming[w], 1 - cur[w]) ELSE <<>>
  <2>1. CASE coming[w].last
    <3>1. queue' = [queue EXCEPT ![w] = queue[w] \o Copies(w, coming[w], 1 - cur[w])]
      BY <2>1 DEF Swap
    <3>2. \A s \in Seq(Copying) : <<>> \o s = s
      OBVIOUS
    <3> QED
      BY <1>1, <1>4, <2>1, <3>1, <3>2, TypedFns, Shape
  <2>2. CASE ~coming[w].last
    BY <1>1, <2>2 DEF Swap
  <2> QED
    BY <2>1, <2>2
<1>6. pc'[w] = IF coming[w].last THEN IF Down(w) # None THEN "drain" ELSE "done" ELSE "read"
  <2>1. CASE coming[w].last
    <3>1. pc' = [pc EXCEPT ![w] = IF Down(w) # None THEN "drain" ELSE "done"]
      BY <1>2, <2>1 DEF Swap, Go
    <3> QED
      BY <2>1, <3>1, TypedFns, Shape
  <2>2. CASE ~coming[w].last
    <3>1. pc' = [pc EXCEPT ![w] = "read"]
      BY <2>2 DEF Swap, Go
    <3> QED
      BY <2>2, <3>1, TypedFns, Shape
  <2> QED
    BY <2>1, <2>2
<1>7. ASSUME Down(w) # None
      PROVE  /\ mail'[Down(w)] = <<[m |-> coming[w], b |-> 1 - cur[w], key |-> fresh]>> /\ key'[w] = fresh
             /\ mail'[w] = mail[w] /\ notes[w] = <<>> /\ ~IsReading(Down(w)) /\ mail[Down(w)] = <<>>
  <2>1. Down(w) \in Rollouts /\ w = Up(Down(w)) /\ Down(w) # w /\ w # Sender /\ Down(w) \in Agents
    BY <1>7, Shape
  <2>2. notes[w] = <<>> /\ ~IsReading(Down(w)) /\ mail[Down(w)] = <<>>
    <3>1. ~Out(w)
      BY <1>1, <2>1 DEF Out
    <3> QED
      BY <1>1, <2>1, <3>1, BoxIsEmpty
  <2>3. /\ key' = [key EXCEPT ![w] = fresh]
        /\ mail' = [mail EXCEPT ![Down(w)] = Append(mail[Down(w)], [m |-> coming[w], b |-> 1 - cur[w], key |-> fresh])]
    BY <1>2, <1>7 DEF Swap, Forwards, Announce
  <2>4. \A e : Append(<<>>, e) = <<e>>
    OBVIOUS
  <2> QED
    BY <2>1, <2>2, <2>3, <2>4, TypedFns, Shape
<1>8. Down(w) = None => mail'[w] = mail[w]
  BY <1>2 DEF Swap, Forwards, NoAnnounce
<1> QED
  BY <1>1, <1>3, <1>5, <1>6, <1>7, <1>8, TypedFns, Shape

\* The waits for a notification.
LEMMA AwaitDoes ==
  ASSUME Chained, NEW w \in Rollouts, Await(w) \/ Ends(w)
  PROVE  /\ pc[w] \in {"await", "drain"} /\ pc'[w] = IF pc[w] = "await" THEN "swap" ELSE "done"
         /\ Down(w) \in Rollouts /\ notes[w] = <<key[w]>> /\ notes'[w] = <<>> /\ mail[Down(w)] = <<>>
         /\ ~IsReading(Down(w))
         /\ UNCHANGED <<cur, held, coming, read, queue, buf, got, key, fresh, mail, base, pulled>>
<1>1. /\ pc[w] \in {"await", "drain"} /\ notes[w] # <<>>
      /\ UNCHANGED <<cur, held, coming, read, queue, buf, got, key, fresh, mail, base, pulled>>
      /\ notes' = [notes EXCEPT ![w] = Tail(notes[w])]
      /\ pc' = [pc EXCEPT ![w] = IF Head(notes[w]) = key[w] THEN IF pc[w] = "await" THEN "swap" ELSE "done"
                                 ELSE "refused"]
  BY DEF Await, Ends, Notified, Go, op, fill
<1>2. Down(w) \in Rollouts /\ w = Up(Down(w))
  BY <1>1, Shape DEF Chained, Placed
<1>3. /\ notes[w] = <<key[w]>> /\ Head(notes[w]) = key[w] /\ Tail(notes[w]) = <<>>
      /\ mail[Down(w)] = <<>> /\ ~IsReading(Down(w))
  BY <1>1, <1>2, Noticed
<1> QED
  BY <1>1, <1>2, <1>3, TypedFns, Shape

\* The bucket lands, and the agent before is notified.
LEMMA TransferDoes ==
  ASSUME Chained, NEW w \in Rollouts, Transfer(w)
  PROVE  /\ IsReading(w) /\ prev[w] = Up(w) /\ pc[Up(w)] # "dead" /\ pc[w] \in {"await", "swap"}
         /\ read[w].b = 1 - cur[w]
         /\ buf'[w] = [buf[w] EXCEPT ![1 - cur[w]] = buf[Up(w)][read[w].from]]
         /\ buf'[w][cur[w]] = buf[w][cur[w]]
         /\ notes'[Up(w)] = Append(notes[Up(w)], read[w].key)
         /\ \A x \in Agents \ {Up(w)} : notes'[x] = notes[x]
         /\ read'[w] = [read[w] EXCEPT !.state = "done"] /\ read'[w].state = "done"
         /\ read'[w].b = read[w].b /\ read'[w] # NoRead
         /\ UNCHANGED <<pc, cur, held, coming, queue, got, key, fresh, mail, base, pulled>>
<1>1. /\ read[w].state = "reading" /\ pc[prev[w]] # "dead"
      /\ buf' = [buf EXCEPT ![w] = [buf[w] EXCEPT ![read[w].b] = buf[prev[w]][read[w].from]]]
      /\ notes' = [notes EXCEPT ![prev[w]] = Append(notes[prev[w]], read[w].key)]
      /\ read' = [read EXCEPT ![w] = [read[w] EXCEPT !.state = "done"]]
      /\ UNCHANGED <<pc, cur, held, coming, queue, got, key, fresh, mail, base, pulled>>
  BY DEF Transfer, op, fill
<1>2. /\ read[w] \in [state : {"reading", "done"}, b : {0, 1}, from : {0, 1}, key : Nat]
      /\ prev[w] = Up(w) /\ Up(w) \in Agents /\ pc[w] \in {"await", "swap"}
  BY <1>1, ReadsIt
<1>3. read[w].b = 1 - cur[w]
  BY <1>2 DEF Chained, Reader, ReaderOf
<1>4. read'[w] = [read[w] EXCEPT !.state = "done"]
  BY <1>1, TypedFns, Shape
<1>5. read'[w].state = "done" /\ read'[w].b = read[w].b /\ read'[w] # NoRead
  BY <1>2, <1>4 DEF NoRead
<1>6. /\ buf'[w] = [buf[w] EXCEPT ![1 - cur[w]] = buf[Up(w)][read[w].from]]
      /\ buf'[w][cur[w]] = buf[w][cur[w]]
  BY <1>1, <1>2, <1>3, OfWorker, TypedFns
<1>7. /\ notes'[Up(w)] = Append(notes[Up(w)], read[w].key)
      /\ \A x \in Agents \ {Up(w)} : notes'[x] = notes[x]
  BY <1>1, <1>2, TypedFns
<1> QED
  BY <1>1, <1>2, <1>3, <1>4, <1>5, <1>6, <1>7 DEF IsReading

\* A failed transfer ends the process.
LEMMA ErrorDoes ==
  ASSUME Chained, NEW w \in Rollouts, TransferError(w)
  PROVE  /\ IsReading(w) /\ pc'[w] = "dead" /\ read'[w] = NoRead
         /\ UNCHANGED <<cur, held, coming, queue, buf, got, key, fresh, mail, notes, base, pulled>>
BY TypedFns, Shape DEF TransferError, Go, op, fill, IsReading

\* The loader has done.
LEMMA LoadedDoes ==
  ASSUME Chained, NEW w \in Rollouts, Loaded(w)
  PROVE  /\ pc[w] = "done" /\ pc'[w] = "loaded" /\ queue[w] = <<>>
         /\ UNCHANGED <<cur, held, coming, read, queue, buf, got, key, fresh, mail, notes, base, pulled>>
BY TypedFns, Shape DEF Loaded, Go, op, fill, Quiet

\* Joining changes no buffer and no message.
LEMMA JoinDoes ==
  ASSUME Chained, NEW w \in Agents, Join(w)
  PROVE  /\ pc[w] = "init"
         /\ w = Sender => pc'[w] = "pull"
         /\ w \in Rollouts => pc'[w] \in {"first", "refused"}
         /\ UNCHANGED <<cur, held, coming, read, queue, buf, got, key, fresh, mail, notes, base, pulled>>
<1>1. pc[w] = "init" /\ UNCHANGED <<cur, held, coming, read, queue, buf, got, key, fresh, mail, notes, base, pulled>>
  BY DEF Join, op, fill
<1>2. CASE Fits(w)
  <2>1. pc' = [pc EXCEPT ![w] = CASE w = Sender -> "pull" [] w \in Rollouts -> "first" [] OTHER -> "done"]
    BY <1>2 DEF Join, Go
  <2> QED
    BY <1>1, <2>1, TypedFns, Shape
<1>3. CASE ~Fits(w)
  <2>1. w # Sender /\ pc' = [pc EXCEPT ![w] = "refused"]
    BY <1>3, Topology DEF Join, Go
  <2> QED
    BY <1>1, <2>1, TypedFns, Shape
<1> QED
  BY <1>2, <1>3

\* The loader copies its next chunk, which is still in the buffer.
LEMMA DeviceDoes ==
  ASSUME Chained, NEW w \in Rollouts, Device(w)
  PROVE  /\ queue[w] # <<>> /\ Head(queue[w]) = queue[w][1] /\ queue'[w] = Tail(queue[w])
         /\ queue[w][1].chunk \in buf[w][cur[w]] /\ queue[w][1].chunk[2] = Len(got[w])
         /\ got'[w] = Append(got[w], Len(got[w])) /\ Given(w)' = Given(w)
         /\ UNCHANGED <<pc, cur, held, coming, read, buf, key, fresh, mail, notes, base, pulled>>
<1>1. /\ queue[w] # <<>> /\ queue' = [queue EXCEPT ![w] = Tail(queue[w])]
      /\ UNCHANGED <<pc, cur, held, coming, read, key, fresh, mail, notes, base, pulled>>
  BY DEF Device, op, fill
<1>2. queue[w] \in Seq(Copying) /\ got[w] \in Seq(Int)
  BY OfWorker
<1>3. /\ Len(queue[w]) >= 1 /\ Head(queue[w]) = queue[w][1] /\ 1 \in DOMAIN queue[w]
      /\ Len(queue[w]) \in Nat /\ Len(Tail(queue[w])) = Len(queue[w]) - 1
  BY <1>1, <1>2
<1>4. /\ queue[w][1].do = "copy" /\ queue[w][1].b = cur[w] /\ queue[w][1].chunk \in buf[w][cur[w]]
      /\ queue[w][1].chunk[2] = Len(got[w]) + 1 - 1
  BY <1>3 DEF Chained, Loader, LoaderOf
<1>5. Len(got[w]) \in Nat /\ queue[w][1].chunk[2] = Len(got[w])
  BY <1>2, <1>4
<1>6. buf' = buf /\ got' = [got EXCEPT ![w] = Append(got[w], Len(got[w]))]
  <2> DEFINE x == Head(queue[w])
  <2>1. x.do # "fill" /\ x.chunk \in buf[w][x.b] /\ x.chunk[2] = Len(got[w])
    BY <1>3, <1>4, <1>5
  <2>2. /\ buf' = buf
        /\ got' = [got EXCEPT ![w] = Append(got[w], IF x.chunk \in buf[w][x.b] THEN x.chunk[2] ELSE Junk)]
    BY <2>1 DEF Device
  <2> QED
    BY <2>1, <2>2
<1>7. queue'[w] = Tail(queue[w]) /\ got'[w] = Append(got[w], Len(got[w]))
  BY <1>1, <1>6, TypedFns, Shape
<1>8. Len(Append(got[w], Len(got[w]))) = Len(got[w]) + 1
  BY <1>2, <1>5
<1>9. Given(w)' = Given(w)
  <2>1. Len(got'[w]) = Len(got[w]) + 1 /\ Len(queue'[w]) = Len(queue[w]) - 1
    BY <1>3, <1>7, <1>8
  <2>2. Len(got'[w]) + Len(queue'[w]) = Len(got[w]) + Len(queue[w])
    <3>1. \A a, b \in Nat : (a + 1) + (b - 1) = a + b
      BY ONLY TRUE
    <3> QED
      BY <1>3, <1>5, <2>1, <3>1
  <2> QED
    BY <2>2 DEF Given
<1> QED
  BY <1>1, <1>3, <1>4, <1>5, <1>6, <1>7, <1>9

-----------------------------------------------------------------------------
(* The loader.                                                               *)

\* A step of another agent keeps the loader.
LEMMA LoaderSame ==
  ASSUME NEW x \in Rollouts, LoaderOf(x), Same(x)
  PROVE  LoaderOf(x)'
BY DEF LoaderOf, Same, Given, Numbered, In

\* Every step keeps the loaders.
LEMMA LoaderStep ==
  ASSUME Chained, [Next]_vars
  PROVE  Loader'
<1> SUFFICES ASSUME NEW x \in Rollouts PROVE LoaderOf(x)'
  BY DEF Loader
<1>0. LoaderOf(x) /\ x \in Agents /\ x # Sender
  BY Shape DEF Chained, Loader
<1>1. CASE NextSync
  <2>1. /\ pc[x] = "loaded" /\ pc'[x] = "init" /\ queue' = queue /\ got' = got
    BY <1>1, <1>0 DEF NextSync, HasEnded
  <2> QED
    BY <1>0, <2>1 DEF LoaderOf
<1>2. CASE SenderStep
  BY <1>0, <1>2, SenderFrame, LoaderSame
<1>3. ASSUME NEW w \in Agents, Join(w) PROVE LoaderOf(x)'
  <2>1. CASE w = x
    BY <1>0, <1>3, <2>1, JoinDoes DEF LoaderOf
  <2> QED
    BY <1>0, <1>3, <2>1, OwnFrame, LoaderSame
\* The loader copies the next chunk.
<1>4. ASSUME NEW w \in Agents, Device(w) PROVE LoaderOf(x)'
  <2>1. CASE w = x
    <3>1. /\ queue[x] # <<>> /\ queue'[x] = Tail(queue[x]) /\ got'[x] = Append(got[x], Len(got[x]))
          /\ pc' = pc /\ cur' = cur /\ buf' = buf
      BY <1>4, <2>1, DeviceDoes
    <3>2. queue[x] \in Seq(Copying) /\ got[x] \in Seq(Int) /\ Len(got[x]) \in Int
      BY OfWorker
    <3>3. /\ Len(got[x]) \in Nat /\ Len(got'[x]) = Len(got[x]) + 1 /\ DOMAIN got'[x] = 1..Len(got[x]) + 1
          /\ got'[x][Len(got[x]) + 1] = Len(got[x]) /\ DOMAIN got[x] = 1..Len(got[x])
          /\ \A j \in 1..Len(got[x]) : got'[x][j] = got[x][j]
          /\ \A j \in 1..Len(got[x]) + 1 : j \in 1..Len(got[x]) \/ j = Len(got[x]) + 1
      BY <3>1, <3>2, AppendIs
    <3>4. /\ Len(queue[x]) \in Nat /\ DOMAIN queue[x] = 1..Len(queue[x]) /\ DOMAIN queue'[x] = 1..Len(queue[x]) - 1
          /\ \A i \in 1..Len(queue[x]) - 1 : queue'[x][i] = queue[x][i + 1]
      BY <3>1, <3>2, TailIs
    <3>5. \A i \in DOMAIN got'[x] : got'[x][i] = i - 1
      <4>1. \A i \in 1..Len(got[x]) : got[x][i] = i - 1
        BY <1>0, <3>3 DEF LoaderOf
      <4>2. Len(got[x]) = (Len(got[x]) + 1) - 1
        BY <3>3
      <4> QED
        BY <3>3, <4>1, <4>2
    <3>6. ASSUME NEW i \in DOMAIN queue'[x]
          PROVE  /\ queue'[x][i].do = "copy" /\ queue'[x][i].b = cur[x] /\ queue'[x][i].chunk \in buf[x][cur[x]]
                 /\ queue'[x][i].chunk[2] = Len(got'[x]) + i - 1
      <4>1. i \in 1..Len(queue[x]) - 1 /\ i + 1 \in DOMAIN queue[x] /\ queue'[x][i] = queue[x][i + 1]
        BY <3>4
      <4>2. /\ queue[x][i + 1].do = "copy" /\ queue[x][i + 1].b = cur[x] /\ queue[x][i + 1].chunk \in buf[x][cur[x]]
            /\ queue[x][i + 1].chunk[2] = Len(got[x]) + (i + 1) - 1
        BY <1>0, <4>1 DEF LoaderOf
      <4>3. Len(got[x]) + (i + 1) - 1 = Len(got'[x]) + i - 1
        BY <3>3, <4>1
      <4> QED
        BY <4>1, <4>2, <4>3
    <3>7. pc[x] \notin {"init", "refused", "first", "read", "loaded"}
      BY <1>0, <3>1 DEF LoaderOf
    <3> QED
      BY <3>1, <3>5, <3>6, <3>7 DEF LoaderOf
  <2> QED
    BY <1>0, <1>4, <2>1, OwnFrame, LoaderSame
<1>5. ASSUME NEW w \in Rollouts, RolloutStep(w), w # x PROVE LoaderOf(x)'
  BY <1>0, <1>5, RolloutFrame, LoaderSame
<1>6. CASE FirstRead(x)
  <2>1. pc[x] = "first" /\ pc'[x] = "swap" /\ queue' = queue /\ got' = got
    BY <1>6, FirstReadDoes, BeginsRead
  <2>2. queue[x] = <<>>
    BY <1>0, <2>1 DEF LoaderOf
  <2> QED
    BY <1>0, <2>1, <2>2 DEF LoaderOf
\* The bucket that was read becomes the loader's.
<1>7. CASE Swap(x)
  <2>1. /\ pc[x] = "swap" /\ read[x].state = "done" /\ queue[x] = <<>> /\ Given(x) = Len(got[x])
        /\ queue'[x] = IF coming[x].last THEN Copies(x, coming[x], 1 - cur[x]) ELSE <<>>
        /\ pc'[x] = IF coming[x].last THEN IF Down(x) # None THEN "drain" ELSE "done" ELSE "read"
        /\ buf' = buf /\ got' = got /\ cur'[x] = 1 - cur[x] /\ held'[x] = coming[x]
    BY <1>7, SwapDoes
  <2>2. Numbered(coming[x].chunks, Len(got[x])) /\ In(coming[x].chunks, buf[x][1 - cur[x]])
    BY <2>1 DEF Chained, Reader, ReaderOf
  <2>3. /\ got[x] \in Seq(Int) /\ coming[x] \in Messages /\ 1 - cur[x] \in {0, 1}
        /\ coming[x].chunks \in Seq(Nat \X Nat) /\ DOMAIN coming[x].chunks = 1..Len(coming[x].chunks)
    BY OfWorker
  <2>4. CASE coming[x].last
    <3> DEFINE C == Copies(x, coming[x], 1 - cur[x])
    <3>1. /\ C \in Seq(Copying) /\ Len(C) = Len(coming[x].chunks) /\ DOMAIN C = 1..Len(coming[x].chunks)
          /\ \A i \in 1..Len(coming[x].chunks) : /\ C[i].do = "copy" /\ C[i].b = 1 - cur[x]
                                                 /\ C[i].chunk = coming[x].chunks[i]
      <4>1. /\ C \in Seq(Copying) /\ Len(C) = Len(coming[x].chunks)
            /\ \A i \in 1..Len(coming[x].chunks) : /\ C[i].do = "copy" /\ C[i].b = 1 - cur[x]
                                                   /\ C[i].chunk = coming[x].chunks[i]
        BY ONLY <2>3, CopiesAre
      <4>2. \A s \in Seq(Copying) : DOMAIN s = 1..Len(s)
        OBVIOUS
      <4> QED
        BY <4>1, <4>2
    <3> HIDE DEF C
    <3>2. queue'[x] = C /\ pc'[x] \in {"drain", "done"}
      BY <2>1, <2>4 DEF C
    <3>3. \A i \in DOMAIN C : C[i].chunk \in buf[x][1 - cur[x]] /\ C[i].chunk[2] = Len(got[x]) + i - 1
      BY <2>2, <2>3, <3>1 DEF Numbered, In
    <3> QED
      BY <1>0, <2>1, <3>1, <3>2, <3>3 DEF LoaderOf
  <2>5. CASE ~coming[x].last
    <3>1. queue'[x] = <<>> /\ pc'[x] = "read" /\ Len(<<>>) = 0 /\ DOMAIN <<>> = {}
      BY <2>1, <2>5
    <3>2. Given(x)' = Len(got[x])
      BY <2>1, <2>3, <3>1 DEF Given
    <3> QED
      BY <1>0, <2>1, <2>2, <3>1, <3>2 DEF LoaderOf
  <2> QED
    BY <2>4, <2>5
\* The loader gets its chunks while the other buffer is read into.
<1>8. CASE ReadNext(x)
  <2>1. /\ pc[x] = "read" /\ pc'[x] \in {"await", "swap"} /\ queue[x] = <<>>
        /\ queue'[x] = Copies(x, held[x], cur[x]) /\ got' = got /\ cur' = cur /\ held' = held
        /\ buf'[x][cur[x]] = buf[x][cur[x]]
    BY <1>8, ReadNextDoes, BeginsRead
  <2>2. /\ got[x] \in Seq(Int) /\ held[x] \in Messages /\ cur[x] \in {0, 1}
        /\ held[x].chunks \in Seq(Nat \X Nat) /\ DOMAIN held[x].chunks = 1..Len(held[x].chunks)
    BY OfWorker
  <2>3. Given(x) = Len(got[x])
    BY <2>1, <2>2 DEF Given
  <2>4. Numbered(held[x].chunks, Len(got[x])) /\ In(held[x].chunks, buf[x][cur[x]])
    BY <1>0, <2>1, <2>3 DEF LoaderOf
  <2> DEFINE C == Copies(x, held[x], cur[x])
  <2>5. /\ C \in Seq(Copying) /\ Len(C) = Len(held[x].chunks) /\ DOMAIN C = 1..Len(held[x].chunks)
        /\ \A i \in 1..Len(held[x].chunks) : /\ C[i].do = "copy" /\ C[i].b = cur[x]
                                             /\ C[i].chunk = held[x].chunks[i]
    <3>1. /\ C \in Seq(Copying) /\ Len(C) = Len(held[x].chunks)
          /\ \A i \in 1..Len(held[x].chunks) : /\ C[i].do = "copy" /\ C[i].b = cur[x]
                                               /\ C[i].chunk = held[x].chunks[i]
      BY ONLY <2>2, CopiesAre
    <3>2. \A s \in Seq(Copying) : DOMAIN s = 1..Len(s)
      OBVIOUS
    <3> QED
      BY <3>1, <3>2
  <2>6. queue'[x] = C
    BY <2>1
  <2> HIDE DEF C
  <2>7. \A i \in DOMAIN C : C[i].chunk \in buf[x][cur[x]] /\ C[i].chunk[2] = Len(got[x]) + i - 1
    BY <2>2, <2>4, <2>5 DEF Numbered, In
  <2> QED
    BY <1>0, <2>1, <2>5, <2>6, <2>7 DEF LoaderOf
<1>9. CASE Await(x) \/ Ends(x)
  <2>1. pc'[x] \in {"swap", "done"} /\ UNCHANGED <<cur, held, queue, buf, got>>
    BY <1>9, AwaitDoes
  <2> QED
    BY <1>0, <2>1 DEF LoaderOf
<1>10. CASE Loaded(x)
  <2>1. pc'[x] = "loaded" /\ queue[x] = <<>> /\ UNCHANGED <<cur, held, queue, buf, got>>
    BY <1>10, LoadedDoes
  <2> QED
    BY <1>0, <2>1 DEF LoaderOf
<1>11. CASE Transfer(x)
  <2>1. buf'[x][cur[x]] = buf[x][cur[x]] /\ UNCHANGED <<pc, cur, held, queue, got>>
    BY <1>11, TransferDoes
  <2> QED
    BY <1>0, <2>1 DEF LoaderOf, Given, Numbered, In
<1>12. CASE TransferError(x)
  <2>1. pc'[x] = "dead" /\ UNCHANGED <<cur, held, queue, buf, got>>
    BY <1>12, ErrorDoes
  <2> QED
    BY <1>0, <2>1 DEF LoaderOf
<1>13. CASE UNCHANGED vars
  BY <1>0, <1>13, LoaderSame DEF vars, chain, fill, op, Same
<1> QED
  BY <1>1, <1>2, <1>3, <1>4, <1>5, <1>6, <1>7, <1>8, <1>9, <1>10, <1>11, <1>12, <1>13
     DEF Next, Step, Stop, SenderStep, RolloutStep

-----------------------------------------------------------------------------
(* The reader.                                                               *)

\* A step of another agent keeps the reader.
LEMMA ReaderSame ==
  ASSUME NEW x \in Rollouts, ReaderOf(x), Same(x)
  PROVE  ReaderOf(x)'
BY DEF ReaderOf, Same, Given, Numbered, In

\* Every step keeps the readers.
LEMMA ReaderStep ==
  ASSUME Chained, [Next]_vars
  PROVE  Reader'
<1> SUFFICES ASSUME NEW x \in Rollouts PROVE ReaderOf(x)'
  BY DEF Reader
<1>0. ReaderOf(x) /\ x \in Agents /\ x # Sender /\ NoRead.state = "none"
  BY Shape DEF Chained, Reader, NoRead
<1>1. CASE NextSync
  <2>1. pc[x] = "loaded" /\ pc'[x] = "init" /\ read' = read
    BY <1>1, <1>0 DEF NextSync, HasEnded
  <2> QED
    BY <1>0, <2>1 DEF ReaderOf
<1>2. CASE SenderStep
  BY <1>0, <1>2, SenderFrame, ReaderSame
<1>3. ASSUME NEW w \in Agents, Join(w) PROVE ReaderOf(x)'
  <2>1. CASE w = x
    <3>1. pc[x] = "init" /\ pc'[x] \in {"first", "refused"} /\ read' = read
      BY <1>3, <2>1, JoinDoes
    <3> QED
      BY <1>0, <3>1 DEF ReaderOf
  <2> QED
    BY <1>0, <1>3, <2>1, OwnFrame, ReaderSame
<1>4. ASSUME NEW w \in Agents, Device(w) PROVE ReaderOf(x)'
  <2>1. CASE w = x
    <3>1. Given(x)' = Given(x) /\ UNCHANGED <<pc, read, cur, coming, buf>>
      BY <1>4, <2>1, DeviceDoes
    <3> QED
      BY <1>0, <3>1 DEF ReaderOf, Numbered
  <2> QED
    BY <1>0, <1>4, <2>1, OwnFrame, ReaderSame
<1>5. ASSUME NEW w \in Rollouts, RolloutStep(w), w # x PROVE ReaderOf(x)'
  BY <1>0, <1>5, RolloutFrame, ReaderSame
\* A bucket that is being read follows the ones that were given out.
<1>6. CASE FirstRead(x) \/ ReadNext(x)
  <2>1. /\ mail[x] # <<>> /\ coming'[x] = Letter(x).m /\ cur' = cur /\ got' = got
        /\ read'[x] = [state |-> "reading", b |-> 1 - cur[x], from |-> Letter(x).b, key |-> Letter(x).key]
    BY <1>6, BeginsRead
  <2>2. Numbered(Letter(x).m.chunks, Taken(x))
    BY <2>1 DEF Chained, Sent, SentOf
  <2>3. read'[x].state = "reading" /\ read'[x] # NoRead /\ read'[x].b = 1 - cur[x]
    BY <2>1, <1>0
  <2>4. pc'[x] \in {"await", "swap"} /\ Taken(x) = Given(x)'
    <3>1. CASE FirstRead(x)
      <4>1. pc[x] = "first" /\ pc'[x] = "swap" /\ queue' = queue
        BY <3>1, FirstReadDoes
      <4>2. Given(x) \in Nat
        BY GivenIs
      <4> QED
        BY <2>1, <4>1, <4>2 DEF Taken, Given
    <3>2. CASE ReadNext(x)
      <4>1. /\ pc[x] = "read" /\ pc'[x] \in {"await", "swap"} /\ queue[x] = <<>>
            /\ queue'[x] = Copies(x, held[x], cur[x])
        BY <3>2, ReadNextDoes
      <4>2. Len(Copies(x, held[x], cur[x])) = Len(held[x].chunks)
        BY OfWorker, CopiesAre
      <4>3. Given(x) = Len(got[x])
        BY <4>1, OfWorker DEF Given
      <4> QED
        BY <2>1, <4>1, <4>2, <4>3 DEF Taken, Given
    <3> QED
      BY <1>6, <3>1, <3>2
  <2> QED
    BY <2>1, <2>2, <2>3, <2>4 DEF ReaderOf, Numbered
<1>7. CASE Swap(x)
  <2>1. read'[x] = NoRead /\ pc'[x] \in {"drain", "done", "read"}
    BY <1>7, SwapDoes
  <2> QED
    BY <1>0, <2>1 DEF ReaderOf
<1>8. CASE Await(x) \/ Ends(x)
  <2>1. /\ pc[x] \in {"await", "drain"} /\ pc'[x] = IF pc[x] = "await" THEN "swap" ELSE "done"
        /\ UNCHANGED <<cur, coming, read, queue, buf, got>>
    BY <1>8, AwaitDoes
  <2> QED
    BY <1>0, <2>1 DEF ReaderOf, Given, Numbered
<1>9. CASE Loaded(x)
  <2>1. pc[x] = "done" /\ pc'[x] = "loaded" /\ read' = read
    BY <1>9, LoadedDoes
  <2> QED
    BY <1>0, <2>1 DEF ReaderOf
\* What lands is what was announced.
<1>10. CASE Transfer(x)
  <2>1. /\ IsReading(x) /\ read[x].b = 1 - cur[x] /\ pc[x] \in {"await", "swap"}
        /\ buf'[x] = [buf[x] EXCEPT ![1 - cur[x]] = buf[Up(x)][read[x].from]]
        /\ read'[x].state = "done" /\ read'[x].b = read[x].b /\ read'[x] # NoRead
        /\ UNCHANGED <<pc, cur, coming, queue, got>>
    BY <1>10, TransferDoes
  <2>2. In(coming[x].chunks, buf[Up(x)][read[x].from])
    BY <2>1 DEF Chained, Sent, SentOf
  <2>3. buf'[x][1 - cur[x]] = buf[Up(x)][read[x].from]
    BY <2>1, OfWorker
  <2> QED
    BY <1>0, <2>1, <2>2, <2>3 DEF ReaderOf, Given, Numbered
<1>11. CASE TransferError(x)
  <2>1. pc'[x] = "dead" /\ read'[x] = NoRead
    BY <1>11, ErrorDoes
  <2> QED
    BY <1>0, <2>1 DEF ReaderOf
<1>12. CASE UNCHANGED vars
  BY <1>0, <1>12, ReaderSame DEF vars, chain, fill, op, Same
<1> QED
  BY <1>1, <1>2, <1>3, <1>4, <1>5, <1>6, <1>7, <1>8, <1>9, <1>10, <1>11, <1>12
     DEF Next, Step, Stop, SenderStep, RolloutStep

-----------------------------------------------------------------------------
(* What the steps do to the counts.                                          *)

\* The counts of an agent that another's step leaves alone.
LEMMA CountsSame ==
  ASSUME NEW x \in Rollouts, Same(x), x # Sender
  PROVE  Given(x)' = Given(x) /\ Taken(x)' = Taken(x) /\ Had(x)' = Had(x)
BY DEF Same, Given, Taken, Had

\* Joining gives and takes nothing.
LEMMA CountsJoin ==
  ASSUME Chained, NEW x \in Rollouts, Join(x)
  PROVE  Taken(x)' = Taken(x) /\ Had(x)' = Had(x)
<1>1. pc[x] = "init" /\ pc'[x] \in {"first", "refused"} /\ queue' = queue /\ got' = got /\ x \in Agents
  BY JoinDoes, Shape
<1> QED
  BY <1>1, Shape DEF Taken, Had, Given

\* A copy that is done was given before.
LEMMA CountsDevice ==
  ASSUME Chained, NEW x \in Rollouts, Device(x)
  PROVE  Taken(x)' = Taken(x) /\ Had(x)' = Had(x)
<1>1. Given(x)' = Given(x) /\ UNCHANGED <<pc, held, coming>>
  BY DeviceDoes
<1> QED
  BY <1>1, Shape DEF Taken, Had

\* A read that begins takes the letter's chunks.
LEMMA CountsBegin ==
  ASSUME Chained, NEW x \in Rollouts, FirstRead(x) \/ ReadNext(x)
  PROVE  Taken(x)' = Taken(x) + Len(Letter(x).m.chunks) /\ Had(x)' = Had(x)
<1>1. mail[x] # <<>> /\ coming'[x] = Letter(x).m /\ got' = got
  BY BeginsRead
<1>2. Len(Letter(x).m.chunks) \in Nat /\ Given(x) \in Nat /\ x # Sender /\ Len(held[x].chunks) \in Nat
  BY <1>1, OneLetter, LenIs, GivenIs, Shape, OfWorker
<1>3. CASE FirstRead(x)
  <2>1. pc[x] = "first" /\ pc'[x] = "swap" /\ queue' = queue
    BY <1>3, FirstReadDoes
  <2>2. Given(x)' = Given(x)
    BY <1>1, <2>1 DEF Given
  <2> QED
    BY <1>1, <1>2, <2>1, <2>2 DEF Taken, Had
<1>4. CASE ReadNext(x)
  <2>1. /\ pc[x] = "read" /\ pc'[x] \in {"await", "swap"} /\ queue[x] = <<>>
        /\ queue'[x] = Copies(x, held[x], cur[x])
    BY <1>4, ReadNextDoes
  <2>2. Len(Copies(x, held[x], cur[x])) = Len(held[x].chunks)
    BY OfWorker, CopiesAre
  <2>3. Given(x)' = Given(x) + Len(held[x].chunks)
    <3>1. Len(got[x]) \in Nat /\ Len(queue[x]) = 0
      BY <2>1, OfWorker, LenIs
    <3> QED
      BY <1>1, <1>2, <2>1, <2>2, <3>1 DEF Given
  <2> QED
    BY <1>1, <1>2, <2>1, <2>3 DEF Taken, Had
<1> QED
  BY <1>3, <1>4

\* Swapping gives away the bucket that was read.
LEMMA CountsSwap ==
  ASSUME Chained, NEW x \in Rollouts, Swap(x)
  PROVE  /\ Taken(x)' = Taken(x) /\ Had(x) = Given(x)
         /\ Had(x)' = Had(x) + Len(coming[x].chunks)
<1>1. /\ pc[x] = "swap" /\ queue[x] = <<>> /\ Given(x) = Len(got[x]) /\ held'[x] = coming[x]
      /\ queue'[x] = IF coming[x].last THEN Copies(x, coming[x], 1 - cur[x]) ELSE <<>>
      /\ pc'[x] = IF coming[x].last THEN IF Down(x) # None THEN "drain" ELSE "done" ELSE "read"
      /\ got' = got /\ x # Sender
  BY SwapDoes, Shape
<1>2. /\ Len(coming[x].chunks) \in Nat /\ Given(x) \in Nat
      /\ Len(Copies(x, coming[x], 1 - cur[x])) = Len(coming[x].chunks)
  BY OfWorker, LenIs, GivenIs, CopiesAre
<1>3. CASE coming[x].last
  <2>1. pc'[x] \in {"drain", "done"} /\ Len(queue'[x]) = Len(coming[x].chunks)
    BY <1>1, <1>2, <1>3
  <2>2. Given(x)' = Given(x) + Len(coming[x].chunks)
    BY <1>1, <2>1 DEF Given
  <2>3. Taken(x) = Given(x) + Len(coming[x].chunks) /\ Had(x) = Given(x) + 0
    BY <1>1 DEF Taken, Had
  <2>4. Taken(x)' = Given(x)' + 0 /\ Had(x)' = Given(x)' + 0
    BY <1>1, <2>1 DEF Taken, Had
  <2> QED
    BY <1>2, <2>2, <2>3, <2>4
<1>4. CASE ~coming[x].last
  <2>1. pc'[x] = "read" /\ Len(queue'[x]) = 0
    BY <1>1, <1>4
  <2>2. Given(x)' = Given(x)
    BY <1>1, <1>2, <2>1 DEF Given
  <2>3. Taken(x) = Given(x) + Len(coming[x].chunks) /\ Had(x) = Given(x) + 0
    BY <1>1 DEF Taken, Had
  <2>4. Taken(x)' = Given(x)' + Len(coming[x].chunks) /\ Had(x)' = Given(x)' + Len(coming[x].chunks)
    BY <1>1, <2>1 DEF Taken, Had
  <2> QED
    BY <1>2, <2>2, <2>3, <2>4
<1> QED
  BY <1>3, <1>4

\* The other steps give and take nothing.
LEMMA CountsRest ==
  ASSUME Chained, NEW x \in Rollouts, Await(x) \/ Ends(x) \/ Loaded(x) \/ Transfer(x)
  PROVE  Taken(x)' = Taken(x) /\ Had(x)' = Had(x)
<1>1. CASE Await(x) \/ Ends(x)
  <2>1. /\ pc[x] \in {"await", "drain"} /\ pc'[x] = IF pc[x] = "await" THEN "swap" ELSE "done"
        /\ UNCHANGED <<held, coming, queue, got>>
    BY <1>1, AwaitDoes
  <2> QED
    BY <2>1, Shape DEF Taken, Had, Given
<1>2. CASE Loaded(x)
  <2>1. pc[x] = "done" /\ pc'[x] = "loaded" /\ UNCHANGED <<held, coming, queue, got>>
    BY <1>2, LoadedDoes
  <2> QED
    BY <2>1, Shape DEF Taken, Had, Given
<1>3. CASE Transfer(x)
  <2>1. UNCHANGED <<pc, held, coming, queue, got>>
    BY <1>3, TransferDoes
  <2> QED
    BY <2>1, Shape DEF Taken, Had, Given
<1> QED
  BY <1>1, <1>2, <1>3

\* The sender.
LEMMA AnnounceDoes ==
  ASSUME Chained, AnnounceBucket
  PROVE  LET x == Down(Sender)  chunks == held[Sender].chunks IN
         /\ pc[Sender] = "announce" /\ ~Out(Sender) /\ queue[Sender] = <<>>
         /\ mail[x] = <<>> /\ ~IsReading(x) /\ notes[Sender] = <<>> /\ pc[x] # "dead"
         /\ mail'[x] = <<[m |-> held[Sender], b |-> cur[Sender], key |-> fresh]>>
         /\ key'[Sender] = fresh /\ fresh # 0
         /\ IF held[Sender].last
            THEN pc'[Sender] = "drain" /\ cur'[Sender] = cur[Sender] /\ held'[Sender] = held[Sender]
            ELSE pc'[Sender] = "pull" /\ cur'[Sender] = 1 - cur[Sender] /\ held'[Sender] = Nothing
         /\ UNCHANGED <<buf, notes, read, queue, base, pulled>>
         /\ Had(Sender) = base + pulled - Len(chunks) /\ Taken(x) = Had(Sender)
         /\ Numbered(chunks, Taken(x)) /\ In(chunks, buf[Sender][cur[Sender]])
<1> DEFINE x == Down(Sender)   chunks == held[Sender].chunks
<1>1. x \in Rollouts /\ x \in Agents /\ Sender = Up(x) /\ Sender \in Agents
  BY Shape
<1>2. pc[Sender] = "announce" /\ pc[Sender] # "dead" /\ next[Sender] = x
  BY NextOfSender DEF AnnounceBucket
<1>3. ~Out(Sender)
  BY <1>2 DEF Out
<1>4. PlaceOf(x) /\ CountOf(x)
  BY <1>1 DEF Chained, InOnePlace, Counted
<1>5. mail[x] = <<>> /\ ~IsReading(x) /\ notes[Sender] = <<>> /\ pc[x] # "dead"
  BY <1>1, <1>2, <1>3, <1>4 DEF PlaceOf
<1>6. /\ queue[Sender] = <<>> /\ Numbered(chunks, base + pulled - Len(chunks))
      /\ Stored(chunks, Len(chunks) - Len(queue[Sender]), buf[Sender][cur[Sender]])
  BY <1>2 DEF Chained, Bucket
<1>7. Had(Sender) = base + pulled - Len(chunks)
  BY <1>2 DEF Had
<1>8. Taken(x) = Had(Sender)
  <2>1. Had(Sender) = Taken(x) + 0
    BY <1>1, <1>2, <1>4, <1>5 DEF CountOf
  <2>2. Taken(x) \in Nat
    BY <1>1, GivenIs
  <2> QED
    BY <2>1, <2>2
<1>9. In(chunks, buf[Sender][cur[Sender]])
  <2>1. chunks \in Seq(Nat \X Nat) /\ Len(chunks) \in Nat /\ DOMAIN chunks = 1..Len(chunks)
    BY BucketFacts
  <2>2. Len(chunks) - Len(queue[Sender]) = Len(chunks)
    BY <1>6, <2>1
  <2> QED
    BY <1>6, <2>1, <2>2 DEF Stored, In
<1>10. /\ key' = [key EXCEPT ![Sender] = fresh]
       /\ mail' = [mail EXCEPT ![x] = Append(mail[x], [m |-> held[Sender], b |-> cur[Sender], key |-> fresh])]
       /\ cur' = [cur EXCEPT ![Sender] = IF held[Sender].last THEN cur[Sender] ELSE 1 - cur[Sender]]
       /\ held' = [held EXCEPT ![Sender] = IF held[Sender].last THEN held[Sender] ELSE Nothing]
       /\ pc' = [pc EXCEPT ![Sender] = IF held[Sender].last THEN "drain" ELSE "pull"]
       /\ UNCHANGED <<buf, notes, read, queue, base, pulled>>
  BY <1>2 DEF AnnounceBucket, Announce, Go
<1>11. \A e : Append(<<>>, e) = <<e>>
  OBVIOUS
<1>12. /\ mail'[x] = <<[m |-> held[Sender], b |-> cur[Sender], key |-> fresh]>>
       /\ key'[Sender] = fresh
       /\ IF held[Sender].last
          THEN pc'[Sender] = "drain" /\ cur'[Sender] = cur[Sender] /\ held'[Sender] = held[Sender]
          ELSE pc'[Sender] = "pull" /\ cur'[Sender] = 1 - cur[Sender] /\ held'[Sender] = Nothing
  BY <1>1, <1>5, <1>10, <1>11, TypedFns
<1>13. fresh # 0
  BY DEF Chained, Types
<1> QED
  BY <1>2, <1>3, <1>5, <1>6, <1>7, <1>8, <1>9, <1>10, <1>12, <1>13

\* The sender waits for the notification of its last announcement.
LEMMA SenderAwaitDoes ==
  ASSUME Chained, SenderAwaits \/ SenderEnds
  PROVE  LET x == Down(Sender) IN
         /\ pc[Sender] \in {"await", "drain"} /\ pc'[Sender] = IF pc[Sender] = "await" THEN "announce" ELSE "done"
         /\ mail[x] = <<>> /\ ~IsReading(x) /\ pc[x] # "dead" /\ notes'[Sender] = <<>>
         /\ UNCHANGED <<base, pulled, held, cur, key, mail, read, buf, queue>>
<1> DEFINE x == Down(Sender)
<1>1. x \in Rollouts /\ Sender = Up(x) /\ Sender \in Agents
  BY Shape
<1>2. /\ pc[Sender] \in {"await", "drain"} /\ notes[Sender] # <<>>
      /\ notes' = [notes EXCEPT ![Sender] = Tail(notes[Sender])]
      /\ pc' = [pc EXCEPT ![Sender] = IF Head(notes[Sender]) = key[Sender]
                                      THEN IF pc[Sender] = "await" THEN "announce" ELSE "done" ELSE "refused"]
      /\ UNCHANGED <<base, pulled, held, cur, key, mail, read, buf, queue>>
  BY DEF SenderAwaits, SenderEnds, Notified, Go, fill, op
<1>3. pc[Sender] # "dead"
  BY <1>2
<1>4. /\ Head(notes[Sender]) = key[Sender] /\ Tail(notes[Sender]) = <<>> /\ mail[x] = <<>> /\ ~IsReading(x)
  BY <1>1, <1>2, <1>3, Noticed
<1>5. pc[x] # "dead"
  BY <1>1, <1>2, <1>3 DEF Chained, InOnePlace, PlaceOf
<1> QED
  BY <1>1, <1>2, <1>4, <1>5, TypedFns

\* The fills are done: the bucket is ready.
LEMMA SynchronizeDoes ==
  ASSUME Chained, Synchronize
  PROVE  /\ pc[Sender] = "pull" /\ pc'[Sender] = IF key[Sender] = 0 THEN "announce" ELSE "await"
         /\ held'[Sender].chunks = held[Sender].chunks
         /\ UNCHANGED <<base, pulled, cur, key, mail, notes, read, buf, queue>>
<1>1. /\ pc[Sender] = "pull" /\ UNCHANGED <<base, pulled, cur, key, mail, notes, read, buf, queue>>
      /\ pc' = [pc EXCEPT ![Sender] = IF key[Sender] = 0 THEN "announce" ELSE "await"]
      /\ held' = [held EXCEPT ![Sender] = [held[Sender] EXCEPT !.last = (pulled = Len(Sizes))]]
  BY DEF Synchronize, fill, op, Go
<1>2. held[Sender] \in Messages
  BY BucketFacts
<1> QED
  BY <1>1, <1>2, TypedFns, Shape DEF Messages

\* One more chunk in the sender's bucket.
LEMMA FillDoes ==
  ASSUME Chained, FillChunk
  PROVE  /\ pc[Sender] = "pull" /\ pulled' = pulled + 1 /\ Len(held'[Sender].chunks) = Len(held[Sender].chunks) + 1
         /\ UNCHANGED <<base, pc, cur, key, mail, notes, read, buf>>
<1> DEFINE chunks == held[Sender].chunks   chunk == <<offset, Id(pulled + 1)>>
<1>1. /\ pc[Sender] = "pull" /\ pulled' = pulled + 1 /\ UNCHANGED <<base, pc, cur, key, mail, notes, read, buf>>
      /\ held' = [held EXCEPT ![Sender] = [held[Sender] EXCEPT !.chunks = Append(chunks, chunk)]]
  BY DEF FillChunk, op
<1>2. chunks \in Seq(Nat \X Nat) /\ chunk \in Nat \X Nat /\ held[Sender] \in Messages
  BY BucketFacts DEF Id
<1> HIDE DEF chunks, chunk
<1>3. Len(Append(chunks, chunk)) = Len(chunks) + 1
  BY <1>2, AppendIs
<1>4. held'[Sender].chunks = Append(chunks, chunk)
  BY <1>1, <1>2, TypedFns, Shape DEF Messages
<1> QED
  BY <1>1, <1>3, <1>4 DEF chunks

-----------------------------------------------------------------------------
(* What was sent.                                                            *)

\* Nothing is on its way to the worker.
LEMMA NothingSent ==
  ASSUME NEW x \in Rollouts, mail'[x] = <<>>, ~IsReading(x)'
  PROVE  SentOf(x)'
BY DEF SentOf

\* What is on its way stays where it is.
LEMMA SentKept ==
  ASSUME NEW x \in Rollouts, NEW u, u = Up(x), SentOf(x), mail'[x] = mail[x], Taken(x)' = Taken(x),
         IsReading(x)' => IsReading(x) /\ read'[x].from = read[x].from /\ coming'[x] = coming[x],
         Announced(u)' = Announced(u), buf'[u][Announced(u)] = buf[u][Announced(u)]
  PROVE  SentOf(x)'
<1>1. Letter(x)' = Letter(x)
  BY DEF Letter
<1> QED
  BY <1>1 DEF SentOf

\* A step of others keeps what was sent.
LEMMA SentSame ==
  ASSUME NEW x \in Rollouts, SentOf(x), Same(x), mail'[x] = mail[x], Same(Up(x))
  PROVE  SentOf(x)'
<1>1. Taken(x)' = Taken(x)
  BY CountsSame, Shape
<1>2. Announced(Up(x))' = Announced(Up(x)) /\ buf'[Up(x)] = buf[Up(x)]
  BY DEF Announced, Same
<1> QED
  BY <1>1, <1>2, SentKept DEF Same, IsReading

\* Every step keeps what was sent.
LEMMA SentStep ==
  ASSUME Chained, [Next]_vars
  PROVE  Sent'
<1> SUFFICES ASSUME NEW x \in Rollouts PROVE SentOf(x)'
  BY DEF Sent
<1> DEFINE u == Up(x)
<1>0. /\ SentOf(x) /\ x \in Agents /\ x # Sender /\ NoRead.state = "none" /\ u \in Agents /\ u # x /\ Down(u) = x
      /\ u = Sender \/ u \in Rollouts
  BY Shape DEF Chained, Sent, NoRead
<1>1. CASE NextSync
  <2>1. pc[u] \in {"done", "loaded"} /\ pc[u] = (IF u \in Rollouts THEN "loaded" ELSE "done") /\ mail' = mail /\ read' = read
    BY <1>1, <1>0 DEF NextSync, HasEnded
  <2>2. mail[x] = <<>> /\ ~IsReading(x)
    BY <2>1, <1>0, BoxIsEmpty DEF Out
  <2> QED
    BY <2>1, <2>2, NothingSent DEF IsReading
<1>2. CASE SenderStep /\ u # Sender
  <2>1. x # Down(Sender)
    BY <1>2, Shape
  <2> QED
    BY <1>0, <1>2, <2>1, SenderFrame, SentSame DEF SameLink
<1>3. ASSUME SenderStep, u = Sender PROVE SentOf(x)'
  <2>0. Same(x) /\ Taken(x)' = Taken(x)
    BY <1>0, <1>3, SenderFrame, CountsSame
  <2>1. CASE FillChunk \/ Synchronize
    <3>1. pc[Sender] = "pull" /\ pc'[Sender] # "drain" /\ UNCHANGED <<cur, mail, buf, read>>
      BY <2>1, FillDoes, SynchronizeDoes
    <3>2. Announced(u)' = Announced(u)
      BY <1>3, <3>1 DEF Announced
    <3> QED
      BY <1>0, <2>0, <3>1, <3>2, SentKept DEF Same, IsReading
  <2>2. CASE SenderAwaits \/ SenderEnds
    <3>1. mail[x] = <<>> /\ ~IsReading(x) /\ mail' = mail /\ read' = read
      BY <1>0, <1>3, <2>2, SenderAwaitDoes
    <3> QED
      BY <3>1, NothingSent DEF IsReading
  <2>3. CASE AnnounceBucket
    <3>1. /\ mail'[x] = <<[m |-> held[Sender], b |-> cur[Sender], key |-> fresh]>>
          /\ ~IsReading(x) /\ read' = read /\ buf' = buf
          /\ Numbered(held[Sender].chunks, Taken(x)) /\ In(held[Sender].chunks, buf[Sender][cur[Sender]])
      BY <1>0, <1>3, <2>3, AnnounceDoes
    <3>2. Announced(u)' = cur[Sender]
      <4>1. cur[Sender] \in {0, 1} /\ (cur[Sender] = 1 - (1 - cur[Sender]))
        BY BucketFacts
      <4>2. \/ pc'[Sender] = "drain" /\ cur'[Sender] = cur[Sender]
            \/ pc'[Sender] = "pull" /\ cur'[Sender] = 1 - cur[Sender]
        BY <2>3, AnnounceDoes
      <4> QED
        BY <1>3, <4>1, <4>2 DEF Announced
    <3>3. Letter(x)' = [m |-> held[Sender], b |-> cur[Sender], key |-> fresh] /\ Len(mail'[x]) = 1
      BY <3>1 DEF Letter
    <3> QED
      BY <1>3, <2>0, <3>1, <3>2, <3>3 DEF SentOf, IsReading
  <2> QED
    BY <1>3, <2>1, <2>2, <2>3 DEF SenderStep
<1>4. ASSUME NEW w \in Agents, Join(w) PROVE SentOf(x)'
  <2>1. UNCHANGED <<cur, mail, buf, read, coming>> /\ pc[w] = "init" /\ (w = Sender => pc'[w] = "pull")
    BY <1>4, JoinDoes
  <2>2. Taken(x)' = Taken(x)
    <3>1. CASE w = x
      BY <1>4, <3>1, CountsJoin
    <3>2. CASE w # x
      BY <1>0, <1>4, <3>2, OwnFrame, CountsSame
    <3> QED
      BY <3>1, <3>2
  <2>3. Announced(u)' = Announced(u)
    <3>1. CASE w = u
      BY <1>0, <2>1, <3>1 DEF Announced
    <3>2. CASE w # u
      <4>1. pc'[u] = pc[u]
        BY <1>0, <1>4, <3>2, OwnFrame DEF Same
      <4> QED
        BY <2>1, <4>1 DEF Announced
    <3> QED
      BY <3>1, <3>2
  <2> QED
    BY <1>0, <2>1, <2>2, <2>3, SentKept DEF IsReading
<1>5. ASSUME NEW w \in Agents, Device(w) PROVE SentOf(x)'
  <2>1. UNCHANGED <<pc, cur, mail, read, coming>>
    BY <1>5 DEF Device, op
  <2>2. Taken(x)' = Taken(x)
    <3>1. CASE w = x
      BY <1>5, <3>1, CountsDevice
    <3>2. CASE w # x
      BY <1>0, <1>5, <3>2, OwnFrame, CountsSame
    <3> QED
      BY <3>1, <3>2
  <2>3. Announced(u)' = Announced(u)
    BY <2>1 DEF Announced
  \* The sender fills the other buffer.
  <2>4. buf'[u][Announced(u)] = buf[u][Announced(u)]
    <3>1. CASE w = u /\ u = Sender
      <4>1. queue[Sender] # <<>> /\ queue[Sender] \in Seq(Copying) /\ held[Sender].chunks \in Seq(Nat \X Nat)
            /\ buf[Sender] \in [{0, 1} -> SUBSET (Int \X Int)] /\ cur[Sender] \in {0, 1}
        BY <1>5, <3>1, BucketFacts DEF Device
      <4>2. pc[Sender] = "pull"
        BY <4>1 DEF Chained, Bucket
      <4>3. Head(queue[Sender]).do = "fill" /\ Head(queue[Sender]).b = cur[Sender]
        <5>1. Waiting(queue[Sender], held[Sender].chunks, cur[Sender])
          BY <4>2 DEF Chained, Bucket
        <5>2. 1 \in DOMAIN queue[Sender] /\ Head(queue[Sender]) = queue[Sender][1]
          BY <4>1, TailIs
        <5> QED
          BY <5>1, <5>2 DEF Waiting
      <4>4. \E c : buf' = [buf EXCEPT ![Sender] = [buf[Sender] EXCEPT ![cur[Sender]] = c]]
        BY <1>5, <3>1, <4>3 DEF Device
      <4>5. Announced(u) = 1 - cur[Sender] /\ 1 - cur[Sender] # cur[Sender]
        BY <3>1, <4>1, <4>2 DEF Announced
      <4> QED
        BY <3>1, <4>1, <4>4, <4>5, TypedFns, Shape
    <3>2. CASE w = u /\ u \in Rollouts
      BY <1>5, <3>2, DeviceDoes
    <3>3. CASE w # u
      BY <1>0, <1>5, <3>3, OwnFrame DEF Same
    <3> QED
      BY <1>0, <3>1, <3>2, <3>3
  <2> QED
    BY <1>0, <2>1, <2>2, <2>3, <2>4, SentKept DEF IsReading
<1>6. ASSUME NEW w \in Rollouts, RolloutStep(w), w # x, w # u PROVE SentOf(x)'
  <2>1. x # Down(w)
    BY <1>6, Shape
  <2> QED
    BY <1>0, <1>6, <2>1, RolloutFrame, SentSame DEF SameLink
\* The worker's own steps.
<1>7. ASSUME RolloutStep(x) PROVE SentOf(x)'
  <2>0. /\ Same(u) /\ Announced(u)' = Announced(u) /\ buf'[u] = buf[u]
    BY <1>0, <1>7, RolloutFrame DEF Same, Announced
  <2>1. CASE FirstRead(x) \/ ReadNext(x)
    <3>1. /\ mail[x] # <<>> /\ mail'[x] = <<>> /\ coming'[x] = Letter(x).m
          /\ read'[x] = [state |-> "reading", b |-> 1 - cur[x], from |-> Letter(x).b, key |-> Letter(x).key]
      BY <2>1, BeginsRead
    <3>2. Letter(x).b = Announced(u) /\ In(Letter(x).m.chunks, buf[u][Announced(u)])
      BY <1>0, <3>1 DEF SentOf
    <3>3. Len(mail'[x]) <= 1
      BY <3>1
    <3> QED
      BY <2>0, <3>1, <3>2, <3>3 DEF SentOf
  <2>2. CASE Swap(x)
    <3>1. mail'[x] = mail[x] /\ read'[x] = NoRead
      BY <2>2, SwapDoes
    <3>2. Taken(x)' = Taken(x) /\ ~IsReading(x)'
      BY <1>0, <2>2, <3>1, CountsSwap DEF IsReading
    <3> QED
      BY <1>0, <2>0, <3>1, <3>2, SentKept
  <2>3. CASE Await(x) \/ Ends(x) \/ Loaded(x)
    <3>1. UNCHANGED <<mail, read, coming>>
      BY <2>3, AwaitDoes, LoadedDoes
    <3> QED
      BY <1>0, <2>0, <2>3, <3>1, CountsRest, SentKept DEF IsReading
  <2>4. CASE Transfer(x)
    <3>1. mail' = mail /\ read'[x].state = "done"
      BY <2>4, TransferDoes
    <3> QED
      BY <1>0, <2>0, <2>4, <3>1, CountsRest, SentKept DEF IsReading
  <2>5. CASE TransferError(x)
    <3>1. IsReading(x) /\ mail' = mail /\ read'[x] = NoRead
      BY <2>5, ErrorDoes
    <3>2. mail[x] = <<>>
      BY <1>0, <3>1 DEF SentOf
    <3> QED
      BY <1>0, <3>1, <3>2, NothingSent DEF IsReading
  <2> QED
    BY <1>7, <2>1, <2>2, <2>3, <2>4, <2>5 DEF RolloutStep
\* The steps of the worker before it.
<1>8. ASSUME u \in Rollouts, RolloutStep(u) PROVE SentOf(x)'
  <2>1. Same(x) /\ Taken(x)' = Taken(x) /\ u # Sender /\ Announced(u) = cur[u] /\ Announced(u)' = cur'[u]
        /\ coming'[x] = coming[x] /\ read'[x] = read[x]
    <3>1. Same(x)
      BY <1>0, <1>8, RolloutFrame
    <3>2. u # Sender
      BY <1>8, Shape
    <3> QED
      BY <1>0, <3>1, <3>2, CountsSame DEF Announced, Same
  <2>2. CASE FirstRead(u)
    <3>1. pc[u] = "first" /\ mail[x] = <<>> /\ ~IsReading(x)
      BY <1>0, <2>1, <2>2, FirstReadDoes, BoxIsEmpty DEF Out
    <3>2. mail'[x] = mail[x]
      BY <1>0, <2>2, TypedFns DEF FirstRead, BeginRead
    <3> QED
      BY <2>1, <3>1, <3>2, NothingSent DEF IsReading
  <2>3. CASE ReadNext(u)
    <3>1. cur' = cur /\ buf'[u][cur[u]] = buf[u][cur[u]]
      BY <1>8, <2>3, BeginsRead
    <3>2. mail'[x] = mail[x]
      BY <1>0, <2>3, TypedFns DEF ReadNext, BeginRead
    <3> QED
      BY <1>0, <2>1, <3>1, <3>2, SentKept DEF IsReading
  \* The bucket that u has read is the next one for x.
  <2>4. CASE Swap(u)
    <3>1. /\ pc[u] = "swap" /\ read[u].state = "done" /\ cur'[u] = 1 - cur[u] /\ buf' = buf
          /\ mail'[x] = <<[m |-> coming[u], b |-> 1 - cur[u], key |-> fresh]>>
          /\ ~IsReading(x) /\ mail[x] = <<>>
      <4>1. Down(u) # None
        BY <1>0, Shape
      <4> QED
        BY <1>0, <1>8, <2>4, <4>1, SwapDoes
    <3>2. Numbered(coming[u].chunks, Given(u)) /\ In(coming[u].chunks, buf[u][1 - cur[u]])
      BY <1>8, <3>1 DEF Chained, Reader, ReaderOf
    <3>3. Taken(x) = Given(u)
      <4>1. pc[u] # "dead" /\ ~Out(u)
        BY <2>1, <3>1 DEF Out
      <4>2. pc[x] # "dead"
        BY <4>1 DEF Chained, InOnePlace, PlaceOf
      <4>3. Had(u) = Taken(x) + 0
        BY <3>1, <4>1, <4>2 DEF Chained, Counted, CountOf
      <4>4. Had(u) = Given(u) /\ Taken(x) \in Nat
        BY <1>8, <2>4, CountsSwap, GivenIs
      <4> QED
        BY <4>3, <4>4
    <3>4. Letter(x)' = [m |-> coming[u], b |-> 1 - cur[u], key |-> fresh] /\ Len(mail'[x]) = 1
      BY <3>1 DEF Letter
    <3> QED
      BY <2>1, <3>1, <3>2, <3>3, <3>4 DEF SentOf, IsReading
  <2>5. CASE Await(u) \/ Ends(u)
    <3>1. mail[x] = <<>> /\ ~IsReading(x) /\ mail' = mail
      BY <1>0, <1>8, <2>5, AwaitDoes
    <3> QED
      BY <2>1, <3>1, NothingSent DEF IsReading
  <2>6. CASE Loaded(u) \/ TransferError(u)
    <3>1. UNCHANGED <<mail, cur, buf>>
      BY <1>8, <2>6, LoadedDoes, ErrorDoes
    <3> QED
      BY <1>0, <2>1, <3>1, SentKept DEF IsReading
  <2>7. CASE Transfer(u)
    <3>1. UNCHANGED <<mail, cur>> /\ buf'[u][cur[u]] = buf[u][cur[u]]
      BY <1>8, <2>7, TransferDoes
    <3> QED
      BY <1>0, <2>1, <3>1, SentKept DEF IsReading
  <2> QED
    BY <1>8, <2>2, <2>3, <2>4, <2>5, <2>6, <2>7 DEF RolloutStep
<1>9. CASE UNCHANGED vars
  BY <1>0, <1>9, SentSame DEF vars, chain, fill, op, Same
<1> QED
  BY <1>0, <1>1, <1>2, <1>3, <1>4, <1>5, <1>6, <1>7, <1>8, <1>9
     DEF Next, Step, Stop, SenderStep, RolloutStep


-----------------------------------------------------------------------------
(* Where what was announced is.                                              *)

\* What was announced stays where it is.
LEMMA PlaceKept ==
  ASSUME NEW x \in Rollouts, NEW u, u = Up(x), PlaceOf(x), (pc'[x] = "dead") <=> (pc[x] = "dead"),
         (pc'[u] = "dead") <=> (pc[u] = "dead"), Out(u)' <=> Out(u), key'[u] = key[u], mail'[x] = mail[x],
         notes'[u] = notes[u], IsReading(x)' <=> IsReading(x), IsReading(x) => read'[x].key = read[x].key
  PROVE  PlaceOf(x)'
<1>1. Letter(x)' = Letter(x)
  BY DEF Letter
<1> QED
  BY <1>1 DEF PlaceOf

\* A step of others leaves it where it is.
LEMMA PlaceSame ==
  ASSUME NEW x \in Rollouts, PlaceOf(x), Same(x), SameLink(x), Same(Up(x))
  PROVE  PlaceOf(x)'
<1>1. Out(Up(x))' <=> Out(Up(x))
  BY DEF Out, Same
<1> QED
  BY <1>1, PlaceKept DEF Same, SameLink, IsReading

\* Nothing is out.
LEMMA NothingOut ==
  ASSUME NEW x \in Rollouts, NEW u, u = Up(x), ~Out(u)', pc'[x] # "dead", mail'[x] = <<>>, ~IsReading(x)',
         notes'[u] = <<>>
  PROVE  PlaceOf(x)'
BY DEF PlaceOf

\* A bucket has just been announced.
LEMMA JustAnnounced ==
  ASSUME NEW x \in Rollouts, NEW u, u = Up(x), Out(u)', pc'[x] # "dead", ~IsReading(x)', notes'[u] = <<>>,
         NEW m, NEW b, mail'[x] = <<[m |-> m, b |-> b, key |-> key'[u]]>>
  PROVE  PlaceOf(x)'
<1>1. Letter(x)'.key = key'[u] /\ mail'[x] # <<>>
  BY DEF Letter
<1> QED
  BY <1>1 DEF PlaceOf

\* Every step keeps what was announced in one place.
LEMMA PlaceStep ==
  ASSUME Chained, [Next]_vars
  PROVE  InOnePlace'
<1> SUFFICES ASSUME NEW x \in Rollouts PROVE PlaceOf(x)'
  BY DEF InOnePlace
<1> DEFINE u == Up(x)
<1>0. /\ PlaceOf(x) /\ x \in Agents /\ x # Sender /\ NoRead.state = "none" /\ u \in Agents /\ u # x /\ Down(u) = x
      /\ u = Sender \/ u \in Rollouts
      /\ u = Sender => pc[u] # "dead"
  BY Shape DEF Chained, Placed, InOnePlace, NoRead
<1>1. CASE NextSync
  <2>1. /\ pc[u] \in {"done", "loaded"} /\ pc[u] = (IF u \in Rollouts THEN "loaded" ELSE "done")
        /\ UNCHANGED <<mail, read, notes>> /\ pc'[u] = "init" /\ pc'[x] = "init"
    BY <1>1, <1>0 DEF NextSync, HasEnded
  <2>2. mail[x] = <<>> /\ ~IsReading(x) /\ notes[u] = <<>>
    BY <2>1, <1>0, BoxIsEmpty DEF Out
  <2>3. ~Out(u)'
    BY <2>1 DEF Out
  <2> QED
    BY <2>1, <2>2, <2>3, NothingOut DEF IsReading
<1>2. CASE SenderStep /\ u # Sender
  <2>1. x # Down(Sender)
    BY <1>2, Shape
  <2> QED
    BY <1>0, <1>2, <2>1, SenderFrame, PlaceSame
<1>3. ASSUME SenderStep, u = Sender PROVE PlaceOf(x)'
  <2>0. Same(x)
    BY <1>0, <1>3, SenderFrame
  <2>1. CASE FillChunk \/ Synchronize
    <3>1. pc[Sender] = "pull" /\ key' = key /\ mail' = mail /\ notes' = notes /\ read' = read
      BY <2>1, FillDoes, SynchronizeDoes
    <3>2. Out(u)' <=> Out(u)
      <4>1. CASE FillChunk
        <5>1. pc' = pc
          BY <4>1, FillDoes
        <5> QED
          BY ONLY <3>1, <5>1 DEF Out
      <4>2. CASE Synchronize
        <5>1. pc'[Sender] = IF key[Sender] = 0 THEN "announce" ELSE "await"
          BY <4>2, SynchronizeDoes
        <5> QED
          BY <1>3, <3>1, <5>1 DEF Out
      <4> QED
        BY <2>1, <4>1, <4>2
    <3>3. pc'[u] # "dead"
      <4>1. pc'[Sender] \in {"pull", "announce", "await"}
        BY <2>1, FillDoes, SynchronizeDoes
      <4> QED
        BY <1>3, <4>1
    <3>4. /\ (pc'[x] = "dead") <=> (pc[x] = "dead")
          /\ (pc'[u] = "dead") <=> (pc[u] = "dead")
      BY <1>0, <1>3, <2>0, <3>1, <3>3 DEF Same
    <3> QED
      BY <1>0, <3>1, <3>2, <3>4, PlaceKept DEF IsReading
  <2>2. CASE SenderAwaits \/ SenderEnds
    <3>1. /\ mail[x] = <<>> /\ ~IsReading(x) /\ mail' = mail /\ read' = read /\ pc'[Sender] \in {"announce", "done"}
          /\ notes'[Sender] = <<>> /\ pc[x] # "dead"
      BY <1>0, <1>3, <2>2, SenderAwaitDoes
    <3>2. ~Out(u)'
      BY <1>3, <3>1 DEF Out
    <3> QED
      BY <1>3, <2>0, <3>1, <3>2, NothingOut DEF IsReading, Same
  <2>3. CASE AnnounceBucket
    <3>1. /\ mail'[x] = <<[m |-> held[Sender], b |-> cur[Sender], key |-> key'[Sender]]>> /\ key'[Sender] # 0
          /\ ~IsReading(x) /\ read' = read /\ notes' = notes /\ notes[Sender] = <<>> /\ pc[x] # "dead"
          /\ pc'[Sender] \in {"drain", "pull"}
      BY <1>0, <1>3, <2>3, AnnounceDoes
    <3>2. Out(u)'
      BY <1>3, <3>1 DEF Out
    <3> QED
      BY <1>3, <2>0, <3>1, <3>2, JustAnnounced DEF IsReading, Same
  <2> QED
    BY <1>3, <2>1, <2>2, <2>3 DEF SenderStep
<1>4. ASSUME NEW w \in Agents, Join(w) PROVE PlaceOf(x)'
  <2>1. UNCHANGED <<key, mail, notes, read>> /\ pc[w] = "init" /\ (w = Sender => pc'[w] = "pull")
        /\ (w \in Rollouts => pc'[w] \in {"first", "refused"})
    BY <1>4, JoinDoes
  <2>2. \A y \in Agents \ {w} : pc'[y] = pc[y]
    BY <1>4, OwnFrame DEF Same
  <2>3. (pc'[x] = "dead") <=> (pc[x] = "dead")
    BY <1>0, <2>1, <2>2
  <2>4. (pc'[u] = "dead") <=> (pc[u] = "dead")
    BY <1>0, <2>1, <2>2
  <2>5. Out(u)' <=> Out(u)
    <3>1. CASE w = u /\ u = Sender
      <4>1. key[Sender] = 0
        BY <2>1, <3>1 DEF Chained, Bucket
      <4> QED
        BY <2>1, <3>1, <4>1 DEF Out
    <3>2. CASE w = u /\ u # Sender
      BY <1>0, <2>1, <3>2 DEF Out
    <3>3. CASE w # u
      BY <1>0, <2>1, <2>2, <3>3 DEF Out
    <3> QED
      BY <3>1, <3>2, <3>3
  <2> QED
    BY <1>0, <2>1, <2>3, <2>4, <2>5, PlaceKept DEF IsReading
<1>5. ASSUME NEW w \in Agents, Device(w) PROVE PlaceOf(x)'
  <2>1. UNCHANGED <<pc, key, mail, notes, read>>
    BY <1>5 DEF Device, op
  <2> QED
    BY <1>0, <2>1, PlaceKept DEF Out, IsReading
<1>6. ASSUME NEW w \in Rollouts, RolloutStep(w), w # x, w # u PROVE PlaceOf(x)'
  <2>1. x # Down(w)
    BY <1>6, Shape
  <2> QED
    BY <1>0, <1>6, <2>1, RolloutFrame, PlaceSame
\* The worker's own steps.
<1>7. ASSUME RolloutStep(x) PROVE PlaceOf(x)'
  <2>0. Same(u) /\ (Out(u)' <=> Out(u)) /\ pc'[u] = pc[u] /\ key'[u] = key[u]
    BY <1>0, <1>7, RolloutFrame DEF Same, Out
  <2>1. CASE FirstRead(x) \/ ReadNext(x)
    <3>1. /\ mail[x] # <<>> /\ mail'[x] = <<>> /\ notes' = notes /\ IsReading(x)' /\ read'[x].key = Letter(x).key
      <4>1. /\ mail[x] # <<>> /\ mail'[x] = <<>> /\ notes' = notes
            /\ read'[x] = [state |-> "reading", b |-> 1 - cur[x], from |-> Letter(x).b, key |-> Letter(x).key]
        BY <2>1, BeginsRead
      <4> QED
        BY <4>1 DEF IsReading
    <3>2. pc[x] \in {"first", "read"} /\ pc'[x] \in {"swap", "await"}
      BY <2>1, FirstReadDoes, ReadNextDoes
    <3>3. pc[u] # "dead" => Letter(x).key = key[u] /\ notes[u] = <<>> /\ Out(u)
      BY <1>0, <3>1, <3>2 DEF PlaceOf
    <3> QED
      BY <2>0, <3>1, <3>2, <3>3 DEF PlaceOf
  <2>2. CASE Swap(x) \/ Await(x) \/ Ends(x) \/ Loaded(x)
    <3>1. mail'[x] = mail[x] /\ pc[x] # "dead"
      BY <2>2, SwapDoes, AwaitDoes, LoadedDoes
    <3>2. pc'[x] # "dead"
      <4>1. pc'[x] \in {"drain", "done", "read", "swap", "loaded"}
        BY <2>2, SwapDoes, AwaitDoes, LoadedDoes
      <4> QED
        BY <4>1
    <3>3. notes'[u] = notes[u]
      <4>1. CASE Swap(x) \/ Loaded(x)
        BY <4>1, SwapDoes, LoadedDoes
      <4>2. CASE Await(x) \/ Ends(x)
        BY <1>0, <4>2, TypedFns DEF Await, Ends, Notified
      <4> QED
        BY <2>2, <4>1, <4>2
    <3>4. (IsReading(x)' <=> IsReading(x)) /\ (IsReading(x) => read'[x].key = read[x].key)
      <4>1. CASE Swap(x)
        BY <1>0, <4>1, SwapDoes DEF IsReading
      <4>2. CASE Await(x) \/ Ends(x) \/ Loaded(x)
        BY <4>2, AwaitDoes, LoadedDoes DEF IsReading
      <4> QED
        BY <2>2, <4>1, <4>2
    <3> QED
      BY <1>0, <2>0, <3>1, <3>2, <3>3, <3>4, PlaceKept
  <2>3. CASE Transfer(x)
    <3>1. /\ IsReading(x) /\ mail' = mail /\ pc' = pc /\ pc[u] # "dead" /\ pc[x] # "dead" /\ ~IsReading(x)'
          /\ notes'[u] = Append(notes[u], read[x].key)
      BY <2>3, TransferDoes DEF IsReading
    <3>2. mail[x] = <<>> /\ read[x].key = key[u] /\ notes[u] = <<>> /\ Out(u)
      BY <1>0, <3>1 DEF PlaceOf
    <3>3. notes'[u] = <<key[u]>>
      BY <3>1, <3>2
    <3> QED
      BY <2>0, <3>1, <3>2, <3>3 DEF PlaceOf
  <2>4. CASE TransferError(x)
    <3>1. IsReading(x) /\ mail' = mail /\ notes' = notes /\ pc'[x] = "dead" /\ pc[x] # "dead" /\ ~IsReading(x)'
      <4>1. pc[x] # "dead"
        BY <2>4, ReadsIt DEF TransferError
      <4> QED
        BY <1>0, <2>4, <4>1, ErrorDoes DEF IsReading
    <3>2. pc[u] # "dead" => mail[x] = <<>> /\ notes[u] = <<>> /\ Out(u)
      BY <1>0, <3>1 DEF PlaceOf
    <3> QED
      BY <2>0, <3>1, <3>2 DEF PlaceOf
  <2> QED
    BY <1>7, <2>1, <2>2, <2>3, <2>4 DEF RolloutStep
\* The steps of the worker before it.
<1>8. ASSUME u \in Rollouts, RolloutStep(u) PROVE PlaceOf(x)'
  <2>1. Same(x) /\ u # Sender /\ Down(u) # None /\ pc'[x] = pc[x] /\ read'[x] = read[x]
        /\ (IsReading(x)' <=> IsReading(x))
    <3>1. Same(x)
      BY <1>0, <1>8, RolloutFrame
    <3>2. u # Sender /\ Down(u) # None
      BY <1>0, <1>8, Shape
    <3> QED
      BY <3>1, <3>2 DEF Same, IsReading
  <2>2. CASE FirstRead(u) \/ ReadNext(u)
    <3>1. key' = key /\ notes' = notes
      BY <1>8, <2>2, BeginsRead
    <3>2. mail'[x] = mail[x]
      BY <1>0, <2>2, TypedFns DEF FirstRead, ReadNext, BeginRead
    <3>3. \/ pc[u] = "first" /\ pc'[u] = "swap"
          \/ pc[u] = "read" /\ pc'[u] = "await"
      BY <1>8, <2>1, <2>2, FirstReadDoes, ReadNextDoes
    <3>4. Out(u)' <=> Out(u)
      BY <2>1, <3>3 DEF Out
    <3> QED
      BY <1>0, <2>1, <3>1, <3>2, <3>3, <3>4, PlaceKept
  <2>3. CASE Swap(u)
    <3>1. /\ pc[u] = "swap" /\ pc'[u] \in {"drain", "read"} /\ notes' = notes
          /\ mail'[x] = <<[m |-> coming[u], b |-> 1 - cur[u], key |-> key'[u]]>>
          /\ ~IsReading(x) /\ notes[u] = <<>>
      BY <1>0, <1>8, <2>1, <2>3, SwapDoes
    <3>2. pc[x] # "dead"
      BY <1>0, <2>1, <3>1 DEF PlaceOf, Out
    <3>3. Out(u)'
      BY <2>1, <3>1 DEF Out
    <3> QED
      BY <2>1, <3>1, <3>2, <3>3, JustAnnounced
  <2>4. CASE Await(u) \/ Ends(u)
    <3>1. /\ pc[u] \in {"await", "drain"} /\ pc'[u] \in {"swap", "done"} /\ notes[u] # <<>> /\ notes'[u] = <<>>
          /\ mail[x] = <<>> /\ mail' = mail /\ ~IsReading(x)
      BY <1>0, <1>8, <2>4, AwaitDoes
    <3>2. pc[x] # "dead"
      BY <1>0, <3>1 DEF PlaceOf
    <3>3. ~Out(u)'
      BY <2>1, <3>1 DEF Out
    <3> QED
      BY <2>1, <3>1, <3>2, <3>3, NothingOut
  <2>5. CASE Loaded(u)
    <3>1. pc[u] = "done" /\ pc'[u] = "loaded" /\ UNCHANGED <<key, mail, notes>>
      BY <1>8, <2>5, LoadedDoes
    <3>2. Out(u)' <=> Out(u)
      BY <2>1, <3>1 DEF Out
    <3> QED
      BY <1>0, <2>1, <3>1, <3>2, PlaceKept
  <2>6. CASE Transfer(u)
    <3>1. pc' = pc /\ UNCHANGED <<key, mail>> /\ notes'[u] = notes[u]
      <4>1. u \in Agents \ {Up(u)}
        BY <1>8, Shape
      <4> QED
        BY <1>8, <2>6, <4>1, TransferDoes
    <3>2. Out(u)' <=> Out(u)
      BY <2>1, <3>1 DEF Out
    <3> QED
      BY <1>0, <2>1, <3>1, <3>2, PlaceKept
  <2>7. CASE TransferError(u)
    <3>1. pc'[u] = "dead"
      BY <1>8, <2>7, ErrorDoes
    <3> QED
      BY <3>1 DEF PlaceOf
  <2> QED
    BY <1>8, <2>2, <2>3, <2>4, <2>5, <2>6, <2>7 DEF RolloutStep
<1>9. CASE UNCHANGED vars
  <2>1. Same(x) /\ Same(u) /\ SameLink(x)
    BY <1>9 DEF vars, chain, fill, op, Same, SameLink
  <2> QED
    BY <1>0, <2>1, PlaceSame
<1> QED
  BY <1>0, <1>1, <1>2, <1>3, <1>4, <1>5, <1>6, <1>7, <1>8, <1>9
     DEF Next, Step, Stop, SenderStep, RolloutStep

-----------------------------------------------------------------------------
(* The counts.                                                               *)

\* The counts stay as they are.
LEMMA CountKept ==
  ASSUME NEW x \in Rollouts, NEW u, u = Up(x), CountOf(x), pc'[x] # "dead" => pc[x] # "dead",
         pc'[u] # "dead" => pc[u] # "dead", Had(u)' = Had(u), Taken(x)' = Taken(x), mail'[x] = mail[x]
  PROVE  CountOf(x)'
<1>1. Letter(x)' = Letter(x)
  BY DEF Letter
<1> QED
  BY <1>1 DEF CountOf

\* An agent that a step leaves alone has had what it had.
LEMMA HadSame ==
  ASSUME NEW x \in Rollouts, NEW u, u = Up(x), Same(u), base' = base, pulled' = pulled
  PROVE  Had(u)' = Had(u)
<1>1. u = Sender \/ (u \in Rollouts /\ u # Sender)
  BY Shape
<1>2. CASE u = Sender
  BY <1>2 DEF Had, Same
<1>3. CASE u \in Rollouts /\ u # Sender
  BY <1>3, CountsSame
<1> QED
  BY <1>1, <1>2, <1>3

\* Every step keeps the counts in balance.
LEMMA CountStep ==
  ASSUME Chained, [Next]_vars
  PROVE  Counted'
<1> SUFFICES ASSUME NEW x \in Rollouts PROVE CountOf(x)'
  BY DEF Counted
<1> DEFINE u == Up(x)
<1>0. /\ CountOf(x) /\ x \in Agents /\ x # Sender /\ u \in Agents /\ u # x /\ Down(u) = x
      /\ u = Sender \/ (u \in Rollouts /\ u # Sender)
  BY Shape DEF Chained, Counted
<1>00. Taken(x) \in Nat /\ Given(x) \in Nat /\ \A a \in Nat : a + 0 = a /\ a - 0 = a
  BY GivenIs
<1>1. CASE NextSync
  <2>1. /\ pc[u] = (IF u \in Rollouts THEN "loaded" ELSE "done") /\ pc'[u] = "init" /\ pc[x] = "loaded" /\ pc'[x] = "init"
        /\ UNCHANGED <<mail, queue, got>> /\ base' = base + Len(Sizes) /\ pulled' = 0 /\ held'[u] = Nothing
    BY <1>1, <1>0 DEF NextSync, HasEnded
  <2>2. Taken(x)' = Taken(x)
    BY <2>1 DEF Taken, Given
  <2>3. Had(u)' = Had(u)
    <3>1. CASE u = Sender
      <4>1. pc[Sender] = "done" /\ pulled = Len(Sizes) /\ base \in Nat /\ Len(Sizes) \in Nat
        <5>1. pc[Sender] = "done"
          BY <2>1, <3>1, Shape
        <5> QED
          BY <5>1, SizesAre DEF Chained, Bucket, Types
      <4>2. Had(u) = base + Len(Sizes) - 0
        BY <3>1, <4>1 DEF Had
      <4>3. Had(u)' = base + Len(Sizes) + 0 - 0
        <5>1. Len(Nothing.chunks) = 0
          BY NothingIs
        <5> QED
          BY <2>1, <3>1, <5>1 DEF Had
      <4> QED
        BY <4>1, <4>2, <4>3
    <3>2. CASE u # Sender
      BY <1>0, <2>1, <3>2 DEF Had, Given
    <3> QED
      BY <3>1, <3>2
  <2>3a. pc[x] # "dead" /\ pc[u] # "dead"
    BY <2>1
  <2> QED
    BY <1>0, <2>1, <2>2, <2>3, <2>3a, CountKept
<1>2. CASE SenderStep /\ u # Sender
  <2>1. x # Down(Sender)
    BY <1>2, Shape
  <2>2. Same(x) /\ SameLink(x) /\ Same(u) /\ u \in Rollouts
    BY <1>0, <1>2, <2>1, SenderFrame
  <2>3. Taken(x)' = Taken(x) /\ Had(u)' = Had(u)
    BY <1>0, <1>2, <2>2, CountsSame
  <2> QED
    BY <1>0, <2>2, <2>3, CountKept DEF Same, SameLink
<1>3. ASSUME SenderStep, u = Sender PROVE CountOf(x)'
  <2>0. /\ pc'[x] = pc[x] /\ Taken(x)' = Taken(x) /\ pc[u] # "dead"
        /\ base \in Nat /\ pulled \in Nat /\ Len(held[Sender].chunks) \in Nat
    <3>1. Same(x)
      BY <1>0, <1>3, SenderFrame
    <3>2. base \in Nat /\ pulled \in Nat /\ pc[Sender] # "dead"
      <4>1. base \in Nat /\ pulled \in 0..Len(Sizes) /\ pc[Sender] # "dead"
        BY DEF Chained, Types, Placed
      <4> QED
        BY <4>1, SizesAre
    <3>3. Len(held[Sender].chunks) \in Nat
      BY BucketFacts, LenIs
    <3> QED
      BY <1>0, <1>3, <3>1, <3>2, <3>3, CountsSame DEF Same
  <2>1. CASE FillChunk
    <3>1. /\ pc[Sender] = "pull" /\ pulled' = pulled + 1 /\ Len(held'[Sender].chunks) = Len(held[Sender].chunks) + 1
          /\ base' = base /\ pc' = pc /\ mail' = mail
      BY <2>1, FillDoes
    <3>2. Had(u) = base + pulled - Len(held[Sender].chunks)
      BY <1>3, <3>1 DEF Had
    <3>3. Had(u)' = base + (pulled + 1) - (Len(held[Sender].chunks) + 1)
      BY <1>3, <3>1 DEF Had
    <3>4. Had(u)' = Had(u)
      BY <2>0, <3>2, <3>3
    <3> QED
      BY <1>0, <2>0, <3>1, <3>4, CountKept
  <2>2. CASE Synchronize \/ SenderAwaits \/ SenderEnds
    <3>1. /\ base' = base /\ pulled' = pulled /\ mail' = mail /\ held'[Sender].chunks = held[Sender].chunks
      BY <2>2, SynchronizeDoes, SenderAwaitDoes
    <3>2. pc[Sender] \in {"drain", "done"} <=> pc'[Sender] \in {"drain", "done"}
      <4>1. CASE Synchronize
        BY <4>1, SynchronizeDoes
      <4>2. CASE SenderAwaits \/ SenderEnds
        BY <4>2, SenderAwaitDoes
      <4> QED
        BY <2>2, <4>1, <4>2
    <3>3. Had(u)' = Had(u)
      BY <1>3, <3>1, <3>2 DEF Had
    <3> QED
      BY <1>0, <2>0, <3>1, <3>3, CountKept
  <2>3. CASE AnnounceBucket
    <3> DEFINE n == Len(held[Sender].chunks)
    <3>1. /\ mail'[x] = <<[m |-> held[Sender], b |-> cur[Sender], key |-> fresh]>>
          /\ IF held[Sender].last THEN pc'[Sender] = "drain" /\ held'[Sender] = held[Sender]
             ELSE pc'[Sender] = "pull" /\ held'[Sender] = Nothing
          /\ base' = base /\ pulled' = pulled
          /\ Taken(x) = base + pulled - n
      BY <1>0, <1>3, <2>3, AnnounceDoes
    <3>2. Had(u)' = base + pulled - 0
      <4>1. CASE held[Sender].last
        BY <1>3, <3>1, <4>1 DEF Had
      <4>2. CASE ~held[Sender].last
        <5>1. Len(Nothing.chunks) = 0
          BY NothingIs
        <5>2. pc'[Sender] = "pull" /\ held'[Sender] = Nothing
          BY <3>1, <4>2
        <5> QED
          BY <1>3, <3>1, <5>1, <5>2 DEF Had
      <4> QED
        BY <4>1, <4>2
    <3>3. mail'[x] # <<>> /\ Letter(x)'.m = held[Sender]
      BY <3>1 DEF Letter
    <3>4. Had(u)' = Taken(x) + n
      BY <2>0, <3>1, <3>2
    <3> QED
      BY <2>0, <3>3, <3>4 DEF CountOf
  <2> QED
    BY <1>3, <2>1, <2>2, <2>3 DEF SenderStep
<1>4. ASSUME NEW w \in Agents, Join(w) \/ Device(w) PROVE CountOf(x)'
  <2>1. /\ \A y \in Agents \ {w} : Same(y)
        /\ mail' = mail /\ base' = base /\ pulled' = pulled /\ held' = held
    BY <1>4, OwnFrame
  <2>2. pc[w] # "dead" \/ pc' = pc
    BY <1>4, JoinDoes DEF Device
  <2>3. \A y \in Agents : pc[y] = "dead" => pc'[y] = "dead"
    BY <2>1, <2>2 DEF Same
  <2>4. Taken(x)' = Taken(x)
    <3>1. CASE w = x
      BY <1>4, <3>1, CountsJoin, CountsDevice
    <3>2. CASE w # x
      BY <1>0, <2>1, <3>2, CountsSame
    <3> QED
      BY <3>1, <3>2
  <2>5. Had(u)' = Had(u)
    <3>1. CASE w = u /\ u # Sender
      BY <1>0, <1>4, <3>1, CountsJoin, CountsDevice
    <3>2. CASE w = u /\ u = Sender
      <4>1. pc[Sender] \in {"drain", "done"} <=> pc'[Sender] \in {"drain", "done"}
        <5>1. CASE Join(w)
          BY <3>2, <5>1, JoinDoes
        <5>2. CASE Device(w)
          BY <5>2 DEF Device
        <5> QED
          BY <1>4, <5>1, <5>2
      <4> QED
        BY <2>1, <3>2, <4>1 DEF Had
    <3>3. CASE w # u
      BY <1>0, <2>1, <3>3, HadSame
    <3> QED
      BY <3>1, <3>2, <3>3
  <2> QED
    BY <1>0, <2>1, <2>3, <2>4, <2>5, CountKept
<1>6. ASSUME NEW w \in Rollouts, RolloutStep(w), w # x, w # u PROVE CountOf(x)'
  <2>1. x # Down(w)
    BY <1>6, Shape
  <2>2. Same(x) /\ SameLink(x) /\ Same(u) /\ base' = base /\ pulled' = pulled
    BY <1>0, <1>6, <2>1, RolloutFrame
  <2>3. Taken(x)' = Taken(x) /\ Had(u)' = Had(u)
    BY <1>0, <2>2, CountsSame, HadSame
  <2> QED
    BY <1>0, <2>2, <2>3, CountKept DEF Same, SameLink
\* The worker's own steps.
<1>7. ASSUME RolloutStep(x) PROVE CountOf(x)'
  <2>0. Had(u)' = Had(u) /\ pc'[u] = pc[u]
    <3>1. Same(u) /\ base' = base /\ pulled' = pulled
      BY <1>0, <1>7, RolloutFrame
    <3> QED
      BY <3>1, HadSame DEF Same
  \* It takes what was on its way.
  <2>1. CASE FirstRead(x) \/ ReadNext(x)
    <3>1. mail[x] # <<>> /\ mail'[x] = <<>>
      BY <2>1, BeginsRead
    <3>2. pc[x] # "dead"
      BY <2>1, FirstReadDoes, ReadNextDoes
    <3>3. Taken(x)' = Taken(x) + Len(Letter(x).m.chunks) /\ Len(Letter(x).m.chunks) \in Nat
      BY <2>1, <3>1, CountsBegin, OneLetter, LenIs
    <3>4. Taken(x)' = Taken(x)' + 0
      BY <1>00, <3>3
    <3> QED
      BY <1>0, <2>0, <3>1, <3>2, <3>3, <3>4 DEF CountOf
  <2>2. CASE Swap(x) \/ Await(x) \/ Ends(x) \/ Loaded(x) \/ Transfer(x)
    <3>1. mail'[x] = mail[x]
      BY <2>2, SwapDoes, AwaitDoes, LoadedDoes, TransferDoes
    <3>2. pc[x] # "dead"
      BY <2>2, SwapDoes, AwaitDoes, LoadedDoes, TransferDoes
    <3>3. Taken(x)' = Taken(x)
      BY <2>2, CountsSwap, CountsRest
    <3> QED
      BY <1>0, <2>0, <3>1, <3>2, <3>3, CountKept
  <2>3. CASE TransferError(x)
    BY <2>3, ErrorDoes DEF CountOf
  <2> QED
    BY <1>7, <2>1, <2>2, <2>3 DEF RolloutStep
\* The steps of the worker before it.
<1>8. ASSUME u \in Rollouts, RolloutStep(u) PROVE CountOf(x)'
  <2>1. Taken(x)' = Taken(x) /\ pc'[x] = pc[x] /\ Down(u) # None
    <3>1. Same(x)
      BY <1>0, <1>8, RolloutFrame
    <3>2. Down(u) # None
      BY <1>0, <1>8, Shape
    <3> QED
      BY <1>0, <3>1, <3>2, CountsSame DEF Same
  <2>2. CASE FirstRead(u) \/ ReadNext(u)
    <3>1. mail'[x] = mail[x]
      BY <1>0, <2>2, TypedFns DEF FirstRead, ReadNext, BeginRead
    <3>2. pc[u] # "dead"
      BY <1>8, <2>2, FirstReadDoes, ReadNextDoes
    <3>3. Had(u)' = Had(u)
      BY <1>8, <2>2, CountsBegin
    <3> QED
      BY <1>0, <2>1, <3>1, <3>2, <3>3, CountKept
  \* What it has had is announced.
  <2>3. CASE Swap(u)
    <3>1. /\ pc[u] # "dead" /\ mail[x] = <<>>
          /\ mail'[x] = <<[m |-> coming[u], b |-> 1 - cur[u], key |-> fresh]>>
      BY <1>0, <1>8, <2>1, <2>3, SwapDoes
    <3>2. Had(u)' = Had(u) + Len(coming[u].chunks)
      BY <1>8, <2>3, CountsSwap
    <3>3. pc[x] # "dead" => Had(u) = Taken(x)
      BY <1>0, <1>00, <3>1 DEF CountOf
    <3>4. mail'[x] # <<>> /\ Letter(x)'.m = coming[u]
      BY <3>1 DEF Letter
    <3> QED
      BY <2>1, <3>2, <3>3, <3>4 DEF CountOf
  <2>4. CASE Await(u) \/ Ends(u) \/ Loaded(u) \/ Transfer(u)
    <3>1. mail' = mail
      BY <1>8, <2>4, AwaitDoes, LoadedDoes, TransferDoes
    <3>2. pc[u] # "dead"
      BY <1>8, <2>4, AwaitDoes, LoadedDoes, TransferDoes
    <3>3. Had(u)' = Had(u)
      BY <1>8, <2>4, CountsRest
    <3> QED
      BY <1>0, <2>1, <3>1, <3>2, <3>3, CountKept
  <2>5. CASE TransferError(u)
    BY <1>8, <2>5, ErrorDoes DEF CountOf
  <2> QED
    BY <1>8, <2>2, <2>3, <2>4, <2>5 DEF RolloutStep
<1>9. CASE UNCHANGED vars
  <2>1. Same(x) /\ Same(u) /\ mail' = mail /\ base' = base /\ pulled' = pulled
    BY <1>9 DEF vars, chain, fill, op, Same
  <2>2. Taken(x)' = Taken(x) /\ Had(u)' = Had(u)
    BY <1>0, <2>1, CountsSame, HadSame
  <2> QED
    BY <1>0, <2>1, <2>2, CountKept DEF Same
<1> QED
  BY <1>0, <1>1, <1>2, <1>3, <1>4, <1>6, <1>7, <1>8, <1>9
     DEF Next, Step, Stop, SenderStep, RolloutStep

-----------------------------------------------------------------------------
(* The invariant.                                                            *)

\* Every step keeps the invariant.
LEMMA ChainedStep ==
  ASSUME Chained, [Next]_vars
  PROVE  Chained'
<1>1. Types'
  BY TypesStep
<1>2. Placed' /\ Joined' /\ Bucket'
  BY <1>1, PlacedStep, JoinedStep, BucketStep
<1> QED
  BY <1>1, <1>2, LoaderStep, ReaderStep, SentStep, PlaceStep, CountStep DEF Chained

\* A reader reads the buffer that the agent before it announced, which is
\* its send_buf, and that agent itself reads into the other one.
LEMMA InOneUse == Chained => BuffersInOneUse
<1> SUFFICES ASSUME Chained, NEW w \in Rollouts
             PROVE  /\ read[w].state = "reading" =>
                         /\ \A i \in DOMAIN queue[w] : queue[w][i].b # read[w].b
                         /\ next[w] # None /\ read[next[w]].state = "reading" => read[next[w]].from # read[w].b
                    /\ \A i \in DOMAIN got[w] : got[w][i] = i - 1
  BY DEF BuffersInOneUse
<1>1. LoaderOf(w) /\ ReaderOf(w) /\ w # Sender
  BY Shape DEF Chained, Loader, Reader
<1>2. ASSUME read[w].state = "reading"
      PROVE  /\ \A i \in DOMAIN queue[w] : queue[w][i].b # read[w].b
             /\ next[w] # None /\ read[next[w]].state = "reading" => read[next[w]].from # read[w].b
  <2>1. pc[w] \in {"await", "swap"} /\ next[w] = Down(w)
    BY <1>2, ReadsIt, NextOfWorker
  <2>2. read[w].b = 1 - cur[w] /\ 1 - cur[w] # cur[w]
    BY <1>1, <2>1, OfWorker DEF ReaderOf
  <2>3. \A i \in DOMAIN queue[w] : queue[w][i].b = cur[w]
    BY <1>1 DEF LoaderOf
  <2>4. ASSUME Down(w) # None, IsReading(Down(w)) PROVE read[Down(w)].from = cur[w]
    <3>1. Down(w) \in Rollouts /\ Up(Down(w)) = w
      BY <2>4, Shape
    <3>2. SentOf(Down(w))
      BY <3>1 DEF Chained, Sent
    <3>3. read[Down(w)].from = Announced(w)
      BY <2>4, <3>1, <3>2 DEF SentOf
    <3> QED
      BY <1>1, <3>3 DEF Announced
  <2> QED
    BY <2>1, <2>2, <2>3, <2>4 DEF IsReading
<1>3. \A i \in DOMAIN got[w] : got[w][i] = i - 1
  BY <1>1 DEF LoaderOf
<1> QED
  BY <1>2, <1>3

\* While an agent READs a bucket into one of its two buffers, the agent after it
\* and its own loader use only the other one, and every loader has had every
\* chunk once, in order and unchanged: _receive_weight_chunks and ReadableOperation
\* of the CNIXL engine, for any number of agents, any weights, any number of syncs,
\* and transfers that fail.
THEOREM OneUse == Spec => []BuffersInOneUse
<1>1. Init => Chained
  BY ChainedInit
<1>2. Chained /\ [Next]_vars => Chained'
  BY ChainedStep
<1>3. Chained => BuffersInOneUse
  BY InOneUse
<1> QED
  BY <1>1, <1>2, <1>3, PTL DEF Spec

-----------------------------------------------------------------------------
(* What the chunks make of buckets.                                          *)

\* A set of numbers that is not empty has a least one.
LEMMA LeastNat == ASSUME NEW T \in SUBSET Nat, T # {} PROVE \E n \in T : \A m \in T : n <= m
<1> DEFINE R == OpToRel(<, Nat)
<1>1. IsWellFoundedOn(R, Nat)
  BY NatLessThanWellFounded
<1>2. \A m \in Nat, n \in Nat : m < n => <<m, n>> \in R
  BY DEF OpToRel
<1> HIDE DEF R
<1>3. PICK n \in T : \A m \in T : ~(<<m, n>> \in R)
  BY <1>1, WFMin
<1>4. \A m \in T : ~(m < n)
  BY <1>2, <1>3
<1> QED
  BY <1>4

\* Induction over the numbers, stated of a set.
LEMMA NatSets ==
  ASSUME NEW S \in SUBSET Nat, 0 \in S, \A n \in S : n + 1 \in S
  PROVE  S = Nat
<1>1. SUFFICES ASSUME Nat \ S # {} PROVE FALSE
  OBVIOUS
<1>2. PICK n \in Nat \ S : \A m \in Nat \ S : n <= m
  <2>1. Nat \ S \in SUBSET Nat
    OBVIOUS
  <2> QED
    BY <1>1, <2>1, LeastNat
<1>3. n # 0 /\ n - 1 \in Nat
  BY <1>2
<1>4. n - 1 \in S
  BY <1>2, <1>3
<1>5. (n - 1) + 1 \in S
  BY <1>4
<1> QED
  BY <1>2, <1>5


\* The two recursions of the promise: over the chunks of sync s, and (s = 0) over the syncs.
First(s) == IF s = 0 THEN 0 ELSE [full |-> 0, bytes |-> 0]
OneStep(s, acc, i) == IF s = 0 THEN acc + BucketsOf(i) ELSE Packed(acc, Loads[s][i])
IsLoop(s, k, f) == f = [b \in 0 .. k |-> IF b = 0 THEN First(s) ELSE OneStep(s, f[b - 1], b)]
\* Each is defined for any number of steps.
LEMMA LoopExists ==
  ASSUME NEW s, NEW k \in Nat
  PROVE  \E f : IsLoop(s, k, f)
<1> DEFINE G(i, f) == f = [b \in 0 .. i |-> IF b = 0 THEN First(s) ELSE OneStep(s, f[b - 1], b)]
           S == {i \in Nat : \E f : G(i, f)}
<1>1. 0 \in S
  <2> DEFINE f == [b \in {0} |-> First(s)]
  <2>1. f = [b \in 0 .. 0 |-> IF b = 0 THEN First(s) ELSE OneStep(s, f[b - 1], b)]
    OBVIOUS
  <2> QED
    BY <2>1
<1>2. ASSUME NEW i \in S PROVE i + 1 \in S
  <2>1. PICK f : G(i, f)
    OBVIOUS
  <2> DEFINE g == [b \in 0 .. i + 1 |-> IF b \in 0 .. i THEN f[b] ELSE OneStep(s, f[i], i + 1)]
             h == [b \in 0 .. i + 1 |-> IF b = 0 THEN First(s) ELSE OneStep(s, g[b - 1], b)]
  <2>2. \A b \in 0 .. i : f[b] = IF b = 0 THEN First(s) ELSE OneStep(s, f[b - 1], b)
    BY <2>1
  <2>3. ASSUME NEW b \in 0 .. i + 1
        PROVE  g[b] = IF b = 0 THEN First(s) ELSE OneStep(s, g[b - 1], b)
    <3>1. CASE b = 0
      BY <2>2, <3>1
    <3>2. CASE b \in 1 .. i
      <4>1. b \in 0 .. i /\ b - 1 \in 0 .. i /\ b # 0
        BY <3>2
      <4>2. g[b] = f[b] /\ g[b - 1] = f[b - 1]
        BY <4>1
      <4> QED
        BY <2>2, <4>1, <4>2
    <3>3. CASE b = i + 1
      <4>1. b \notin 0 .. i /\ b - 1 = i /\ i \in 0 .. i /\ b # 0 /\ i \in 0 .. i + 1
        BY <3>3
      <4>2. g[b] = OneStep(s, f[i], i + 1) /\ g[i] = f[i]
        BY <4>1
      <4> QED
        BY <4>1, <4>2
    <3> QED
      BY <3>1, <3>2, <3>3
  <2>4. \A b \in 0 .. i + 1 : g[b] = h[b]
    BY <2>3
  <2>5. g = h
    <3> DEFINE e(b) == IF b \in 0 .. i THEN f[b] ELSE OneStep(s, f[i], i + 1)
               d(b) == IF b = 0 THEN First(s) ELSE OneStep(s, g[b - 1], b)
    <3>1. g = [b \in 0 .. i + 1 |-> e(b)] /\ h = [b \in 0 .. i + 1 |-> d(b)]
      OBVIOUS
    <3>2. \A b \in 0 .. i + 1 : e(b) = d(b)
      BY <2>4
    <3> HIDE DEF e, d, g, h
    <3> QED
      BY <3>1, <3>2
  <2>6. G(i + 1, g)
    BY <2>5
  <2> HIDE DEF G
  <2> QED
    BY <2>6
<1> HIDE DEF G
<1>3. S = Nat
  BY <1>1, <1>2, NatSets
<1>4. k \in S
  BY <1>3
<1>5. PICK f : G(k, f)
  BY <1>4
<1> QED
  BY <1>5 DEF G, IsLoop


\* What the sender's rule makes of the chunks of a sync.
LEMMA PackingIs ==
  ASSUME NEW s \in 1..Len(Loads)
  PROVE  /\ Len(Loads[s]) \in Nat
         /\ Packing(s)[0] = [full |-> 0, bytes |-> 0]
         /\ \A i \in 1..Len(Loads[s]) : Packing(s)[i] = Packed(Packing(s)[i - 1], Loads[s][i])
         /\ \A i \in 0..Len(Loads[s]) : /\ Packing(s)[i] \in [full : Nat, bytes : Nat]
                                       /\ Packing(s)[i].full + 1 <= BucketsOf(s)
         /\ BucketsOf(s) \in Nat
<1> DEFINE N == Len(Loads[s])
           x == CHOOSE f : IsLoop(s, N, f)
           P == Packing(s)
<1>1. N \in Nat /\ s # 0 /\ \A i \in 1..N : Loads[s][i] \in Nat
  BY SizesAre, ChainAssumption
<1>2. P = x
  BY <1>1 DEF Packing, IsLoop, First, OneStep
<1>3. IsLoop(s, N, x)
  <2> HIDE DEF N
  <2> QED
    BY <1>1, LoopExists
<1>4. \A i \in 0..N : P[i] = IF i = 0 THEN [full |-> 0, bytes |-> 0] ELSE Packed(P[i - 1], Loads[s][i])
  <2> HIDE DEF x, N, P
  <2>1. \A i \in 0..N : x[i] = IF i = 0 THEN First(s) ELSE OneStep(s, x[i - 1], i)
    BY <1>3 DEF IsLoop
  <2> QED
    BY <1>1, <1>2, <2>1 DEF First, OneStep
<1>0. BucketsOf(s) = P[N].full + 1
  BY DEF BucketsOf
<1> HIDE DEF x, N, P
<1>5. P[0] = [full |-> 0, bytes |-> 0] /\ \A i \in 1..N : P[i] = Packed(P[i - 1], Loads[s][i])
  BY <1>1, <1>4
<1> DEFINE Good(i) == /\ P[i].full \in Nat /\ P[i].bytes \in Nat /\ P[i] = [full |-> P[i].full, bytes |-> P[i].bytes]
                      /\ \A j \in 0..i : P[j].full \in Nat /\ P[j].full <= P[i].full
           S == {i \in Nat : i \in 0..N => Good(i)}
<1>6. 0 \in S
  BY <1>5
<1>7. ASSUME NEW i \in S PROVE i + 1 \in S
  <2>1. SUFFICES ASSUME i + 1 \in 0..N PROVE Good(i + 1)
    BY <1>1
  <2>2. i \in 0..N /\ i + 1 \in 1..N /\ (i + 1) - 1 = i
    BY <1>1, <2>1
  <2>3. Good(i)
    BY <2>2
  <2>4. P[i + 1] = Packed(P[i], Loads[s][i + 1]) /\ Loads[s][i + 1] \in Nat
    BY <1>1, <1>5, <2>2
  <2>5. /\ P[i + 1].full \in Nat /\ P[i + 1].bytes \in Nat /\ P[i + 1].full >= P[i].full
        /\ P[i + 1] = [full |-> P[i + 1].full, bytes |-> P[i + 1].bytes]
    <3>1. CASE P[i].bytes + Loads[s][i + 1] <= BucketSize
      <4>1. P[i + 1] = [full |-> P[i].full, bytes |-> P[i].bytes + Loads[s][i + 1]]
        BY <2>4, <3>1 DEF Packed
      <4> QED
        BY <2>3, <2>4, <4>1
    <3>2. CASE ~(P[i].bytes + Loads[s][i + 1] <= BucketSize)
      <4>1. P[i + 1] = [full |-> P[i].full + 1, bytes |-> Loads[s][i + 1]]
        BY <2>4, <3>2 DEF Packed
      <4> QED
        BY <2>3, <2>4, <4>1
    <3> QED
      BY <3>1, <3>2
  <2>6. ASSUME NEW j \in 0..i + 1 PROVE P[j].full \in Nat /\ P[j].full <= P[i + 1].full
    <3>1. j \in 0..i \/ j = i + 1
      BY <2>2
    <3>2. CASE j \in 0..i
      <4>1. P[j].full \in Nat /\ P[j].full <= P[i].full
        BY <2>3, <3>2
      <4> QED
        BY <2>3, <2>5, <4>1
    <3>3. CASE j = i + 1
      BY <2>5, <3>3
    <3> QED
      BY <3>1, <3>2, <3>3
  <2> QED
    BY <2>5, <2>6
<1>8. S = Nat
  <2> HIDE DEF Good
  <2>1. S \in SUBSET Nat
    OBVIOUS
  <2> HIDE DEF S
  <2> QED
    BY <1>6, <1>7, <2>1, NatSets
<1>9. \A i \in 0..N : Good(i)
  <2> HIDE DEF Good
  <2>1. \A i \in 0..N : i \in Nat
    BY <1>1
  <2> QED
    BY <1>8, <2>1
<1>10. N \in 0..N
  BY <1>1
<1>11. BucketsOf(s) \in Nat /\ \A i \in 0..N : P[i].full + 1 <= BucketsOf(s)
  <2>1. \A i \in 0..N : P[i].full \in Nat /\ P[i].full <= P[N].full /\ P[N].full \in Nat
    BY <1>9, <1>10
  <2> HIDE DEF Good
  <2> QED
    BY <1>0, <1>10, <2>1
<1>12. \A i \in 0..N : P[i] \in [full : Nat, bytes : Nat]
  <2> SUFFICES ASSUME NEW i \in 0..N PROVE P[i] \in [full : Nat, bytes : Nat]
    OBVIOUS
  <2>1. P[i].full \in Nat /\ P[i].bytes \in Nat /\ P[i] = [full |-> P[i].full, bytes |-> P[i].bytes]
    BY <1>9
  <2> DEFINE a == P[i].full
             c == P[i].bytes
  <2>2. P[i] = [full |-> a, bytes |-> c] /\ a \in Nat /\ c \in Nat
    BY <2>1
  <2> HIDE DEF a, c
  <2> QED
    BY <2>2
<1> QED
  BY <1>1, <1>5, <1>11, <1>12 DEF P, N
\* The buckets of the first syncs.
LEMMA BucketsToIs ==
  /\ BucketsTo[0] = 0
  /\ \A s \in 1..Len(Loads) : BucketsTo[s] = BucketsTo[s - 1] + BucketsOf(s)
  /\ \A s \in 0..Len(Loads) : BucketsTo[s] \in Nat /\ BucketsTo[s] <= BucketsTo[Len(Loads)]
<1> DEFINE N == Len(Loads)
           x == CHOOSE f : IsLoop(0, N, f)
           B == BucketsTo
<1>1. N \in Nat /\ \A s \in 1..N : BucketsOf(s) \in Nat
  BY PackingIs, ChainAssumption
<1>2. B = x
  BY DEF BucketsTo, IsLoop, First, OneStep
<1>3. IsLoop(0, N, x)
  <2> HIDE DEF N
  <2> QED
    BY <1>1, LoopExists
<1>4. \A i \in 0..N : B[i] = IF i = 0 THEN 0 ELSE B[i - 1] + BucketsOf(i)
  <2> HIDE DEF x, N, B
  <2>1. \A i \in 0..N : x[i] = IF i = 0 THEN First(0) ELSE OneStep(0, x[i - 1], i)
    BY <1>3 DEF IsLoop
  <2> QED
    BY <1>1, <1>2, <2>1 DEF First, OneStep
<1> HIDE DEF x, N, B
<1>5. B[0] = 0 /\ \A i \in 1..N : B[i] = B[i - 1] + BucketsOf(i)
  BY <1>1, <1>4
<1> DEFINE Good(i) == B[i] \in Nat /\ \A j \in 0..i : B[j] \in Nat /\ B[j] <= B[i]
           S == {i \in Nat : i \in 0..N => Good(i)}
<1>6. 0 \in S
  BY <1>5
<1>7. ASSUME NEW i \in S PROVE i + 1 \in S
  <2>1. SUFFICES ASSUME i + 1 \in 0..N PROVE Good(i + 1)
    BY <1>1
  <2>2. i \in 0..N /\ i + 1 \in 1..N /\ (i + 1) - 1 = i
    BY <1>1, <2>1
  <2>3. Good(i)
    BY <2>2
  <2>4. B[i + 1] = B[i] + BucketsOf(i + 1) /\ BucketsOf(i + 1) \in Nat
    BY <1>1, <1>5, <2>2
  <2>5. ASSUME NEW j \in 0..i + 1 PROVE B[j] \in Nat /\ B[j] <= B[i + 1]
    <3>1. j \in 0..i \/ j = i + 1
      BY <2>2
    <3> QED
      BY <2>3, <2>4, <3>1
  <2> QED
    BY <2>3, <2>4, <2>5
<1>8. S = Nat
  <2> HIDE DEF Good
  <2>1. S \in SUBSET Nat
    OBVIOUS
  <2> HIDE DEF S
  <2> QED
    BY <1>6, <1>7, <2>1, NatSets
<1>9. N \in S /\ N \in 0..N
  BY <1>1, <1>8
<1>10. Good(N)
  BY <1>9
<1> QED
  BY <1>5, <1>10 DEF B, N

-----------------------------------------------------------------------------
(* The buckets that the sender announces.                                    *)

\* The buckets that the sender has announced; the one that is cut off here is full,
\* but the chunk that did not fit has not been taken yet.
Cut == pulled > 0 /\ held[Sender].chunks = <<>>
Opened == BucketsTo[sync - 1] + Packing(sync)[pulled].full
            + (IF pc[Sender] \in {"drain", "done"} \/ Cut THEN 1 ELSE 0)
\* The sender fills its buckets as the promise packs the chunks.
PackedSoFar ==
  /\ pc[Sender] \notin {"drain", "done"} =>
       IF Cut THEN /\ offset = 0 /\ pulled < Len(Sizes)
                   /\ Packing(sync)[pulled].bytes + Sizes[pulled + 1] > BucketSize
              ELSE offset = Packing(sync)[pulled].bytes
  /\ pc[Sender] \in {"await", "announce"} =>
       IF held[Sender].last THEN pulled = Len(Sizes) ELSE pulled < Len(Sizes) /\ ~Room

\* The sender's numbers.
LEMMA SenderNumbers ==
  ASSUME Chained
  PROVE  /\ sync \in 1..Len(Loads) /\ sync - 1 \in 0..Len(Loads) /\ Len(Loads) \in Nat
         /\ pulled \in 0..Len(Sizes) /\ pulled \in Nat /\ Len(Sizes) \in Nat /\ offset \in Nat /\ BucketSize \in Nat
         /\ Packing(sync)[pulled].full \in Nat /\ Packing(sync)[pulled].bytes \in Nat
         /\ Packing(sync)[pulled].full + 1 <= BucketsOf(sync) /\ BucketsOf(sync) \in Nat
         /\ BucketsTo[sync] = BucketsTo[sync - 1] + BucketsOf(sync) /\ BucketsTo[sync - 1] \in Nat
         /\ BucketsTo[sync] \in Nat /\ BucketsTo[sync] <= BucketsTo[Len(Loads)] /\ BucketsTo[Len(Loads)] \in Nat
         /\ Packing(sync)[0].full = 0 /\ Packing(sync)[0].bytes = 0
         /\ \A i \in 1..Len(Sizes) : /\ Packing(sync)[i] = Packed(Packing(sync)[i - 1], Sizes[i])
                                     /\ Sizes[i] \in Nat \ {0} /\ Sizes[i] <= BucketSize
<1>1. sync \in 1..Len(Loads) /\ pulled \in 0..Len(Sizes) /\ offset \in Nat /\ Len(Loads) \in Nat /\ BucketSize \in Nat
  BY ChainAssumption, ChunksFit DEF Chained, Types
<1>2. Sizes = Loads[sync] /\ Loads[sync] \in Seq(Nat \ {0}) /\ sync \in DOMAIN Loads
  BY <1>1, SizesAre, ChainAssumption DEF Sizes
<1>3. \A i \in 1..Len(Sizes) : Sizes[i] \in Nat \ {0} /\ Sizes[i] <= BucketSize
  BY <1>2, ChunksFit
<1>4. /\ Len(Sizes) \in Nat
      /\ Packing(sync)[0] = [full |-> 0, bytes |-> 0]
      /\ \A i \in 1..Len(Sizes) : Packing(sync)[i] = Packed(Packing(sync)[i - 1], Sizes[i])
      /\ Packing(sync)[pulled] \in [full : Nat, bytes : Nat]
      /\ Packing(sync)[pulled].full + 1 <= BucketsOf(sync) /\ BucketsOf(sync) \in Nat
  BY <1>1, <1>2, PackingIs
<1>5. /\ BucketsTo[sync] = BucketsTo[sync - 1] + BucketsOf(sync)
      /\ sync - 1 \in 0..Len(Loads) /\ sync \in 0..Len(Loads) /\ Len(Loads) \in 0..Len(Loads)
      /\ \A s \in 0..Len(Loads) : BucketsTo[s] \in Nat /\ BucketsTo[s] <= BucketsTo[Len(Loads)]
  BY <1>1, BucketsToIs
<1>6. Packing(sync)[0].full = 0 /\ Packing(sync)[0].bytes = 0
  BY <1>4
<1>7. Packing(sync)[pulled].full \in Nat /\ Packing(sync)[pulled].bytes \in Nat
  BY <1>4
<1>8. pulled \in Nat
  BY <1>1, <1>4
<1>9. BucketsTo[sync - 1] \in Nat /\ BucketsTo[sync] \in Nat /\ BucketsTo[Len(Loads)] \in Nat
      /\ BucketsTo[sync] <= BucketsTo[Len(Loads)]
  BY <1>5
<1> QED
  BY <1>1, <1>3, <1>4, <1>5, <1>6, <1>7, <1>8, <1>9

\* Of them, the plain ones.
LEMMA PlainNumbers ==
  ASSUME Chained
  PROVE  sync \in Nat \ {0} /\ sync <= Len(Loads) /\ Len(Loads) \in Nat /\ pulled \in Nat /\ pulled <= Len(Sizes)
         /\ Len(Sizes) \in Nat /\ offset \in Nat /\ BucketSize \in Nat
BY SenderNumbers

\* What it has announced, it has of this sync or of an earlier one.
LEMMA OpenedIs ==
  ASSUME Chained
  PROVE  /\ Opened \in Nat /\ Opened <= BucketsTo[sync] 
         /\ pc[Sender] \in {"drain", "done"} => Opened = BucketsTo[sync]
<1>1. pc[Sender] \in {"drain", "done"} => pulled = Len(Sizes)
  BY DEF Chained, Bucket
<1>2. BucketsOf(sync) = Packing(sync)[Len(Sizes)].full + 1
  BY DEF BucketsOf, Sizes
<1> DEFINE F == Packing(sync)[pulled].full
           c == IF pc[Sender] \in {"drain", "done"} \/ Cut THEN 1 ELSE 0
<1>3. Opened = BucketsTo[sync - 1] + F + c /\ c \in {0, 1} /\ (pc[Sender] \in {"drain", "done"} => c = 1)
  BY DEF Opened
<1>4. F \in Nat /\ F + 1 <= BucketsOf(sync) /\ (pc[Sender] \in {"drain", "done"} => F + 1 = BucketsOf(sync))
  BY <1>1, <1>2, SenderNumbers
<1>5. /\ BucketsTo[sync] = BucketsTo[sync - 1] + BucketsOf(sync) /\ BucketsTo[sync - 1] \in Nat
      /\ BucketsOf(sync) \in Nat
  BY SenderNumbers
<1> HIDE DEF F, c
<1> DEFINE ending == pc[Sender] \in {"drain", "done"}
           a == BucketsTo[sync - 1]
           n == BucketsOf(sync)
           z == BucketsTo[sync]
<1> HIDE DEF ending, a, n, z
<1>6. Opened = a + F + c /\ c \in {0, 1} /\ (ending => c = 1)
  BY <1>3 DEF ending, a
<1>7. F \in Nat /\ F + 1 <= n /\ (ending => F + 1 = n)
  BY <1>4 DEF ending, n
<1>8. z = a + n /\ a \in Nat /\ n \in Nat
  BY <1>5 DEF a, n, z
<1>9. Opened \in Nat /\ Opened <= z /\ (ending => Opened = z)
  BY <1>6, <1>7, <1>8
<1> QED
  BY <1>9 DEF ending, z

\* A step that leaves the sender's bucket alone, or only goes on.
LEMMA OpenedKept ==
  ASSUME PackedSoFar, sync' = sync, pulled' = pulled, offset' = offset, held'[Sender].chunks = held[Sender].chunks,
         held'[Sender].last = held[Sender].last \/ pc'[Sender] \notin {"await", "announce"}, 
         pc'[Sender] \in {"drain", "done"} <=> pc[Sender] \in {"drain", "done"},
         pc'[Sender] \in {"await", "announce"} => pc[Sender] \in {"await", "announce"}
  PROVE  PackedSoFar' /\ Opened' = Opened
<1>1. Cut' <=> Cut
  BY DEF Cut
<1>2. Packing(sync)' = Packing(sync) /\ BucketsTo[sync - 1]' = BucketsTo[sync - 1] /\ Sizes' = Sizes
  BY DEF Sizes
<1>3. Room' <=> Room
  BY <1>2 DEF Room
<1> QED
  BY <1>1, <1>2, <1>3 DEF Opened, PackedSoFar
\* A chunk opens the next bucket, if the one before it was cut off, or goes on in this one.
LEMMA OpenedFill ==
  ASSUME Chained, PackedSoFar, FillChunk
  PROVE  PackedSoFar' /\ Opened' = Opened
<1> DEFINE x == Packing(sync)[pulled]
           y == Packing(sync)[pulled + 1]
           n == Sizes[pulled + 1]
<1>1. /\ pc[Sender] = "pull" /\ pulled < Len(Sizes) /\ offset + n <= BucketSize
      /\ pulled' = pulled + 1 /\ offset' = offset + n /\ sync' = sync /\ pc' = pc
  BY DEF FillChunk, Room, chain
<1>2. held'[Sender].chunks # <<>>
  <2>1. Len(held'[Sender].chunks) = Len(held[Sender].chunks) + 1
    BY FillDoes
  <2>2. Len(held[Sender].chunks) \in Nat
    BY BucketFacts, LenIs
  <2> QED
    BY <2>1, <2>2
<1>3. ~Cut' /\ Sizes' = Sizes /\ Packing(sync)' = Packing(sync) /\ BucketsTo[sync - 1]' = BucketsTo[sync - 1]
  BY <1>1, <1>2 DEF Cut, Sizes
<1>4. /\ y = Packed(x, n) /\ n \in Nat \ {0} /\ n <= BucketSize /\ BucketSize \in Nat /\ offset \in Nat
      /\ x.full \in Nat /\ x.bytes \in Nat /\ pulled \in Nat
  <2>1. pulled + 1 \in 1..Len(Sizes) /\ (pulled + 1) - 1 = pulled
    BY <1>1, PlainNumbers
  <2> QED
    BY <2>1, SenderNumbers
<1>5. IF Cut THEN offset = 0 /\ x.bytes + n > BucketSize ELSE offset = x.bytes
  BY <1>1 DEF PackedSoFar
<1>6. y.bytes = offset + n /\ y.full = x.full + (IF Cut THEN 1 ELSE 0)
  <2> HIDE DEF x, y, n
  <2>1. CASE Cut
    <3>1. ~(x.bytes + n <= BucketSize)
      BY <1>4, <1>5, <2>1
    <3>2. y = [full |-> x.full + 1, bytes |-> n]
      BY <1>4, <3>1 DEF Packed
    <3> QED
      BY <1>4, <1>5, <2>1, <3>2
  <2>2. CASE ~Cut
    <3>1. x.bytes + n <= BucketSize
      BY <1>1, <1>5, <2>2 DEF n
    <3>2. y = [full |-> x.full, bytes |-> x.bytes + n]
      BY <1>4, <3>1 DEF Packed
    <3> QED
      BY <1>4, <1>5, <2>2, <3>2
  <2> QED
    BY <2>1, <2>2
<1>7. PackedSoFar'
  BY <1>1, <1>3, <1>6 DEF PackedSoFar
<1>8. Opened = BucketsTo[sync - 1] + x.full + (IF Cut THEN 1 ELSE 0)
  BY <1>1 DEF Opened
<1>9. Opened' = BucketsTo[sync - 1] + y.full + 0
  BY <1>1, <1>3 DEF Opened
<1>10. BucketsTo[sync - 1] \in Nat
  BY SenderNumbers
<1> HIDE DEF x, y, n
<1> DEFINE a == BucketsTo[sync - 1]
<1> HIDE DEF a
<1>11. a \in Nat /\ Opened = a + x.full + (IF Cut THEN 1 ELSE 0) /\ Opened' = a + y.full + 0
  BY <1>8, <1>9, <1>10 DEF a
<1>12. Opened' = Opened
  BY <1>4, <1>6, <1>11
<1> QED
  BY <1>7, <1>12

\* A bucket is full when no chunk is left or the next does not fit.
LEMMA OpenedSynchronize ==
  ASSUME Chained, PackedSoFar, Synchronize
  PROVE  PackedSoFar' /\ Opened' = Opened
<1>1. /\ pc[Sender] = "pull" /\ (pulled < Len(Sizes) => ~Room)
      /\ pc'[Sender] = (IF key[Sender] = 0 THEN "announce" ELSE "await")
      /\ held'[Sender].chunks = held[Sender].chunks
      /\ pulled' = pulled /\ offset' = offset /\ sync' = sync
  BY SynchronizeDoes DEF Synchronize, chain, fill
<1>2. held'[Sender].last <=> pulled = Len(Sizes)
  <2>1. held'[Sender].last = (pulled = Len(Sizes))
    BY TypedFns, Shape DEF Synchronize, Messages
  <2> QED
    BY <2>1, Zenon
<1>3. /\ Packing(sync)' = Packing(sync) /\ BucketsTo[sync - 1]' = BucketsTo[sync - 1] /\ Sizes' = Sizes
      /\ (Room' <=> Room) /\ (Cut' <=> Cut)
  BY <1>1 DEF Sizes, Room, Cut
<1>4. pulled \in Nat /\ Len(Sizes) \in Nat /\ pulled <= Len(Sizes)
  BY PlainNumbers
<1>5. Opened' = Opened
  BY <1>1, <1>3 DEF Opened
<1>6. IF Cut THEN /\ offset = 0 /\ pulled < Len(Sizes)
                  /\ Packing(sync)[pulled].bytes + Sizes[pulled + 1] > BucketSize
             ELSE offset = Packing(sync)[pulled].bytes
  BY <1>1 DEF PackedSoFar
<1>7. IF held'[Sender].last THEN pulled = Len(Sizes) ELSE pulled < Len(Sizes) /\ ~Room
  BY <1>1, <1>2, <1>4
<1> QED
  BY <1>1, <1>3, <1>5, <1>6, <1>7 DEF PackedSoFar

\* One bucket more is announced.  A full one is never empty.
LEMMA OpenedAnnounce ==
  ASSUME Chained, PackedSoFar, AnnounceBucket
  PROVE  PackedSoFar' /\ Opened' = Opened + 1 /\ (held[Sender].last => Opened + 1 = BucketsTo[sync])
<1> DEFINE x == Packing(sync)[pulled]
<1>1. /\ pc[Sender] = "announce" /\ pulled' = pulled /\ sync' = sync
      /\ offset' = (IF held[Sender].last THEN offset ELSE 0)
      /\ IF held[Sender].last THEN pc'[Sender] = "drain" /\ held'[Sender] = held[Sender]
                               ELSE pc'[Sender] = "pull" /\ held'[Sender] = Nothing
  BY AnnounceDoes DEF AnnounceBucket, chain
<1>2. Packing(sync)' = Packing(sync) /\ BucketsTo[sync - 1]' = BucketsTo[sync - 1] /\ Sizes' = Sizes
  BY <1>1 DEF Sizes
<1>3. IF Cut THEN offset = 0 /\ pulled < Len(Sizes) ELSE offset = x.bytes
  BY <1>1 DEF PackedSoFar
<1>4. IF held[Sender].last THEN pulled = Len(Sizes) ELSE pulled < Len(Sizes) /\ ~(offset + Sizes[pulled + 1] <= BucketSize)
  BY <1>1 DEF PackedSoFar, Room
<1>5. pulled \in Nat /\ Len(Sizes) \in Nat /\ x.full \in Nat /\ BucketsTo[sync - 1] \in Nat
      /\ (pulled < Len(Sizes) => Sizes[pulled + 1] \in Nat /\ Sizes[pulled + 1] <= BucketSize /\ BucketSize \in Nat)
      /\ (pulled = 0 => x.bytes = 0)
  <2>1. pulled \in Nat /\ Len(Sizes) \in Nat /\ x.full \in Nat /\ BucketsTo[sync - 1] \in Nat
    BY SenderNumbers
  <2>2. ASSUME pulled < Len(Sizes)
        PROVE  Sizes[pulled + 1] \in Nat /\ Sizes[pulled + 1] <= BucketSize /\ BucketSize \in Nat
    <3>1. pulled + 1 \in 1..Len(Sizes)
      BY <2>1, <2>2
    <3> QED
      BY <3>1, SenderNumbers
  <2>3. pulled = 0 => x.bytes = 0
    BY SenderNumbers
  <2> QED
    BY <2>1, <2>2, <2>3
<1> HIDE DEF x
<1>6. ~Cut
  BY <1>3, <1>4, <1>5
<1>7. Opened = BucketsTo[sync - 1] + x.full + 0
  BY <1>1, <1>6 DEF Opened, x
<1>8. CASE held[Sender].last
  <2>1. pc'[Sender] = "drain"
    BY <1>1, <1>8
  <2>2. PackedSoFar'
    BY <2>1 DEF PackedSoFar
  <2>3. Opened' = BucketsTo[sync - 1] + x.full + 1
    BY <1>1, <1>2, <2>1 DEF Opened, x
  <2>4. BucketsTo[sync] = BucketsTo[sync - 1] + (x.full + 1)
    <3>1. pulled = Len(Sizes)
      BY <1>4, <1>8
    <3>2. BucketsOf(sync) = x.full + 1
      BY <3>1 DEF BucketsOf, Sizes, x
    <3>3. BucketsTo[sync] = BucketsTo[sync - 1] + BucketsOf(sync)
      BY SenderNumbers
    <3> QED
      BY <3>2, <3>3
  <2> QED
    BY <1>5, <1>7, <2>2, <2>3, <2>4
<1>9. CASE ~held[Sender].last
  <2>1. pc'[Sender] = "pull" /\ held'[Sender].chunks = <<>> /\ offset' = 0
    BY <1>1, <1>9, NothingIs
  <2>2. pulled > 0 /\ pulled < Len(Sizes) /\ x.bytes + Sizes[pulled + 1] > BucketSize
    <3>1. pulled < Len(Sizes) /\ ~(offset + Sizes[pulled + 1] <= BucketSize)
      BY <1>4, <1>9
    <3>2. offset = x.bytes
      BY <1>3, <1>6
    <3>3. Sizes[pulled + 1] \in Nat /\ Sizes[pulled + 1] <= BucketSize /\ BucketSize \in Nat /\ offset \in Nat
      BY <1>5, <3>1, PlainNumbers
    <3> QED
      BY <1>5, <3>1, <3>2, <3>3
  <2>3. Cut'
    BY <1>1, <2>1, <2>2 DEF Cut
  <2>4. PackedSoFar'
    BY <1>1, <1>2, <2>1, <2>2, <2>3 DEF PackedSoFar, x
  <2>5. Opened' = BucketsTo[sync - 1] + x.full + 1
    BY <1>1, <1>2, <2>3 DEF Opened, x
  <2> QED
    BY <1>5, <1>7, <1>9, <2>4, <2>5
<1> QED
  BY <1>8, <1>9

\* A sync begins where the one before it ended.
LEMMA OpenedNext ==
  ASSUME Chained, PackedSoFar, NextSync
  PROVE  PackedSoFar' /\ Opened' = Opened
<1>1. /\ pc[Sender] = "done" /\ sync' = sync + 1 /\ pulled' = 0 /\ offset' = 0 /\ pc'[Sender] = "init"
      /\ held'[Sender] = Nothing /\ sync < Len(Loads)
  BY Shape DEF NextSync, HasEnded
<1>2. Opened = BucketsTo[sync]
  BY <1>1, OpenedIs
<1>3. sync + 1 \in 1..Len(Loads) /\ (sync + 1) - 1 = sync /\ BucketsTo[sync] \in Nat
  <2>1. BucketsTo[sync] \in Nat
    BY SenderNumbers
  <2> QED
    BY <1>1, <2>1, PlainNumbers
<1>4. Packing(sync + 1)[0].full = 0 /\ Packing(sync + 1)[0].bytes = 0
  BY <1>3, PackingIs
<1>5. ~Cut'
  BY <1>1 DEF Cut
<1>6. Packing(sync)'[0] = Packing(sync + 1)[0] /\ BucketsTo[sync - 1]' = BucketsTo[sync]
  BY <1>1, <1>3
<1>7. Opened' = BucketsTo[sync] + 0 + 0
  BY <1>1, <1>4, <1>5, <1>6 DEF Opened
<1>8. PackedSoFar'
  BY <1>1, <1>4, <1>5, <1>6 DEF PackedSoFar
<1> QED
  BY <1>2, <1>3, <1>7, <1>8

\* Only an announcement counts.
LEMMA OpenedStep ==
  ASSUME Chained, PackedSoFar, [Next]_vars
  PROVE  /\ PackedSoFar'
         /\ AnnounceBucket => Opened' = Opened + 1
         /\ ~AnnounceBucket => Opened' = Opened
<1>1. CASE NextSync
  <2>1. ~AnnounceBucket
    BY <1>1, Shape DEF NextSync, HasEnded, AnnounceBucket
  <2> QED
    BY <1>1, <2>1, OpenedNext
<1>2. CASE FillChunk
  BY <1>2, OpenedFill DEF FillChunk, AnnounceBucket
<1>3. CASE Synchronize
  BY <1>3, OpenedSynchronize DEF Synchronize, AnnounceBucket
<1>4. CASE AnnounceBucket
  BY <1>4, OpenedAnnounce
<1>5. CASE SenderAwaits \/ SenderEnds
  <2>1. /\ pc[Sender] \in {"await", "drain"} /\ pc'[Sender] = (IF pc[Sender] = "await" THEN "announce" ELSE "done")
        /\ held' = held
    BY <1>5, SenderAwaitDoes
  <2>2. sync' = sync /\ pulled' = pulled /\ offset' = offset /\ ~AnnounceBucket
    BY <1>5 DEF SenderAwaits, SenderEnds, AnnounceBucket, chain, fill
  <2> QED
    BY <2>1, <2>2, OpenedKept
<1>6. ASSUME NEW w \in Agents, Join(w) \/ Device(w)
      PROVE  PackedSoFar' /\ Opened' = Opened /\ ~AnnounceBucket
  <2>1. sync' = sync /\ pulled' = pulled /\ offset' = offset /\ held' = held
    BY <1>6 DEF Join, Device, chain, fill
  <2>2. pc'[Sender] = pc[Sender] \/ (pc[Sender] = "init" /\ pc'[Sender] = "pull")
    <3>1. CASE w = Sender
      BY <1>6, <3>1, JoinDoes DEF Device
    <3>2. CASE w # Sender
      BY <1>6, <3>2, OwnFrame, Shape DEF Same
    <3> QED
      BY <3>1, <3>2
  <2>3. ~AnnounceBucket
    BY <2>2, AnnounceDoes
  <2> QED
    BY <2>1, <2>2, <2>3, OpenedKept
<1>7. ASSUME NEW w \in Rollouts, RolloutStep(w)
      PROVE  PackedSoFar' /\ Opened' = Opened
  <2>1. sync' = sync /\ pulled' = pulled /\ offset' = offset /\ Same(Sender)
    BY <1>7, RolloutFrame, Shape
  <2> QED
    BY <2>1, OpenedKept DEF Same
<1>8. ASSUME UNCHANGED vars PROVE PackedSoFar' /\ Opened' = Opened
  <2>1. sync' = sync /\ pulled' = pulled /\ offset' = offset /\ held' = held /\ pc' = pc
    BY <1>8 DEF vars, chain, fill
  <2> QED
    BY <2>1, OpenedKept
<1>9. ASSUME NEW w \in Rollouts, RolloutStep(w) PROVE ~AnnounceBucket
  <2>1. key'[Sender] = key[Sender] /\ pc'[Sender] = pc[Sender]
    BY <1>9, RolloutFrame, Shape DEF Same
  <2> QED
    BY <2>1, AnnounceDoes
<1>10. CASE UNCHANGED vars /\ AnnounceBucket
  BY <1>10, AnnounceDoes DEF vars
<1> QED
  BY <1>1, <1>2, <1>3, <1>4, <1>5, <1>6, <1>7, <1>8, <1>9, <1>10
     DEF Next, Step, Stop, RolloutStep

-----------------------------------------------------------------------------
(* The buckets that the agents read.                                         *)

\* The buckets that an agent has announced are those that it has read, but for the one
\* it is about to announce; its neighbour has read them, reads one, or has a letter of it.
Passed(u) == IF u = Sender THEN Opened ELSE Len(landed[u]) - (IF read[u].state = "done" THEN 1 ELSE 0)
BalanceOf(w) ==
  pc[Up(w)] # "dead" /\ pc[w] # "dead" =>
    Passed(Up(w)) = Len(landed[w]) + (IF mail[w] = <<>> THEN 0 ELSE 1) + (IF IsReading(w) THEN 1 ELSE 0)
\* What is said to be the last bucket is the last of the sync, and nobody ends before it has
\* read that one and so has its neighbour.
LastOf(w) ==
  /\ mail[w] # <<>> /\ Letter(w).m.last => Len(landed[w]) + 1 = BucketsTo[sync]
  /\ pc[w] \in {"await", "swap"} /\ coming[w].last =>
       Len(landed[w]) + (IF IsReading(w) THEN 1 ELSE 0) = BucketsTo[sync]
  /\ pc[w] \in {"drain", "done", "loaded"} => Len(landed[w]) = BucketsTo[sync]
  /\ pc[Up(w)] \in {"done", "loaded"} => Len(landed[w]) = BucketsTo[sync]
  /\ Len(landed[w]) <= BucketsTo[Len(Loads)]
LandedType == landed \in [Rollouts -> Seq(Int)]
Balanced == \A w \in Rollouts : BalanceOf(w) /\ LastOf(w)
Carried == LandedType /\ PackedSoFar /\ Balanced

\* The buckets that an agent has read.
LEMMA LandedIs ==
  ASSUME LandedType, NEW w \in Rollouts
  PROVE  landed[w] \in Seq(Int) /\ Len(landed[w]) \in Nat
<1>1. landed[w] \in Seq(Int)
  BY DEF LandedType
<1> QED
  BY <1>1, LenIs

\* A transfer brings the bucket that was announced.
LEMMA TransferLands ==
  ASSUME Chained, LandedType, NEW w \in Rollouts, Transfer(w)
  PROVE  /\ landed' = [landed EXCEPT ![w] = Append(landed[w], Len(landed[w]))]
         /\ Len(landed'[w]) = Len(landed[w]) + 1 /\ mail[w] = <<>>
         /\ \A x \in Rollouts \ {w} : landed'[x] = landed[x]
         /\ LandedType'
<1>1. IsReading(w) /\ prev[w] = Up(w)
  BY TransferDoes
<1>2. mail[w] = <<>> /\ read[w].from = Announced(Up(w)) /\ In(coming[w].chunks, buf[Up(w)][Announced(Up(w))])
  BY <1>1 DEF Chained, Sent, SentOf
<1>3. Range0(coming[w].chunks) \subseteq buf[prev[w]][read[w].from]
  BY <1>1, <1>2 DEF In, Range0
<1>4. landed' = [landed EXCEPT ![w] = Append(@, IF Range0(coming[w].chunks) \subseteq buf[prev[w]][read[w].from]
                                                THEN Len(@) ELSE Junk)]
  BY DEF Transfer
<1>5. landed' = [landed EXCEPT ![w] = Append(landed[w], Len(landed[w]))]
  BY <1>3, <1>4
<1>6. landed \in [Rollouts -> Seq(Int)] /\ landed[w] \in Seq(Int) /\ Len(landed[w]) \in Int
  BY LandedIs DEF LandedType
<1>7. /\ Append(landed[w], Len(landed[w])) \in Seq(Int)
      /\ Len(Append(landed[w], Len(landed[w]))) = Len(landed[w]) + 1
  BY <1>6, AppendIs
<1>8. landed'[w] = Append(landed[w], Len(landed[w]))
  BY <1>5, <1>6
<1>9. \A x \in Rollouts \ {w} : landed'[x] = landed[x]
  BY <1>5, <1>6
<1>10. landed' \in [Rollouts -> Seq(Int)]
  BY <1>5, <1>6, <1>7
<1> QED
  BY <1>2, <1>5, <1>7, <1>8, <1>9, <1>10 DEF LandedType

\* Nothing else does.
LEMMA LandedSame ==
  ASSUME Chained
  PROVE  /\ NextSync \/ SenderStep \/ UNCHANGED vars => landed' = landed
         /\ \A w \in Agents : Join(w) \/ Device(w) => landed' = landed
         /\ \A w \in Rollouts : RolloutStep(w) => Transfer(w) \/ landed' = landed
<1>1. NextSync \/ UNCHANGED vars => landed' = landed
  BY DEF NextSync, vars
<1>2. SenderStep => landed' = landed
  BY DEF SenderStep, FillChunk, Synchronize, SenderAwaits, AnnounceBucket, SenderEnds
<1>3. \A w \in Agents : Join(w) \/ Device(w) => landed' = landed
  BY DEF Join, Device
<1>4. \A w \in Rollouts : RolloutStep(w) => Transfer(w) \/ landed' = landed
  BY DEF RolloutStep, FirstRead, Swap, ReadNext, Await, Ends, Loaded, TransferError
<1> QED
  BY <1>1, <1>2, <1>3, <1>4

\* An agent that a step leaves alone has announced what it had.
LEMMA PassedSame ==
  ASSUME NEW u, u = Sender \/ u \in Rollouts, u = Sender => Opened' = Opened,
         u \in Rollouts => landed'[u] = landed[u] /\ read'[u] = read[u]
  PROVE  Passed(u)' = Passed(u)
<1>1. CASE u = Sender
  BY <1>1 DEF Passed
<1>2. CASE u # Sender
  BY <1>2 DEF Passed
<1> QED
  BY <1>1, <1>2

\* No agent has announced more than there is.
LEMMA PassedBound ==
  ASSUME Chained, Carried, NEW u, u = Sender \/ u \in Rollouts
  PROVE  Passed(u) \in Int /\ Passed(u) <= BucketsTo[Len(Loads)]
<1>1. BucketsTo[sync] \in Nat /\ BucketsTo[sync] <= BucketsTo[Len(Loads)] /\ BucketsTo[Len(Loads)] \in Nat
  BY SenderNumbers
<1>2. CASE u = Sender
  <2>1. Opened \in Nat /\ Opened <= BucketsTo[sync] /\ Passed(u) = Opened
    BY <1>2, OpenedIs DEF Passed
  <2> QED
    BY <1>1, <2>1
<1>3. CASE u # Sender
  <2>1. Len(landed[u]) \in Nat /\ Len(landed[u]) <= BucketsTo[Len(Loads)]
    BY <1>3, LandedIs DEF Carried, Balanced, LastOf
  <2>2. Passed(u) = Len(landed[u]) - (IF read[u].state = "done" THEN 1 ELSE 0)
    BY <1>3 DEF Passed
  <2> DEFINE b == BucketsTo[Len(Loads)]
             n == Len(landed[u])
  <2> HIDE DEF b, n
  <2>3. b \in Nat /\ n \in Nat /\ n <= b
    BY <1>1, <2>1 DEF b, n
  <2>4. Passed(u) = n \/ Passed(u) = n - 1
    <3>1. CASE read[u].state = "done"
      BY <2>2, <3>1 DEF n
    <3>2. CASE read[u].state # "done"
      <4>1. Passed(u) = n - 0
        BY <2>2, <3>2 DEF n
      <4> QED
        BY <2>3, <4>1
    <3> QED
      BY <3>1, <3>2
  <2>5. Passed(u) \in Int /\ Passed(u) <= b
    BY <2>3, <2>4
  <2> QED
    BY <2>5 DEF b
<1> QED
  BY <1>2, <1>3

\* A step that goes on, and does not touch the link.
LEMMA LinkKept ==
  ASSUME NEW x \in Rollouts, NEW u, u = Up(x), BalanceOf(x), LastOf(x),
         sync' = sync, landed'[x] = landed[x], mail'[x] = mail[x], IsReading(x)' <=> IsReading(x),
         coming'[x] = coming[x], Passed(u)' = Passed(u),
         pc'[x] # "dead" => pc[x] # "dead", pc'[u] # "dead" => pc[u] # "dead",
         pc'[x] \in {"await", "swap"} => pc[x] \in {"await", "swap"},
         pc'[x] \in {"drain", "done", "loaded"} => pc[x] \in {"drain", "done", "loaded"},
         pc'[u] \in {"done", "loaded"} => pc[u] \in {"done", "loaded"}
  PROVE  BalanceOf(x)' /\ LastOf(x)'
<1>1. Letter(x)' = Letter(x) /\ BucketsTo[sync]' = BucketsTo[sync]
  BY DEF Letter
<1>2. BalanceOf(x)'
  BY DEF BalanceOf
<1>3. LastOf(x)'
  BY <1>1 DEF LastOf
<1> QED
  BY <1>2, <1>3

\* What a link's lemmas below start from.
LinkFacts(x, u) ==
  /\ u = Up(x) /\ BalanceOf(x) /\ LastOf(x) /\ x \in Agents /\ u \in Agents /\ u # x /\ x # Sender
  /\ (u = Sender \/ (u \in Rollouts /\ u # Sender)) /\ Down(u) = x
  /\ Len(landed[x]) \in Nat /\ BucketsTo[sync] \in Nat /\ BucketsTo[Len(Loads)] \in Nat
  /\ BucketsTo[sync] <= BucketsTo[Len(Loads)]
LEMMA LinkHas ==
  ASSUME Chained, Carried, NEW x \in Rollouts
  PROVE  LinkFacts(x, Up(x))
<1>1. BalanceOf(x) /\ LastOf(x) /\ Len(landed[x]) \in Nat
  BY LandedIs DEF Carried, Balanced
<1>2. x \in Agents /\ Up(x) \in Agents /\ Up(x) # x /\ x # Sender /\ (Up(x) = Sender \/ (Up(x) \in Rollouts /\ Up(x) # Sender))
      /\ Down(Up(x)) = x
  BY Shape
<1>3. BucketsTo[sync] \in Nat /\ BucketsTo[Len(Loads)] \in Nat /\ BucketsTo[sync] <= BucketsTo[Len(Loads)]
  BY SenderNumbers
<1> QED
  BY <1>1, <1>2, <1>3 DEF LinkFacts

\* A new sync begins with nothing announced.
LEMMA LinkNext ==
  ASSUME Chained, Carried, NextSync, NEW x \in Rollouts
  PROVE  BalanceOf(x)' /\ LastOf(x)'
<1> DEFINE u == Up(x)
<1>0. LinkFacts(x, u)
  BY LinkHas
<1> HIDE DEF u
<1>1. /\ pc[u] = (IF u \in Rollouts THEN "loaded" ELSE "done") /\ pc'[u] = "init" /\ pc[x] = "loaded" /\ pc'[x] = "init"
      /\ mail' = mail /\ read' = read /\ landed' = landed
  BY <1>0 DEF LinkFacts, NextSync, HasEnded
<1>2. pc[u] # "dead" /\ ~Out(u)
  BY <1>0, <1>1 DEF Out, LinkFacts
<1>3. mail[x] = <<>>
  BY <1>0, <1>2, BoxIsEmpty DEF LinkFacts
<1>4. Opened' = Opened
  BY OpenedNext DEF Carried
<1>5. Passed(u)' = Passed(u) /\ (IsReading(x)' <=> IsReading(x))
  BY <1>0, <1>1, <1>4, PassedSame DEF LinkFacts, IsReading
<1>6. Up(x) = u /\ BalanceOf(x) /\ LastOf(x)
  BY <1>0 DEF LinkFacts
<1>7. BalanceOf(x)'
  BY <1>1, <1>5, <1>6 DEF BalanceOf
<1>8. LastOf(x)'
  BY <1>1, <1>3, <1>6 DEF LastOf
<1> QED
  BY <1>7, <1>8

\* The sender's steps, on the link to the first worker.
LEMMA LinkSender ==
  ASSUME Chained, Carried, SenderStep, [Next]_vars, NEW x \in Rollouts, Up(x) = Sender
  PROVE  BalanceOf(x)' /\ LastOf(x)'
<1>0. LinkFacts(x, Sender)
  BY LinkHas
<1>1. /\ Same(x) /\ sync' = sync /\ landed' = landed /\ BalanceOf(x) /\ LastOf(x)
  BY <1>0, SenderFrame, LandedSame DEF LinkFacts
<1>2. Passed(Sender) = Opened /\ Passed(Sender)' = Opened'
  BY DEF Passed
<1>3. CASE FillChunk \/ Synchronize \/ SenderAwaits
  <2>1. mail' = mail /\ pc'[Sender] \notin {"done", "loaded"} /\ pc[Sender] # "dead"
    <3>1. CASE FillChunk
      BY <3>1, FillDoes
    <3>2. CASE Synchronize
      BY <3>2, SynchronizeDoes
    <3>3. CASE SenderAwaits
      <4>1. pc[Sender] = "await"
        BY <3>3 DEF SenderAwaits
      <4> QED
        BY <3>3, <4>1, SenderAwaitDoes
    <3> QED
      BY <1>3, <3>1, <3>2, <3>3
  <2>2. Opened' = Opened
    <3>1. ~AnnounceBucket
      BY <1>3 DEF FillChunk, Synchronize, SenderAwaits, AnnounceBucket
    <3> QED
      BY <3>1, OpenedStep DEF Carried
  <2> QED
    BY <1>1, <1>2, <2>1, <2>2, LinkKept DEF Same, IsReading
<1>4. CASE SenderEnds
  <2>1. pc[Sender] = "drain" /\ pc'[Sender] = "done"
    <3>1. pc[Sender] = "drain"
      BY <1>4 DEF SenderEnds
    <3> QED
      BY <1>4, <3>1, SenderAwaitDoes
  <2>2. mail[x] = <<>> /\ ~IsReading(x) /\ pc[x] # "dead" /\ mail' = mail
    BY <1>0, <1>4, SenderAwaitDoes DEF LinkFacts
  <2>3. Opened' = Opened
    <3>1. ~AnnounceBucket
      BY <2>1 DEF AnnounceBucket
    <3> QED
      BY <3>1, OpenedStep DEF Carried
  <2>4. Opened = BucketsTo[sync]
    BY <2>1, OpenedIs
  <2>5. Len(landed[x]) = BucketsTo[sync]
    <3>1. Opened = Len(landed[x]) + 0 + 0
      BY <1>1, <1>2, <2>1, <2>2 DEF BalanceOf
    <3> QED
      BY <1>0, <2>4, <3>1 DEF LinkFacts
  <2>6. mail'[x] = mail[x] /\ landed'[x] = landed[x] /\ pc'[x] = pc[x] /\ (IsReading(x)' <=> IsReading(x))
        /\ coming'[x] = coming[x]
    BY <1>1, <2>2 DEF Same, IsReading
  <2>7. BalanceOf(x)'
    BY <1>1, <1>2, <2>1, <2>3, <2>6 DEF BalanceOf
  <2>8. LastOf(x)'
    BY <1>1, <2>2, <2>5, <2>6 DEF LastOf
  <2> QED
    BY <2>7, <2>8
<1>5. CASE AnnounceBucket
  <2>1. /\ pc[Sender] = "announce" /\ mail[x] = <<>> /\ ~IsReading(x) /\ pc[x] # "dead"
        /\ mail'[x] = <<[m |-> held[Sender], b |-> cur[Sender], key |-> fresh]>>
        /\ pc'[Sender] = (IF held[Sender].last THEN "drain" ELSE "pull")
    BY <1>0, <1>5, AnnounceDoes DEF LinkFacts
  <2>2. Opened' = Opened + 1
    BY <1>5, OpenedAnnounce DEF Carried
  <2>3. /\ landed'[x] = landed[x] /\ pc'[x] = pc[x] /\ ~IsReading(x)' /\ coming'[x] = coming[x]
    BY <1>1, <2>1 DEF Same, IsReading
  <2>4. mail'[x] # <<>> /\ Letter(x)'.m = held[Sender]
    BY <2>1 DEF Letter
  <2>5. Opened = Len(landed[x])
    <3>1. Opened = Len(landed[x]) + 0 + 0
      BY <1>1, <1>2, <2>1 DEF BalanceOf
    <3> QED
      BY <1>0, <3>1 DEF LinkFacts
  <2>6. BalanceOf(x)'
    <3>1. Opened' = Len(landed'[x]) + 1 + 0
      BY <1>0, <2>2, <2>3, <2>5 DEF LinkFacts
    <3> QED
      BY <1>2, <2>3, <2>4, <3>1 DEF BalanceOf
  <2>7. ASSUME held[Sender].last PROVE Len(landed[x]) + 1 = BucketsTo[sync]
    <3>1. Opened + 1 = BucketsTo[sync]
      BY <1>5, <2>7, OpenedAnnounce DEF Carried
    <3> QED
      BY <2>5, <3>1
  <2>8. LastOf(x)'
    <3>1. BucketsTo[sync]' = BucketsTo[sync] /\ pc'[Sender] \notin {"done", "loaded"} /\ (IsReading(x)' <=> IsReading(x))
      BY <1>1, <2>1, <2>3
    <3> QED
      BY <1>1, <2>3, <2>4, <2>7, <3>1 DEF LastOf
  <2> QED
    BY <2>6, <2>8
<1> QED
  BY <1>3, <1>4, <1>5 DEF SenderStep

\* A worker's steps, on the link from the one before it.
LEMMA LinkReader ==
  ASSUME Chained, Carried, [Next]_vars, NEW x \in Rollouts, RolloutStep(x)
  PROVE  BalanceOf(x)' /\ LastOf(x)'
<1> DEFINE u == Up(x)
<1>0. LinkFacts(x, u)
  BY LinkHas
<1> HIDE DEF u
<1>a. Up(x) = u /\ BalanceOf(x) /\ LastOf(x) /\ Len(landed[x]) \in Nat /\ \A a \in Nat : a + 0 = a
  BY <1>0 DEF LinkFacts
<1>b. sync' = sync /\ Same(u) /\ BucketsTo[sync]' = BucketsTo[sync]
  BY <1>0, RolloutFrame DEF LinkFacts
<1>c. Passed(u)' = Passed(u) /\ pc'[u] = pc[u]
  <2>1. pc'[u] = pc[u] /\ read'[u] = read[u]
    BY <1>b DEF Same
  <2>2. u \in Rollouts => landed'[u] = landed[u]
    BY <1>0, LandedSame, TransferLands DEF LinkFacts, Carried
  <2>3. Opened' = Opened
    <3>1. ~AnnounceBucket
      BY <1>0, AnnounceDoes, RolloutFrame, Shape DEF Same
    <3> QED
      BY <3>1, OpenedStep DEF Carried
  <2> QED
    BY <1>0, <2>1, <2>2, <2>3, PassedSame DEF LinkFacts
<1>1. CASE FirstRead(x) \/ ReadNext(x)
  <2>1. mail[x] # <<>> /\ mail'[x] = <<>> /\ coming'[x] = Letter(x).m /\ IsReading(x)'
    <3>1. read'[x].state = "reading"
      <4>1. read'[x] = [state |-> "reading", b |-> 1 - cur[x], from |-> Letter(x).b, key |-> Letter(x).key]
        BY <1>1, BeginsRead
      <4> QED
        BY <4>1
    <3> QED
      BY <1>1, <3>1, BeginsRead DEF IsReading
  <2>2. pc[x] \in {"first", "read"} /\ pc'[x] \in {"await", "swap"} /\ landed' = landed
    BY <1>1, FirstReadDoes, ReadNextDoes DEF FirstRead, ReadNext
  <2>3. ~IsReading(x)
    <3>1. read[x] = NoRead
      BY <2>2 DEF Chained, Reader, ReaderOf
    <3> QED
      BY <3>1 DEF IsReading, NoRead
  <2>4. BalanceOf(x)'
    BY <1>a, <1>c, <2>1, <2>2, <2>3 DEF BalanceOf
  <2>5. LastOf(x)'
    BY <1>a, <1>b, <1>c, <2>1, <2>2 DEF LastOf
  <2> QED
    BY <2>4, <2>5
<1>2. CASE Swap(x)
  <2>1. /\ pc[x] = "swap" /\ ~IsReading(x) /\ ~IsReading(x)' /\ mail'[x] = mail[x] /\ coming' = coming
        /\ pc'[x] \in {"drain", "done", "read"} /\ (pc'[x] # "read" => coming[x].last)
    <3>1. /\ pc[x] = "swap" /\ read[x].state = "done" /\ read'[x] = NoRead /\ coming' = coming
          /\ pc'[x] = (IF coming[x].last THEN IF Down(x) # None THEN "drain" ELSE "done" ELSE "read")
          /\ mail'[x] = mail[x]
      BY <1>2, SwapDoes
    <3>2. read'[x].state = "none"
      BY <3>1 DEF NoRead
    <3>3. ~IsReading(x) /\ ~IsReading(x)'
      BY <3>1, <3>2 DEF IsReading
    <3>4. pc'[x] \in {"drain", "done", "read"} /\ (pc'[x] # "read" => coming[x].last)
      BY ONLY <3>1
    <3> QED
      BY <3>1, <3>3, <3>4
  <2>2. landed' = landed /\ Letter(x)' = Letter(x)
    BY <1>2, <2>1 DEF Swap, Letter
  <2>3. BalanceOf(x)'
    BY <1>a, <1>c, <2>1, <2>2 DEF BalanceOf
  <2>4. coming[x].last => Len(landed[x]) = BucketsTo[sync]
    <3>1. coming[x].last => Len(landed[x]) + 0 = BucketsTo[sync]
      BY <1>a, <2>1 DEF LastOf
    <3> QED
      BY <1>a, <3>1
  <2>5. LastOf(x)'
    BY <1>a, <1>b, <1>c, <2>1, <2>2, <2>4 DEF LastOf
  <2> QED
    BY <2>3, <2>5
<1>3. CASE Await(x) \/ Ends(x) \/ Loaded(x)
  <2>1. mail' = mail /\ read' = read /\ coming' = coming /\ landed' = landed
    BY <1>3, AwaitDoes, LoadedDoes DEF Await, Ends, Loaded
  <2>2. \/ pc[x] = "await" /\ pc'[x] = "swap"
        \/ pc[x] = "drain" /\ pc'[x] = "done"
        \/ pc[x] = "done" /\ pc'[x] = "loaded"
    BY <1>3, AwaitDoes, LoadedDoes
  <2>3. IsReading(x)' <=> IsReading(x)
    BY <2>1 DEF IsReading
  <2> QED
    BY <1>a, <1>b, <1>c, <2>1, <2>2, <2>3, LinkKept
<1>4. CASE Transfer(x)
  <2>1. Len(landed'[x]) = Len(landed[x]) + 1 /\ mail[x] = <<>>
    BY <1>4, TransferLands DEF Carried
  <2>2. /\ IsReading(x) /\ ~IsReading(x)' /\ pc[u] # "dead" /\ pc[x] \in {"await", "swap"}
        /\ pc' = pc /\ coming' = coming /\ mail' = mail
    BY <1>4, <1>a, TransferDoes DEF IsReading
  <2>3. Passed(u) = Len(landed[x]) + 1
    <3>1. Passed(u) = Len(landed[x]) + 0 + 1
      BY <1>a, <2>1, <2>2 DEF BalanceOf
    <3> QED
      BY <1>a, <3>1
  <2>4. BalanceOf(x)'
    <3>1. Passed(u)' = Len(landed'[x]) + 0 + 0
      BY <1>a, <1>c, <2>1, <2>3
    <3> QED
      BY <1>a, <2>1, <2>2, <3>1 DEF BalanceOf
  <2>5. Len(landed'[x]) <= BucketsTo[Len(Loads)]
    BY <1>0, <2>1, <2>3, PassedBound DEF LinkFacts
  <2>6. Out(u)
    BY <1>0, <2>2, BoxIsEmpty DEF LinkFacts
  <2>7. pc[u] \notin {"done", "loaded"}
    BY <2>6 DEF Out
  <2>8. LastOf(x)'
    <3>1. coming[x].last => Len(landed'[x]) + 0 = BucketsTo[sync]
      BY <1>a, <2>1, <2>2 DEF LastOf
    <3> QED
      BY <1>a, <1>b, <2>1, <2>2, <2>5, <2>7, <3>1 DEF LastOf
  <2> QED
    BY <2>4, <2>8
<1>5. CASE TransferError(x)
  <2>1. mail' = mail /\ pc'[x] = "dead" /\ landed' = landed /\ Letter(x)' = Letter(x)
    BY <1>5, ErrorDoes DEF TransferError, Letter
  <2>2. BalanceOf(x)'
    BY <2>1 DEF BalanceOf
  <2>3. LastOf(x)'
    BY <1>a, <1>b, <1>c, <2>1 DEF LastOf
  <2> QED
    BY <2>2, <2>3
<1> QED
  BY <1>1, <1>2, <1>3, <1>4, <1>5 DEF RolloutStep
\* A worker's steps, on the link to the one after it.
LEMMA LinkFeeder ==
  ASSUME Chained, Carried, [Next]_vars, NEW x \in Rollouts, NEW u \in Rollouts, u = Up(x), RolloutStep(u)
  PROVE  BalanceOf(x)' /\ LastOf(x)'
<1>0. LinkFacts(x, u)
  BY LinkHas
<1>a. /\ Up(x) = u /\ BalanceOf(x) /\ LastOf(x) /\ Len(landed[x]) \in Nat /\ x # u /\ x \in Agents /\ u # Sender
      /\ Down(u) = x /\ Down(u) # None /\ u \in Agents
  BY <1>0, Shape DEF LinkFacts
<1>b. sync' = sync /\ Same(x) /\ BucketsTo[sync]' = BucketsTo[sync]
  BY <1>a, RolloutFrame
<1>c. pc'[x] = pc[x] /\ coming'[x] = coming[x] /\ (IsReading(x)' <=> IsReading(x))
  BY <1>b DEF Same, IsReading
<1>d. landed'[x] = landed[x]
  BY <1>a, LandedSame, TransferLands DEF Carried
<1>e. Len(landed[u]) \in Nat
  BY LandedIs DEF Carried
<1> DEFINE n == Len(landed[u])
<1>f. /\ read[u].state = "done" => Passed(u) = n - 1
      /\ read[u].state # "done" => Passed(u) = n
  <2>1. Passed(u) = Len(landed[u]) - (IF read[u].state = "done" THEN 1 ELSE 0)
    BY <1>a DEF Passed
  <2>2. CASE read[u].state = "done"
    BY <2>1, <2>2
  <2>3. CASE read[u].state # "done"
    BY <1>e, <2>1, <2>3
  <2> QED
    BY <2>2, <2>3
<1>g. \A m \in Nat : /\ Len(landed'[u]) = m /\ read'[u].state = "done" => Passed(u)' = m - 1
                     /\ Len(landed'[u]) = m /\ read'[u].state # "done" => Passed(u)' = m
  <2> SUFFICES ASSUME NEW m \in Nat, Len(landed'[u]) = m
               PROVE  /\ read'[u].state = "done" => Passed(u)' = m - 1
                      /\ read'[u].state # "done" => Passed(u)' = m
    OBVIOUS
  <2>1. Passed(u)' = Len(landed'[u]) - (IF read'[u].state = "done" THEN 1 ELSE 0)
    BY <1>a DEF Passed
  <2>2. CASE read'[u].state = "done"
    BY <2>1, <2>2
  <2>3. CASE read'[u].state # "done"
    BY <2>1, <2>3
  <2> QED
    BY <2>2, <2>3
<1> HIDE DEF n
<1>1. CASE FirstRead(u) \/ ReadNext(u)
  <2>1. mail'[x] = mail[x]
    BY <1>a, <1>1, TypedFns DEF FirstRead, ReadNext, BeginRead
  <2>2. pc[u] \in {"first", "read"} /\ pc'[u] \in {"await", "swap"} /\ landed' = landed
    BY <1>1, FirstReadDoes, ReadNextDoes DEF FirstRead, ReadNext
  <2>3. read[u].state # "done" /\ read'[u].state # "done"
    <3>1. read[u] = NoRead
      BY <2>2 DEF Chained, Reader, ReaderOf
    <3>2. read'[u] = [state |-> "reading", b |-> 1 - cur[u], from |-> Letter(u).b, key |-> Letter(u).key]
      BY <1>1, BeginsRead
    <3> QED
      BY <3>1, <3>2 DEF NoRead
  <2>4. Passed(u)' = Passed(u)
    BY <1>e, <1>f, <1>g, <2>2, <2>3 DEF n
  <2> QED
    BY <1>a, <1>b, <1>c, <1>d, <2>1, <2>2, <2>4, LinkKept
<1>2. CASE Transfer(u)
  <2>1. Len(landed'[u]) = n + 1
    BY <1>2, TransferLands DEF Carried, n
  <2>2. pc' = pc /\ mail' = mail /\ read'[u].state = "done" /\ read[u].state # "done"
    BY <1>2, TransferDoes DEF IsReading
  <2>3. Passed(u)' = Passed(u)
    <3>1. Passed(u) = n /\ n \in Nat
      BY <1>e, <1>f, <2>2 DEF n
    <3>2. Passed(u)' = (n + 1) - 1
      BY <1>g, <2>1, <2>2, <3>1
    <3> QED
      BY <3>1, <3>2
  <2> QED
    BY <1>a, <1>b, <1>c, <1>d, <2>2, <2>3, LinkKept
<1>3. CASE Swap(u)
  <2>1. /\ read[u].state = "done" /\ read'[u] = NoRead /\ pc[u] = "swap"
        /\ pc'[u] = (IF coming[u].last THEN "drain" ELSE "read")
        /\ mail'[x] = <<[m |-> coming[u], b |-> 1 - cur[u], key |-> fresh]>>
        /\ mail[x] = <<>> /\ ~IsReading(x)
    <3>1. Down(u) \in Rollouts
      BY <1>a
    <3> QED
      BY <1>a, <1>3, SwapDoes
  <2>2. landed' = landed
    BY <1>3 DEF Swap
  <2>3. Passed(u) = n - 1 /\ Passed(u)' = n /\ n \in Nat
    <3>1. read'[u].state # "done"
      BY <2>1 DEF NoRead
    <3>2. Passed(u)' = n
      BY <1>e, <1>g, <2>2, <3>1 DEF n
    <3> QED
      BY <1>e, <1>f, <2>1, <3>2 DEF n
  <2>4. mail'[x] # <<>> /\ Letter(x)'.m = coming[u]
    BY <2>1 DEF Letter
  <2>5. BalanceOf(x)'
    <3>1. pc[x] # "dead" => Passed(u) = Len(landed[x]) + 0 + 0
      BY <1>a, <2>1 DEF BalanceOf
    <3>2. pc[x] # "dead" => Passed(u)' = Len(landed[x]) + 1 + 0
      BY <1>a, <2>3, <3>1
    <3> QED
      BY <1>a, <1>c, <1>d, <2>1, <2>4, <3>2 DEF BalanceOf
  <2>6. ASSUME coming[u].last PROVE Len(landed[x]) + 1 = BucketsTo[sync]
    <3>1. n = BucketsTo[sync]
      <4>1. LastOf(u) /\ ~IsReading(u)
        BY <2>1 DEF Carried, Balanced, IsReading
      <4>2. n + 0 = BucketsTo[sync]
        BY <2>1, <2>6, <4>1 DEF LastOf, n
      <4> QED
        BY <2>3, <4>2
    <3>2. pc[x] # "dead"
      <4>1. PlaceOf(x) /\ ~Out(u) /\ pc[u] # "dead"
        BY <1>a, <2>1 DEF Chained, InOnePlace, Out
      <4> QED
        BY <1>a, <4>1 DEF PlaceOf
    <3>3. Passed(u) = Len(landed[x]) + 0 + 0
      BY <1>a, <2>1, <3>2 DEF BalanceOf
    <3> QED
      BY <1>a, <2>3, <3>1, <3>3
  <2>7. LastOf(x)'
    <3>1. pc'[u] \notin {"done", "loaded"}
      BY <2>1
    <3> QED
      BY <1>a, <1>b, <1>c, <1>d, <2>4, <2>6, <3>1 DEF LastOf
  <2> QED
    BY <2>5, <2>7
<1>4. CASE Await(u) \/ Loaded(u)
  <2>1. mail' = mail /\ read' = read /\ landed' = landed
    BY <1>4, AwaitDoes, LoadedDoes DEF Await, Loaded
  <2>2. \/ pc[u] = "await" /\ pc'[u] = "swap"
        \/ pc[u] = "done" /\ pc'[u] = "loaded"
    BY <1>4, AwaitDoes, LoadedDoes DEF Await
  <2>3. Passed(u)' = Passed(u)
    BY <1>a, <2>1, PassedSame
  <2> QED
    BY <1>a, <1>b, <1>c, <1>d, <2>1, <2>2, <2>3, LinkKept
<1>5. CASE Ends(u)
  <2>1. mail' = mail /\ read' = read /\ landed' = landed /\ mail[x] = <<>> /\ ~IsReading(x) /\ notes[u] = <<key[u]>>
    BY <1>a, <1>5, AwaitDoes DEF Ends
  <2>2. pc[u] = "drain" /\ pc'[u] = "done"
    BY <1>5, AwaitDoes DEF Ends
  <2>3. Passed(u)' = Passed(u)
    BY <1>a, <2>1, PassedSame
  <2>4. pc[x] # "dead"
    <3>1. PlaceOf(x) /\ notes[u] # <<>>
      BY <2>1 DEF Chained, InOnePlace
    <3> QED
      BY <1>a, <2>2, <3>1 DEF PlaceOf
  <2>5. Len(landed[x]) = BucketsTo[sync]
    <3>1. LastOf(u) /\ read[u].state # "done"
      <4>1. read[u] = NoRead
        BY <2>2 DEF Chained, Reader, ReaderOf
      <4> QED
        BY <4>1 DEF Carried, Balanced, NoRead
    <3>2. n = BucketsTo[sync] /\ Passed(u) = n
      BY <1>f, <2>2, <3>1 DEF LastOf, n
    <3>3. Passed(u) = Len(landed[x]) + 0 + 0
      BY <1>a, <2>1, <2>2, <2>4 DEF BalanceOf
    <3> QED
      BY <1>a, <3>2, <3>3
  <2>6. BalanceOf(x)'
    BY <1>a, <1>c, <1>d, <2>1, <2>2, <2>3 DEF BalanceOf
  <2>7. LastOf(x)'
    <3>1. Letter(x)' = Letter(x)
      BY <2>1 DEF Letter
    <3> QED
      BY <1>a, <1>b, <1>c, <1>d, <2>1, <2>5, <3>1 DEF LastOf
  <2> QED
    BY <2>6, <2>7
<1>6. CASE TransferError(u)
  <2>1. mail' = mail /\ pc'[u] = "dead"
    BY <1>6, ErrorDoes
  <2>2. BalanceOf(x)'
    BY <1>a, <2>1 DEF BalanceOf
  <2>3. LastOf(x)'
    <3>1. Letter(x)' = Letter(x)
      BY <2>1 DEF Letter
    <3> QED
      BY <1>a, <1>b, <1>c, <1>d, <2>1, <3>1 DEF LastOf
  <2> QED
    BY <2>2, <2>3
<1> QED
  BY <1>1, <1>2, <1>3, <1>4, <1>5, <1>6 DEF RolloutStep

\* Every step keeps the links.
LEMMA BalanceStep ==
  ASSUME Chained, Carried, [Next]_vars
  PROVE  Balanced'
<1> SUFFICES ASSUME NEW x \in Rollouts PROVE BalanceOf(x)' /\ LastOf(x)'
  BY DEF Balanced
<1> DEFINE u == Up(x)
<1>0. LinkFacts(x, u)
  BY LinkHas
<1>00. /\ Up(x) = u /\ BalanceOf(x) /\ LastOf(x) /\ x \in Agents /\ u \in Agents /\ u # x /\ x # Sender
       /\ (u = Sender \/ (u \in Rollouts /\ u # Sender)) /\ Down(u) = x
  BY <1>0 DEF LinkFacts
<1> HIDE DEF u
<1>1. CASE NextSync
  BY <1>1, LinkNext
<1>2. CASE SenderStep /\ u # Sender
  <2>1. x # Down(Sender)
    BY <1>2, <1>00, Shape
  <2>2. Same(x) /\ SameLink(x) /\ Same(u) /\ sync' = sync /\ landed' = landed
    BY <1>00, <1>2, <2>1, SenderFrame, LandedSame
  <2>3. Passed(u)' = Passed(u)
    BY <1>00, <1>2, <2>2, PassedSame DEF Same
  <2> QED
    BY <1>00, <2>2, <2>3, LinkKept DEF Same, SameLink, IsReading
<1>3. CASE SenderStep /\ u = Sender
  BY <1>00, <1>3, LinkSender
<1>4. ASSUME NEW w \in Agents, Join(w) \/ Device(w) PROVE BalanceOf(x)' /\ LastOf(x)'
  <2>1. /\ \A y \in Agents \ {w} : Same(y)
        /\ mail' = mail /\ sync' = sync /\ coming' = coming /\ read' = read /\ landed' = landed
    BY <1>4, OwnFrame, LandedSame
  <2>2. pc' = pc \/ (pc[w] = "init" /\ (w = Sender => pc'[w] = "pull") /\ (w \in Rollouts => pc'[w] \in {"first", "refused"}))
    BY <1>4, JoinDoes DEF Device
  <2>3. ~AnnounceBucket
    <3>1. pc'[Sender] = pc[Sender] \/ (pc[Sender] = "init" /\ pc'[Sender] = "pull")
      <4>1. CASE w = Sender
        BY <2>2, <4>1
      <4>2. CASE w # Sender
        BY <2>1, <4>2, Shape DEF Same
      <4> QED
        BY <4>1, <4>2
    <3> QED
      BY <3>1, AnnounceDoes
  <2>4. Passed(u)' = Passed(u)
    <3>1. Opened' = Opened
      BY <2>3, OpenedStep DEF Carried
    <3> QED
      BY <1>00, <2>1, <3>1, PassedSame
  <2>5. \A y \in {x, u} : pc'[y] = pc[y] \/ (pc[y] = "init" /\ pc'[y] \in {"pull", "first", "refused"})
    <3> SUFFICES ASSUME NEW y \in {x, u}
                 PROVE  pc'[y] = pc[y] \/ (pc[y] = "init" /\ pc'[y] \in {"pull", "first", "refused"})
      OBVIOUS
    <3>1. CASE y = w
      BY <1>00, <2>2, <3>1
    <3>2. CASE y # w
      BY <1>00, <2>1, <3>2 DEF Same
    <3> QED
      BY <3>1, <3>2
  <2> QED
    BY <1>00, <2>1, <2>4, <2>5, LinkKept DEF IsReading
<1>6. ASSUME NEW w \in Rollouts, RolloutStep(w), w # x, w # u PROVE BalanceOf(x)' /\ LastOf(x)'
  <2>1. x # Down(w)
    BY <1>00, <1>6, Shape
  <2>2. Same(x) /\ SameLink(x) /\ Same(u) /\ sync' = sync
    BY <1>00, <1>6, <2>1, RolloutFrame
  <2>3. landed'[x] = landed[x] /\ (u \in Rollouts => landed'[u] = landed[u])
    BY <1>6, LandedSame, TransferLands DEF Carried
  <2>4. Passed(u)' = Passed(u)
    <3>1. ~AnnounceBucket
      BY <1>6, AnnounceDoes, RolloutFrame, Shape DEF Same
    <3>2. Opened' = Opened
      BY <3>1, OpenedStep DEF Carried
    <3> QED
      BY <1>00, <2>2, <2>3, <3>2, PassedSame DEF Same
  <2> QED
    BY <1>00, <2>2, <2>3, <2>4, LinkKept DEF Same, SameLink, IsReading
<1>7. ASSUME RolloutStep(x) PROVE BalanceOf(x)' /\ LastOf(x)'
  BY <1>7, LinkReader
<1>8. ASSUME u \in Rollouts, RolloutStep(u) PROVE BalanceOf(x)' /\ LastOf(x)'
  BY <1>00, <1>8, LinkFeeder
<1>9. CASE UNCHANGED vars
  <2>1. /\ sync' = sync /\ landed' = landed /\ mail' = mail /\ read' = read /\ coming' = coming /\ pc' = pc
        /\ key' = key /\ held' = held /\ pulled' = pulled
    BY <1>9 DEF vars, chain, op, fill
  <2>2. Opened' = Opened
    BY <2>1 DEF Opened, Cut
  <2>3. Passed(u)' = Passed(u)
    BY <1>00, <2>1, <2>2, PassedSame
  <2> QED
    BY <1>00, <2>1, <2>3, LinkKept DEF IsReading
<1> QED
  BY <1>00, <1>1, <1>2, <1>3, <1>4, <1>6, <1>7, <1>8, <1>9
     DEF Next, Step, Stop, SenderStep, RolloutStep

-----------------------------------------------------------------------------
(* The promise.                                                              *)

\* Nothing is announced at first.
LEMMA CarriedInit == Init => Carried
<1> SUFFICES ASSUME Init PROVE Carried
  OBVIOUS
<1> USE Shape DEF Init
<1>1. LandedType
  BY DEF LandedType
<1>2. 1 \in 1..Len(Loads) /\ 1 - 1 = 0
  BY ChainAssumption
<1>3. /\ sync = 1 /\ pulled = 0 /\ offset = 0 /\ pc[Sender] = "init" /\ BucketsTo[0] = 0
      /\ Packing(1)[0].full = 0 /\ Packing(1)[0].bytes = 0
  BY <1>2, PackingIs, BucketsToIs
<1>4. ~Cut
  BY DEF Cut
<1>5. PackedSoFar
  BY <1>3, <1>4 DEF PackedSoFar
<1>6. Opened = 0
  BY <1>2, <1>3, <1>4 DEF Opened
<1>7. BucketsTo[Len(Loads)] \in Nat
  BY <1>2, BucketsToIs
<1>8. ASSUME NEW x \in Rollouts PROVE BalanceOf(x) /\ LastOf(x)
  <2>1. /\ pc[x] = "init" /\ pc[Up(x)] = "init" /\ mail[x] = <<>> /\ read[x] = NoRead /\ read[Up(x)] = NoRead
        /\ landed[x] = <<>> /\ Len(<<>>) = 0 /\ (Up(x) \in Rollouts => landed[Up(x)] = <<>>)
        /\ (Up(x) = Sender \/ Up(x) \in Rollouts)
    BY <1>1
  <2>2. NoRead.state = "none"
    BY DEF NoRead
  <2>3. Passed(Up(x)) = 0
    BY <1>6, <2>1, <2>2 DEF Passed
  <2>4. ~IsReading(x)
    BY <2>1, <2>2 DEF IsReading
  <2>5. BalanceOf(x)
    BY <2>1, <2>3, <2>4 DEF BalanceOf
  <2>6. LastOf(x)
    BY <1>7, <2>1 DEF LastOf
  <2> QED
    BY <2>5, <2>6
<1> QED
  BY <1>1, <1>5, <1>8 DEF Carried, Balanced

\* Every step keeps what is carried.
LEMMA CarriedStep ==
  ASSUME Chained, Carried, [Next]_vars
  PROVE  Carried'
<1>1. LandedType'
  <2>1. landed' = landed \/ \E w \in Rollouts : Transfer(w)
    BY LandedSame DEF Next, Step, Stop, SenderStep, RolloutStep
  <2>2. ASSUME NEW w \in Rollouts, Transfer(w) PROVE LandedType'
    BY <2>2, TransferLands DEF Carried
  <2>3. landed' = landed => LandedType'
    BY DEF Carried, LandedType
  <2> QED
    BY <2>1, <2>2, <2>3
<1> QED
  BY <1>1, OpenedStep, BalanceStep DEF Carried

\* What the promise calls a worker's outcome, and what has been read of the one stream.
Outcome(w) == IF pc[w] \in {"refused", "dead"} THEN "failure"
              ELSE IF sync = Len(Loads) /\ HasEnded(w) THEN "success" ELSE "pending"
Outcomes == [w \in Agents |-> Outcome(w)]
BucketsRead == [x \in {Sender} \X Rollouts |-> landed[x[2]]]
LEMMA ReadOf == \A n \in Rollouts : <<Sender, n>> \in {Sender} \X Rollouts /\ BucketsRead[<<Sender, n>>] = landed[n]
BY DEF BucketsRead

\* An agent ends a sync when it has read all of it, and so has the agent that it feeds.
LEMMA EndsWhole ==
  ASSUME Chained, Carried, sync = Len(Loads), NEW w \in Agents, HasEnded(w)
  PROVE  /\ w \in Rollouts => Len(landed[w]) = BucketsTo[Len(Loads)]
         /\ \A n \in Rollouts : w = Up(n) => Len(landed[n]) = BucketsTo[Len(Loads)]
<1>1. pc[w] = (IF w \in Rollouts THEN "loaded" ELSE "done")
  BY DEF HasEnded
<1>2. \A n \in Rollouts : LastOf(n)
  BY DEF Carried, Balanced
<1>3. w \in Rollouts => Len(landed[w]) = BucketsTo[Len(Loads)]
  BY <1>1, <1>2 DEF LastOf
<1>4. \A n \in Rollouts : w = Up(n) => Len(landed[n]) = BucketsTo[Len(Loads)]
  BY <1>1, <1>2 DEF LastOf
<1> QED
  BY <1>3, <1>4

\* The agents that feed each other are neighbours.
LEMMA Fed ==
  \A w \in Agents, n \in Rollouts :
    <<Sender, w, n>> \in {<<Sender, v, v + 1>> : v \in Rollouts \ {NumActors + NumRollouts}}
                           \cup {<<Sender, Sender, NumActors + 1>>} => w = Up(n)
<1> SUFFICES ASSUME NEW w \in Agents, NEW n \in Rollouts,
                    <<Sender, w, n>> \in {<<Sender, v, v + 1>> : v \in Rollouts \ {NumActors + NumRollouts}}
                                           \cup {<<Sender, Sender, NumActors + 1>>}
             PROVE  w = Up(n)
  OBVIOUS
<1>1. CASE <<Sender, w, n>> = <<Sender, Sender, NumActors + 1>>
  BY <1>1 DEF Up
<1>2. CASE \E v \in Rollouts \ {NumActors + NumRollouts} : <<Sender, w, n>> = <<Sender, v, v + 1>>
  <2>1. w \in Rollouts /\ n = w + 1
    BY <1>2
  <2> QED
    BY <2>1, ChainAssumption DEF Up, Rollouts
<1> QED
  BY <1>1, <1>2

\* A transfer is a read of the promise.
LEMMA TransferReads ==
  ASSUME Chained, Carried, Carried', NEW w \in Rollouts, Transfer(w)
  PROVE  Broadcast!Read(Sender, w)
<1>1. landed' = [landed EXCEPT ![w] = Append(landed[w], Len(landed[w]))] /\ Len(landed'[w]) = Len(landed[w]) + 1
  BY TransferLands DEF Carried
<1>2. Len(landed[w]) < BucketsTo[Len(Loads)]
  <2>1. Len(landed'[w]) <= BucketsTo[Len(Loads)]
    BY DEF Carried, Balanced, LastOf
  <2>2. Len(landed[w]) \in Nat /\ BucketsTo[Len(Loads)] \in Nat
    BY LandedIs, SenderNumbers DEF Carried
  <2> QED
    BY <1>1, <2>1, <2>2
<1>3. pc' = pc /\ sync' = sync
  BY DEF Transfer, chain
<1>4. Outcomes' = Outcomes
  BY <1>3 DEF Outcomes, Outcome, HasEnded
<1>5. BucketsRead' = [BucketsRead EXCEPT ![<<Sender, w>>] = Append(@, Len(@))]
  <2> DEFINE D == {Sender} \X Rollouts
             f == [BucketsRead EXCEPT ![<<Sender, w>>] = Append(BucketsRead[<<Sender, w>>], Len(BucketsRead[<<Sender, w>>]))]
  <2>1. landed \in [Rollouts -> Seq(Int)]
    BY DEF Carried, LandedType
  <2>2. ASSUME NEW x \in D PROVE landed'[x[2]] = f[x]
    <3>1. x[2] \in Rollouts /\ x = <<Sender, x[2]>>
      OBVIOUS
    <3>2. CASE x[2] = w
      <4>1. x = <<Sender, w>>
        BY <3>1, <3>2
      <4>2. f[x] = Append(landed[w], Len(landed[w]))
        BY <4>1, ReadOf DEF BucketsRead
      <4>3. landed'[x[2]] = Append(landed[w], Len(landed[w]))
        BY <1>1, <2>1, <3>2
      <4> QED
        BY <4>2, <4>3
    <3>3. CASE x[2] # w
      <4>1. x # <<Sender, w>>
        BY <3>3
      <4>2. f[x] = landed[x[2]]
        BY <4>1 DEF BucketsRead
      <4>3. landed'[x[2]] = landed[x[2]]
        BY <1>1, <2>1, <3>1, <3>3
      <4> QED
        BY <4>2, <4>3
    <3> QED
      BY <3>2, <3>3
  <2>3. DOMAIN f = D /\ f = [x \in D |-> f[x]]
    BY DEF BucketsRead
  <2>4. BucketsRead' = [x \in D |-> landed'[x[2]]]
    BY DEF BucketsRead
  <2> HIDE DEF f, D
  <2>5. BucketsRead' = f
    BY <2>2, <2>3, <2>4
  <2> QED
    BY <2>5 DEF f
<1>6. BucketsRead[<<Sender, w>>] = landed[w]
  BY ReadOf
<1> QED
  BY <1>2, <1>4, <1>5, <1>6 DEF Broadcast!Read, Outcomes, Outcome, BucketsRead
\* An agent that goes on may end, well or not.
LEMMA AgentMoves ==
  ASSUME Chained, Carried, Carried', NEW w \in Agents, sync' = sync, landed' = landed,
         \A v \in Agents \ {w} : pc'[v] = pc[v],
         pc'[w] # pc[w] => pc[w] \notin {"refused", "dead"} /\ ~HasEnded(w)
  PROVE  [Broadcast!Next]_(Broadcast!vars)
<1>1. \A v \in Agents \ {w} : Outcome(v)' = Outcome(v)
  BY DEF Outcome, HasEnded
<1>2. BucketsRead' = BucketsRead
  BY DEF BucketsRead
<1>3. DOMAIN Outcomes = Agents /\ Outcomes[w] = Outcome(w)
  BY DEF Outcomes
<1>4. \A o : Outcome(w)' = o => Outcomes' = [Outcomes EXCEPT ![w] = o]
  <2> SUFFICES ASSUME NEW o, Outcome(w)' = o PROVE Outcomes' = [Outcomes EXCEPT ![w] = o]
    OBVIOUS
  <2>1. Outcomes' = [v \in Agents |-> Outcome(v)']
    BY DEF Outcomes
  <2>2. [Outcomes EXCEPT ![w] = o] = [v \in Agents |-> IF v = w THEN o ELSE Outcome(v)]
    BY DEF Outcomes
  <2>3. \A v \in Agents : Outcome(v)' = IF v = w THEN o ELSE Outcome(v)
    BY <1>1
  <2> QED
    BY <2>1, <2>2, <2>3
<1>5. w \in Actors \cup Rollouts
  BY ChainAssumption DEF Actors, Rollouts, Agents
<1>6. CASE Outcome(w)' = Outcome(w)
  <2>1. Outcomes' = Outcomes
    <3>1. \A v \in Agents : Outcome(v)' = Outcome(v)
      BY <1>1, <1>6
    <3> QED
      BY <3>1 DEF Outcomes
  <2> QED
    BY <1>2, <2>1 DEF Outcomes, Outcome, BucketsRead, Broadcast!vars
<1>7. CASE Outcome(w)' # Outcome(w)
  <2>1. Outcomes[w] = "pending"
    <3>1. pc'[w] # pc[w]
      BY <1>7 DEF Outcome, HasEnded
    <3>2. Outcome(w) = "pending"
      BY <3>1 DEF Outcome
    <3> QED
      BY <1>3, <3>2
  <2>2. CASE Outcome(w)' = "failure"
    <3>1. Outcomes' = [Outcomes EXCEPT ![w] = "failure"]
      BY <1>4, <2>2
    <3>2. Broadcast!Fail(w)
      BY <1>2, <2>1, <3>1 DEF Broadcast!Fail, Outcomes, Outcome, BucketsRead
    <3> QED
      BY <1>5, <3>2 DEF Broadcast!Next, Broadcast!Everyone
  <2>3. CASE Outcome(w)' = "success"
    <3>1. Outcomes' = [Outcomes EXCEPT ![w] = "success"]
      BY <1>4, <2>3
    <3>2. sync = Len(Loads) /\ pc'[w] = (IF w \in Rollouts THEN "loaded" ELSE "done")
      BY <2>3 DEF Outcome, HasEnded
    <3>3. \A n \in Rollouts : LastOf(n)'
      BY DEF Carried, Balanced
    <3>4. w \in Rollouts => Len(landed[w]) = BucketsTo[Len(Loads)]
      BY <3>2, <3>3 DEF LastOf
    <3>5. \A n \in Rollouts : w = Up(n) => Len(landed[n]) = BucketsTo[Len(Loads)]
      BY <3>2, <3>3 DEF LastOf
    <3>6. \A n \in Rollouts : Len(BucketsRead[<<Sender, n>>]) = Len(landed[n])
      BY ReadOf
    <3>7. w \in Rollouts => Broadcast!HasAll(w)
      BY <3>4, <3>6 DEF Broadcast!HasAll, BucketsRead
    <3>8. \A s \in {Sender}, n \in Rollouts :
            <<s, w, n>> \in {<<Sender, v, v + 1>> : v \in Rollouts \ {NumActors + NumRollouts}}
                             \cup {<<Sender, Sender, NumActors + 1>>}
              => Len(BucketsRead[<<s, n>>]) = [s2 \in {Sender} |-> BucketsTo[Len(Loads)]][s]
      BY <3>5, <3>6, Fed
    <3>9. Broadcast!Succeed(w)
      BY <1>2, <2>1, <3>1, <3>7, <3>8 DEF Broadcast!Succeed, Outcomes, Outcome, BucketsRead
    <3> QED
      BY <1>5, <3>9 DEF Broadcast!Next, Broadcast!Everyone
  <2>4. CASE Outcome(w)' = "pending"
    BY <1>3, <1>7, <2>1, <2>4
  <2> QED
    BY <2>2, <2>3, <2>4 DEF Outcome
<1> QED
  BY <1>6, <1>7

\* The start of the syncs is that of the promise.
LEMMA PromiseInit == Init => Broadcast!Init
<1> SUFFICES ASSUME Init PROVE Broadcast!Init
  OBVIOUS
<1>1. Actors \cup Rollouts = Agents
  BY ChainAssumption DEF Actors, Rollouts, Agents
<1>2. \A w \in Agents : Outcome(w) = "pending"
  BY DEF Init, Outcome, HasEnded
<1>3. Outcomes = [w \in Agents |-> "pending"]
  BY <1>2 DEF Outcomes
<1>4. BucketsRead = [x \in {Sender} \X Rollouts |-> <<>>]
  BY DEF BucketsRead, Init
<1> QED
  BY <1>1, <1>3, <1>4 DEF Broadcast!Init, Broadcast!Everyone, Outcomes, Outcome, BucketsRead

\* Every step is one of the promise, or none.
LEMMA PromiseStep ==
  ASSUME Chained, Carried, Carried', [Next]_vars
  PROVE  [Broadcast!Next]_(Broadcast!vars)
<1>1. CASE NextSync
  <2>1. /\ sync \in Nat /\ sync < Len(Loads) /\ landed' = landed /\ sync' = sync + 1
        /\ \A w \in Agents : HasEnded(w) /\ pc'[w] = "init"
    BY <1>1, PlainNumbers DEF NextSync
  <2>2. \A w \in Agents : Outcome(w)' = Outcome(w)
    BY <2>1 DEF Outcome, HasEnded
  <2>3. Outcomes' = Outcomes
    BY <2>2 DEF Outcomes
  <2>4. BucketsRead' = BucketsRead
    BY <2>1 DEF BucketsRead
  <2> QED
    BY <2>3, <2>4 DEF Outcomes, Outcome, BucketsRead, Broadcast!vars
<1>2. CASE SenderStep
  <2>1. /\ Sender \in Agents /\ sync' = sync /\ landed' = landed
        /\ \A v \in Agents \ {Sender} : pc'[v] = pc[v]
    BY <1>2, SenderFrame, LandedSame, Shape DEF Same
  <2>2. pc[Sender] \in {"pull", "await", "announce", "drain"}
    BY <1>2 DEF SenderStep, FillChunk, Synchronize, SenderAwaits, AnnounceBucket, SenderEnds
  <2>3. ~HasEnded(Sender)
    BY <2>2, Shape DEF HasEnded
  <2> QED
    BY <2>1, <2>2, <2>3, AgentMoves
<1>3. ASSUME NEW w \in Agents, Join(w) \/ Device(w) PROVE [Broadcast!Next]_(Broadcast!vars)
  <2>1. /\ sync' = sync /\ landed' = landed
        /\ \A v \in Agents \ {w} : pc'[v] = pc[v]
    BY <1>3, OwnFrame, LandedSame DEF Same
  <2>2. pc'[w] # pc[w] => pc[w] = "init"
    BY <1>3, JoinDoes DEF Device
  <2> QED
    BY <2>1, <2>2, AgentMoves DEF HasEnded
<1>4. ASSUME NEW w \in Rollouts, RolloutStep(w) PROVE [Broadcast!Next]_(Broadcast!vars)
  <2>1. w \in Agents /\ sync' = sync /\ \A v \in Agents \ {w} : pc'[v] = pc[v]
    BY <1>4, RolloutFrame, Shape DEF Same
  <2>2. CASE Transfer(w)
    BY <2>2, TransferReads DEF Broadcast!Next
  <2>3. CASE ~Transfer(w)
    <3>1. landed' = landed
      BY <1>4, <2>3, LandedSame
    <3>2. pc[w] \in {"first", "swap", "read", "await", "drain", "done"}
      <4>1. TransferError(w) => pc[w] \in {"await", "swap"}
        BY ReadsIt DEF TransferError
      <4> QED
        BY <1>4, <2>3, <4>1 DEF RolloutStep, FirstRead, Swap, ReadNext, Await, Ends, Loaded
    <3> QED
      BY <2>1, <3>1, <3>2, AgentMoves DEF HasEnded
  <2> QED
    BY <2>2, <2>3
<1>5. CASE UNCHANGED vars
  <2>1. pc' = pc /\ sync' = sync /\ landed' = landed
    BY <1>5 DEF vars, chain
  <2> QED
    BY <2>1, AgentMoves, Shape
<1> QED
  BY <1>1, <1>2, <1>3, <1>4, <1>5 DEF Next, Step, Stop, SenderStep, RolloutStep

\* The syncs of CNIXLCheckpointEngine carry out the promise of a weight broadcast: an agent READs
\* the buckets in order and unchanged, and when it has ended its last sync it and the agent that it
\* feeds have read every one that send_weights made of the chunks; with any agents, weights, syncs
\* and transfers that fail.
THEOREM BucketsBroadcast == Spec => ImplementsBroadcast
<1>1. Init => Broadcast!Init /\ Chained /\ Carried
  BY PromiseInit, ChainedInit, CarriedInit
<1>2. Chained /\ Carried /\ [Next]_vars => Chained' /\ Carried' 
  BY ChainedStep, CarriedStep
<1>3. Chained /\ Carried /\ Carried' /\ [Next]_vars => [Broadcast!Next]_(Broadcast!vars)
  BY PromiseStep
<1> QED
  BY <1>1, <1>2, <1>3, PTL DEF Spec, ImplementsBroadcast, Broadcast!Spec
=============================================================================
