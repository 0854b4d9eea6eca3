---------------------------- MODULE MoriSyncInv ----------------------------
(***************************************************************************)
(* The inductive invariants of MoriSync.  Order says where an item can be: *)
(* it is packed once, goes through the stages of a write one after the     *)
(* other, and is taken by its receiver once.  Exclusion says who may use a *)
(* slot: a slot that may be written is neither in use at its worker nor    *)
(* already being written.  Contents says what the slots hold where         *)
(* somebody is going to read them, and Accounts that no bucket is lost     *)
(* unless its writer or its receiver failed.                               *)
(***************************************************************************)
EXTENDS MoriSync

\* The buckets of stripe c for which w may have started write tasks.
Begun(c, w) ==
  IF w \in Rollouts /\ st[w] \notin {"idle", "open"} /\ pc[<<c, w>>] \notin {"bucket", "arrive"}
  THEN k[<<c, w>>] + 1 ELSE k[<<c, w>>]

\* The buckets n took from its messages, and those it offered to its consumer.
Taken(c, n)   == IF pc[<<c, n>>] \in {"arrive", "offer", "held"} THEN k[<<c, n>>] + 1 ELSE k[<<c, n>>]
Offered(c, n) == IF pc[<<c, n>>] \in {"offer", "held"} THEN k[<<c, n>>] + 1 ELSE k[<<c, n>>]

Announced == posted \cup inq \cup early
Underway  == waiting \cup writing \cup dma \cup Announced

-----------------------------------------------------------------------------
(* Types and program counters.                                               *)

\* A worker that is not in the sync has begun nothing.
AtStart ==
  \A c \in Stripes, w \in Workers :
    st[w] \in {"idle", "open"} => pc[<<c, w>>] = "off" /\ k[<<c, w>>] = 0

\* A chain that works on a bucket has one left; senders are leaders, receivers
\* rollout workers.
BucketLeft ==
  \A c \in Stripes, w \in Workers :
    /\ pc[<<c, w>>] \in {"pack", "arrive", "offer", "held"} => k[<<c, w>>] < NumBuckets(c)
    /\ pc[<<c, w>>] \in {"pack", "flush"} => w = Leader[c]
    /\ pc[<<c, w>>] \in {"bucket", "arrive", "offer", "held", "final", "error"} => w \in Rollouts

Shape == TypeOK /\ AtStart /\ BucketLeft

-----------------------------------------------------------------------------
(* Order.                                                                    *)

\* A write task belongs to a bucket its worker has begun.
BegunFirst == \A i \in Underway \cup air \cup inbound : i[3] < Begun(i[1], Prev[<<i[1], i[2]>>])

\* No bucket is under way that its receiver has already taken; one still in
\* the air has not been offered to the consumer.
TakenLast ==
  /\ \A i \in Underway : Taken(i[1], i[2]) <= i[3]
  /\ \A i \in air : Offered(i[1], i[2]) <= i[3]

\* A receiver is never ahead of its previous hop.
NotAhead == \A c \in Stripes, n \in Rollouts : Taken(c, n) <= Begun(c, Prev[<<c, n>>])

\* The stages of an item exclude each other, except that a bucket may be
\* announced while its data is still in the air.
StagesApart ==
  /\ waiting \cap (writing \cup dma \cup air \cup inbound \cup Announced) = {}
  /\ writing \cap Announced = {}
  /\ posted \cap (inq \cup early) = {} /\ inq \cap early = {}
  /\ dma \cap (air \cup inbound \cup Announced) = {}
  /\ air \cap inbound = {}

\* Only RDMA writes with data are in the air; empty buckets are not written.
OnlyDataFlies ==
  /\ \A i \in dma \cup air \cup writing : ~Empty(i[1])
  /\ \A i \in air : Notifies(i[1], i[2])

\* A worker that is not in the sync owns no task, nothing leaves its region,
\* and it has freed no slot.
NothingBeforeStart ==
  /\ \A i \in waiting \cup writing \cup dma : st[Prev[<<i[1], i[2]>>]] \notin {"idle", "open"}
  /\ \A h \in Hops : st[h[2]] \in {"idle", "open"} => rel[h] = "none" /\ h \notin frees

Order == /\ BegunFirst /\ TakenLast /\ NotAhead /\ StagesApart /\ OnlyDataFlies
         /\ NothingBeforeStart
-----------------------------------------------------------------------------
(* Exclusion.                                                                *)

\* The previous hop may still get, or has got, leave to write slot h.
Credited(h) == h \in credit /\ Prev[<<h[1], h[2]>>] \notin aborted
Granted(h)  == h \in frees \/ Credited(h)

\* The items on their way into slot h.
Into(i, h)  == i[1] = h[1] /\ i[2] = h[2] /\ Slot(i[3]) = h[3]
Moving      == writing \cup dma \cup air \cup Announced
Incoming(h) == {i \in Moving : Into(i, h)}

\* Worker n itself uses its slot h.
InHand(h) == pc[<<h[1], h[2]>>] \in {"offer", "held"} /\ Slot(k[<<h[1], h[2]>>]) = h[3]
Arriving(h) == pc[<<h[1], h[2]>>] = "arrive" /\ Slot(k[<<h[1], h[2]>>]) = h[3]
InUse(h) == \/ InHand(h) \/ rel[h] = "wait"
            \/ Unread(h[1], h[2], h[3])
            \/ Outgoing(h[1], h[2], h[3]) # {} \/ LeavingFrom(h[1], h[2], h[3])

\* One leave to write at a time, and none while anything uses the slot.
GrantedMeansFree ==
  \A h \in Hops : Granted(h) =>
    /\ Incoming(h) = {} /\ ~InUse(h) /\ ~Arriving(h)
    /\ ~(h \in frees /\ Credited(h))

\* What is coming into a slot is one item, and the slot is not in use.
IncomingMeansFree ==
  \A h \in Hops, i \in Items : i \in Incoming(h) =>
    /\ ~InUse(h)
    /\ Arriving(h) => i[3] = k[<<h[1], h[2]>>]
    /\ \A j \in Items : j \in Incoming(h) => i = j

\* A write the hardware performs has its task, or its worker knows of an error
\* and releases no slot of that stripe any more.
WriteAccounted ==
  \A i \in dma : LET w == Prev[<<i[1], i[2]>>] IN
    \/ i \in writing \/ <<i[1], w, Slot(i[3])>> \in werr
    \/ ~Running(w) \/ pc[<<i[1], w>>] = "error"

\* A release task excludes a bucket at work in the same slot, and an ended
\* chain has none.
ReleaseApart ==
  \A h \in Hops : rel[h] = "wait" =>
    /\ ~InHand(h) /\ ~Arriving(h) /\ pc[<<h[1], h[2]>>] # "error"

\* Before a receiver starts its slots are not granted, and nothing is written.
NoGrantBeforeStart ==
  \A h \in Hops : st[h[2]] \in {"idle", "open"} =>
    ~Granted(h) /\ Incoming(h) = {}

Exclusion == /\ GrantedMeansFree /\ IncomingMeansFree /\ WriteAccounted
             /\ ReleaseApart /\ NoGrantBeforeStart

SlotDiscipline == Shape /\ Order /\ Exclusion
-----------------------------------------------------------------------------
(* Contents: what the regions hold where somebody is going to read.          *)

\* Only buckets with data that the sender has begun are being packed.
CopyBegun == \A x \in copying : ~Empty(x[1]) /\ x[2] < k[<<x[1], Leader[x[1]]>>]

\* A bucket that is still being packed has all its write tasks waiting, unless
\* one failed.
CopyWaits ==
  \A x \in copying, n \in Rollouts : LET c == x[1] IN Prev[<<c, n>>] = Leader[c] =>
    \/ <<c, n, x[2]>> \in waiting
    \/ <<c, Leader[c], Slot(x[2])>> \in werr
    \/ ~Running(Leader[c])

\* A slot of the sender that is being packed is read by no other bucket's write.
CopyFirst ==
  \A i \in waiting \cup writing \cup dma, x \in copying :
    /\ x[1] = i[1] /\ Prev[<<i[1], i[2]>>] = Leader[i[1]] /\ Slot(x[2]) = Slot(i[3])
    => i \in waiting /\ i[3] = x[2]

\* The source of a write holds its bucket, at a sender once it is packed.
SourceHolds ==
  \A i \in waiting \cup dma : LET w == Prev[<<i[1], i[2]>>] IN
    ~Empty(i[1]) => \/ mem[<<i[1], w, Slot(i[3])>>] = i[3]
                    \/ i \in waiting /\ w \notin Rollouts /\ <<i[1], i[3]>> \in copying
AirCarries == \A i \in air : carried[i] = i[3]

\* A bucket that was written and is announced, or that its receiver waits for,
\* is in its slot as soon as its notification is there.
Landed(i) == Notifies(i[1], i[2]) => i \in inbound
AtTarget(i) == \/ i \in writing \ dma \/ i \in Announced
               \/ pc[<<i[1], i[2]>>] = "arrive" /\ k[<<i[1], i[2]>>] = i[3]
TargetHolds ==
  \A i \in Items : ~Empty(i[1]) /\ AtTarget(i) /\ Landed(i) =>
    mem[<<i[1], i[2], Slot(i[3])>>] = i[3]

\* What the consumer holds or will read is in place.
HandHolds ==
  \A c \in Stripes, n \in Rollouts : pc[<<c, n>>] \in {"offer", "held"} /\ ~Empty(c) =>
    mem[<<c, n, Slot(k[<<c, n>>])>>] = k[<<c, n>>]
UnreadHolds ==
  \A c \in Stripes, n \in Rollouts : ~Empty(c) =>
    \A b \in Len(got[<<c, n>>]) .. k[<<c, n>>] - 1 : mem[<<c, n, Slot(b)>>] = b

Contents == /\ CopyBegun /\ CopyWaits /\ CopyFirst /\ SourceHolds /\ AirCarries
            /\ TargetHolds /\ HandHolds /\ UnreadHolds /\ DeliveredInOrder
-----------------------------------------------------------------------------
(* Accounts: nothing is lost unless somebody failed.                         *)

CountersBound ==
  /\ \A c \in Stripes, w \in Workers :
       /\ k[<<c, w>>] <= NumBuckets(c)
       /\ pc[<<c, w>>] \in {"flush", "final", "drain", "done"} => k[<<c, w>>] = NumBuckets(c)
  /\ \A c \in Stripes, n \in Rollouts :
       Len(got[<<c, n>>]) <= k[<<c, n>>] /\ Len(got[<<c, n>>]) <= Load[c]

\* The bucket is neither under way nor taken: its writer failed, or its
\* receiver did and grants the slot no more.
LostByWriter(i) == LET w == Prev[<<i[1], i[2]>>] IN
  <<i[1], w, Slot(i[3])>> \in werr \/ pc[<<i[1], w>>] = "error" \/ st[w] = "failed"
LostByReceiver(i) ==
  /\ st[i[2]] = "failed" \/ pc[<<i[1], i[2]>>] = "error"
  /\ ~Granted(<<i[1], i[2], Slot(i[3])>>)
Conserved ==
  \A i \in Items : i[3] < Begun(i[1], Prev[<<i[1], i[2]>>]) =>
    \/ i \in Underway \/ i[3] < Taken(i[1], i[2])
    \/ LostByWriter(i) \/ LostByReceiver(i)

\* The release task of a slot outlives whatever uses the slot.
ReleaseKnows ==
  \A h \in Hops :
    /\ st[h[2]] # "failed" /\ pc[<<h[1], h[2]>>] # "error"
    /\ Outgoing(h[1], h[2], h[3]) # {} \/ h \in werr \/ Unread(h[1], h[2], h[3])
    => rel[h] # "none" \/ InHand(h)

\* A worker that waits for the last credits, or is done, has written all.
Flushed ==
  \A c \in Stripes, w \in Workers, s \in Slots : pc[<<c, w>>] \in {"drain", "done"} =>
    Outgoing(c, w, s) = {} /\ <<c, w, s>> \notin werr

AllRead(c, n) == Len(got[<<c, n>>]) = Load[c]
ChainsRead ==
  \A c \in Stripes, w \in Workers :
    /\ pc[<<c, w>>] \in {"drain", "done"} /\ w \in Rollouts => AllRead(c, w)
    /\ pc[<<c, w>>] = "done" => \A n \in Nexts(c, w) : AllRead(c, n)

\* Success: every chain is done, and nothing leaves the region.
Successful ==
  /\ dma \subseteq inflight
  /\ \A w \in Workers : st[w] = "done" =>
       /\ \A c \in Stripes : w \in Rollouts \/ Leader[c] = w => pc[<<c, w>>] = "done"
       /\ \A i \in dma : Prev[<<i[1], i[2]>>] # w

Accounts == /\ CountersBound /\ Conserved /\ ReleaseKnows
            /\ Flushed /\ ChainsRead /\ Successful

Delivery == SlotDiscipline /\ Contents /\ Accounts
=============================================================================
