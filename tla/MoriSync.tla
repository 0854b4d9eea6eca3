------------------------------ MODULE MoriSync ------------------------------
(***************************************************************************)
(* One weight sync of the MoRI checkpoint engine (rocm/engines/            *)
(* mori_checkpoint_engine.py): every stripe c is a tree of workers, rooted *)
(* at the trainer Leader[c], along which buckets 0, 1, ... travel by       *)
(* one-sided writes.  Bucket b always uses slot b % NumSlots of every      *)
(* worker.  A worker writes into a slot of its next hop only with that     *)
(* slot's credit; the next hop returns the credit (a "free" message) once  *)
(* its consumer has read the slot and its own writes out of it have left.  *)
(*                                                                         *)
(* One action is the code between two awaits of one coroutine, one         *)
(* delivery of a control message by the pump, or one step of the hardware: *)
(* a packing copy, a consumer's read, a write.  Items are the triples      *)
(* <<c, n, b>> "bucket b of stripe c on its way into worker n".            *)
(***************************************************************************)
EXTENDS Integers, Sequences, FiniteSets

CONSTANTS
  Trainers, Rollouts,  \* actor ranks; rollout workers
  Stripes,             \* 0 .. P-1
  Leader,              \* [Stripes -> Trainers]: the root of each stripe
  Prev,                \* [Stripes \X Rollouts -> Workers]: role["prev"]
  Near,                \* the <<stripe, rollout>> whose inbound hop is XGMI
  NumSlots,            \* slots per stripe in every region
  Load,                \* [Stripes -> Nat]: buckets of data in each stripe
  Stale,               \* messages of other syncs already in the inboxes
  FaultKinds,          \* which faults may occur (see FaultKindsAssumption)
  Fallible,            \* bound: the workers a first fault may strike
  MaxFaults            \* bound: spontaneous faults in one behaviour

Workers == Trainers \cup Rollouts
NoData  == -1

\* A stripe without tensors still sends one empty bucket, the last one.
NumBuckets(c) == IF Load[c] = 0 THEN 1 ELSE Load[c]
Empty(c)      == Load[c] = 0
Slots         == 0 .. NumSlots - 1
Hops          == Stripes \X Rollouts \X Slots
Items         == UNION {{c} \X Rollouts \X (0 .. NumBuckets(c) - 1) : c \in Stripes}
Slot(b)       == b % NumSlots

ASSUME TopologyAssumption ==
  /\ Leader \in [Stripes -> Trainers]
  /\ Prev \in [Stripes \X Rollouts -> Workers]
  /\ \A c \in Stripes, n \in Rollouts : Prev[<<c, n>>] \in Rollouts \cup {Leader[c]}
  /\ \A c, d \in Stripes : Leader[c] = Leader[d] => c = d
  /\ Trainers \cap Rollouts = {}
ASSUME FaultKindsAssumption ==
  FaultKinds \subseteq {"timeout", "status", "interrupt", "close", "pump", "step", "lost"}
ASSUME SizeAssumption ==
  /\ NumSlots \in Nat /\ NumSlots >= 2
  /\ Load \in [Stripes -> Nat]
  /\ MaxFaults \in Nat

Nexts(c, w)   == {n \in Rollouts : Prev[<<c, n>>] = w}
MyHops(w)     == {h \in Hops : Prev[<<h[1], h[2]>>] = w}
MyItems(w)    == {i \in Items : Prev[<<i[1], i[2]>>] = w}
Notifies(c, n) == <<c, n>> \notin Near   \* XGMI writes raise no notification
Neighbours(w) == {n \in Rollouts : \E c \in Stripes : Prev[<<c, n>>] = w}
                   \cup (IF w \in Rollouts THEN {Prev[<<c, w>>] : c \in Stripes} ELSE {})

VARIABLES
  st,       \* idle, open (busy, not started), run, failing, failed, done
  pc,       \* where the coroutine of stripe c at worker w stands
  k,        \* the bucket that coroutine is on
  aborted,  \* workers whose self._abort is set
  faults,   \* number of spontaneous faults so far
  \* tasks of _write_next, by item: waiting for the credit, then for the status
  waiting, writing,
  werr,     \* <<c, w, slot>> whose write task ended with an exception
  rel,      \* [<<c, n, slot>> -> none, wait, err]: the _release task
  inflight, \* self._inflight, by item
  credit,   \* <<c, n, slot>> whose credit event is set at Prev[<<c, n>>]
  \* control messages not yet read by the pump, and bucket messages read
  frees, posted, aborts, stale, inq, early,
  \* the hardware: regions, packing copies, writes, notifications, reads
  mem, copying, dma, air, carried, inbound, got

control == <<st, pc, k, aborted, faults>>
tasks   == <<waiting, writing, werr, rel, inflight>>
inbox   == <<frees, posted, aborts, stale, inq, early>>
device  == <<mem, copying, dma, air, carried, inbound, got>>
vars    == <<control, tasks, credit, inbox, device>>

Cells == Stripes \X Workers \X Slots

Init ==
  /\ st = [w \in Workers |-> "idle"]
  /\ pc = [x \in Stripes \X Workers |-> "off"]
  /\ k = [x \in Stripes \X Workers |-> 0]
  /\ aborted = {} /\ faults = 0
  /\ waiting = {} /\ writing = {} /\ werr = {} /\ inflight = {}
  /\ rel = [h \in Hops |-> "none"]
  /\ credit = {}
  /\ frees = {} /\ posted = {} /\ aborts = {} /\ stale = Stale
  /\ inq = {} /\ early = {}
  /\ mem = [x \in Cells |-> NoData]
  /\ copying = {} /\ dma = {} /\ air = {} /\ inbound = {}
  /\ carried = [i \in Items |-> NoData]
  /\ got = [x \in Stripes \X Rollouts |-> <<>>]

-----------------------------------------------------------------------------
(* Which tasks are alive, and what a wait may end with.                      *)

\* The pump and the tasks of a worker run until the failure path reaped them.
Running(w) == st[w] \in {"run", "failing"}

\* The write tasks that read worker w's slot s of stripe c.
Outgoing(c, w, s) == {i \in waiting \cup writing :
                        i[1] = c /\ Prev[<<c, i[2]>>] = w /\ Slot(i[3]) = s}

\* The reads of worker n's slot s of stripe c still queued on its stream.
Unread(c, n, s) == ~Empty(c) /\ \E b \in Len(got[<<c, n>>]) .. k[<<c, n>>] - 1 : Slot(b) = s

Fault(kind, w) == kind \in FaultKinds /\ w \in Fallible /\ faults < MaxFaults /\ faults' = faults + 1

\* Timeouts are far longer than a healthy wait: one is a fault of its own, or
\* follows from an earlier failure.
Broken == faults > 0 \/ \E w \in Workers : st[w] \in {"failing", "failed"}
TimesOut(w) == IF Broken THEN "timeout" \in FaultKinds /\ UNCHANGED faults
            ELSE Fault("timeout", w)

\* _mark_unusable, then _notify_abort: best effort, some aborts may be lost.
\* Those to a worker that is out of this sync are never read in it.
BeginFail(w, why) ==
  LET peers == {v \in Neighbours(w) : st[v] \notin {"done", "failed"}} IN
  /\ st' = [st EXCEPT ![w] = why]
  /\ IF "lost" \in FaultKinds
     THEN \E told \in SUBSET peers : aborts' = aborts \cup told
     ELSE aborts' = aborts \cup peers

\* The generator of one stripe ends with an exception: its finally clause
\* cancels its write and release tasks.  The hardware goes on.
EndChain(c, n) ==
  /\ pc' = [pc EXCEPT ![<<c, n>>] = "error"]
  /\ waiting' = {i \in waiting : i[1] # c \/ i \notin MyItems(n)}
  /\ writing' = {i \in writing : i[1] # c \/ i \notin MyItems(n)}
  /\ rel' = [h \in Hops |-> IF h[1] = c /\ h[2] = n THEN "none" ELSE rel[h]]
-----------------------------------------------------------------------------
(* Entering the sync.                                                        *)

\* _start_pump: no credit yet.  (Broken form: every slot starts out free.)
FreshCreditAllFree(w) == credit \cup MyHops(w)
FreshCredit(w) == credit \ MyHops(w)

SendWeights(w) ==
  /\ st[w] = "idle"
  /\ \E c \in Stripes :
       /\ Leader[c] = w
       /\ pc' = [pc EXCEPT ![<<c, w>>] = "pack"]
  /\ st' = [st EXCEPT ![w] = "run"]
  /\ credit' = FreshCredit(w)
  /\ UNCHANGED <<k, aborted, faults, tasks, inbox, device>>

\* A trainer that leads no stripe only drives the generator.
DriveGenerator(w) ==
  /\ st[w] = "idle" /\ w \notin {Leader[c] : c \in Stripes}
  /\ st' = [st EXCEPT ![w] = "done"]
  /\ UNCHANGED <<pc, k, aborted, faults, tasks, credit, inbox, device>>

ReceiveWeights(n) ==
  /\ st[n] = "idle"
  /\ st' = [st EXCEPT ![n] = "open"]
  /\ UNCHANGED <<pc, k, aborted, faults, tasks, credit, inbox, device>>

\* The slots granted at the start.
Grants(n) == Stripes \X {n} \X Slots

\* The first __anext__: start the pump and grant every slot to the previous hop.
StartReceive(n) ==
  /\ st[n] = "open"
  /\ st' = [st EXCEPT ![n] = "run"]
  /\ pc' = [x \in Stripes \X Workers |-> IF x[2] = n THEN "bucket" ELSE pc[x]]
  /\ credit' = FreshCredit(n)
  /\ frees' = frees \cup Grants(n)
  /\ UNCHANGED <<k, aborted, faults, tasks, posted, aborts, stale, inq, early, device>>

\* aclose() of a stream that was never started.
CloseUnstarted(n) ==
  /\ st[n] = "open" /\ Fault("close", n)
  /\ BeginFail(n, "failed")
  /\ UNCHANGED <<pc, k, aborted, tasks, credit, frees, posted, stale, inq, early, device>>
-----------------------------------------------------------------------------
(* The sender of a stripe: _push_stripe.                                     *)

\* The await of writing[j].
EarlierWriteOver(c, w, s) == Outgoing(c, w, s) = {} /\ <<c, w, s>> \notin werr

\* Pack bucket k into its slot, once the earlier write from that slot is over,
\* and start the write task; the copies run on the device until CopyDone.
Pack(c) == LET w == Leader[c] b == k[<<c, w>>] IN
  /\ st[w] = "run" /\ pc[<<c, w>>] = "pack"
  /\ EarlierWriteOver(c, w, Slot(b))
  /\ k' = [k EXCEPT ![<<c, w>>] = b + 1]
  /\ pc' = [pc EXCEPT ![<<c, w>>] = IF b + 1 = NumBuckets(c) THEN "flush" ELSE "pack"]
  /\ waiting' = waiting \cup ({c} \X Nexts(c, w) \X {b})
  /\ IF Empty(c) THEN UNCHANGED <<copying, mem>>
     ELSE /\ copying' = copying \cup {<<c, b>>}
          /\ mem' = [mem EXCEPT ![<<c, w, Slot(b)>>] = NoData]
  /\ UNCHANGED <<st, aborted, faults, writing, werr, rel, inflight, credit, inbox,
                 dma, air, carried, inbound, got>>

CopyDone(c) == \E b \in 0 .. NumBuckets(c) - 1 :
  /\ <<c, b>> \in copying
  /\ copying' = copying \ {<<c, b>>}
  /\ mem' = [mem EXCEPT ![<<c, Leader[c], Slot(b)>>] = b]
  /\ UNCHANGED <<control, tasks, credit, inbox, dma, air, carried, inbound, got>>

\* All write tasks were awaited with success.
Flush(c) == LET w == Leader[c] IN
  /\ st[w] = "run" /\ pc[<<c, w>>] = "flush"
  /\ \A s \in Slots : EarlierWriteOver(c, w, s)
  /\ pc' = [pc EXCEPT ![<<c, w>>] = "drain"]
  /\ UNCHANGED <<st, k, aborted, faults, tasks, credit, inbox, device>>

\* The sender awaits the write task of slot s and gets its exception.
AwaitFailedWrite(c) == LET w == Leader[c] IN
  /\ st[w] = "run"
  /\ \E s \in Slots :
       /\ <<c, w, s>> \in werr
       /\ \/ pc[<<c, w>>] = "pack" /\ s = Slot(k[<<c, w>>])
          \/ pc[<<c, w>>] = "flush" /\ \A r \in 0 .. s - 1 : Outgoing(c, w, r) = {}
  /\ BeginFail(w, "failing")
  /\ UNCHANGED <<pc, k, aborted, faults, tasks, credit, frees, posted, stale, inq, early, device>>

\* _drain_credits: every slot of every next hop came back.  (Broken form: no
\* waiting for them.)
NotDrained(c, w) == TRUE
Drained(c, w) == \A n \in Nexts(c, w), s \in Slots : <<c, n, s>> \in credit

\* _check_drained at the end of a successful sync.
Complete(w) == st' = [st EXCEPT ![w] = IF inflight \cap MyItems(w) = {} THEN "done" ELSE "failed"]

FinishSend(c) == LET w == Leader[c] IN
  /\ st[w] = "run" /\ pc[<<c, w>>] = "drain"
  /\ Drained(c, w) /\ w \notin aborted
  /\ Complete(w)
  /\ pc' = [pc EXCEPT ![<<c, w>>] = "done"]
  /\ UNCHANGED <<k, aborted, faults, tasks, credit, inbox, device>>

\* The last wait of the sender is aborted by a peer or times out.
DrainFails(c) == LET w == Leader[c] IN
  /\ st[w] = "run" /\ pc[<<c, w>>] = "drain"
  /\ IF w \in aborted THEN Drained(c, w) /\ UNCHANGED faults
     ELSE ~Drained(c, w) /\ TimesOut(w)
  /\ BeginFail(w, "failing")
  /\ UNCHANGED <<pc, k, aborted, tasks, credit, frees, posted, stale, inq, early, device>>

-----------------------------------------------------------------------------
(* _write_next: one task per next hop.                                       *)

\* The credit came, and not because of an abort.  (Broken form: no _check_abort
\* after the wait.)
MayWriteAfterAbort(i) == <<i[1], i[2], Slot(i[3])>> \in credit
MayWrite(i) == /\ <<i[1], i[2], Slot(i[3])>> \in credit
               /\ Prev[<<i[1], i[2]>>] \notin aborted

\* A credit is spent by one write.
CreditSpent(i) == credit \ {<<i[1], i[2], Slot(i[3])>>}

\* Take the credit and submit the write; an empty bucket needs none.
SubmitWrite(i) == LET c == i[1] n == i[2] w == Prev[<<c, n>>] IN
  /\ i \in waiting /\ Running(w)
  /\ w \in Rollouts \/ <<c, i[3]>> \notin copying
  /\ MayWrite(i)
  /\ credit' = CreditSpent(i)
  /\ waiting' = waiting \ {i}
  /\ IF Empty(c)
     THEN /\ posted' = posted \cup {i}
          /\ UNCHANGED <<writing, inflight, dma>>
     ELSE /\ writing' = writing \cup {i}
          /\ inflight' = inflight \cup {i}
          /\ dma' = dma \cup {i}
          /\ UNCHANGED posted
  /\ UNCHANGED <<control, werr, rel, frees, aborts, stale, inq, early,
                 mem, copying, air, carried, inbound, got>>

\* The status is no longer in progress.
StatusDone(i) == i \notin dma

\* The status is Succeeded: announce the bucket.
WriteSucceeded(i) ==
  /\ i \in writing /\ Running(Prev[<<i[1], i[2]>>])
  /\ StatusDone(i)
  /\ writing' = writing \ {i}
  /\ inflight' = inflight \ {i}
  /\ posted' = posted \cup {i}
  /\ UNCHANGED <<control, waiting, werr, rel, credit, frees, aborts, stale, inq, early, device>>

\* The writes of the same bucket.
Siblings(i) == {i[1]} \X Nexts(i[1], Prev[<<i[1], i[2]>>]) \X {i[3]}

\* One hop fails: the task cancels its other hops and keeps the exception, and
\* every status submitted stays in _inflight.
WriteTaskFails(i) == LET w == Prev[<<i[1], i[2]>>] IN
  /\ waiting' = waiting \ Siblings(i)
  /\ writing' = writing \ Siblings(i)
  /\ werr' = werr \cup {<<i[1], w, Slot(i[3])>>}
  /\ UNCHANGED <<st, pc, k, aborted, inflight, rel, credit, inbox, device>>

\* _check_abort after the credit.
WriteAborted(i) ==
  /\ i \in waiting /\ Running(Prev[<<i[1], i[2]>>])
  /\ Prev[<<i[1], i[2]>>] \in aborted
  /\ WriteTaskFails(i) /\ UNCHANGED faults

\* The waits of a write task.  (Broken form: no timeout for the credit.)
StuckInStatus(i) == i \in writing /\ i \in dma
StuckWrite(i) == StuckInStatus(i) \/ (i \in waiting /\ <<i[1], i[2], Slot(i[3])>> \notin credit)

WriteTimesOut(i) ==
  /\ Running(Prev[<<i[1], i[2]>>]) /\ StuckWrite(i)
  /\ TimesOut(Prev[<<i[1], i[2]>>]) /\ WriteTaskFails(i)

\* The status reports FAILED; the copy may still be running.
WriteReportsFailure(i) ==
  /\ i \in writing /\ i \in dma /\ Running(Prev[<<i[1], i[2]>>])
  /\ Fault("status", Prev[<<i[1], i[2]>>]) /\ WriteTaskFails(i)
-----------------------------------------------------------------------------
(* The receiver of a stripe: _receive_chain, run_chain and the handoff.      *)

\* Take a message from the queue while bucket k has not come.
TakeMessage(i) == LET c == i[1] n == i[2] IN
  /\ Running(n) /\ pc[<<c, n>>] = "bucket" /\ <<c, n, k[<<c, n>>]>> \notin early
  /\ i \in inq /\ n \notin aborted
  /\ inq' = inq \ {i}
  /\ early' = early \cup {i}
  /\ UNCHANGED <<control, tasks, credit, frees, posted, aborts, stale, device>>

\* Bucket k is next: check its global_steps (the same in all buckets of a
\* sync), surface an earlier failed release.
TakeBucket(c, n) == LET i == <<c, n, k[<<c, n>>]>> IN
  /\ Running(n) /\ pc[<<c, n>>] = "bucket" /\ i \in early
  /\ rel[<<c, n, Slot(k[<<c, n>>])>>] # "wait"
  /\ early' = early \ {i}
  /\ \/ k[<<c, n>>] = 0 /\ Fault("step", n) /\ EndChain(c, n)
     \/ /\ \E s \in Slots : rel[<<c, n, s>>] = "err"
        /\ EndChain(c, n) /\ UNCHANGED faults
     \/ /\ \A s \in Slots : rel[<<c, n, s>>] # "err"
        /\ pc' = [pc EXCEPT ![<<c, n>>] = "arrive"]
        /\ UNCHANGED <<waiting, writing, rel, faults>>
  /\ UNCHANGED <<st, k, aborted, werr, inflight, credit, frees, posted,
                 aborts, stale, inq, device>>

\* The loop moves on: the release task of bucket k's slot takes over.
AfterBucket(c, n) ==
  /\ rel' = [rel EXCEPT ![<<c, n, Slot(k[<<c, n>>])>>] = "wait"]
  /\ k' = [k EXCEPT ![<<c, n>>] = @ + 1]
  /\ pc' = [pc EXCEPT ![<<c, n>>] = IF k[<<c, n>>] + 1 = NumBuckets(c) THEN "final" ELSE "bucket"]

\* An RDMA hop waits for the notification.  (Broken form: trusts the message.)
TrustMessage(i) == TRUE
Arrived(i) == Notifies(i[1], i[2]) /\ ~Empty(i[1]) => i \in inbound

\* The data is there: forward it, offer it to the consumer.
BucketArrived(c, n) == LET i == <<c, n, k[<<c, n>>]>> IN
  /\ Running(n) /\ pc[<<c, n>>] = "arrive"
  /\ Arrived(i)
  /\ inbound' = inbound \ {i}
  /\ waiting' = waiting \cup ({c} \X Nexts(c, n) \X {k[<<c, n>>]})
  /\ IF Empty(c) THEN AfterBucket(c, n)
     ELSE pc' = [pc EXCEPT ![<<c, n>>] = "offer"] /\ UNCHANGED <<k, rel>>
  /\ UNCHANGED <<st, aborted, faults, writing, werr, inflight, credit, inbox,
                 mem, copying, dma, air, carried, got>>

\* The consumer takes one tensor at a time from the handoff queue.
HandOver(c, n) ==
  /\ st[n] = "run" /\ pc[<<c, n>>] = "offer"
  /\ \A d \in Stripes : pc[<<d, n>>] # "held"
  /\ pc' = [pc EXCEPT ![<<c, n>>] = "held"]
  /\ UNCHANGED <<st, k, aborted, faults, tasks, credit, inbox, device>>

\* The consumer asks for the next tensor: its reads are queued on the stream.
AskNext(c, n) ==
  /\ st[n] = "run" /\ pc[<<c, n>>] = "held"
  /\ AfterBucket(c, n)
  /\ UNCHANGED <<st, aborted, faults, waiting, writing, werr, inflight, credit, inbox, device>>

\* merge_weight_chunks keeps a copy of a chunk instead of yielding it.
MergeChunk(c, n) ==
  /\ Running(n) /\ pc[<<c, n>>] = "offer"
  /\ AfterBucket(c, n)
  /\ UNCHANGED <<st, aborted, faults, waiting, writing, werr, inflight, credit, inbox, device>>

\* The forward writes left and the reads fired.  (Broken form: frees the slot
\* although a forward write still reads it.)
SlotRead(c, n, s) == ~Unread(c, n, s)
SlotUnused(c, n, s) == Outgoing(c, n, s) = {} /\ ~Unread(c, n, s)

Release(h) == LET c == h[1] n == h[2] s == h[3] IN
  /\ rel[h] = "wait" /\ Running(n)
  /\ SlotUnused(c, n, s) /\ h \notin werr /\ n \notin aborted
  /\ rel' = [rel EXCEPT ![h] = "none"]
  /\ frees' = frees \cup {h}
  /\ UNCHANGED <<control, waiting, writing, werr, inflight, credit, posted, aborts,
                 stale, inq, early, device>>

ReleaseFails(h) == LET c == h[1] n == h[2] s == h[3] IN
  /\ rel[h] = "wait" /\ Running(n)
  /\ \/ h \in werr
     \/ SlotUnused(c, n, s) /\ n \in aborted
  /\ rel' = [rel EXCEPT ![h] = "err"]
  /\ UNCHANGED <<control, waiting, writing, werr, inflight, credit, inbox, device>>

\* A worker with next hops waits for their slots.  (Broken form: it does not.)
AfterReleaseDone(c, n) == "done"
AfterRelease(c, n) == IF Nexts(c, n) = {} THEN "done" ELSE "drain"

AllReleased(c, n) ==
  /\ Running(n) /\ pc[<<c, n>>] = "final"
  /\ \A s \in Slots : rel[<<c, n, s>>] = "none"
  /\ pc' = [pc EXCEPT ![<<c, n>>] = AfterRelease(c, n)]
  /\ UNCHANGED <<st, k, aborted, faults, tasks, credit, inbox, device>>

ChainDrained(c, n) ==
  /\ Running(n) /\ pc[<<c, n>>] = "drain"
  /\ Drained(c, n) /\ n \notin aborted
  /\ pc' = [pc EXCEPT ![<<c, n>>] = "done"]
  /\ UNCHANGED <<st, k, aborted, faults, tasks, credit, inbox, device>>

\* A wait of the chain ends with an exception: aborted, timed out, or the
\* exception of a release task.
ChainFails(c, n) ==
  /\ Running(n)
  /\ \/ /\ pc[<<c, n>>] = "bucket" /\ <<c, n, k[<<c, n>>]>> \notin early
        /\ IF n \in aborted THEN UNCHANGED faults
           ELSE (\A i \in inq : i[1] # c \/ i[2] # n) /\ TimesOut(n)
     \/ pc[<<c, n>>] = "arrive" /\ ~Arrived(<<c, n, k[<<c, n>>]>>) /\ TimesOut(n)
     \/ /\ pc[<<c, n>>] = "final" /\ UNCHANGED faults
        /\ \E s \in Slots : rel[<<c, n, s>>] = "err" /\ \A r \in 0 .. s - 1 : rel[<<c, n, r>>] = "none"
     \/ /\ pc[<<c, n>>] = "drain"
        /\ IF n \in aborted THEN Drained(c, n) /\ UNCHANGED faults
           ELSE ~Drained(c, n) /\ TimesOut(n)
  /\ EndChain(c, n)
  /\ UNCHANGED <<st, k, aborted, werr, inflight, credit, inbox, device>>

\* The generator gets the chain's error from the handoff queue.
RaiseError(n) ==
  /\ st[n] = "run"
  /\ \E c \in Stripes : pc[<<c, n>>] = "error"
  /\ \A c \in Stripes : pc[<<c, n>>] # "held"
  /\ BeginFail(n, "failing")
  /\ UNCHANGED <<pc, k, aborted, faults, tasks, credit, frees, posted, stale, inq, early, device>>

FinishReceive(n) ==
  /\ st[n] = "run"
  /\ \A c \in Stripes : pc[<<c, n>>] = "done"
  /\ Complete(n)
  /\ UNCHANGED <<pc, k, aborted, faults, tasks, credit, inbox, device>>
-----------------------------------------------------------------------------
(* Failure of a whole worker.                                                *)

\* A cancelled sync, a failing generator, a consumer that stops: any exception
\* raised from outside into the running coroutine.
Interrupt(w) ==
  /\ st[w] = "run" /\ Fault("interrupt", w)
  /\ BeginFail(w, "failing")
  /\ UNCHANGED <<pc, k, aborted, tasks, credit, frees, posted, stale, inq, early, device>>

\* wake(): every waiter of this worker re-checks self._abort.
Wake(w) ==
  /\ aborted' = aborted \cup {w}
  /\ credit' = credit \cup MyHops(w)

\* The pump itself fails.
PumpFails(w) ==
  /\ st[w] = "run" /\ Fault("pump", w)
  /\ Wake(w)
  /\ UNCHANGED <<st, pc, k, tasks, inbox, device>>

\* The end of the failure path: tasks reaped, pump stopped.  The coroutines'
\* locals, the pump's queues and events and the unread messages are gone; what
\* the device does goes on, and a consumer may still hold a tensor.
Reap(w) ==
  /\ st[w] = "failing"
  /\ st' = [st EXCEPT ![w] = "failed"]
  /\ pc' = [x \in DOMAIN pc |-> IF x[2] = w /\ pc[x] # "held" THEN "off" ELSE pc[x]]
  /\ waiting' = waiting \ MyItems(w)
  /\ writing' = writing \ MyItems(w)
  /\ werr' = {x \in werr : x[2] # w}
  /\ rel' = [h \in Hops |-> IF h[2] = w THEN "none" ELSE rel[h]]
  /\ aborted' = aborted \ {w}
  /\ credit' = credit \ MyHops(w)
  /\ frees' = frees \ MyHops(w)
  /\ posted' = {i \in posted : i[2] # w}
  /\ inq' = {i \in inq : i[2] # w}
  /\ early' = {i \in early : i[2] # w}
  /\ aborts' = aborts \ {w}
  /\ UNCHANGED <<k, faults, inflight, stale, device>>
-----------------------------------------------------------------------------
(* The pump.  A message of another sync is dropped; messages to a worker     *)
(* whose pump does not run stay in its inbox.                                *)

DeliverFree(h) ==
  /\ h \in frees /\ Running(Prev[<<h[1], h[2]>>])
  /\ frees' = frees \ {h}
  /\ credit' = credit \cup {h}
  /\ UNCHANGED <<control, tasks, posted, aborts, stale, inq, early, device>>

DeliverBucket(i) ==
  /\ i \in posted /\ Running(i[2])
  /\ posted' = posted \ {i}
  /\ inq' = inq \cup {i}
  /\ UNCHANGED <<control, tasks, credit, frees, aborts, stale, early, device>>

DeliverAbort(w) ==
  /\ w \in aborts /\ Running(w)
  /\ aborts' = aborts \ {w}
  /\ Wake(w)
  /\ UNCHANGED <<st, pc, k, faults, tasks, frees, posted, stale, inq, early, device>>

\* A message of another sync, [to |-> worker, t |-> type], has no effect.
\* (Broken form: its sync id is not compared.)
ObeyStale(m) ==
  /\ m \in stale /\ Running(m.to)
  /\ stale' = stale \ {m}
  /\ Wake(m.to)
  /\ UNCHANGED <<st, pc, k, faults, tasks, frees, posted, aborts, inq, early, device>>
DropStale(m) ==
  /\ m \in stale /\ Running(m.to)
  /\ stale' = stale \ {m}
  /\ UNCHANGED <<control, tasks, credit, frees, posted, aborts, inq, early, device>>
-----------------------------------------------------------------------------
(* The hardware.                                                             *)

\* The reads of the oldest bucket handed over have run.
ReadDone(c, n) == LET b == Len(got[<<c, n>>]) IN
  /\ ~Empty(c) /\ b < k[<<c, n>>]
  /\ got' = [got EXCEPT ![<<c, n>>] = Append(@, mem[<<c, n, Slot(b)>>])]
  /\ UNCHANGED <<control, tasks, credit, inbox, mem, copying, dma, air, carried, inbound>>

\* An XGMI copy completes at both ends at once.
LocalCopyDone(i) == LET c == i[1] n == i[2] s == Slot(i[3]) IN
  /\ i \in dma /\ ~Notifies(c, n)
  /\ dma' = dma \ {i}
  /\ mem' = [mem EXCEPT ![<<c, n, s>>] = mem[<<c, Prev[<<c, n>>], s>>]]
  /\ UNCHANGED <<control, tasks, credit, inbox, copying, air, carried, inbound, got>>

\* An RDMA write completes at its source first; the data and the notification
\* become visible at the target later.
RemoteWriteLeft(i) == LET c == i[1] n == i[2] IN
  /\ i \in dma /\ Notifies(c, n)
  /\ dma' = dma \ {i}
  /\ air' = air \cup {i}
  /\ carried' = [carried EXCEPT ![i] = mem[<<c, Prev[<<c, n>>], Slot(i[3])>>]]
  /\ UNCHANGED <<control, tasks, credit, inbox, mem, copying, inbound, got>>

RemoteWriteLanded(i) ==
  /\ i \in air
  /\ air' = air \ {i}
  /\ mem' = [mem EXCEPT ![<<i[1], i[2], Slot(i[3])>>] = carried[i]]
  /\ carried' = [carried EXCEPT ![i] = NoData]
  /\ inbound' = inbound \cup {i}
  /\ UNCHANGED <<control, tasks, credit, inbox, copying, dma, got>>

\* Every worker is out of the sync.
Stopped == /\ \A w \in Workers : st[w] \in {"done", "failed"}
           /\ UNCHANGED vars
-----------------------------------------------------------------------------
WriteFault(i) == WriteTimesOut(i) \/ WriteReportsFailure(i)

Next ==
  \/ \E w \in Workers : Interrupt(w) \/ PumpFails(w) \/ Reap(w) \/ DeliverAbort(w)
  \/ \E w \in Trainers : SendWeights(w) \/ DriveGenerator(w)
  \/ \E n \in Rollouts :
       \/ ReceiveWeights(n) \/ StartReceive(n) \/ CloseUnstarted(n)
       \/ RaiseError(n) \/ FinishReceive(n)
  \/ \E c \in Stripes :
       Pack(c) \/ CopyDone(c) \/ Flush(c) \/ AwaitFailedWrite(c) \/ FinishSend(c) \/ DrainFails(c)
  \/ \E i \in Items :
       \/ SubmitWrite(i) \/ WriteSucceeded(i) \/ WriteAborted(i) \/ WriteFault(i)
       \/ TakeMessage(i) \/ DeliverBucket(i) \/ LocalCopyDone(i) \/ RemoteWriteLeft(i)
       \/ RemoteWriteLanded(i)
  \/ \E c \in Stripes, n \in Rollouts :
       \/ TakeBucket(c, n) \/ BucketArrived(c, n) \/ HandOver(c, n) \/ AskNext(c, n)
       \/ MergeChunk(c, n) \/ AllReleased(c, n) \/ ChainDrained(c, n) \/ ChainFails(c, n)
       \/ ReadDone(c, n)
  \/ \E h \in Hops : Release(h) \/ ReleaseFails(h) \/ DeliverFree(h)
  \/ \E m \in stale : DropStale(m)
  \/ Stopped

Spec == Init /\ [][Next]_vars
-----------------------------------------------------------------------------
(* Type invariant.                                                           *)

Buckets == UNION {0 .. NumBuckets(c) - 1 : c \in Stripes}
Values  == Buckets \cup {NoData}

TypeOK ==
  /\ st \in [Workers -> {"idle", "open", "run", "failing", "failed", "done"}]
  /\ pc \in [Stripes \X Workers -> {"off", "pack", "flush", "bucket", "arrive", "offer",
                                    "held", "final", "drain", "done", "error"}]
  /\ k \in [Stripes \X Workers -> Nat]
  /\ aborted \subseteq Workers /\ faults \in Nat
  /\ waiting \subseteq Items /\ writing \subseteq Items /\ inflight \subseteq Items
  /\ werr \subseteq Cells
  /\ rel \in [Hops -> {"none", "wait", "err"}]
  /\ credit \subseteq Hops /\ frees \subseteq Hops
  /\ posted \subseteq Items /\ inq \subseteq Items /\ early \subseteq Items
  /\ aborts \subseteq Workers /\ stale \subseteq Stale
  /\ mem \in [Cells -> Values]
  /\ copying \subseteq Stripes \X Buckets
  /\ dma \subseteq Items /\ air \subseteq Items /\ carried \in [Items -> Values]
  /\ inbound \subseteq Items
  /\ got \in [Stripes \X Rollouts -> Seq(Values)]
-----------------------------------------------------------------------------
(* Safety.                                                                   *)

\* The writes the hardware may still perform, and those that read slot s of w.
Flying == dma \cup air
SameSlot(i, j) == i[1] = j[1] /\ i[2] = j[2] /\ Slot(i[3]) = Slot(j[3])
LeavingFrom(c, w, s) == \E i \in dma : i[1] = c /\ Prev[<<c, i[2]>>] = w /\ Slot(i[3]) = s

\* What the consumer of n may be reading: the bucket it holds and those whose
\* reads are queued.
BeingRead(c, n, s) == Unread(c, n, s) \/ (pc[<<c, n>>] = "held" /\ Slot(k[<<c, n>>]) = s)

\* While a write into a slot may still run, nobody reads that slot: neither
\* the consumer nor a forward write; and at most one write flies into it.  This
\* is what the credits are for ("free": my slot may be overwritten), and it
\* must survive every failure, since a consumer on the device does not stop
\* when the sync fails.
NoSlotOverwrittenInUse ==
  \A i \in Flying :
    /\ ~BeingRead(i[1], i[2], Slot(i[3]))
    /\ ~LeavingFrom(i[1], i[2], Slot(i[3]))
    /\ \A j \in Flying : SameSlot(i, j) => i = j

\* "no worker is written to before it has entered the sync" (docstring), also
\* not before it is guarded: its first __anext__ ran.
WrittenOnlyWhileGuarded == \A i \in Flying : st[i[2]] \notin {"idle", "open"}

\* Every consumer reads exactly buckets 0, 1, 2, ... of each stripe, each with
\* the data the trainer packed.
DeliveredInOrder ==
  \A c \in Stripes, n \in Rollouts : \A x \in 1 .. Len(got[<<c, n>>]) : got[<<c, n>>][x] = x - 1

\* A worker that reports success is quiet: no write into or out of its region
\* may still run, and it and its next hops have read every bucket.
SuccessIsQuiet ==
  \A w \in Workers : st[w] = "done" =>
    /\ \A i \in Flying : i[2] # w
    /\ \A i \in dma : Prev[<<i[1], i[2]>>] # w
    /\ \A c \in Stripes : \A n \in Nexts(c, w) \cup ({w} \cap Rollouts) : Len(got[<<c, n>>]) = Load[c]

-----------------------------------------------------------------------------
(* Liveness.  asyncio runs every ready coroutine, the device finishes what   *)
(* it was given and the consumer keeps asking; asyncio.wait_for ends a wait  *)
(* that cannot end otherwise.  Faults are not fair, and no order is assumed  *)
(* among the steps: it is enough that some step is taken while one can be.   *)

Progress ==
  \/ \E w \in Workers : Reap(w) \/ DeliverAbort(w)
  \/ \E w \in Trainers : SendWeights(w) \/ DriveGenerator(w)
  \/ \E n \in Rollouts :
       ReceiveWeights(n) \/ StartReceive(n) \/ RaiseError(n) \/ FinishReceive(n)
  \/ \E c \in Stripes :
       \/ Pack(c) \/ CopyDone(c) \/ Flush(c) \/ AwaitFailedWrite(c) \/ FinishSend(c)
       \/ Broken /\ DrainFails(c)
  \/ \E i \in Items :
       \/ SubmitWrite(i) \/ WriteSucceeded(i) \/ WriteAborted(i) \/ TakeMessage(i)
       \/ DeliverBucket(i) \/ LocalCopyDone(i) \/ RemoteWriteLeft(i)
       \/ RemoteWriteLanded(i)
       \/ Broken /\ WriteTimesOut(i)
  \/ \E c \in Stripes, n \in Rollouts :
       \/ TakeBucket(c, n) \/ BucketArrived(c, n) \/ HandOver(c, n) \/ AskNext(c, n)
       \/ AllReleased(c, n) \/ ChainDrained(c, n) \/ ReadDone(c, n)
       \/ Broken /\ ChainFails(c, n)
  \/ \E h \in Hops : Release(h) \/ ReleaseFails(h) \/ DeliverFree(h)

FairSpec == Spec /\ WF_vars(Progress)

\* Nobody waits for ever: whatever fails, every worker ends its sync.
EveryoneStops == <>(\A w \in Workers : st[w] \in {"done", "failed"})

\* Without faults every worker succeeds.
EveryoneSucceeds == <>(\A w \in Workers : st[w] = "done")
-----------------------------------------------------------------------------
(* The sync implements the broadcast.                                        *)

Broadcast == INSTANCE WeightBroadcast WITH
  Senders <- Trainers, Receivers <- Rollouts, Sources <- Stripes, Size <- Load,
  Feeds <- {f \in Stripes \X Workers \X Rollouts : Prev[<<f[1], f[3]>>] = f[2]},
  outcome <- [w \in Workers |-> CASE st[w] = "done" -> "success"
                                  [] st[w] \in {"failing", "failed"} -> "failure"
                                  [] OTHER -> "pending"],
  read <- got

ImplementsBroadcast == Broadcast!Spec
=============================================================================
