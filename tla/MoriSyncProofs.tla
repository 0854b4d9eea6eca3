--------------------------- MODULE MoriSyncProofs ---------------------------
(***************************************************************************)
(* Theorems about MoriSync for every topology, load and set of faults.     *)
(* First its types, and that no slot is written while its worker still     *)
(* uses it, from the inductive invariant SlotDiscipline.  Then the         *)
(* promises of a sync: consumers read what the trainers packed, in order;  *)
(* success is quiet and complete; the sync implements WeightBroadcast.  On *)
(* top of SlotDiscipline, Contents and Accounts are inductive.             *)
(***************************************************************************)
EXTENDS MoriSyncInv, TLAPS

-----------------------------------------------------------------------------
(* The constants.                                                            *)

\* The slot of a bucket is one of the slots (b % NumSlots in _push_stripe).
LEMMA SlotType == ASSUME NEW b \in Nat PROVE Slot(b) \in Slots
BY SizeAssumption DEF Slot, Slots

\* Every stripe sends at least one bucket, an empty stripe its empty one.
LEMMA NumBucketsType ==
  ASSUME NEW c \in Stripes
  PROVE  NumBuckets(c) \in Nat \ {0} /\ (Empty(c) => NumBuckets(c) = 1)
BY SizeAssumption DEF NumBuckets, Empty

\* An item is a stripe, the receiver of a hop and a bucket of that stripe.
LEMMA ItemsChar ==
  /\ \A i \in Items : /\ i = <<i[1], i[2], i[3]>>
                      /\ i[1] \in Stripes /\ i[2] \in Rollouts /\ i[3] \in Nat
                      /\ i[3] < NumBuckets(i[1])
  /\ \A c \in Stripes, n \in Rollouts, b \in Nat :
       b < NumBuckets(c) => <<c, n, b>> \in Items
<1>1. \A i \in Items : /\ i = <<i[1], i[2], i[3]>>
                      /\ i[1] \in Stripes /\ i[2] \in Rollouts /\ i[3] \in Nat
                      /\ i[3] < NumBuckets(i[1])
  <2> SUFFICES ASSUME NEW c \in Stripes, NEW i \in {c} \X Rollouts \X (0 .. NumBuckets(c) - 1)
               PROVE  /\ i = <<i[1], i[2], i[3]>>
                      /\ i[1] \in Stripes /\ i[2] \in Rollouts /\ i[3] \in Nat
                      /\ i[3] < NumBuckets(i[1])
    BY DEF Items
  <2> QED BY NumBucketsType
<1>2. ASSUME NEW c \in Stripes, NEW n \in Rollouts, NEW b \in Nat, b < NumBuckets(c)
      PROVE <<c, n, b>> \in Items
  <2>1. b \in 0 .. NumBuckets(c) - 1 BY <1>2, NumBucketsType
  <2> QED BY <2>1 DEF Items
<1> QED BY <1>1, <1>2

\* The cells and hops an item goes through.
LEMMA HopsType ==
  /\ Stripes \X Trainers \subseteq Stripes \X Workers
  /\ \A c \in Stripes : Leader[c] \in Workers
  /\ \A c \in Stripes, n \in Rollouts : n \in Workers /\ Prev[<<c, n>>] \in Workers
  /\ \A c \in Stripes, n \in Rollouts, b \in Nat : <<c, n, Slot(b)>> \in Hops
  /\ \A c \in Stripes, w \in Workers, b \in Nat : <<c, w, Slot(b)>> \in Cells
  /\ \A h \in Hops : /\ h = <<h[1], h[2], h[3]>>
                     /\ h[1] \in Stripes /\ h[2] \in Rollouts /\ h[3] \in Slots
BY TopologyAssumption, SlotType DEF Workers, Hops, Cells

-----------------------------------------------------------------------------
(* Type correctness.                                                         *)

\* The types hold before anything has started.
LEMMA TypeInit == Init => TypeOK
BY SizeAssumption, NumBucketsType, ItemsChar
   DEF Init, TypeOK, Hops, Cells, Values

\* Write tasks are made for items only.
LEMMA NextItems ==
  ASSUME NEW c \in Stripes, NEW w \in Workers, NEW b \in Nat, b < NumBuckets(c)
  PROVE  /\ {c} \X Nexts(c, w) \X {b} \subseteq Items
         /\ b \in Buckets /\ b \in Values
<1>1. {c} \X Nexts(c, w) \X {b} \subseteq Items
  BY ItemsChar DEF Nexts
<1>2. b \in 0 .. NumBuckets(c) - 1 BY NumBucketsType
<1> QED BY <1>1, <1>2 DEF Buckets, Values

\* The hops out of a worker, and the workers at their ends.
LEMMA OwnHops ==
  ASSUME NEW w \in Workers
  PROVE  MyHops(w) \subseteq Hops /\ MyItems(w) \subseteq Items /\ Neighbours(w) \subseteq Workers
BY HopsType DEF MyHops, MyItems, Neighbours

\* _mark_unusable and _notify_abort keep the types.
LEMMA BeginFailType ==
  ASSUME TypeOK, NEW w \in Workers, NEW why \in {"failing", "failed"}, BeginFail(w, why)
  PROVE  /\ st' = [st EXCEPT ![w] = why]
         /\ st' \in [Workers -> {"idle", "open", "run", "failing", "failed", "done"}]
         /\ aborts' \subseteq Workers
<1>1. {v \in Neighbours(w) : st[v] \notin {"done", "failed"}} \subseteq Workers BY OwnHops
<1> QED BY <1>1 DEF BeginFail, TypeOK

\* The end of a chain with an exception keeps the types.
LEMMA EndChainType ==
  ASSUME Shape, NEW c \in Stripes, NEW n \in Rollouts, EndChain(c, n)
  PROVE  /\ pc' = [pc EXCEPT ![<<c, n>>] = "error"]
         /\ pc' \in [Stripes \X Workers -> {"off", "pack", "flush", "bucket", "arrive", "offer",
                                    "held", "final", "drain", "done", "error"}]
         /\ waiting' \subseteq waiting /\ writing' \subseteq writing
         /\ rel' \in [Hops -> {"none", "wait", "err"}]
BY HopsType DEF EndChain, Shape, TypeOK

\* Every step keeps the shape: one step of the proof per action.
LEMMA ShapeStep == Shape /\ [Next]_vars => Shape'
<1> SUFFICES ASSUME Shape, [Next]_vars PROVE Shape' OBVIOUS
<1> USE DEF control, tasks, inbox, device
<1> TypeOK /\ AtStart /\ BucketLeft BY DEF Shape
<1>0. /\ DOMAIN pc = Stripes \X Workers /\ DOMAIN st = Workers
      /\ k \in [Stripes \X Workers -> Nat]
  BY DEF TypeOK
<1>1. ASSUME NEW w \in Trainers, SendWeights(w) PROVE Shape'
  <2>1. TypeOK' BY <1>1, HopsType, ItemsChar, OwnHops DEF TypeOK, SendWeights, FreshCredit
  <2>2. AtStart' BY <1>1, <1>0, HopsType DEF AtStart, SendWeights, FreshCredit
  <2>3. BucketLeft'
    <3>1. PICK c \in Stripes : Leader[c] = w /\ pc' = [pc EXCEPT ![<<c, w>>] = "pack"]
      BY <1>1 DEF SendWeights
    <3>2. w \in Workers /\ k[<<c, w>>] = 0 /\ NumBuckets(c) > 0 /\ UNCHANGED k
      BY <1>1, HopsType, NumBucketsType, <3>1 DEF SendWeights, AtStart
    <3> QED BY <3>1, <3>2, <1>0 DEF BucketLeft
  <2> QED BY <2>1, <2>2, <2>3 DEF Shape
<1>2. ASSUME NEW n \in Rollouts, ReceiveWeights(n) PROVE Shape'
  <2>1. TypeOK' BY <1>2, HopsType, ItemsChar DEF TypeOK, ReceiveWeights
  <2>2. AtStart' BY <1>2, <1>0, HopsType DEF AtStart, ReceiveWeights
  <2>3. BucketLeft' BY <1>2, <1>0, HopsType DEF BucketLeft, ReceiveWeights
  <2> QED BY <2>1, <2>2, <2>3 DEF Shape
<1>3. ASSUME NEW n \in Rollouts, StartReceive(n) PROVE Shape'
  <2>a. Grants(n) \subseteq Hops /\ MyHops(n) \subseteq Hops
    BY OwnHops, TopologyAssumption DEF Grants, Hops, Workers
  <2>1. TypeOK' BY <1>3, HopsType, <2>a DEF TypeOK, StartReceive, FreshCredit
  <2>2. AtStart' BY <1>3, <1>0, HopsType DEF AtStart, StartReceive, FreshCredit, Grants
  <2>3. BucketLeft' BY <1>3, <1>0, HopsType DEF BucketLeft, StartReceive, FreshCredit, Grants
  <2> QED BY <2>1, <2>2, <2>3 DEF Shape
<1>4. ASSUME NEW n \in Rollouts, CloseUnstarted(n) PROVE Shape'
  <2>a. BeginFail(n, "failed") /\ faults' \in Nat
    BY <1>4 DEF CloseUnstarted, Fault, TypeOK
  <2>b. /\ st' \in [Workers -> {"idle", "open", "run", "failing", "failed", "done"}]
        /\ aborts' \subseteq Workers
    BY <2>a, BeginFailType, TopologyAssumption DEF Workers
  <2>1. TypeOK' BY <1>4, <2>a, <2>b DEF TypeOK, CloseUnstarted
  <2>2. AtStart' BY <1>4, <1>0, HopsType, BeginFailType DEF AtStart, CloseUnstarted, Fault
  <2>3. BucketLeft' BY <1>4, <1>0, HopsType, BeginFailType DEF BucketLeft, CloseUnstarted, Fault
  <2> QED BY <2>1, <2>2, <2>3 DEF Shape
<1>5. ASSUME NEW w \in Trainers, DriveGenerator(w) PROVE Shape'
  <2>1. TypeOK' BY <1>5, HopsType, ItemsChar DEF TypeOK, DriveGenerator
  <2>2. AtStart' BY <1>5, <1>0, HopsType DEF AtStart, DriveGenerator
  <2>3. BucketLeft' BY <1>5, <1>0, HopsType DEF BucketLeft, DriveGenerator
  <2> QED BY <2>1, <2>2, <2>3 DEF Shape
<1>6. ASSUME NEW n \in Rollouts, RaiseError(n) PROVE Shape'
  <2>1. TypeOK' BY <1>6, HopsType, ItemsChar, BeginFailType DEF TypeOK, RaiseError
  <2>2. AtStart' BY <1>6, <1>0, HopsType, BeginFailType DEF AtStart, RaiseError
  <2>3. BucketLeft' BY <1>6, <1>0, HopsType, BeginFailType DEF BucketLeft, RaiseError
  <2> QED BY <2>1, <2>2, <2>3 DEF Shape
<1>7. ASSUME NEW n \in Rollouts, FinishReceive(n) PROVE Shape'
  <2>1. TypeOK' BY <1>7, HopsType, ItemsChar DEF TypeOK, FinishReceive, Complete
  <2>2. AtStart' BY <1>7, <1>0, HopsType DEF AtStart, FinishReceive, Complete
  <2>3. BucketLeft' BY <1>7, <1>0, HopsType DEF BucketLeft, FinishReceive, Complete
  <2> QED BY <2>1, <2>2, <2>3 DEF Shape
<1>8. ASSUME NEW w \in Workers, Interrupt(w) PROVE Shape'
  <2>1. TypeOK' BY <1>8, HopsType, ItemsChar, BeginFailType DEF TypeOK, Interrupt, Fault
  <2>2. AtStart' BY <1>8, <1>0, HopsType, BeginFailType DEF AtStart, Interrupt, Fault
  <2>3. BucketLeft' BY <1>8, <1>0, HopsType, BeginFailType DEF BucketLeft, Interrupt, Fault
  <2> QED BY <2>1, <2>2, <2>3 DEF Shape
<1>9. ASSUME NEW w \in Workers, PumpFails(w) PROVE Shape'
  <2>1. TypeOK' BY <1>9, HopsType, ItemsChar, OwnHops DEF TypeOK, PumpFails, Fault, Wake
  <2>2. AtStart' BY <1>9, <1>0, HopsType DEF AtStart, PumpFails, Fault, Wake
  <2>3. BucketLeft' BY <1>9, <1>0, HopsType DEF BucketLeft, PumpFails, Fault, Wake
  <2> QED BY <2>1, <2>2, <2>3 DEF Shape
<1>10. ASSUME NEW w \in Workers, Reap(w) PROVE Shape'
  <2>1. TypeOK' BY <1>10, HopsType, ItemsChar DEF TypeOK, Reap
  <2>2. AtStart' BY <1>10, <1>0, HopsType DEF AtStart, Reap
  <2>3. BucketLeft' BY <1>10, <1>0, HopsType DEF BucketLeft, Reap
  <2> QED BY <2>1, <2>2, <2>3 DEF Shape
<1>11. ASSUME NEW w \in Workers, DeliverAbort(w) PROVE Shape'
  <2>1. TypeOK' BY <1>11, HopsType, ItemsChar, OwnHops DEF TypeOK, DeliverAbort, Wake
  <2>2. AtStart' BY <1>11, <1>0, HopsType DEF AtStart, DeliverAbort, Wake
  <2>3. BucketLeft' BY <1>11, <1>0, HopsType DEF BucketLeft, DeliverAbort, Wake
  <2> QED BY <2>1, <2>2, <2>3 DEF Shape
<1>12. ASSUME NEW c \in Stripes, Pack(c) PROVE Shape'
  <2> DEFINE w == Leader[c] b == k[<<c, w>>]
  <2>a. /\ w \in Workers /\ b \in Nat /\ b < NumBuckets(c)
    BY <1>12, <1>0, HopsType DEF Pack, BucketLeft
  <2>b. /\ k' = [k EXCEPT ![<<c, w>>] = b + 1]
        /\ pc' = [pc EXCEPT ![<<c, w>>] = IF b + 1 = NumBuckets(c) THEN "flush" ELSE "pack"]
        /\ pc[<<c, w>>] = "pack" /\ st[w] = "run" /\ UNCHANGED st
    BY <1>12 DEF Pack
  <2>c. waiting' \subseteq Items BY <1>12, <2>a, NextItems DEF Pack, TypeOK
  <2>d. NoData \in Values /\ b \in Buckets BY <2>a, NextItems DEF Values
  <2>e. copying' \subseteq Stripes \X Buckets
    <3>1. \/ UNCHANGED copying \/ copying' = copying \cup {<<c, b>>}
      BY <1>12 DEF Pack
    <3> QED BY <3>1, <2>d DEF TypeOK
  <2>f. mem' \in [Cells -> Values]
    <3>1. \/ UNCHANGED mem \/ mem' = [mem EXCEPT ![<<c, w, Slot(b)>>] = NoData]
      BY <1>12 DEF Pack
    <3> QED BY <3>1, <2>d DEF TypeOK
  <2>1. TypeOK'
    <3>1. k' \in [Stripes \X Workers -> Nat] BY <2>a, <2>b DEF TypeOK
    <3>2. pc' \in [Stripes \X Workers -> {"off", "pack", "flush", "bucket", "arrive", "offer",
                                    "held", "final", "drain", "done", "error"}]
      BY <2>b DEF TypeOK
    <3> QED BY <1>12, <3>1, <3>2, <2>c, <2>e, <2>f DEF Pack, TypeOK
  <2>2. AtStart' BY <2>a, <2>b, <1>0, HopsType DEF AtStart
  <2>3. BucketLeft'
    <3>1. NumBuckets(c) \in Nat BY NumBucketsType
    <3>2. CASE b + 1 = NumBuckets(c) BY <2>a, <2>b, <3>1, <3>2, <1>0 DEF BucketLeft
    <3>3. CASE b + 1 < NumBuckets(c) BY <2>a, <2>b, <3>1, <3>3, <1>0 DEF BucketLeft
    <3> QED BY <3>1, <3>2, <3>3, <2>a
  <2> QED BY <2>1, <2>2, <2>3 DEF Shape
<1>13. ASSUME NEW c \in Stripes, CopyDone(c) PROVE Shape'
  <2> PICK b \in 0 .. NumBuckets(c) - 1 : /\ <<c, b>> \in copying
         /\ copying' = copying \ {<<c, b>>}
         /\ mem' = [mem EXCEPT ![<<c, Leader[c], Slot(b)>>] = b]
    BY <1>13 DEF CopyDone
  <2>a. b \in Values BY NextItems, HopsType, NumBucketsType
  <2>b. mem' \in [Cells -> Values] BY <2>a, HopsType DEF TypeOK
  <2>1. TypeOK' BY <1>13, HopsType, <2>b DEF CopyDone, TypeOK
  <2>2. AtStart' BY <1>13, <1>0, HopsType DEF AtStart, CopyDone
  <2>3. BucketLeft' BY <1>13, <1>0, HopsType DEF BucketLeft, CopyDone
  <2> QED BY <2>1, <2>2, <2>3 DEF Shape
<1>14. ASSUME NEW c \in Stripes, Flush(c) PROVE Shape'
  <2>1. TypeOK' BY <1>14, HopsType, ItemsChar DEF TypeOK, Flush
  <2>2. AtStart' BY <1>14, <1>0, HopsType DEF AtStart, Flush
  <2>3. BucketLeft' BY <1>14, <1>0, HopsType DEF BucketLeft, Flush
  <2> QED BY <2>1, <2>2, <2>3 DEF Shape
<1>15. ASSUME NEW c \in Stripes, AwaitFailedWrite(c) PROVE Shape'
  <2>1. TypeOK' BY <1>15, HopsType, ItemsChar, BeginFailType DEF TypeOK, AwaitFailedWrite
  <2>2. AtStart' BY <1>15, <1>0, HopsType, BeginFailType DEF AtStart, AwaitFailedWrite
  <2>3. BucketLeft' BY <1>15, <1>0, HopsType, BeginFailType DEF BucketLeft, AwaitFailedWrite
  <2> QED BY <2>1, <2>2, <2>3 DEF Shape
<1>16. ASSUME NEW c \in Stripes, FinishSend(c) PROVE Shape'
  <2>1. TypeOK' BY <1>16, HopsType, ItemsChar DEF TypeOK, FinishSend, Complete
  <2>2. AtStart' BY <1>16, <1>0, HopsType DEF AtStart, FinishSend, Complete
  <2>3. BucketLeft' BY <1>16, <1>0, HopsType DEF BucketLeft, FinishSend, Complete
  <2> QED BY <2>1, <2>2, <2>3 DEF Shape
<1>17. ASSUME NEW c \in Stripes, DrainFails(c) PROVE Shape'
  <2>1. TypeOK' BY <1>17, HopsType, ItemsChar, BeginFailType DEF TypeOK, DrainFails, TimesOut, Fault
  <2>2. AtStart' BY <1>17, <1>0, HopsType, BeginFailType DEF AtStart, DrainFails, TimesOut, Fault
  <2>3. BucketLeft' BY <1>17, <1>0, HopsType, BeginFailType DEF BucketLeft, DrainFails, TimesOut, Fault
  <2> QED BY <2>1, <2>2, <2>3 DEF Shape
<1>18. ASSUME NEW i \in Items, SubmitWrite(i) PROVE Shape'
  <2>1. TypeOK' BY <1>18, HopsType, ItemsChar DEF TypeOK, SubmitWrite, CreditSpent
  <2>2. AtStart' BY <1>18, <1>0, HopsType DEF AtStart, SubmitWrite, CreditSpent
  <2>3. BucketLeft' BY <1>18, <1>0, HopsType DEF BucketLeft, SubmitWrite, CreditSpent
  <2> QED BY <2>1, <2>2, <2>3 DEF Shape
<1>19. ASSUME NEW i \in Items, WriteSucceeded(i) PROVE Shape'
  <2>1. TypeOK' BY <1>19, HopsType, ItemsChar DEF TypeOK, WriteSucceeded
  <2>2. AtStart' BY <1>19, <1>0, HopsType DEF AtStart, WriteSucceeded
  <2>3. BucketLeft' BY <1>19, <1>0, HopsType DEF BucketLeft, WriteSucceeded
  <2> QED BY <2>1, <2>2, <2>3 DEF Shape
<1>20. ASSUME NEW i \in Items, WriteAborted(i) PROVE Shape'
  <2>1. TypeOK' BY <1>20, HopsType, ItemsChar DEF TypeOK, WriteAborted, WriteTaskFails
  <2>2. AtStart' BY <1>20, <1>0, HopsType DEF AtStart, WriteAborted, WriteTaskFails
  <2>3. BucketLeft' BY <1>20, <1>0, HopsType DEF BucketLeft, WriteAborted, WriteTaskFails
  <2> QED BY <2>1, <2>2, <2>3 DEF Shape
<1>21. ASSUME NEW i \in Items, WriteFault(i) PROVE Shape'
  <2>a. WriteTaskFails(i) /\ faults' \in Nat
    BY <1>21 DEF WriteFault, WriteTimesOut, WriteReportsFailure, TimesOut, Fault, TypeOK
  <2>1. TypeOK' BY <2>a, HopsType, ItemsChar DEF WriteTaskFails, TypeOK
  <2>2. AtStart' BY <2>a DEF WriteTaskFails, AtStart
  <2>3. BucketLeft' BY <2>a DEF WriteTaskFails, BucketLeft
  <2> QED BY <2>1, <2>2, <2>3 DEF Shape
<1>22. ASSUME NEW i \in Items, TakeMessage(i) PROVE Shape'
  <2>1. TypeOK' BY <1>22, HopsType, ItemsChar DEF TypeOK, TakeMessage
  <2>2. AtStart' BY <1>22, <1>0, HopsType DEF AtStart, TakeMessage
  <2>3. BucketLeft' BY <1>22, <1>0, HopsType DEF BucketLeft, TakeMessage
  <2> QED BY <2>1, <2>2, <2>3 DEF Shape
<1>23. ASSUME NEW i \in Items, DeliverBucket(i) PROVE Shape'
  <2>1. TypeOK' BY <1>23, HopsType, ItemsChar DEF TypeOK, DeliverBucket
  <2>2. AtStart' BY <1>23, <1>0, HopsType DEF AtStart, DeliverBucket
  <2>3. BucketLeft' BY <1>23, <1>0, HopsType DEF BucketLeft, DeliverBucket
  <2> QED BY <2>1, <2>2, <2>3 DEF Shape
<1>24. ASSUME NEW i \in Items, LocalCopyDone(i) PROVE Shape'
  <2>1. TypeOK' BY <1>24, HopsType, ItemsChar DEF TypeOK, LocalCopyDone
  <2>2. AtStart' BY <1>24, <1>0, HopsType DEF AtStart, LocalCopyDone
  <2>3. BucketLeft' BY <1>24, <1>0, HopsType DEF BucketLeft, LocalCopyDone
  <2> QED BY <2>1, <2>2, <2>3 DEF Shape
<1>25. ASSUME NEW i \in Items, RemoteWriteLeft(i) PROVE Shape'
  <2>1. TypeOK' BY <1>25, HopsType, ItemsChar DEF TypeOK, RemoteWriteLeft
  <2>2. AtStart' BY <1>25, <1>0, HopsType DEF AtStart, RemoteWriteLeft
  <2>3. BucketLeft' BY <1>25, <1>0, HopsType DEF BucketLeft, RemoteWriteLeft
  <2> QED BY <2>1, <2>2, <2>3 DEF Shape
<1>26. ASSUME NEW i \in Items, RemoteWriteLanded(i) PROVE Shape'
  <2>a. mem' \in [Cells -> Values] /\ carried' \in [Items -> Values]
    BY <1>26, HopsType, ItemsChar DEF RemoteWriteLanded, Values, TypeOK
  <2>1. TypeOK' BY <1>26, HopsType, <2>a DEF RemoteWriteLanded, TypeOK
  <2>2. AtStart' BY <1>26, <1>0, HopsType DEF AtStart, RemoteWriteLanded
  <2>3. BucketLeft' BY <1>26, <1>0, HopsType DEF BucketLeft, RemoteWriteLanded
  <2> QED BY <2>1, <2>2, <2>3 DEF Shape
<1>27. ASSUME NEW c \in Stripes, NEW n \in Rollouts, TakeBucket(c, n) PROVE Shape'
  <2>a. /\ <<c, n, k[<<c, n>>]>> \in Items /\ n \in Workers
        /\ k[<<c, n>>] < NumBuckets(c) /\ st[n] \in {"run", "failing"}
    BY <1>27, <1>0, ItemsChar, HopsType DEF TakeBucket, Running, TypeOK
  <2>b. CASE EndChain(c, n)
    <3>1. faults' \in Nat /\ UNCHANGED <<st, k>> BY <1>27 DEF TakeBucket, Fault, TypeOK
    <3>2. TypeOK' BY <1>27, <2>b, <3>1, EndChainType DEF TakeBucket, TypeOK
    <3>5. pc' = [pc EXCEPT ![<<c, n>>] = "error"] BY <2>b, EndChainType
    <3>3. AtStart' BY <2>a, <3>1, <3>5, <1>0 DEF AtStart
    <3>4. BucketLeft' BY <2>a, <3>1, <3>5, <1>0 DEF BucketLeft
    <3> QED BY <3>2, <3>3, <3>4 DEF Shape
  <2>c. CASE ~EndChain(c, n)
    <3>1. /\ pc' = [pc EXCEPT ![<<c, n>>] = "arrive"]
          /\ UNCHANGED <<waiting, writing, rel, faults, k, st>>
      BY <1>27, <2>c DEF TakeBucket
    <3>2. TypeOK' BY <1>27, <3>1 DEF TakeBucket, TypeOK
    <3>3. AtStart' BY <2>a, <3>1, <1>0 DEF AtStart
    <3>4. BucketLeft' BY <2>a, <3>1, <1>0 DEF BucketLeft
    <3> QED BY <3>2, <3>3, <3>4 DEF Shape
  <2> QED BY <2>b, <2>c
<1>28. ASSUME NEW c \in Stripes, NEW n \in Rollouts, BucketArrived(c, n) PROVE Shape'
  <2> DEFINE b == k[<<c, n>>]
  <2>a. /\ n \in Workers /\ b \in Nat /\ b < NumBuckets(c) /\ st[n] \in {"run", "failing"}
        /\ <<c, n, Slot(b)>> \in Hops
    BY <1>28, <1>0, HopsType DEF BucketArrived, BucketLeft, Running
  <2>b. waiting' \subseteq Items BY <1>28, <2>a, NextItems DEF BucketArrived, TypeOK
  <2>c. CASE Empty(c)
    <3>1. AfterBucket(c, n) /\ UNCHANGED st BY <1>28, <2>c DEF BucketArrived
    <3>2. TypeOK'
      <4>1. /\ k' \in [Stripes \X Workers -> Nat] /\ rel' \in [Hops -> {"none", "wait", "err"}]
            /\ pc' \in [Stripes \X Workers -> {"off", "pack", "flush", "bucket", "arrive", "offer",
                                    "held", "final", "drain", "done", "error"}]
        BY <2>a, <3>1 DEF AfterBucket, TypeOK
      <4> QED BY <1>28, <2>b, <4>1 DEF BucketArrived, TypeOK
    <3>3. AtStart' BY <2>a, <3>1, <1>0 DEF AfterBucket, AtStart
    <3>4. BucketLeft' BY <2>a, <3>1, <1>0 DEF AfterBucket, BucketLeft
    <3> QED BY <3>2, <3>3, <3>4 DEF Shape
  <2>d. CASE ~Empty(c)
    <3>1. pc' = [pc EXCEPT ![<<c, n>>] = "offer"] /\ UNCHANGED <<k, rel, st>>
      BY <1>28, <2>d DEF BucketArrived
    <3>2. TypeOK' BY <1>28, <2>a, <2>b, <3>1 DEF BucketArrived, TypeOK
    <3>3. AtStart' BY <2>a, <3>1, <1>0 DEF AtStart
    <3>4. BucketLeft' BY <2>a, <3>1, <1>0 DEF BucketLeft
    <3> QED BY <3>2, <3>3, <3>4 DEF Shape
  <2> QED BY <2>c, <2>d
<1>29. ASSUME NEW c \in Stripes, NEW n \in Rollouts, HandOver(c, n) PROVE Shape'
  <2>1. TypeOK' BY <1>29, HopsType, ItemsChar DEF TypeOK, HandOver
  <2>2. AtStart' BY <1>29, <1>0, HopsType DEF AtStart, HandOver
  <2>3. BucketLeft' BY <1>29, <1>0, HopsType DEF BucketLeft, HandOver
  <2> QED BY <2>1, <2>2, <2>3 DEF Shape
<1>30. ASSUME NEW c \in Stripes, NEW n \in Rollouts, AskNext(c, n) PROVE Shape'
  <2>1. TypeOK' BY <1>30, HopsType, ItemsChar DEF TypeOK, AskNext, AfterBucket
  <2>2. AtStart' BY <1>30, <1>0, HopsType DEF AtStart, AskNext, AfterBucket
  <2>3. BucketLeft' BY <1>30, <1>0, HopsType DEF BucketLeft, AskNext, AfterBucket
  <2> QED BY <2>1, <2>2, <2>3 DEF Shape
<1>31. ASSUME NEW c \in Stripes, NEW n \in Rollouts, MergeChunk(c, n) PROVE Shape'
  <2>1. TypeOK' BY <1>31, HopsType, ItemsChar DEF TypeOK, MergeChunk, AfterBucket, Running
  <2>2. AtStart' BY <1>31, <1>0, HopsType DEF AtStart, MergeChunk, AfterBucket, Running
  <2>3. BucketLeft' BY <1>31, <1>0, HopsType DEF BucketLeft, MergeChunk, AfterBucket, Running
  <2> QED BY <2>1, <2>2, <2>3 DEF Shape
<1>32. ASSUME NEW c \in Stripes, NEW n \in Rollouts, AllReleased(c, n) PROVE Shape'
  <2>1. TypeOK' BY <1>32, HopsType, ItemsChar DEF TypeOK, AllReleased, AfterRelease, Running
  <2>2. AtStart' BY <1>32, <1>0, HopsType DEF AtStart, AllReleased, AfterRelease, Running
  <2>3. BucketLeft' BY <1>32, <1>0, HopsType DEF BucketLeft, AllReleased, AfterRelease, Running
  <2> QED BY <2>1, <2>2, <2>3 DEF Shape
<1>33. ASSUME NEW c \in Stripes, NEW n \in Rollouts, ChainDrained(c, n) PROVE Shape'
  <2>1. TypeOK' BY <1>33, HopsType, ItemsChar DEF TypeOK, ChainDrained, Running
  <2>2. AtStart' BY <1>33, <1>0, HopsType DEF AtStart, ChainDrained, Running
  <2>3. BucketLeft' BY <1>33, <1>0, HopsType DEF BucketLeft, ChainDrained, Running
  <2> QED BY <2>1, <2>2, <2>3 DEF Shape
<1>34. ASSUME NEW c \in Stripes, NEW n \in Rollouts, ChainFails(c, n) PROVE Shape'
  <2>a. /\ EndChain(c, n) /\ faults' \in Nat /\ UNCHANGED <<st, k>>
        /\ n \in Workers /\ st[n] \in {"run", "failing"}
    BY <1>34, HopsType DEF ChainFails, TimesOut, Fault, Running, TypeOK
  <2>b. pc' = [pc EXCEPT ![<<c, n>>] = "error"] BY <2>a, EndChainType
  <2>1. TypeOK'
    <3>1. UNCHANGED <<aborted, werr, inflight, credit, inbox, device>> BY <1>34 DEF ChainFails
    <3> QED BY <2>a, <3>1, EndChainType DEF TypeOK
  <2>2. AtStart' BY <2>a, <2>b, <1>0 DEF AtStart
  <2>3. BucketLeft' BY <2>a, <2>b, <1>0 DEF BucketLeft
  <2> QED BY <2>1, <2>2, <2>3 DEF Shape
<1>35. ASSUME NEW c \in Stripes, NEW n \in Rollouts, ReadDone(c, n) PROVE Shape'
  <2> DEFINE b == Len(got[<<c, n>>])
  <2>a. b \in Nat /\ mem[<<c, n, Slot(b)>>] \in Values BY HopsType DEF TypeOK
  <2>b. got' \in [Stripes \X Rollouts -> Seq(Values)] BY <1>35, <2>a DEF ReadDone, TypeOK
  <2>1. TypeOK' BY <1>35, HopsType, <2>b DEF ReadDone, TypeOK
  <2>2. AtStart' BY <1>35, <1>0, HopsType DEF AtStart, ReadDone
  <2>3. BucketLeft' BY <1>35, <1>0, HopsType DEF BucketLeft, ReadDone
  <2> QED BY <2>1, <2>2, <2>3 DEF Shape
<1>36. ASSUME NEW h \in Hops, Release(h) PROVE Shape'
  <2>1. TypeOK' BY <1>36, HopsType, ItemsChar DEF TypeOK, Release
  <2>2. AtStart' BY <1>36, <1>0, HopsType DEF AtStart, Release
  <2>3. BucketLeft' BY <1>36, <1>0, HopsType DEF BucketLeft, Release
  <2> QED BY <2>1, <2>2, <2>3 DEF Shape
<1>37. ASSUME NEW h \in Hops, ReleaseFails(h) PROVE Shape'
  <2>1. TypeOK' BY <1>37, HopsType, ItemsChar DEF TypeOK, ReleaseFails
  <2>2. AtStart' BY <1>37, <1>0, HopsType DEF AtStart, ReleaseFails
  <2>3. BucketLeft' BY <1>37, <1>0, HopsType DEF BucketLeft, ReleaseFails
  <2> QED BY <2>1, <2>2, <2>3 DEF Shape
<1>38. ASSUME NEW h \in Hops, DeliverFree(h) PROVE Shape'
  <2>1. TypeOK' BY <1>38, HopsType, ItemsChar DEF TypeOK, DeliverFree
  <2>2. AtStart' BY <1>38, <1>0, HopsType DEF AtStart, DeliverFree
  <2>3. BucketLeft' BY <1>38, <1>0, HopsType DEF BucketLeft, DeliverFree
  <2> QED BY <2>1, <2>2, <2>3 DEF Shape
<1>39. ASSUME NEW m \in stale, DropStale(m) PROVE Shape'
  <2>1. TypeOK' BY <1>39, HopsType, ItemsChar DEF TypeOK, DropStale
  <2>2. AtStart' BY <1>39, <1>0, HopsType DEF AtStart, DropStale
  <2>3. BucketLeft' BY <1>39, <1>0, HopsType DEF BucketLeft, DropStale
  <2> QED BY <2>1, <2>2, <2>3 DEF Shape
<1>40. CASE UNCHANGED vars BY <1>40 DEF vars, Shape, TypeOK, AtStart, BucketLeft
<1> QED BY <1>1, <1>2, <1>3, <1>4, <1>5, <1>6, <1>7, <1>8, <1>9, <1>10, <1>11, <1>12, <1>13, <1>14, <1>15, <1>16, <1>17, <1>18, <1>19, <1>20, <1>21, <1>22, <1>23, <1>24, <1>25, <1>26, <1>27, <1>28, <1>29, <1>30, <1>31, <1>32, <1>33, <1>34, <1>35, <1>36, <1>37, <1>38, <1>39, <1>40 DEF Next, Stopped

\* The shape holds before anything has started.
LEMMA ShapeInit == Init => Shape
<1> SUFFICES ASSUME Init PROVE Shape OBVIOUS
<1>1. TypeOK BY TypeInit
<1>2. AtStart BY DEF Init, AtStart
<1>3. BucketLeft BY DEF Init, BucketLeft
<1> QED BY <1>1, <1>2, <1>3 DEF Shape

\* The inductive invariant behind the types holds in every state of a sync.
THEOREM ShapeInvariant == Spec => []Shape
BY ShapeInit, ShapeStep, PTL DEF Spec

\* Types: every variable stays in its set, whatever fails; in particular no
\* write task, message or credit is ever made for a bucket or slot that its
\* stripe does not have.
THEOREM TypeCorrect == Spec => []TypeOK
<1>1. Shape => TypeOK BY DEF Shape
<1> QED BY <1>1, ShapeInvariant, PTL

-----------------------------------------------------------------------------
(* Order: where the items are.                                               *)

\* What the proofs below use of the types.
LEMMA Types ==
  ASSUME Shape
  PROVE  /\ Underway \subseteq Items /\ air \subseteq Items /\ inbound \subseteq Items
         /\ Moving \subseteq Items
         /\ DOMAIN pc = Stripes \X Workers /\ DOMAIN st = Workers
         /\ k \in [Stripes \X Workers -> Nat] /\ DOMAIN rel = Hops
BY DEF Shape, TypeOK, Underway, Announced, Moving

\* The counters are numbers of buckets.
CountersTyped ==
  /\ \A c \in Stripes, w \in Workers : Begun(c, w) \in Nat
  /\ \A c \in Stripes, n \in Rollouts : Taken(c, n) \in Nat /\ Offered(c, n) \in Nat
\* They are so in every state of the right shape.
LEMMA CountersType == Shape => CountersTyped
BY Types, HopsType DEF CountersTyped, Begun, Taken, Offered

\* The counters of the chains go only one way.
CountersAdvance ==
  /\ \A c \in Stripes, w \in Workers : Begun(c, w) <= Begun(c, w)'
  /\ \A c \in Stripes, n \in Rollouts :
       Taken(c, n)' <= Taken(c, n) /\ Offered(c, n)' <= Offered(c, n)

\* A step that only removes items and takes no new bucket keeps the order.
LEMMA OrderShrinks ==
  ASSUME Shape, Shape', Order, CountersAdvance,
         waiting' \subseteq waiting, writing' \subseteq writing, dma' \subseteq dma,
         posted' \subseteq posted, inq' \subseteq inq, early' \subseteq early,
         air' \subseteq air, inbound' \subseteq inbound,
         \A w \in Workers : st'[w] \in {"idle", "open"} => st[w] \in {"idle", "open"},
         \A h \in Hops : st'[h[2]] \in {"idle", "open"} =>
            rel'[h] = rel[h] /\ (h \in frees' => h \in frees)
  PROVE  Order'
<1> Order /\ CountersAdvance OBVIOUS
<1>1. Underway' \subseteq Underway /\ Announced' \subseteq Announced BY DEF Underway, Announced
<1>2. CountersTyped /\ CountersTyped' BY CountersType, PTL
<1>3. ASSUME NEW i \in Items
      PROVE  /\ i[3] < Begun(i[1], Prev[<<i[1], i[2]>>]) => i[3] < Begun(i[1], Prev[<<i[1], i[2]>>])'
             /\ Taken(i[1], i[2]) <= i[3] => Taken(i[1], i[2])' <= i[3]
             /\ Offered(i[1], i[2]) <= i[3] => Offered(i[1], i[2])' <= i[3]
  <2> DEFINE c == i[1] n == i[2] w == Prev[<<c, n>>]
  <2>1. c \in Stripes /\ n \in Rollouts /\ w \in Workers /\ i[3] \in Nat BY ItemsChar, HopsType
  <2>2. Begun(c, w) \in Nat /\ Begun(c, w)' \in Nat /\ Begun(c, w) <= Begun(c, w)'
    BY <1>2, <2>1 DEF CountersTyped, CountersAdvance
  <2>3. /\ Taken(c, n) \in Nat /\ Taken(c, n)' \in Nat /\ Taken(c, n)' <= Taken(c, n)
        /\ Offered(c, n) \in Nat /\ Offered(c, n)' \in Nat /\ Offered(c, n)' <= Offered(c, n)
    BY <1>2, <2>1 DEF CountersTyped, CountersAdvance
  <2> QED BY <2>1, <2>2, <2>3
<1>4. BegunFirst'
  <2> SUFFICES ASSUME NEW i \in Underway' \cup air' \cup inbound'
               PROVE  i[3] < Begun(i[1], Prev[<<i[1], i[2]>>])'
    BY DEF BegunFirst
  <2> QED BY <1>1, <1>3, Types DEF Order, BegunFirst
<1>5. TakenLast'
  <2>1. ASSUME NEW i \in Underway' PROVE Taken(i[1], i[2])' <= i[3]
    BY <1>1, <1>3, Types DEF Order, TakenLast
  <2>2. ASSUME NEW i \in air' PROVE Offered(i[1], i[2])' <= i[3]
    BY <1>3, Types DEF Order, TakenLast
  <2> QED BY <2>1, <2>2 DEF TakenLast
<1>9. NotAhead'
  <2> SUFFICES ASSUME NEW c \in Stripes, NEW n \in Rollouts
               PROVE  Taken(c, n)' <= Begun(c, Prev[<<c, n>>])'
    BY DEF NotAhead
  <2> QED BY <1>2, HopsType DEF Order, NotAhead, CountersTyped, CountersAdvance
<1>6. StagesApart' BY <1>1 DEF Order, StagesApart
<1>7. OnlyDataFlies' BY DEF Order, OnlyDataFlies
<1>8. NothingBeforeStart' BY Types, ItemsChar, HopsType DEF Order, NothingBeforeStart, Underway
<1> QED BY <1>4, <1>5, <1>6, <1>7, <1>8, <1>9 DEF Order

\* A worker never goes back out of the sync.
NeverBack == \A w \in Workers : st'[w] \in {"idle", "open"} => st[w] \in {"idle", "open"}

\* A step that moves no chain leaves the counters, whatever it does to the tasks.
LEMMA CountersStay ==
  ASSUME Shape, pc' = pc, k' = k, NeverBack
  PROVE  CountersAdvance
BY Types, CountersType, HopsType DEF CountersAdvance, CountersTyped, Begun, Taken, Offered, NeverBack

\* A step that leaves the chains and their tasks alone, or only ends some.
LEMMA OrderStays ==
  ASSUME Shape, Shape', Order, pc' = pc, k' = k, NeverBack,
         waiting' \subseteq waiting, writing' \subseteq writing, rel' = rel,
         frees' \subseteq frees,
         UNCHANGED <<posted, inq, early, air, inbound>>, dma' \subseteq dma
  PROVE  Order'
BY CountersStay, OrderShrinks, TopologyAssumption DEF NeverBack, Workers

\* A step that moves items on while the chains stand keeps the order if the
\* stages stay apart.
LEMMA OrderMoves ==
  ASSUME Shape, Shape', Order, UNCHANGED <<st, pc, k>>,
         Underway' \subseteq Underway, air' \subseteq air \cup dma,
         inbound' \subseteq inbound \cup air,
         StagesApart', OnlyDataFlies', NothingBeforeStart'
  PROVE  Order'
<1>1. /\ \A c \in Stripes, w \in Workers : Begun(c, w)' = Begun(c, w)
      /\ \A c \in Stripes, n \in Rollouts :
           /\ Taken(c, n)' = Taken(c, n) /\ Offered(c, n)' = Offered(c, n)
           /\ Offered(c, n) <= Taken(c, n) /\ Taken(c, n) \in Nat /\ Offered(c, n) \in Nat
  BY Types, HopsType DEF Begun, Taken, Offered
<1>2. \A i \in Items : /\ i[1] \in Stripes /\ i[2] \in Rollouts /\ i[3] \in Nat
                       /\ Prev[<<i[1], i[2]>>] \in Workers
  BY ItemsChar, HopsType
<1>3. BegunFirst'
  <2> SUFFICES ASSUME NEW i \in Underway \cup air \cup inbound
               PROVE  i[3] < Begun(i[1], Prev[<<i[1], i[2]>>])'
    BY DEF BegunFirst, Underway
  <2> QED BY <1>1, <1>2, Types DEF Order, BegunFirst
<1>4. TakenLast'
  <2>1. ASSUME NEW i \in Underway' PROVE Taken(i[1], i[2])' <= i[3]
    BY <1>1, <1>2, Types DEF Order, TakenLast
  <2>2. ASSUME NEW i \in air' PROVE Offered(i[1], i[2])' <= i[3]
    <3>1. CASE i \in air BY <3>1, <1>1, <1>2, Types DEF Order, TakenLast
    <3>2. CASE i \in dma
      <4>1. i \in Items /\ Taken(i[1], i[2]) <= i[3]
        BY <3>2, Types DEF Order, TakenLast, Underway
      <4>2. /\ Offered(i[1], i[2])' <= Taken(i[1], i[2]) /\ Taken(i[1], i[2]) \in Nat
            /\ Offered(i[1], i[2])' \in Nat /\ i[3] \in Nat
        BY <4>1, <1>1, <1>2
      <4> QED BY <4>1, <4>2
    <3> QED BY <3>1, <3>2
  <2> QED BY <2>1, <2>2 DEF TakenLast
<1>5. NotAhead' BY <1>1, HopsType DEF Order, NotAhead
<1> QED BY <1>3, <1>4, <1>5 DEF Order

\* A step that starts the write tasks of the next bucket of one worker.
LEMMA OrderForwards ==
  ASSUME Shape, Shape', Order, NEW c \in Stripes, NEW w \in Workers,
         \A d \in Stripes, v \in Workers : Begun(d, v) <= Begun(d, v)',
         \A d \in Stripes, n \in Rollouts : Taken(d, n)' <= Taken(d, n),
         \A i \in air : Offered(i[1], i[2])' <= i[3],
         Begun(c, w) < Begun(c, w)', st[w] \notin {"idle", "open"}, UNCHANGED st,
         waiting' = waiting \cup ({c} \X Nexts(c, w) \X {Begun(c, w)}),
         UNCHANGED <<writing, dma, posted, inq, early, air, frees>>, inbound' \subseteq inbound,
         \A h \in Hops : st[h[2]] \in {"idle", "open"} => rel'[h] = rel[h]
  PROVE  Order'
<1> DEFINE new == {c} \X Nexts(c, w) \X {Begun(c, w)}
<1>1. CountersTyped /\ CountersTyped' BY CountersType, PTL
<1>2. \A i \in Items : /\ i[1] \in Stripes /\ i[2] \in Rollouts /\ i[3] \in Nat
                       /\ Prev[<<i[1], i[2]>>] \in Workers
                       /\ i = <<i[1], i[2], i[3]>>
  BY ItemsChar, HopsType
<1>3. new \subseteq Items /\ \A i \in new : /\ i[1] = c /\ Prev[<<i[1], i[2]>>] = w
                                            /\ i[3] = Begun(c, w)
  <2>1. new \subseteq Items BY Types DEF Shape, TypeOK
  <2> QED BY <2>1 DEF Nexts
<1>4. \A i \in writing \cup dma \cup air \cup inbound \cup Announced : i \notin new
  <2> SUFFICES ASSUME NEW i \in writing \cup dma \cup air \cup inbound \cup Announced, i \in new
               PROVE  FALSE
    OBVIOUS
  <2>1. i[3] < Begun(c, w) BY <1>3 DEF Order, BegunFirst, Underway
  <2> QED BY <2>1, <1>1, <1>3 DEF CountersTyped
<1>5. BegunFirst'
  <2> SUFFICES ASSUME NEW i \in Items, i \in Underway' \cup air' \cup inbound'
               PROVE  i[3] < Begun(i[1], Prev[<<i[1], i[2]>>])'
    BY Types, <1>3 DEF BegunFirst, Underway, Announced
  <2>1. CASE i \in new BY <2>1, <1>1, <1>3 DEF CountersTyped
  <2>2. CASE i \notin new
    <3>1. i[3] < Begun(i[1], Prev[<<i[1], i[2]>>])
      BY <2>2 DEF Order, BegunFirst, Underway, Announced
    <3> QED BY <3>1, <1>1, <1>2 DEF CountersTyped
  <2> QED BY <2>1, <2>2
<1>6. TakenLast'
  <2>1. ASSUME NEW i \in Items, i \in Underway' PROVE Taken(i[1], i[2])' <= i[3]
    <3>0. /\ Taken(i[1], i[2])' <= Taken(i[1], i[2]) /\ Taken(i[1], i[2]) \in Nat
          /\ Taken(i[1], i[2])' \in Nat /\ i[3] \in Nat
      BY <1>1, <1>2 DEF CountersTyped
    <3>1. CASE i \in new
      <4>1. Taken(i[1], i[2]) <= i[3] BY <3>1, <1>2, <1>3 DEF Order, NotAhead
      <4> QED BY <4>1, <3>0
    <3>2. CASE i \notin new
      <4>1. Taken(i[1], i[2]) <= i[3] BY <2>1, <3>2 DEF Order, TakenLast, Underway, Announced
      <4> QED BY <4>1, <3>0
    <3> QED BY <3>1, <3>2
  <2>2. Underway' \subseteq Items BY Types, <1>3 DEF Underway, Announced
  <2> QED BY <2>1, <2>2 DEF TakenLast
<1>7. NotAhead'
  <2> SUFFICES ASSUME NEW d \in Stripes, NEW n \in Rollouts
               PROVE  Taken(d, n)' <= Begun(d, Prev[<<d, n>>])'
    BY DEF NotAhead
  <2> QED BY <1>1, HopsType DEF Order, NotAhead, CountersTyped
<1>8. StagesApart' BY <1>4 DEF Order, StagesApart, Announced
<1>9. OnlyDataFlies' BY DEF Order, OnlyDataFlies
<1>10. NothingBeforeStart' BY <1>3 DEF Order, NothingBeforeStart
<1> QED BY <1>5, <1>6, <1>7, <1>8, <1>9, <1>10 DEF Order

\* Every step keeps the order: one step of the proof per action.
LEMMA OrderStep == Shape /\ Order /\ [Next]_vars => Order'
<1> SUFFICES ASSUME Shape, Order, [Next]_vars PROVE Order' OBVIOUS
<1> USE DEF control, tasks, inbox, device
<1> Shape' BY ShapeStep
<1>0. DOMAIN st = Workers /\ Rollouts \subseteq Workers /\ Trainers \subseteq Workers
  BY Types DEF Workers
<1>1. ASSUME NEW w \in Trainers, SendWeights(w) PROVE Order'
  <2>1. NeverBack BY <1>1, <1>0, HopsType DEF NeverBack, SendWeights, FreshCredit, MyHops
  <2>2. CountersAdvance
    BY <1>1, <1>0, <2>1, Types, HopsType, TopologyAssumption
       DEF CountersAdvance, Begun, Taken, Offered, NeverBack, SendWeights
  <2> QED BY <1>1, <1>0, <2>1, <2>2, OrderShrinks, HopsType DEF NeverBack, SendWeights
<1>2. ASSUME NEW n \in Rollouts, ReceiveWeights(n) PROVE Order'
  <2>1. NeverBack BY <1>2, <1>0, HopsType DEF NeverBack, ReceiveWeights
  <2> QED BY <1>2, <2>1, OrderStays DEF ReceiveWeights
<1>3. ASSUME NEW n \in Rollouts, StartReceive(n) PROVE Order'
  <2>1. NeverBack BY <1>3, <1>0, HopsType DEF NeverBack, StartReceive, FreshCredit, MyHops, Grants
  <2>2. CountersAdvance
    BY <1>3, <1>0, <2>1, Types, HopsType
       DEF CountersAdvance, Begun, Taken, Offered, NeverBack, StartReceive, AtStart, Shape
  <2>3. \A h \in Hops : st'[h[2]] \in {"idle", "open"} =>
          rel'[h] = rel[h] /\ (h \in frees' => h \in frees)
    BY <1>3, <1>0 DEF StartReceive, Grants
  <2> QED BY <1>3, <2>1, <2>2, <2>3, OrderShrinks DEF StartReceive, NeverBack
<1>4. ASSUME NEW n \in Rollouts, CloseUnstarted(n) PROVE Order'
  <2>1. NeverBack BY <1>4, <1>0, HopsType DEF NeverBack, CloseUnstarted, Fault, BeginFail
  <2> QED BY <1>4, <2>1, OrderStays DEF CloseUnstarted, Fault, BeginFail
<1>5. ASSUME NEW w \in Trainers, DriveGenerator(w) PROVE Order'
  <2>1. NeverBack BY <1>5, <1>0, HopsType DEF NeverBack, DriveGenerator
  <2> QED BY <1>5, <2>1, OrderStays DEF DriveGenerator
<1>6. ASSUME NEW n \in Rollouts, RaiseError(n) PROVE Order'
  <2>1. NeverBack BY <1>6, <1>0, HopsType DEF NeverBack, RaiseError, BeginFail
  <2> QED BY <1>6, <2>1, OrderStays DEF RaiseError, BeginFail
<1>7. ASSUME NEW n \in Rollouts, FinishReceive(n) PROVE Order'
  <2>1. NeverBack BY <1>7, <1>0, HopsType DEF NeverBack, FinishReceive, Complete
  <2> QED BY <1>7, <2>1, OrderStays DEF FinishReceive, Complete
<1>8. ASSUME NEW w \in Workers, Interrupt(w) PROVE Order'
  <2>1. NeverBack BY <1>8, <1>0, HopsType DEF NeverBack, Interrupt, Fault, BeginFail
  <2> QED BY <1>8, <2>1, OrderStays DEF Interrupt, Fault, BeginFail
<1>9. ASSUME NEW w \in Workers, PumpFails(w) PROVE Order'
  <2>1. NeverBack BY <1>9, <1>0, HopsType DEF NeverBack, PumpFails, Fault, Wake, MyHops
  <2> QED BY <1>9, <2>1, OrderStays DEF PumpFails, Fault, Wake, MyHops
<1>10. ASSUME NEW w \in Workers, Reap(w) PROVE Order'
  <2>1. NeverBack BY <1>10, <1>0, HopsType DEF NeverBack, Reap
  <2>2. CountersAdvance
    BY <1>10, <1>0, <2>1, Types, HopsType
       DEF CountersAdvance, Begun, Taken, Offered, NeverBack, Reap
  <2> QED BY <1>10, <1>0, <2>1, <2>2, OrderShrinks, HopsType DEF NeverBack, Reap
<1>11. ASSUME NEW w \in Workers, DeliverAbort(w) PROVE Order'
  <2>1. NeverBack BY <1>11, <1>0, HopsType DEF NeverBack, DeliverAbort, Wake, MyHops
  <2> QED BY <1>11, <2>1, OrderStays DEF DeliverAbort, Wake, MyHops
<1>12. ASSUME NEW c \in Stripes, Pack(c) PROVE Order'
  <2> DEFINE w == Leader[c] b == k[<<c, w>>]
  <2>1. /\ w \in Workers /\ w \notin Rollouts /\ b \in Nat
    BY HopsType, TopologyAssumption, Types
  <2>2. /\ k' = [k EXCEPT ![<<c, w>>] = b + 1] /\ st[w] = "run" /\ UNCHANGED st
        /\ \A x \in Stripes \X Workers : x # <<c, w>> => pc'[x] = pc[x]
    BY <1>12, Types DEF Pack
  <2>3. Begun(c, w) = b /\ Begun(c, w)' = b + 1 BY <2>1, <2>2, Types DEF Begun
  <2>4. \A d \in Stripes, v \in Workers : Begun(d, v) <= Begun(d, v)'
    BY <2>1, <2>2, Types DEF Begun
  <2>5. \A d \in Stripes, n \in Rollouts : Taken(d, n)' <= Taken(d, n) /\ Offered(d, n)' = Offered(d, n)
    BY <2>1, <2>2, <1>0, Types DEF Taken, Offered
  <2>6. \A i \in air : Offered(i[1], i[2])' <= i[3]
    BY <2>5, Types, ItemsChar DEF Order, TakenLast
  <2>7. /\ waiting' = waiting \cup ({c} \X Nexts(c, w) \X {Begun(c, w)})
        /\ UNCHANGED <<writing, dma, posted, inq, early, air, frees, inbound, rel>>
    BY <1>12, <2>3 DEF Pack
  <2> QED BY <2>1, <2>2, <2>3, <2>4, <2>5, <2>6, <2>7, OrderForwards
<1>13. ASSUME NEW c \in Stripes, CopyDone(c) PROVE Order'
  <2>1. NeverBack BY <1>13, <1>0, HopsType DEF NeverBack, CopyDone
  <2> QED BY <1>13, <2>1, OrderStays DEF CopyDone
<1>14. ASSUME NEW c \in Stripes, Flush(c) PROVE Order'
  <2>1. NeverBack BY <1>14, <1>0, HopsType DEF NeverBack, Flush
  <2>2. CountersAdvance
    BY <1>14, <1>0, <2>1, Types, HopsType
       DEF CountersAdvance, Begun, Taken, Offered, NeverBack, Flush
  <2> QED BY <1>14, <1>0, <2>1, <2>2, OrderShrinks, HopsType DEF NeverBack, Flush
<1>15. ASSUME NEW c \in Stripes, AwaitFailedWrite(c) PROVE Order'
  <2>1. NeverBack BY <1>15, <1>0, HopsType DEF NeverBack, AwaitFailedWrite, BeginFail
  <2> QED BY <1>15, <2>1, OrderStays DEF AwaitFailedWrite, BeginFail
<1>16. ASSUME NEW c \in Stripes, FinishSend(c) PROVE Order'
  <2>1. NeverBack BY <1>16, <1>0, HopsType DEF NeverBack, FinishSend, Complete
  <2>2. CountersAdvance
    BY <1>16, <1>0, <2>1, Types, HopsType
       DEF CountersAdvance, Begun, Taken, Offered, NeverBack, FinishSend, Complete
  <2> QED BY <1>16, <1>0, <2>1, <2>2, OrderShrinks, HopsType DEF NeverBack, FinishSend, Complete
<1>17. ASSUME NEW c \in Stripes, DrainFails(c) PROVE Order'
  <2>1. NeverBack BY <1>17, <1>0, HopsType DEF NeverBack, DrainFails, BeginFail, TimesOut, Fault
  <2> QED BY <1>17, <2>1, OrderStays DEF DrainFails, BeginFail, TimesOut, Fault
<1>18. ASSUME NEW i \in Items, SubmitWrite(i) PROVE Order'
  <2>1. /\ Underway' \subseteq Underway
        /\ air' \subseteq air \cup dma /\ inbound' \subseteq inbound \cup air
    BY <1>18 DEF SubmitWrite, Underway, Announced
  <2>2. StagesApart' BY <1>18 DEF SubmitWrite, Order, StagesApart, Announced
  <2>3. OnlyDataFlies' BY <1>18 DEF SubmitWrite, Order, OnlyDataFlies
  <2>4. NothingBeforeStart' BY <1>18 DEF SubmitWrite, Order, NothingBeforeStart
  <2> QED BY <1>18, <2>1, <2>2, <2>3, <2>4, OrderMoves DEF SubmitWrite
<1>19. ASSUME NEW i \in Items, WriteSucceeded(i) PROVE Order'
  <2>1. /\ Underway' \subseteq Underway
        /\ air' \subseteq air \cup dma /\ inbound' \subseteq inbound \cup air
    BY <1>19 DEF WriteSucceeded, StatusDone, Underway, Announced
  <2>2. StagesApart' BY <1>19 DEF WriteSucceeded, StatusDone, Order, StagesApart, Announced
  <2>3. OnlyDataFlies' BY <1>19 DEF WriteSucceeded, StatusDone, Order, OnlyDataFlies
  <2>4. NothingBeforeStart' BY <1>19 DEF WriteSucceeded, StatusDone, Order, NothingBeforeStart
  <2> QED BY <1>19, <2>1, <2>2, <2>3, <2>4, OrderMoves DEF WriteSucceeded, StatusDone
<1>20. ASSUME NEW i \in Items, WriteAborted(i) PROVE Order'
  <2>1. NeverBack BY <1>20, <1>0, HopsType DEF NeverBack, WriteAborted, WriteTaskFails
  <2> QED BY <1>20, <2>1, OrderStays DEF WriteAborted, WriteTaskFails
<1>21. ASSUME NEW i \in Items, WriteFault(i) PROVE Order'
  <2>1. NeverBack BY <1>21, <1>0, HopsType DEF NeverBack, WriteFault, WriteTimesOut, WriteReportsFailure, TimesOut, Fault, WriteTaskFails
  <2> QED BY <1>21, <2>1, OrderStays DEF WriteFault, WriteTimesOut, WriteReportsFailure, TimesOut, Fault, WriteTaskFails
<1>22. ASSUME NEW i \in Items, TakeMessage(i) PROVE Order'
  <2>1. /\ Underway' \subseteq Underway
        /\ air' \subseteq air \cup dma /\ inbound' \subseteq inbound \cup air
    BY <1>22 DEF TakeMessage, Underway, Announced
  <2>2. StagesApart' BY <1>22 DEF TakeMessage, Order, StagesApart, Announced
  <2>3. OnlyDataFlies' BY <1>22 DEF TakeMessage, Order, OnlyDataFlies
  <2>4. NothingBeforeStart' BY <1>22 DEF TakeMessage, Order, NothingBeforeStart
  <2> QED BY <1>22, <2>1, <2>2, <2>3, <2>4, OrderMoves DEF TakeMessage
<1>23. ASSUME NEW i \in Items, DeliverBucket(i) PROVE Order'
  <2>1. /\ Underway' \subseteq Underway
        /\ air' \subseteq air \cup dma /\ inbound' \subseteq inbound \cup air
    BY <1>23 DEF DeliverBucket, Underway, Announced
  <2>2. StagesApart' BY <1>23 DEF DeliverBucket, Order, StagesApart, Announced
  <2>3. OnlyDataFlies' BY <1>23 DEF DeliverBucket, Order, OnlyDataFlies
  <2>4. NothingBeforeStart' BY <1>23 DEF DeliverBucket, Order, NothingBeforeStart
  <2> QED BY <1>23, <2>1, <2>2, <2>3, <2>4, OrderMoves DEF DeliverBucket
<1>24. ASSUME NEW i \in Items, LocalCopyDone(i) PROVE Order'
  <2>1. NeverBack BY <1>24, <1>0, HopsType DEF NeverBack, LocalCopyDone
  <2> QED BY <1>24, <2>1, OrderStays DEF LocalCopyDone
<1>25. ASSUME NEW i \in Items, RemoteWriteLeft(i) PROVE Order'
  <2>1. /\ Underway' \subseteq Underway
        /\ air' \subseteq air \cup dma /\ inbound' \subseteq inbound \cup air
    BY <1>25 DEF RemoteWriteLeft, Underway, Announced
  <2>2. StagesApart' BY <1>25 DEF RemoteWriteLeft, Order, StagesApart, Announced
  <2>3. OnlyDataFlies' BY <1>25 DEF RemoteWriteLeft, Order, OnlyDataFlies
  <2>4. NothingBeforeStart' BY <1>25 DEF RemoteWriteLeft, Order, NothingBeforeStart
  <2> QED BY <1>25, <2>1, <2>2, <2>3, <2>4, OrderMoves DEF RemoteWriteLeft
<1>26. ASSUME NEW i \in Items, RemoteWriteLanded(i) PROVE Order'
  <2>1. /\ Underway' \subseteq Underway
        /\ air' \subseteq air \cup dma /\ inbound' \subseteq inbound \cup air
    BY <1>26 DEF RemoteWriteLanded, Underway, Announced
  <2>2. StagesApart' BY <1>26 DEF RemoteWriteLanded, Order, StagesApart, Announced
  <2>3. OnlyDataFlies' BY <1>26 DEF RemoteWriteLanded, Order, OnlyDataFlies
  <2>4. NothingBeforeStart' BY <1>26 DEF RemoteWriteLanded, Order, NothingBeforeStart
  <2> QED BY <1>26, <2>1, <2>2, <2>3, <2>4, OrderMoves DEF RemoteWriteLanded
<1>27. ASSUME NEW c \in Stripes, NEW n \in Rollouts, TakeBucket(c, n) PROVE Order'
  <2> DEFINE b == k[<<c, n>>] i0 == <<c, n, b>>
  <2>1. /\ n \in Workers /\ b \in Nat /\ st[n] \in {"run", "failing"} /\ pc[<<c, n>>] = "bucket"
        /\ i0 \in early /\ early' = early \ {i0} /\ UNCHANGED <<st, k>>
        /\ UNCHANGED <<dma, posted, inq, air, inbound, frees>>
    BY <1>27, HopsType, Types DEF TakeBucket, Running
  <2>2. NeverBack BY <2>1 DEF NeverBack
  <2>3. CASE EndChain(c, n)
    <3>1. /\ pc' = [pc EXCEPT ![<<c, n>>] = "error"]
          /\ waiting' \subseteq waiting /\ writing' \subseteq writing
      BY <2>3, EndChainType
    <3>2. CountersAdvance
      BY <2>1, <3>1, <1>0, Types, HopsType DEF CountersAdvance, Begun, Taken, Offered
    <3>3. \A h \in Hops : st'[h[2]] \in {"idle", "open"} => rel'[h] = rel[h]
      BY <2>1, <2>3 DEF EndChain
    <3> QED BY <2>1, <2>2, <3>1, <3>2, <3>3, OrderShrinks DEF NeverBack
  <2>4. CASE ~EndChain(c, n)
    <3>1. /\ pc' = [pc EXCEPT ![<<c, n>>] = "arrive"] /\ UNCHANGED <<waiting, writing, rel>>
      BY <1>27, <2>4 DEF TakeBucket
    <3>2. /\ \A d \in Stripes, v \in Workers : Begun(d, v)' = Begun(d, v)
          /\ \A d \in Stripes, m \in Rollouts :
               /\ Offered(d, m)' = Offered(d, m)
               /\ \/ Taken(d, m)' = Taken(d, m)
                  \/ d = c /\ m = n /\ Taken(d, m) = b /\ Taken(d, m)' = b + 1
      BY <2>1, <3>1, <1>0, Types DEF Begun, Taken, Offered
    <3>3. Underway' \subseteq Underway /\ i0 \notin Underway' /\ i0 \in Underway
      BY <2>1, <3>1 DEF Underway, Announced, Order, StagesApart
    <3>4. BegunFirst'
      <4> SUFFICES ASSUME NEW i \in Items, i \in Underway \cup air \cup inbound
                   PROVE  i[3] < Begun(i[1], Prev[<<i[1], i[2]>>])'
        BY <2>1, <3>3, Types DEF BegunFirst
      <4> QED BY <3>2, ItemsChar, HopsType DEF Order, BegunFirst
    <3>5. TakenLast'
      <4>1. ASSUME NEW i \in Underway' PROVE Taken(i[1], i[2])' <= i[3]
        <5>1. /\ i[1] \in Stripes /\ i[2] \in Rollouts /\ i[3] \in Nat /\ i = <<i[1], i[2], i[3]>>
              /\ Taken(i[1], i[2]) <= i[3]
          BY <3>3, Types, ItemsChar DEF Order, TakenLast
        <5>2. i # i0 BY <3>3
        <5> QED BY <2>1, <3>2, <5>1, <5>2
      <4>2. ASSUME NEW i \in air' PROVE Offered(i[1], i[2])' <= i[3]
        BY <2>1, <3>2, Types, ItemsChar DEF Order, TakenLast
      <4> QED BY <4>1, <4>2 DEF TakenLast
    <3>6. NotAhead'
      <4> SUFFICES ASSUME NEW d \in Stripes, NEW m \in Rollouts
                   PROVE  Taken(d, m)' <= Begun(d, Prev[<<d, m>>])'
        BY DEF NotAhead
      <4>1. b < Begun(c, Prev[<<c, n>>]) BY <3>3 DEF Order, BegunFirst
      <4>2. CountersTyped BY CountersType
      <4> QED BY <2>1, <3>2, <4>1, <4>2, HopsType DEF Order, NotAhead, CountersTyped
    <3>7. StagesApart' BY <2>1, <3>1 DEF Order, StagesApart, Announced
    <3>8. OnlyDataFlies' BY <2>1, <3>1 DEF Order, OnlyDataFlies
    <3>9. NothingBeforeStart' BY <2>1, <3>1 DEF Order, NothingBeforeStart
    <3> QED BY <3>4, <3>5, <3>6, <3>7, <3>8, <3>9 DEF Order
  <2> QED BY <2>3, <2>4
<1>28. ASSUME NEW c \in Stripes, NEW n \in Rollouts, BucketArrived(c, n) PROVE Order'
  <2> DEFINE b == k[<<c, n>>] i0 == <<c, n, b>>
  <2>1. /\ n \in Workers /\ b \in Nat /\ st[n] \in {"run", "failing"} /\ pc[<<c, n>>] = "arrive"
        /\ i0 \in Items /\ Arrived(i0) /\ UNCHANGED st
    BY <1>28, HopsType, Types, ItemsChar DEF BucketArrived, Running, Shape, BucketLeft
  <2>2. \/ /\ Empty(c) /\ k' = [k EXCEPT ![<<c, n>>] = b + 1]
           /\ pc' \in {[pc EXCEPT ![<<c, n>>] = "final"], [pc EXCEPT ![<<c, n>>] = "bucket"]}
           /\ rel' = [rel EXCEPT ![<<c, n, Slot(b)>>] = "wait"]
        \/ ~Empty(c) /\ pc' = [pc EXCEPT ![<<c, n>>] = "offer"] /\ UNCHANGED <<k, rel>>
    BY <1>28, <2>1, Types DEF BucketArrived, AfterBucket
  <2>3. Begun(c, n) = b /\ b < Begun(c, n)' BY <2>1, <2>2, Types DEF Begun
  <2>4. \A d \in Stripes, v \in Workers : Begun(d, v) <= Begun(d, v)'
    BY <2>1, <2>2, Types DEF Begun
  <2>5. \A d \in Stripes, m \in Rollouts : Taken(d, m)' <= Taken(d, m)
    BY <2>1, <2>2, <1>0, Types DEF Taken
  <2>6. \A d \in Stripes, m \in Rollouts :
           \/ Offered(d, m)' = Offered(d, m)
           \/ d = c /\ m = n /\ Offered(d, m) = b /\ Offered(d, m)' = b + 1
    BY <2>1, <2>2, <1>0, Types DEF Offered
  <2>7. \A i \in air : Offered(i[1], i[2])' <= i[3]
    <3> SUFFICES ASSUME NEW i \in air PROVE Offered(i[1], i[2])' <= i[3] OBVIOUS
    <3>1. /\ i[1] \in Stripes /\ i[2] \in Rollouts /\ i[3] \in Nat /\ i = <<i[1], i[2], i[3]>>
          /\ Offered(i[1], i[2]) <= i[3]
      BY Types, ItemsChar DEF Order, TakenLast
    <3>2. i # i0
      BY <2>1 DEF Arrived, Order, OnlyDataFlies, StagesApart
    <3> QED BY <2>1, <2>6, <3>1, <3>2
  <2>8. /\ waiting' = waiting \cup ({c} \X Nexts(c, n) \X {Begun(c, n)})
        /\ UNCHANGED <<writing, dma, posted, inq, early, air, frees>> /\ inbound' \subseteq inbound
    BY <1>28, <2>3 DEF BucketArrived
  <2>9. \A h \in Hops : st[h[2]] \in {"idle", "open"} => rel'[h] = rel[h]
    BY <2>1, <2>2, Types
  <2> QED BY <2>1, <2>3, <2>4, <2>5, <2>7, <2>8, <2>9, OrderForwards
<1>29. ASSUME NEW c \in Stripes, NEW n \in Rollouts, HandOver(c, n) PROVE Order'
  <2>1. NeverBack BY <1>29, <1>0, HopsType DEF NeverBack, HandOver
  <2>2. CountersAdvance
    BY <1>29, <1>0, <2>1, Types, HopsType
       DEF CountersAdvance, Begun, Taken, Offered, NeverBack, HandOver
  <2> QED BY <1>29, <1>0, <2>1, <2>2, OrderShrinks, HopsType DEF NeverBack, HandOver
<1>30. ASSUME NEW c \in Stripes, NEW n \in Rollouts, AskNext(c, n) PROVE Order'
  <2>1. NeverBack BY <1>30, <1>0, HopsType DEF NeverBack, AskNext, AfterBucket
  <2>2. CountersAdvance
    BY <1>30, <1>0, <2>1, Types, HopsType
       DEF CountersAdvance, Begun, Taken, Offered, NeverBack, AskNext, AfterBucket
  <2> QED BY <1>30, <1>0, <2>1, <2>2, OrderShrinks, HopsType DEF NeverBack, AskNext, AfterBucket
<1>31. ASSUME NEW c \in Stripes, NEW n \in Rollouts, MergeChunk(c, n) PROVE Order'
  <2>1. NeverBack BY <1>31, <1>0, HopsType DEF NeverBack, MergeChunk, AfterBucket, Running
  <2>2. CountersAdvance
    BY <1>31, <1>0, <2>1, Types, HopsType
       DEF CountersAdvance, Begun, Taken, Offered, NeverBack, MergeChunk, AfterBucket, Running
  <2> QED BY <1>31, <1>0, <2>1, <2>2, OrderShrinks, HopsType DEF NeverBack, MergeChunk, AfterBucket, Running
<1>32. ASSUME NEW c \in Stripes, NEW n \in Rollouts, AllReleased(c, n) PROVE Order'
  <2>1. NeverBack BY <1>32, <1>0, HopsType DEF NeverBack, AllReleased, AfterRelease, Running
  <2>2. CountersAdvance
    BY <1>32, <1>0, <2>1, Types, HopsType
       DEF CountersAdvance, Begun, Taken, Offered, NeverBack, AllReleased, AfterRelease, Running
  <2> QED BY <1>32, <1>0, <2>1, <2>2, OrderShrinks, HopsType DEF NeverBack, AllReleased, AfterRelease, Running
<1>33. ASSUME NEW c \in Stripes, NEW n \in Rollouts, ChainDrained(c, n) PROVE Order'
  <2>1. NeverBack BY <1>33, <1>0, HopsType DEF NeverBack, ChainDrained, Running
  <2>2. CountersAdvance
    BY <1>33, <1>0, <2>1, Types, HopsType
       DEF CountersAdvance, Begun, Taken, Offered, NeverBack, ChainDrained, Running
  <2> QED BY <1>33, <1>0, <2>1, <2>2, OrderShrinks, HopsType DEF NeverBack, ChainDrained, Running
<1>34. ASSUME NEW c \in Stripes, NEW n \in Rollouts, ChainFails(c, n) PROVE Order'
  <2>1. NeverBack BY <1>34, <1>0, HopsType DEF NeverBack, ChainFails, EndChain, TimesOut, Fault, Running
  <2>2. EndChain(c, n) /\ UNCHANGED k BY <1>34 DEF ChainFails
  <2>3. /\ pc' = [pc EXCEPT ![<<c, n>>] = "error"]
        /\ waiting' \subseteq waiting /\ writing' \subseteq writing
    BY <2>2, EndChainType
  <2>4. CountersAdvance
    BY <1>0, <2>1, <2>2, <2>3, Types, HopsType DEF CountersAdvance, Begun, Taken, Offered, NeverBack
  <2>5. \A h \in Hops : st'[h[2]] \in {"idle", "open"} => rel'[h] = rel[h]
    BY <1>34, <2>2 DEF ChainFails, EndChain, Running
  <2> QED BY <1>34, <2>1, <2>3, <2>4, <2>5, OrderShrinks DEF ChainFails, NeverBack
<1>35. ASSUME NEW c \in Stripes, NEW n \in Rollouts, ReadDone(c, n) PROVE Order'
  <2>1. NeverBack BY <1>35, <1>0, HopsType DEF NeverBack, ReadDone
  <2> QED BY <1>35, <2>1, OrderStays DEF ReadDone
<1>36. ASSUME NEW h \in Hops, Release(h) PROVE Order'
  <2>1. /\ Underway' \subseteq Underway
        /\ air' \subseteq air \cup dma /\ inbound' \subseteq inbound \cup air
    BY <1>36 DEF Release, Underway, Announced
  <2>2. StagesApart' BY <1>36 DEF Release, Order, StagesApart, Announced
  <2>3. OnlyDataFlies' BY <1>36 DEF Release, Order, OnlyDataFlies
  <2>4. NothingBeforeStart' BY <1>36, Types DEF Release, Order, NothingBeforeStart, Running
  <2> QED BY <1>36, <2>1, <2>2, <2>3, <2>4, OrderMoves DEF Release
<1>37. ASSUME NEW h \in Hops, ReleaseFails(h) PROVE Order'
  <2>1. NeverBack BY <1>37, <1>0, HopsType DEF NeverBack, ReleaseFails
  <2>2. CountersAdvance BY <1>37, <2>1, CountersStay DEF ReleaseFails
  <2>3. \A g \in Hops : st'[g[2]] \in {"idle", "open"} => rel'[g] = rel[g]
    BY <1>37, Types DEF ReleaseFails, Running
  <2> QED BY <1>37, <2>1, <2>2, <2>3, OrderShrinks DEF ReleaseFails, NeverBack
<1>38. ASSUME NEW h \in Hops, DeliverFree(h) PROVE Order'
  <2>1. NeverBack BY <1>38, <1>0, HopsType DEF NeverBack, DeliverFree
  <2> QED BY <1>38, <2>1, OrderStays DEF DeliverFree
<1>39. ASSUME NEW m \in stale, DropStale(m) PROVE Order'
  <2>1. NeverBack BY <1>39, <1>0, HopsType DEF NeverBack, DropStale
  <2> QED BY <1>39, <2>1, OrderStays DEF DropStale
<1>40. CASE UNCHANGED vars
  <2>1. NeverBack BY <1>40 DEF NeverBack, vars
  <2> QED BY <1>40, <2>1, OrderStays DEF vars
<1> QED BY <1>1, <1>2, <1>3, <1>4, <1>5, <1>6, <1>7, <1>8, <1>9, <1>10, <1>11, <1>12, <1>13, <1>14, <1>15, <1>16, <1>17, <1>18, <1>19, <1>20, <1>21, <1>22, <1>23, <1>24, <1>25, <1>26, <1>27, <1>28, <1>29, <1>30, <1>31, <1>32, <1>33, <1>34, <1>35, <1>36, <1>37, <1>38, <1>39, <1>40 DEF Next, Stopped

-----------------------------------------------------------------------------
(* Exclusion: who may use a slot.                                            *)

\* The numbers of buckets read.
LEMMA GotType ==
  ASSUME Shape, NEW c \in Stripes, NEW n \in Rollouts
  PROVE  /\ got[<<c, n>>] \in Seq(Values) /\ Len(got[<<c, n>>]) \in Nat
         /\ k[<<c, n>>] \in Nat
         /\ mem[<<c, n, Slot(Len(got[<<c, n>>]))>>] \in Values
<1>1. got[<<c, n>>] \in Seq(Values) BY DEF Shape, TypeOK
<1>2. Len(got[<<c, n>>]) \in Nat BY <1>1
<1> QED BY <1>1, <1>2, HopsType DEF Shape, TypeOK

\* A step that only takes away: fewer credits, fewer items on their way, less
\* in use.
LEMMA ExclusionShrinks ==
  ASSUME Shape, Shape', Exclusion, NeverBack, WriteAccounted', ReleaseApart',
         \A h \in Hops : /\ (Credited(h)' => Credited(h)) /\ (h \in frees' => h \in frees)
                         /\ Incoming(h)' \subseteq Incoming(h)
                         /\ (InUse(h)' => InUse(h))
                         /\ (Arriving(h)' => Arriving(h))
                         /\ (Arriving(h)' => k'[<<h[1], h[2]>>] = k[<<h[1], h[2]>>])
  PROVE  Exclusion'
<1>1. GrantedMeansFree' BY DEF Exclusion, GrantedMeansFree, Granted
<1>2. IncomingMeansFree' BY DEF Exclusion, IncomingMeansFree
<1>3. NoGrantBeforeStart'
  BY HopsType DEF Exclusion, NoGrantBeforeStart, NeverBack, Granted
<1> QED BY <1>1, <1>2, <1>3 DEF Exclusion

\* The tasks that account for the writes stay.
LEMMA AccountsStay ==
  ASSUME Shape, Exclusion, dma' \subseteq dma, writing' = writing, werr' = werr,
         \A w \in Workers : Running(w)' => Running(w),
         \A c \in Stripes, w \in Workers :
           Running(w)' /\ pc[<<c, w>>] = "error" => pc'[<<c, w>>] = "error"
  PROVE  WriteAccounted'
BY Types, ItemsChar, HopsType DEF Exclusion, WriteAccounted, Underway

\* A step of senders, of write tasks or of the hardware: no chain of a receiver
\* moves.
LEMMA ExclusionStays ==
  ASSUME Shape, Shape', Exclusion, NeverBack, WriteAccounted',
         \A d \in Stripes, m \in Rollouts : pc'[<<d, m>>] = pc[<<d, m>>] /\ k'[<<d, m>>] = k[<<d, m>>],
         rel' = rel, got' = got, frees' \subseteq frees,
         \A h \in Hops : /\ (Credited(h)' => Credited(h))
                         /\ Incoming(h)' \subseteq Incoming(h)
                         /\ Outgoing(h[1], h[2], h[3])' \subseteq Outgoing(h[1], h[2], h[3])
                         /\ (LeavingFrom(h[1], h[2], h[3])' => LeavingFrom(h[1], h[2], h[3]))
  PROVE  Exclusion'
<1>1. ASSUME NEW h \in Hops
      PROVE  /\ InHand(h)' = InHand(h) /\ Arriving(h)' = Arriving(h)
             /\ Unread(h[1], h[2], h[3])' = Unread(h[1], h[2], h[3])
             /\ k'[<<h[1], h[2]>>] = k[<<h[1], h[2]>>] /\ pc'[<<h[1], h[2]>>] = pc[<<h[1], h[2]>>]
  BY HopsType DEF InHand, Arriving, Unread
<1>2. \A h \in Hops : InUse(h)' => InUse(h) BY <1>1 DEF InUse
<1>3. ReleaseApart' BY <1>1 DEF Exclusion, ReleaseApart
<1> QED BY <1>1, <1>2, <1>3, ExclusionShrinks

\* When a chain moves on to its next bucket, only the slot of the bucket it
\* leaves may come to hold something unread.
LEMMA UnreadGrows ==
  ASSUME Shape, NEW c \in Stripes, NEW n \in Rollouts,
         k' = [k EXCEPT ![<<c, n>>] = @ + 1], got' = got
  PROVE  \A d \in Stripes, m \in Rollouts, s \in Slots :
           Unread(d, m, s)' => Unread(d, m, s) \/ (d = c /\ m = n /\ Slot(k[<<c, n>>]) = s)
<1> SUFFICES ASSUME NEW d \in Stripes, NEW m \in Rollouts, NEW s \in Slots, Unread(d, m, s)'
             PROVE  Unread(d, m, s) \/ (d = c /\ m = n /\ Slot(k[<<c, n>>]) = s)
  OBVIOUS
<1> DEFINE a == Len(got[<<d, m>>])
           q == k[<<d, m>>]
<1>1. a \in Nat /\ q \in Nat BY GotType
<1>2. k'[<<d, m>>] = IF d = c /\ m = n THEN q + 1 ELSE q BY Types, HopsType
<1>3. ~Empty(d) /\ \E b \in a .. k'[<<d, m>>] - 1 : Slot(b) = s BY DEF Unread
<1>4. CASE d = c /\ m = n
  <2>1. PICK b \in a .. q : Slot(b) = s BY <1>1, <1>2, <1>3, <1>4
  <2>2. b = q \/ b \in a .. q - 1 BY <1>1
  <2> QED BY <1>3, <1>4, <2>1, <2>2 DEF Unread
<1>5. CASE ~(d = c /\ m = n) BY <1>2, <1>3, <1>5 DEF Unread
<1> QED BY <1>4, <1>5

\* Every step keeps the exclusion: one step of the proof per action.
LEMMA ExclusionStep == Shape /\ Order /\ Exclusion /\ [Next]_vars => Exclusion'
<1> SUFFICES ASSUME Shape, Order, Exclusion, [Next]_vars PROVE Exclusion' OBVIOUS
<1> USE DEF control, tasks, inbox, device
<1> Shape' BY ShapeStep
<1>0. /\ DOMAIN st = Workers /\ Rollouts \subseteq Workers /\ Trainers \subseteq Workers
      /\ Trainers \cap Rollouts = {}
  BY Types, TopologyAssumption DEF Workers
<1>1. ASSUME NEW w \in Trainers, SendWeights(w) PROVE Exclusion'
  <2>1. NeverBack BY <1>1, <1>0, HopsType DEF NeverBack, SendWeights, FreshCredit, MyHops
  <2>2. PICK c \in Stripes : Leader[c] = w /\ pc' = [pc EXCEPT ![<<c, w>>] = "pack"]
    BY <1>1 DEF SendWeights
  <2>3. WriteAccounted'
    <3> SUFFICES ASSUME NEW i \in dma
                 PROVE  LET v == Prev[<<i[1], i[2]>>] IN
                        \/ i \in writing \/ <<i[1], v, Slot(i[3])>> \in werr
                        \/ ~Running(v)' \/ pc'[<<i[1], v>>] = "error"
      BY <1>1 DEF WriteAccounted, SendWeights
    <3>1. Prev[<<i[1], i[2]>>] # w BY <1>1 DEF Order, NothingBeforeStart, SendWeights
    <3> QED BY <1>1, <2>2, <3>1, <1>0, Types, ItemsChar, HopsType
          DEF Exclusion, WriteAccounted, SendWeights, Running, Underway
  <2>4. \A d \in Stripes, n \in Rollouts : pc'[<<d, n>>] = pc[<<d, n>>] /\ k'[<<d, n>>] = k[<<d, n>>]
    BY <1>1, <2>2, <1>0, Types DEF SendWeights
  <2>5. \A h \in Hops : /\ (Credited(h)' => Credited(h))
                        /\ Incoming(h)' \subseteq Incoming(h)
                        /\ Outgoing(h[1], h[2], h[3])' \subseteq Outgoing(h[1], h[2], h[3])
                        /\ (LeavingFrom(h[1], h[2], h[3])' => LeavingFrom(h[1], h[2], h[3]))
    BY <1>1 DEF Credited, Incoming, Moving, Announced, Outgoing, LeavingFrom, SendWeights, FreshCredit
  <2> QED BY <1>1, <2>1, <2>3, <2>4, <2>5, ExclusionStays DEF SendWeights
<1>2. ASSUME NEW n \in Rollouts, ReceiveWeights(n) PROVE Exclusion'
  <2>1. NeverBack BY <1>2, <1>0, HopsType DEF NeverBack, ReceiveWeights
  <2>2. WriteAccounted'
    BY <1>2, <1>0, AccountsStay, HopsType DEF Running, ReceiveWeights
  <2>3. \A d \in Stripes, m \in Rollouts : pc'[<<d, m>>] = pc[<<d, m>>] /\ k'[<<d, m>>] = k[<<d, m>>]
    BY <1>2, <1>0, Types, HopsType DEF ReceiveWeights
  <2>4. \A h \in Hops : /\ (Credited(h)' => Credited(h))
                        /\ Incoming(h)' \subseteq Incoming(h)
                        /\ Outgoing(h[1], h[2], h[3])' \subseteq Outgoing(h[1], h[2], h[3])
                        /\ (LeavingFrom(h[1], h[2], h[3])' => LeavingFrom(h[1], h[2], h[3]))
    BY <1>2 DEF Credited, Incoming, Moving, Announced, Outgoing, LeavingFrom, ReceiveWeights
  <2> QED BY <1>2, <2>1, <2>2, <2>3, <2>4, ExclusionStays DEF ReceiveWeights
<1>3. ASSUME NEW n \in Rollouts, StartReceive(n) PROVE Exclusion'
  <2>1. NeverBack BY <1>3, <1>0, HopsType DEF NeverBack, StartReceive, FreshCredit, MyHops, Grants
  <2>2. /\ st[n] = "open" /\ st' = [st EXCEPT ![n] = "run"]
        /\ \A d \in Stripes, w \in Workers : pc'[<<d, w>>] = IF w = n THEN "bucket" ELSE pc[<<d, w>>]
        /\ frees' = frees \cup Grants(n) /\ credit' \subseteq credit
        /\ UNCHANGED <<k, aborted, waiting, writing, werr, rel, posted, inq, early, dma, air, got>>
    BY <1>3, <1>0 DEF StartReceive, FreshCredit
  <2>3. \A h \in Hops : (h \in Grants(n)) = (h[2] = n) BY HopsType DEF Grants
  <2>4. \A h \in Hops : /\ (Credited(h)' => Credited(h)) /\ Incoming(h)' = Incoming(h)
                        /\ (InUse(h)' => InUse(h)) /\ (Arriving(h)' => Arriving(h))
    BY <2>2, <1>0, HopsType
       DEF Credited, Incoming, Moving, Announced, InUse, InHand, Arriving, Unread, Outgoing, LeavingFrom
  <2>5. ASSUME NEW h \in Hops, h[2] = n
        PROVE  ~Credited(h) /\ Incoming(h) = {} /\ ~InUse(h) /\ ~Arriving(h) /\ rel[h] # "wait"
    <3>1. h[1] \in Stripes /\ n \in Workers BY HopsType
    <3>2. pc[<<h[1], n>>] = "off" /\ k[<<h[1], n>>] = 0 BY <2>2, <3>1 DEF Shape, AtStart
    <3>3. ~Unread(h[1], h[2], h[3])
      <4>1. Len(got[<<h[1], n>>]) \in Nat BY <3>1, GotType
      <4> QED BY <2>5, <3>2, <4>1 DEF Unread
    <3>4. Outgoing(h[1], h[2], h[3]) = {} /\ ~LeavingFrom(h[1], h[2], h[3])
      <4>1. \A i \in waiting \cup writing \cup dma : Prev[<<i[1], i[2]>>] # h[2]
        BY <2>2, <2>5 DEF Order, NothingBeforeStart
      <4> QED BY <4>1 DEF Outgoing, LeavingFrom
    <3>5. rel[h] = "none" BY <2>2, <2>5 DEF Order, NothingBeforeStart
    <3>6. ~Granted(h) /\ Incoming(h) = {} BY <2>2, <2>5 DEF Exclusion, NoGrantBeforeStart
    <3> QED BY <2>5, <3>2, <3>3, <3>4, <3>5, <3>6 DEF InUse, InHand, Arriving, Granted
  <2>6. GrantedMeansFree'
    BY <2>2, <2>3, <2>4, <2>5 DEF Exclusion, GrantedMeansFree, Granted
  <2>7. IncomingMeansFree'
    BY <2>2, <2>4 DEF Exclusion, IncomingMeansFree
  <2>8. WriteAccounted'
    <3> SUFFICES ASSUME NEW i \in dma
                 PROVE  LET w == Prev[<<i[1], i[2]>>] IN
                        \/ i \in writing \/ <<i[1], w, Slot(i[3])>> \in werr
                        \/ ~Running(w)' \/ pc'[<<i[1], w>>] = "error"
      BY <2>2 DEF WriteAccounted
    <3>1. Prev[<<i[1], i[2]>>] # n BY <2>2 DEF Order, NothingBeforeStart
    <3> QED BY <2>2, <3>1, <1>0, Types, ItemsChar, HopsType DEF Exclusion, WriteAccounted, Running, Underway
  <2>9. ReleaseApart'
    BY <2>2, <2>5, <1>0, HopsType DEF Exclusion, ReleaseApart, InHand, Arriving
  <2>10. NoGrantBeforeStart'
    BY <2>1, <2>2, <2>3, <2>4, <1>0, HopsType DEF Exclusion, NoGrantBeforeStart, NeverBack, Granted
  <2> QED BY <2>6, <2>7, <2>8, <2>9, <2>10 DEF Exclusion
<1>4. ASSUME NEW n \in Rollouts, CloseUnstarted(n) PROVE Exclusion'
  <2>1. NeverBack BY <1>4, <1>0, HopsType DEF NeverBack, CloseUnstarted, Fault, BeginFail
  <2>2. WriteAccounted'
    BY <1>4, <1>0, AccountsStay, HopsType DEF Running, CloseUnstarted, BeginFail
  <2>3. \A d \in Stripes, m \in Rollouts : pc'[<<d, m>>] = pc[<<d, m>>] /\ k'[<<d, m>>] = k[<<d, m>>]
    BY <1>4, <1>0, Types, HopsType DEF CloseUnstarted, BeginFail
  <2>4. \A h \in Hops : /\ (Credited(h)' => Credited(h))
                        /\ Incoming(h)' \subseteq Incoming(h)
                        /\ Outgoing(h[1], h[2], h[3])' \subseteq Outgoing(h[1], h[2], h[3])
                        /\ (LeavingFrom(h[1], h[2], h[3])' => LeavingFrom(h[1], h[2], h[3]))
    BY <1>4 DEF Credited, Incoming, Moving, Announced, Outgoing, LeavingFrom, CloseUnstarted, BeginFail
  <2> QED BY <1>4, <2>1, <2>2, <2>3, <2>4, ExclusionStays DEF CloseUnstarted, BeginFail
<1>5. ASSUME NEW w \in Trainers, DriveGenerator(w) PROVE Exclusion'
  <2>1. NeverBack BY <1>5, <1>0, HopsType DEF NeverBack, DriveGenerator
  <2>2. WriteAccounted'
    BY <1>5, <1>0, AccountsStay, HopsType DEF Running, DriveGenerator
  <2>3. \A d \in Stripes, m \in Rollouts : pc'[<<d, m>>] = pc[<<d, m>>] /\ k'[<<d, m>>] = k[<<d, m>>]
    BY <1>5, <1>0, Types, HopsType DEF DriveGenerator
  <2>4. \A h \in Hops : /\ (Credited(h)' => Credited(h))
                        /\ Incoming(h)' \subseteq Incoming(h)
                        /\ Outgoing(h[1], h[2], h[3])' \subseteq Outgoing(h[1], h[2], h[3])
                        /\ (LeavingFrom(h[1], h[2], h[3])' => LeavingFrom(h[1], h[2], h[3]))
    BY <1>5 DEF Credited, Incoming, Moving, Announced, Outgoing, LeavingFrom, DriveGenerator
  <2> QED BY <1>5, <2>1, <2>2, <2>3, <2>4, ExclusionStays DEF DriveGenerator
<1>6. ASSUME NEW n \in Rollouts, RaiseError(n) PROVE Exclusion'
  <2>1. NeverBack BY <1>6, <1>0, HopsType DEF NeverBack, RaiseError, BeginFail
  <2>2. WriteAccounted'
    BY <1>6, <1>0, AccountsStay, HopsType DEF Running, RaiseError, BeginFail
  <2>3. \A d \in Stripes, m \in Rollouts : pc'[<<d, m>>] = pc[<<d, m>>] /\ k'[<<d, m>>] = k[<<d, m>>]
    BY <1>6, <1>0, Types, HopsType DEF RaiseError, BeginFail
  <2>4. \A h \in Hops : /\ (Credited(h)' => Credited(h))
                        /\ Incoming(h)' \subseteq Incoming(h)
                        /\ Outgoing(h[1], h[2], h[3])' \subseteq Outgoing(h[1], h[2], h[3])
                        /\ (LeavingFrom(h[1], h[2], h[3])' => LeavingFrom(h[1], h[2], h[3]))
    BY <1>6 DEF Credited, Incoming, Moving, Announced, Outgoing, LeavingFrom, RaiseError, BeginFail
  <2> QED BY <1>6, <2>1, <2>2, <2>3, <2>4, ExclusionStays DEF RaiseError, BeginFail
<1>7. ASSUME NEW n \in Rollouts, FinishReceive(n) PROVE Exclusion'
  <2>1. NeverBack BY <1>7, <1>0, HopsType DEF NeverBack, FinishReceive, Complete
  <2>2. WriteAccounted'
    BY <1>7, <1>0, AccountsStay, HopsType DEF Running, FinishReceive, Complete
  <2>3. \A d \in Stripes, m \in Rollouts : pc'[<<d, m>>] = pc[<<d, m>>] /\ k'[<<d, m>>] = k[<<d, m>>]
    BY <1>7, <1>0, Types, HopsType DEF FinishReceive, Complete
  <2>4. \A h \in Hops : /\ (Credited(h)' => Credited(h))
                        /\ Incoming(h)' \subseteq Incoming(h)
                        /\ Outgoing(h[1], h[2], h[3])' \subseteq Outgoing(h[1], h[2], h[3])
                        /\ (LeavingFrom(h[1], h[2], h[3])' => LeavingFrom(h[1], h[2], h[3]))
    BY <1>7 DEF Credited, Incoming, Moving, Announced, Outgoing, LeavingFrom, FinishReceive, Complete
  <2> QED BY <1>7, <2>1, <2>2, <2>3, <2>4, ExclusionStays DEF FinishReceive, Complete
<1>8. ASSUME NEW w \in Workers, Interrupt(w) PROVE Exclusion'
  <2>1. NeverBack BY <1>8, <1>0, HopsType DEF NeverBack, Interrupt, Fault, BeginFail
  <2>2. WriteAccounted'
    BY <1>8, <1>0, AccountsStay, HopsType DEF Running, Interrupt, BeginFail
  <2>3. \A d \in Stripes, m \in Rollouts : pc'[<<d, m>>] = pc[<<d, m>>] /\ k'[<<d, m>>] = k[<<d, m>>]
    BY <1>8, <1>0, Types, HopsType DEF Interrupt, BeginFail
  <2>4. \A h \in Hops : /\ (Credited(h)' => Credited(h))
                        /\ Incoming(h)' \subseteq Incoming(h)
                        /\ Outgoing(h[1], h[2], h[3])' \subseteq Outgoing(h[1], h[2], h[3])
                        /\ (LeavingFrom(h[1], h[2], h[3])' => LeavingFrom(h[1], h[2], h[3]))
    BY <1>8 DEF Credited, Incoming, Moving, Announced, Outgoing, LeavingFrom, Interrupt, BeginFail
  <2> QED BY <1>8, <2>1, <2>2, <2>3, <2>4, ExclusionStays DEF Interrupt, BeginFail
<1>9. ASSUME NEW w \in Workers, PumpFails(w) PROVE Exclusion'
  <2>1. NeverBack BY <1>9, <1>0, HopsType DEF NeverBack, PumpFails, Fault, Wake, MyHops
  <2>2. WriteAccounted'
    BY <1>9, <1>0, AccountsStay, HopsType DEF Running, PumpFails, Wake
  <2>3. \A d \in Stripes, m \in Rollouts : pc'[<<d, m>>] = pc[<<d, m>>] /\ k'[<<d, m>>] = k[<<d, m>>]
    BY <1>9, <1>0, Types, HopsType DEF PumpFails, Wake
  <2>4. \A h \in Hops : /\ (Credited(h)' => Credited(h))
                        /\ Incoming(h)' \subseteq Incoming(h)
                        /\ Outgoing(h[1], h[2], h[3])' \subseteq Outgoing(h[1], h[2], h[3])
                        /\ (LeavingFrom(h[1], h[2], h[3])' => LeavingFrom(h[1], h[2], h[3]))
    BY <1>9, HopsType DEF MyHops, Credited, Incoming, Moving, Announced, Outgoing, LeavingFrom, PumpFails, Wake
  <2> QED BY <1>9, <2>1, <2>2, <2>3, <2>4, ExclusionStays DEF PumpFails, Wake
<1>10. ASSUME NEW w \in Workers, Reap(w) PROVE Exclusion'
  <2>1. NeverBack BY <1>10, <1>0, HopsType DEF NeverBack, Reap
  <2>2. WriteAccounted'
    BY <1>10, <1>0, Types, ItemsChar, HopsType DEF Reap, MyItems, Exclusion, WriteAccounted, Running, Underway
  <2>3. \A h \in Hops : /\ (Credited(h)' => Credited(h)) /\ Incoming(h)' \subseteq Incoming(h)
                        /\ Outgoing(h[1], h[2], h[3])' \subseteq Outgoing(h[1], h[2], h[3])
                        /\ LeavingFrom(h[1], h[2], h[3])' = LeavingFrom(h[1], h[2], h[3])
    BY <1>10, HopsType DEF Credited, Incoming, Moving, Announced, Outgoing, LeavingFrom, Reap, MyHops
  <2>4. \A h \in Hops : /\ (InHand(h)' \/ rel'[h] = "wait" \/ Unread(h[1], h[2], h[3])' => InUse(h))
                        /\ (Arriving(h)' => Arriving(h))
    BY <1>10, <1>0, Types, HopsType DEF InHand, Arriving, InUse, Unread, Reap
  <2>5. ReleaseApart'
    BY <1>10, <1>0, Types, HopsType DEF Exclusion, ReleaseApart, InHand, Arriving, Reap
  <2> QED BY <1>10, <2>1, <2>2, <2>3, <2>4, <2>5, ExclusionShrinks DEF InUse, Reap
<1>11. ASSUME NEW w \in Workers, DeliverAbort(w) PROVE Exclusion'
  <2>1. NeverBack BY <1>11, <1>0, HopsType DEF NeverBack, DeliverAbort, Wake, MyHops
  <2>2. WriteAccounted'
    BY <1>11, <1>0, AccountsStay, HopsType DEF Running, DeliverAbort, Wake
  <2>3. \A d \in Stripes, m \in Rollouts : pc'[<<d, m>>] = pc[<<d, m>>] /\ k'[<<d, m>>] = k[<<d, m>>]
    BY <1>11, <1>0, Types, HopsType DEF DeliverAbort, Wake
  <2>4. \A h \in Hops : /\ (Credited(h)' => Credited(h))
                        /\ Incoming(h)' \subseteq Incoming(h)
                        /\ Outgoing(h[1], h[2], h[3])' \subseteq Outgoing(h[1], h[2], h[3])
                        /\ (LeavingFrom(h[1], h[2], h[3])' => LeavingFrom(h[1], h[2], h[3]))
    BY <1>11, HopsType DEF MyHops, Credited, Incoming, Moving, Announced, Outgoing, LeavingFrom, DeliverAbort, Wake
  <2> QED BY <1>11, <2>1, <2>2, <2>3, <2>4, ExclusionStays DEF DeliverAbort, Wake
<1>12. ASSUME NEW c \in Stripes, Pack(c) PROVE Exclusion'
  <2>1. NeverBack BY <1>12, <1>0, HopsType DEF NeverBack, Pack, Nexts
  <2>2. WriteAccounted'
    BY <1>12, <1>0, AccountsStay, HopsType DEF Running, Pack
  <2>3. \A d \in Stripes, m \in Rollouts : pc'[<<d, m>>] = pc[<<d, m>>] /\ k'[<<d, m>>] = k[<<d, m>>]
    BY <1>12, <1>0, Types, HopsType, TopologyAssumption DEF Pack
  <2>4. \A h \in Hops : /\ (Credited(h)' => Credited(h))
                        /\ Incoming(h)' \subseteq Incoming(h)
                        /\ Outgoing(h[1], h[2], h[3])' \subseteq Outgoing(h[1], h[2], h[3])
                        /\ (LeavingFrom(h[1], h[2], h[3])' => LeavingFrom(h[1], h[2], h[3]))
    <3> SUFFICES ASSUME NEW h \in Hops
                 PROVE  /\ (Credited(h)' => Credited(h))
                        /\ Incoming(h)' \subseteq Incoming(h)
                        /\ Outgoing(h[1], h[2], h[3])' \subseteq Outgoing(h[1], h[2], h[3])
                        /\ (LeavingFrom(h[1], h[2], h[3])' => LeavingFrom(h[1], h[2], h[3]))
      OBVIOUS
    <3>1. h[2] # Leader[c] BY <1>0, HopsType, TopologyAssumption
    <3>2. \A i \in waiting' : i \in waiting \/ (i[1] = c /\ Prev[<<c, i[2]>>] = Leader[c])
      BY <1>12 DEF Pack, Nexts
    <3>3. Outgoing(h[1], h[2], h[3])' \subseteq Outgoing(h[1], h[2], h[3])
      BY <1>12, <3>1, <3>2 DEF Outgoing, Pack
    <3> QED BY <1>12, <3>3 DEF Credited, Incoming, Moving, Announced, LeavingFrom, Pack
  <2> QED BY <1>12, <2>1, <2>2, <2>3, <2>4, ExclusionStays DEF Pack
<1>13. ASSUME NEW c \in Stripes, CopyDone(c) PROVE Exclusion'
  <2>1. NeverBack BY <1>13, <1>0, HopsType DEF NeverBack, CopyDone
  <2>2. WriteAccounted'
    BY <1>13, <1>0, AccountsStay, HopsType DEF Running, CopyDone
  <2>3. \A d \in Stripes, m \in Rollouts : pc'[<<d, m>>] = pc[<<d, m>>] /\ k'[<<d, m>>] = k[<<d, m>>]
    BY <1>13, <1>0, Types, HopsType DEF CopyDone
  <2>4. \A h \in Hops : /\ (Credited(h)' => Credited(h))
                        /\ Incoming(h)' \subseteq Incoming(h)
                        /\ Outgoing(h[1], h[2], h[3])' \subseteq Outgoing(h[1], h[2], h[3])
                        /\ (LeavingFrom(h[1], h[2], h[3])' => LeavingFrom(h[1], h[2], h[3]))
    BY <1>13 DEF Credited, Incoming, Moving, Announced, Outgoing, LeavingFrom, CopyDone
  <2> QED BY <1>13, <2>1, <2>2, <2>3, <2>4, ExclusionStays DEF CopyDone
<1>14. ASSUME NEW c \in Stripes, Flush(c) PROVE Exclusion'
  <2>1. NeverBack BY <1>14, <1>0, HopsType DEF NeverBack, Flush
  <2>2. WriteAccounted'
    BY <1>14, <1>0, AccountsStay, HopsType DEF Running, Flush
  <2>3. \A d \in Stripes, m \in Rollouts : pc'[<<d, m>>] = pc[<<d, m>>] /\ k'[<<d, m>>] = k[<<d, m>>]
    BY <1>14, <1>0, Types, HopsType, TopologyAssumption DEF Flush
  <2>4. \A h \in Hops : /\ (Credited(h)' => Credited(h))
                        /\ Incoming(h)' \subseteq Incoming(h)
                        /\ Outgoing(h[1], h[2], h[3])' \subseteq Outgoing(h[1], h[2], h[3])
                        /\ (LeavingFrom(h[1], h[2], h[3])' => LeavingFrom(h[1], h[2], h[3]))
    BY <1>14 DEF Credited, Incoming, Moving, Announced, Outgoing, LeavingFrom, Flush
  <2> QED BY <1>14, <2>1, <2>2, <2>3, <2>4, ExclusionStays DEF Flush
<1>15. ASSUME NEW c \in Stripes, AwaitFailedWrite(c) PROVE Exclusion'
  <2>1. NeverBack BY <1>15, <1>0, HopsType DEF NeverBack, AwaitFailedWrite, BeginFail
  <2>2. WriteAccounted'
    BY <1>15, <1>0, AccountsStay, HopsType DEF Running, AwaitFailedWrite, BeginFail
  <2>3. \A d \in Stripes, m \in Rollouts : pc'[<<d, m>>] = pc[<<d, m>>] /\ k'[<<d, m>>] = k[<<d, m>>]
    BY <1>15, <1>0, Types, HopsType DEF AwaitFailedWrite, BeginFail
  <2>4. \A h \in Hops : /\ (Credited(h)' => Credited(h))
                        /\ Incoming(h)' \subseteq Incoming(h)
                        /\ Outgoing(h[1], h[2], h[3])' \subseteq Outgoing(h[1], h[2], h[3])
                        /\ (LeavingFrom(h[1], h[2], h[3])' => LeavingFrom(h[1], h[2], h[3]))
    BY <1>15 DEF Credited, Incoming, Moving, Announced, Outgoing, LeavingFrom, AwaitFailedWrite, BeginFail
  <2> QED BY <1>15, <2>1, <2>2, <2>3, <2>4, ExclusionStays DEF AwaitFailedWrite, BeginFail
<1>16. ASSUME NEW c \in Stripes, FinishSend(c) PROVE Exclusion'
  <2>1. NeverBack BY <1>16, <1>0, HopsType DEF NeverBack, FinishSend, Complete
  <2>2. WriteAccounted'
    BY <1>16, <1>0, AccountsStay, HopsType DEF Running, FinishSend, Complete
  <2>3. \A d \in Stripes, m \in Rollouts : pc'[<<d, m>>] = pc[<<d, m>>] /\ k'[<<d, m>>] = k[<<d, m>>]
    BY <1>16, <1>0, Types, HopsType, TopologyAssumption DEF FinishSend, Complete
  <2>4. \A h \in Hops : /\ (Credited(h)' => Credited(h))
                        /\ Incoming(h)' \subseteq Incoming(h)
                        /\ Outgoing(h[1], h[2], h[3])' \subseteq Outgoing(h[1], h[2], h[3])
                        /\ (LeavingFrom(h[1], h[2], h[3])' => LeavingFrom(h[1], h[2], h[3]))
    BY <1>16 DEF Credited, Incoming, Moving, Announced, Outgoing, LeavingFrom, FinishSend, Complete
  <2> QED BY <1>16, <2>1, <2>2, <2>3, <2>4, ExclusionStays DEF FinishSend, Complete
<1>17. ASSUME NEW c \in Stripes, DrainFails(c) PROVE Exclusion'
  <2>1. NeverBack BY <1>17, <1>0, HopsType DEF NeverBack, DrainFails, BeginFail, TimesOut, Fault
  <2>2. WriteAccounted'
    BY <1>17, <1>0, AccountsStay, HopsType DEF Running, DrainFails, BeginFail
  <2>3. \A d \in Stripes, m \in Rollouts : pc'[<<d, m>>] = pc[<<d, m>>] /\ k'[<<d, m>>] = k[<<d, m>>]
    BY <1>17, <1>0, Types, HopsType DEF DrainFails, BeginFail
  <2>4. \A h \in Hops : /\ (Credited(h)' => Credited(h))
                        /\ Incoming(h)' \subseteq Incoming(h)
                        /\ Outgoing(h[1], h[2], h[3])' \subseteq Outgoing(h[1], h[2], h[3])
                        /\ (LeavingFrom(h[1], h[2], h[3])' => LeavingFrom(h[1], h[2], h[3]))
    BY <1>17 DEF Credited, Incoming, Moving, Announced, Outgoing, LeavingFrom, DrainFails, BeginFail
  <2> QED BY <1>17, <2>1, <2>2, <2>3, <2>4, ExclusionStays DEF DrainFails, BeginFail
<1>18. ASSUME NEW i \in Items, SubmitWrite(i) PROVE Exclusion'
  <2>1. NeverBack BY <1>18, <1>0, HopsType DEF NeverBack, SubmitWrite, CreditSpent
  <2> DEFINE c == i[1] n == i[2] g == <<c, n, Slot(i[3])>>
  <2>2. /\ g \in Hops /\ g[1] = c /\ g[2] = n /\ g[3] = Slot(i[3]) /\ i \in waiting
        /\ Granted(g) /\ Credited(g) /\ credit' = credit \ {g} /\ waiting' = waiting \ {i}
        /\ UNCHANGED <<st, pc, k, aborted, werr, rel, frees, inq, early, air, got>>
        /\ \/ posted' = posted \cup {i} /\ UNCHANGED <<writing, dma>>
           \/ writing' = writing \cup {i} /\ dma' = dma \cup {i} /\ UNCHANGED posted
    BY <1>18, ItemsChar, HopsType DEF SubmitWrite, MayWrite, CreditSpent, Granted, Credited
  <2>3. Incoming(g) = {} /\ ~InUse(g) /\ ~Arriving(g) /\ g \notin frees'
    BY <2>2 DEF Exclusion, GrantedMeansFree
  <2>4. \A h \in Hops : /\ (Credited(h)' => Credited(h) /\ h # g)
                        /\ (h # g => Incoming(h)' \subseteq Incoming(h))
                        /\ Incoming(h)' \subseteq Incoming(h) \cup {i}
    BY <2>2, HopsType DEF Credited, Incoming, Moving, Announced, Into
  <2>5. \A h \in Hops : (InUse(h)' => InUse(h)) /\ Arriving(h)' = Arriving(h) /\ InHand(h)' = InHand(h)
    BY <2>2 DEF InUse, InHand, Arriving, Unread, Outgoing, LeavingFrom
  <2>6. GrantedMeansFree'
    BY <2>2, <2>3, <2>4, <2>5 DEF Exclusion, GrantedMeansFree, Granted
  <2>7. IncomingMeansFree'
    <3> SUFFICES ASSUME NEW h \in Hops, NEW j \in Items, j \in Incoming(h)'
                 PROVE  /\ ~InUse(h)' /\ (Arriving(h)' => j[3] = k'[<<h[1], h[2]>>])
                        /\ \A x \in Items : x \in Incoming(h)' => j = x
      BY DEF IncomingMeansFree
    <3>1. CASE h = g BY <2>3, <2>4, <2>5, <3>1
    <3>2. CASE h # g BY <2>2, <2>4, <2>5, <3>2 DEF Exclusion, IncomingMeansFree
    <3> QED BY <3>1, <3>2
  <2>8. WriteAccounted' BY <2>2 DEF Exclusion, WriteAccounted, Running
  <2>9. ReleaseApart' BY <2>2, <2>5 DEF Exclusion, ReleaseApart
  <2>10. NoGrantBeforeStart'
    BY <2>2, <2>4 DEF Exclusion, NoGrantBeforeStart, Granted
  <2> QED BY <2>6, <2>7, <2>8, <2>9, <2>10 DEF Exclusion
<1>19. ASSUME NEW i \in Items, WriteSucceeded(i) PROVE Exclusion'
  <2>1. NeverBack BY <1>19, <1>0, HopsType DEF NeverBack, WriteSucceeded
  <2>2. WriteAccounted' BY <1>19 DEF WriteSucceeded, StatusDone, Exclusion, WriteAccounted, Running
  <2>3. \A h \in Hops : /\ (Credited(h)' => Credited(h))
                        /\ Incoming(h)' \subseteq Incoming(h)
                        /\ Outgoing(h[1], h[2], h[3])' \subseteq Outgoing(h[1], h[2], h[3])
                        /\ (LeavingFrom(h[1], h[2], h[3])' => LeavingFrom(h[1], h[2], h[3]))
    BY <1>19 DEF Credited, Incoming, Moving, Announced, Outgoing, LeavingFrom, WriteSucceeded
  <2> QED BY <1>19, <2>1, <2>2, <2>3, ExclusionStays DEF WriteSucceeded
<1>20. ASSUME NEW i \in Items, WriteAborted(i) PROVE Exclusion'
  <2>1. NeverBack BY <1>20, <1>0, HopsType DEF NeverBack, WriteAborted, WriteTaskFails
  <2>2. WriteTaskFails(i) BY <1>20 DEF WriteAborted
  <2>3. WriteAccounted'
    <3> SUFFICES ASSUME NEW j \in dma
                 PROVE  LET v == Prev[<<j[1], j[2]>>] IN
                        \/ j \in writing' \/ <<j[1], v, Slot(j[3])>> \in werr'
                        \/ ~Running(v) \/ pc[<<j[1], v>>] = "error"
      BY <2>2 DEF WriteAccounted, WriteTaskFails, Running
    <3> QED BY <2>2 DEF Exclusion, WriteAccounted, WriteTaskFails, Siblings, Nexts
  <2>4. \A h \in Hops : /\ (Credited(h)' => Credited(h))
                        /\ Incoming(h)' \subseteq Incoming(h)
                        /\ Outgoing(h[1], h[2], h[3])' \subseteq Outgoing(h[1], h[2], h[3])
                        /\ (LeavingFrom(h[1], h[2], h[3])' => LeavingFrom(h[1], h[2], h[3]))
    BY <2>2 DEF Credited, Incoming, Moving, Announced, Outgoing, LeavingFrom, WriteTaskFails
  <2> QED BY <2>1, <2>2, <2>3, <2>4, ExclusionStays DEF WriteTaskFails
<1>21. ASSUME NEW i \in Items, WriteFault(i) PROVE Exclusion'
  <2>1. NeverBack BY <1>21, <1>0, HopsType DEF NeverBack, WriteFault, WriteTimesOut, WriteReportsFailure, TimesOut, Fault, WriteTaskFails
  <2>2. WriteTaskFails(i) BY <1>21 DEF WriteFault, WriteTimesOut, WriteReportsFailure
  <2>3. WriteAccounted'
    <3> SUFFICES ASSUME NEW j \in dma
                 PROVE  LET v == Prev[<<j[1], j[2]>>] IN
                        \/ j \in writing' \/ <<j[1], v, Slot(j[3])>> \in werr'
                        \/ ~Running(v) \/ pc[<<j[1], v>>] = "error"
      BY <2>2 DEF WriteAccounted, WriteTaskFails, Running
    <3> QED BY <2>2 DEF Exclusion, WriteAccounted, WriteTaskFails, Siblings, Nexts
  <2>4. \A h \in Hops : /\ (Credited(h)' => Credited(h))
                        /\ Incoming(h)' \subseteq Incoming(h)
                        /\ Outgoing(h[1], h[2], h[3])' \subseteq Outgoing(h[1], h[2], h[3])
                        /\ (LeavingFrom(h[1], h[2], h[3])' => LeavingFrom(h[1], h[2], h[3]))
    BY <2>2 DEF Credited, Incoming, Moving, Announced, Outgoing, LeavingFrom, WriteTaskFails
  <2> QED BY <2>1, <2>2, <2>3, <2>4, ExclusionStays DEF WriteTaskFails
<1>22. ASSUME NEW i \in Items, TakeMessage(i) PROVE Exclusion'
  <2>1. NeverBack BY <1>22, <1>0, HopsType DEF NeverBack, TakeMessage
  <2>2. WriteAccounted'
    BY <1>22, <1>0, AccountsStay, HopsType DEF Running, TakeMessage
  <2>3. \A d \in Stripes, m \in Rollouts : pc'[<<d, m>>] = pc[<<d, m>>] /\ k'[<<d, m>>] = k[<<d, m>>]
    BY <1>22, <1>0, Types, HopsType DEF TakeMessage
  <2>4. \A h \in Hops : /\ (Credited(h)' => Credited(h))
                        /\ Incoming(h)' \subseteq Incoming(h)
                        /\ Outgoing(h[1], h[2], h[3])' \subseteq Outgoing(h[1], h[2], h[3])
                        /\ (LeavingFrom(h[1], h[2], h[3])' => LeavingFrom(h[1], h[2], h[3]))
    BY <1>22 DEF Credited, Incoming, Moving, Announced, Outgoing, LeavingFrom, TakeMessage
  <2> QED BY <1>22, <2>1, <2>2, <2>3, <2>4, ExclusionStays DEF TakeMessage
<1>23. ASSUME NEW i \in Items, DeliverBucket(i) PROVE Exclusion'
  <2>1. NeverBack BY <1>23, <1>0, HopsType DEF NeverBack, DeliverBucket
  <2>2. WriteAccounted'
    BY <1>23, <1>0, AccountsStay, HopsType DEF Running, DeliverBucket
  <2>3. \A d \in Stripes, m \in Rollouts : pc'[<<d, m>>] = pc[<<d, m>>] /\ k'[<<d, m>>] = k[<<d, m>>]
    BY <1>23, <1>0, Types, HopsType DEF DeliverBucket
  <2>4. \A h \in Hops : /\ (Credited(h)' => Credited(h))
                        /\ Incoming(h)' \subseteq Incoming(h)
                        /\ Outgoing(h[1], h[2], h[3])' \subseteq Outgoing(h[1], h[2], h[3])
                        /\ (LeavingFrom(h[1], h[2], h[3])' => LeavingFrom(h[1], h[2], h[3]))
    BY <1>23 DEF Credited, Incoming, Moving, Announced, Outgoing, LeavingFrom, DeliverBucket
  <2> QED BY <1>23, <2>1, <2>2, <2>3, <2>4, ExclusionStays DEF DeliverBucket
<1>24. ASSUME NEW i \in Items, LocalCopyDone(i) PROVE Exclusion'
  <2>1. NeverBack BY <1>24, <1>0, HopsType DEF NeverBack, LocalCopyDone
  <2>2. WriteAccounted'
    BY <1>24, <1>0, AccountsStay, HopsType DEF Running, LocalCopyDone
  <2>3. \A d \in Stripes, m \in Rollouts : pc'[<<d, m>>] = pc[<<d, m>>] /\ k'[<<d, m>>] = k[<<d, m>>]
    BY <1>24, <1>0, Types, HopsType DEF LocalCopyDone
  <2>4. \A h \in Hops : /\ (Credited(h)' => Credited(h))
                        /\ Incoming(h)' \subseteq Incoming(h)
                        /\ Outgoing(h[1], h[2], h[3])' \subseteq Outgoing(h[1], h[2], h[3])
                        /\ (LeavingFrom(h[1], h[2], h[3])' => LeavingFrom(h[1], h[2], h[3]))
    BY <1>24 DEF Credited, Incoming, Moving, Announced, Outgoing, LeavingFrom, LocalCopyDone
  <2> QED BY <1>24, <2>1, <2>2, <2>3, <2>4, ExclusionStays DEF LocalCopyDone
<1>25. ASSUME NEW i \in Items, RemoteWriteLeft(i) PROVE Exclusion'
  <2>1. NeverBack BY <1>25, <1>0, HopsType DEF NeverBack, RemoteWriteLeft
  <2>2. WriteAccounted'
    BY <1>25, <1>0, AccountsStay, HopsType DEF Running, RemoteWriteLeft
  <2>3. \A d \in Stripes, m \in Rollouts : pc'[<<d, m>>] = pc[<<d, m>>] /\ k'[<<d, m>>] = k[<<d, m>>]
    BY <1>25, <1>0, Types, HopsType DEF RemoteWriteLeft
  <2>4. \A h \in Hops : /\ (Credited(h)' => Credited(h))
                        /\ Incoming(h)' \subseteq Incoming(h)
                        /\ Outgoing(h[1], h[2], h[3])' \subseteq Outgoing(h[1], h[2], h[3])
                        /\ (LeavingFrom(h[1], h[2], h[3])' => LeavingFrom(h[1], h[2], h[3]))
    BY <1>25 DEF Credited, Incoming, Moving, Announced, Outgoing, LeavingFrom, RemoteWriteLeft
  <2> QED BY <1>25, <2>1, <2>2, <2>3, <2>4, ExclusionStays DEF RemoteWriteLeft
<1>26. ASSUME NEW i \in Items, RemoteWriteLanded(i) PROVE Exclusion'
  <2>1. NeverBack BY <1>26, <1>0, HopsType DEF NeverBack, RemoteWriteLanded
  <2>2. WriteAccounted'
    BY <1>26, <1>0, AccountsStay, HopsType DEF Running, RemoteWriteLanded
  <2>3. \A d \in Stripes, m \in Rollouts : pc'[<<d, m>>] = pc[<<d, m>>] /\ k'[<<d, m>>] = k[<<d, m>>]
    BY <1>26, <1>0, Types, HopsType DEF RemoteWriteLanded
  <2>4. \A h \in Hops : /\ (Credited(h)' => Credited(h))
                        /\ Incoming(h)' \subseteq Incoming(h)
                        /\ Outgoing(h[1], h[2], h[3])' \subseteq Outgoing(h[1], h[2], h[3])
                        /\ (LeavingFrom(h[1], h[2], h[3])' => LeavingFrom(h[1], h[2], h[3]))
    BY <1>26 DEF Credited, Incoming, Moving, Announced, Outgoing, LeavingFrom, RemoteWriteLanded
  <2> QED BY <1>26, <2>1, <2>2, <2>3, <2>4, ExclusionStays DEF RemoteWriteLanded
<1>27. ASSUME NEW c \in Stripes, NEW n \in Rollouts, TakeBucket(c, n) PROVE Exclusion'
  <2>x. CASE EndChain(c, n)
    <3>1. NeverBack BY <1>27, <1>0, HopsType DEF NeverBack, TakeBucket
    <3>2. /\ EndChain(c, n)
          /\ UNCHANGED <<st, k, aborted, werr, credit, frees, posted, inq, dma, air, got>>
          /\ early' \subseteq early
      BY <1>27, <2>x DEF TakeBucket
    <3>3. /\ pc' = [pc EXCEPT ![<<c, n>>] = "error"]
          /\ waiting' \subseteq waiting /\ writing' \subseteq writing
      BY <3>2, EndChainType
    <3>4. WriteAccounted'
      <4> SUFFICES ASSUME NEW i \in dma
                   PROVE  LET w == Prev[<<i[1], i[2]>>] IN
                          \/ i \in writing' \/ <<i[1], w, Slot(i[3])>> \in werr
                          \/ ~Running(w) \/ pc'[<<i[1], w>>] = "error"
        BY <3>2 DEF WriteAccounted, Running
      <4>1. i \in Items /\ i[1] \in Stripes /\ Prev[<<i[1], i[2]>>] \in Workers
        BY Types, ItemsChar, HopsType DEF Underway
      <4>2. CASE i[1] = c /\ Prev[<<i[1], i[2]>>] = n BY <4>1, <4>2, <3>3, Types
      <4>3. CASE ~(i[1] = c /\ Prev[<<i[1], i[2]>>] = n)
        <5>1. i \in writing => i \in writing' BY <3>2, <4>3 DEF EndChain, MyItems
        <5>2. pc'[<<i[1], Prev[<<i[1], i[2]>>]>>] = pc[<<i[1], Prev[<<i[1], i[2]>>]>>]
          BY <3>3, <4>1, <4>3, Types
        <5> QED BY <5>1, <5>2 DEF Exclusion, WriteAccounted
      <4> QED BY <4>2, <4>3
    <3>5. \A h \in Hops : /\ Credited(h)' = Credited(h) /\ Incoming(h)' \subseteq Incoming(h)
                          /\ Outgoing(h[1], h[2], h[3])' \subseteq Outgoing(h[1], h[2], h[3])
                          /\ LeavingFrom(h[1], h[2], h[3])' = LeavingFrom(h[1], h[2], h[3])
      BY <3>2, <3>3 DEF Credited, Incoming, Moving, Announced, Outgoing, LeavingFrom
    <3>6. \A h \in Hops : /\ (InHand(h)' \/ rel'[h] = "wait" \/ Unread(h[1], h[2], h[3])' => InUse(h))
                          /\ (Arriving(h)' => Arriving(h))
                          /\ (Arriving(h)' => k'[<<h[1], h[2]>>] = k[<<h[1], h[2]>>])
      BY <3>2, <3>3, <1>0, Types, HopsType DEF EndChain, InHand, Arriving, InUse, Unread
    <3>7. ReleaseApart'
      BY <3>2, <3>3, <1>0, Types, HopsType DEF EndChain, Exclusion, ReleaseApart, InHand, Arriving
    <3> QED BY <3>1, <3>2, <3>4, <3>5, <3>6, <3>7, ExclusionShrinks DEF InUse
  <2>y. CASE ~EndChain(c, n)
    <3> DEFINE b == k[<<c, n>>] i0 == <<c, n, b>> g == <<c, n, Slot(b)>>
    <3>1. /\ i0 \in early /\ pc[<<c, n>>] = "bucket" /\ pc' = [pc EXCEPT ![<<c, n>>] = "arrive"]
          /\ rel[g] # "wait" /\ early' = early \ {i0}
          /\ UNCHANGED <<st, k, aborted, waiting, writing, werr, rel, credit, frees, posted, inq, dma, air, got>>
      BY <1>27, <2>y DEF TakeBucket
    <3>2. g \in Hops /\ i0 \in Items /\ g[1] = c /\ g[2] = n /\ g[3] = Slot(b)
      BY <3>1, <1>0, Types, HopsType DEF Underway, Announced
    <3>3. i0 \in Incoming(g) BY <3>1, <3>2 DEF Incoming, Moving, Announced, Into
    <3>4. ~Granted(g) /\ ~InUse(g) /\ \A j \in Items : j \in Incoming(g) => j = i0
      BY <3>2, <3>3 DEF Exclusion, GrantedMeansFree, IncomingMeansFree
    <3>5. \A h \in Hops : /\ Granted(h)' = Granted(h) /\ Credited(h)' = Credited(h)
                          /\ Incoming(h)' \subseteq Incoming(h)
      BY <3>1 DEF Granted, Credited, Incoming, Moving, Announced
    <3>6. \A h \in Hops : /\ (InUse(h)' => InUse(h)) /\ (InHand(h)' => InHand(h) /\ pc'[<<h[1], h[2]>>] # "arrive")
                          /\ (Arriving(h)' => Arriving(h) \/ h = g)
      BY <3>1, <1>0, Types, HopsType DEF InUse, InHand, Arriving, Unread, Outgoing, LeavingFrom
    <3>7. GrantedMeansFree'
      BY <3>1, <3>4, <3>5, <3>6 DEF Exclusion, GrantedMeansFree
    <3>8. IncomingMeansFree'
      <4> SUFFICES ASSUME NEW h \in Hops, NEW j \in Items, j \in Incoming(h)'
                   PROVE  /\ ~InUse(h)' /\ (Arriving(h)' => j[3] = k'[<<h[1], h[2]>>])
                          /\ \A x \in Items : x \in Incoming(h)' => j = x
        BY DEF IncomingMeansFree
      <4>1. CASE h = g BY <3>1, <3>2, <3>4, <3>5, <3>6, <4>1
      <4>2. CASE h # g BY <3>1, <3>5, <3>6, <4>2 DEF Exclusion, IncomingMeansFree
      <4> QED BY <4>1, <4>2
    <3>9. WriteAccounted'
      BY <3>1, AccountsStay, <1>0, Types DEF Running
    <3>10. ReleaseApart'
      BY <3>1, <3>6, <1>0, Types, HopsType DEF Exclusion, ReleaseApart
    <3>11. NoGrantBeforeStart'
      BY <3>1, <3>5 DEF Exclusion, NoGrantBeforeStart
    <3> QED BY <3>7, <3>8, <3>9, <3>10, <3>11 DEF Exclusion
  <2> QED BY <2>x, <2>y
<1>28. ASSUME NEW c \in Stripes, NEW n \in Rollouts, BucketArrived(c, n) PROVE Exclusion'
  <2>1. NeverBack BY <1>28, <1>0, HopsType DEF NeverBack, BucketArrived, AfterBucket, Nexts, Running
  <2> DEFINE b == k[<<c, n>>] i0 == <<c, n, b>> g == <<c, n, Slot(b)>>
  <2>2. /\ pc[<<c, n>>] = "arrive" /\ Arrived(i0)
        /\ waiting' = waiting \cup ({c} \X Nexts(c, n) \X {b})
        /\ UNCHANGED <<st, aborted, writing, werr, credit, frees, posted, inq, early, dma, air, got>>
    BY <1>28 DEF BucketArrived
  <2>3. \/ /\ Empty(c) /\ k' = [k EXCEPT ![<<c, n>>] = b + 1]
           /\ pc' \in {[pc EXCEPT ![<<c, n>>] = "final"], [pc EXCEPT ![<<c, n>>] = "bucket"]}
           /\ rel' = [rel EXCEPT ![g] = "wait"]
        \/ ~Empty(c) /\ pc' = [pc EXCEPT ![<<c, n>>] = "offer"] /\ UNCHANGED <<k, rel>>
    BY <1>28, Types DEF BucketArrived, AfterBucket
  <2>4. /\ n \in Workers /\ b \in Nat /\ g \in Hops /\ g[1] = c /\ g[2] = n /\ g[3] = Slot(b)
        /\ Arriving(g)
    BY <2>2, <1>0, Types, HopsType DEF Arriving
  <2>5. ~Granted(g) /\ ~Credited(g) /\ rel[g] # "wait"
    BY <2>4 DEF Exclusion, GrantedMeansFree, ReleaseApart, Granted
  <2>6. Incoming(g) = {}
    <3> SUFFICES ASSUME NEW i \in Items, i \in Incoming(g) PROVE FALSE
      BY Types DEF Incoming
    <3>1. i[1] = c /\ i[2] = n /\ i[3] = b
      BY <2>4 DEF Exclusion, IncomingMeansFree, Incoming, Into
    <3>2. i = i0 BY <3>1, ItemsChar
    <3>3. i \notin air BY <2>2, <3>2 DEF Arrived, Order, OnlyDataFlies, StagesApart
    <3>4. i \in Underway BY <3>3 DEF Incoming, Moving, Underway
    <3>5. Taken(c, n) = b + 1 BY <2>2 DEF Taken
    <3>6. Taken(c, n) <= b BY <3>1, <3>4 DEF Order, TakenLast
    <3> QED BY <2>4, <3>5, <3>6
  <2>7. \A h \in Hops : /\ Granted(h)' = Granted(h) /\ Credited(h)' = Credited(h)
                        /\ Incoming(h)' = Incoming(h)
    BY <2>2 DEF Granted, Credited, Incoming, Moving, Announced
  <2>8. ASSUME NEW h \in Hops, h # g
        PROVE  /\ (InUse(h)' => InUse(h)) /\ (InHand(h)' => InHand(h))
               /\ (Arriving(h)' => Arriving(h))
               /\ (Arriving(h)' => k'[<<h[1], h[2]>>] = k[<<h[1], h[2]>>])
               /\ rel'[h] = rel[h]
    <3>1. h = <<h[1], h[2], h[3]>> /\ h[1] \in Stripes /\ h[2] \in Rollouts BY HopsType
    <3>2. /\ (InHand(h)' => InHand(h)) /\ (Arriving(h)' => Arriving(h)) /\ rel'[h] = rel[h]
          /\ (Arriving(h)' => k'[<<h[1], h[2]>>] = k[<<h[1], h[2]>>])
      BY <2>2, <2>3, <2>4, <2>8, <3>1, <1>0, Types DEF InHand, Arriving
    <3>3. Unread(h[1], h[2], h[3])' => Unread(h[1], h[2], h[3])
      BY <2>2, <2>3, <2>4, <3>1, <1>0, Types DEF Unread
    <3>4. Outgoing(h[1], h[2], h[3])' \subseteq Outgoing(h[1], h[2], h[3])
      BY <2>2, <2>8, <3>1 DEF Outgoing, Nexts
    <3>5. LeavingFrom(h[1], h[2], h[3])' = LeavingFrom(h[1], h[2], h[3])
      BY <2>2 DEF LeavingFrom
    <3> QED BY <3>2, <3>3, <3>4, <3>5 DEF InUse
  <2>9. ~Arriving(g)'
    BY <2>3, <2>4, <1>0, Types DEF Arriving
  <2>10. GrantedMeansFree'
    <3> SUFFICES ASSUME NEW h \in Hops, Granted(h)'
                 PROVE  /\ Incoming(h)' = {} /\ ~InUse(h)' /\ ~Arriving(h)'
                        /\ ~(h \in frees' /\ Credited(h)')
      BY DEF GrantedMeansFree
    <3>1. h # g /\ Granted(h) BY <2>5, <2>7
    <3> QED BY <2>2, <2>7, <2>8, <3>1 DEF Exclusion, GrantedMeansFree
  <2>11. IncomingMeansFree'
    <3> SUFFICES ASSUME NEW h \in Hops, NEW j \in Items, j \in Incoming(h)'
                 PROVE  /\ ~InUse(h)' /\ (Arriving(h)' => j[3] = k'[<<h[1], h[2]>>])
                        /\ \A x \in Items : x \in Incoming(h)' => j = x
      BY DEF IncomingMeansFree
    <3>1. h # g /\ j \in Incoming(h) BY <2>6, <2>7
    <3> QED BY <2>7, <2>8, <3>1 DEF Exclusion, IncomingMeansFree
  <2>12. WriteAccounted'
    BY <2>2, <2>3, <2>4, AccountsStay, <1>0, Types DEF Running
  <2>13. ReleaseApart'
    <3> SUFFICES ASSUME NEW h \in Hops, rel'[h] = "wait"
                 PROVE  ~InHand(h)' /\ ~Arriving(h)' /\ pc'[<<h[1], h[2]>>] # "error"
      BY DEF ReleaseApart
    <3>1. pc'[<<h[1], h[2]>>] = "error" => pc[<<h[1], h[2]>>] = "error"
      BY <2>2, <2>3, <2>4, <1>0, Types, HopsType
    <3>2. CASE h = g
      <4>1. Empty(c) /\ pc'[<<c, n>>] \in {"final", "bucket"}
        BY <2>3, <2>4, <2>5, <3>2, Types
      <4> QED BY <2>4, <3>2, <4>1 DEF InHand, Arriving
    <3>3. CASE h # g
      BY <2>8, <3>1, <3>3 DEF Exclusion, ReleaseApart
    <3> QED BY <3>2, <3>3
  <2>14. NoGrantBeforeStart'
    BY <2>2, <2>7 DEF Exclusion, NoGrantBeforeStart
  <2> QED BY <2>10, <2>11, <2>12, <2>13, <2>14 DEF Exclusion
<1>29. ASSUME NEW c \in Stripes, NEW n \in Rollouts, HandOver(c, n) PROVE Exclusion'
  <2>1. NeverBack BY <1>29, <1>0, HopsType DEF NeverBack, HandOver
  <2>2. WriteAccounted' BY <1>29, AccountsStay, Types, HopsType DEF Running, HandOver
  <2>3. \A h \in Hops : /\ Credited(h)' = Credited(h) /\ Incoming(h)' = Incoming(h)
                        /\ Outgoing(h[1], h[2], h[3])' = Outgoing(h[1], h[2], h[3])
                        /\ LeavingFrom(h[1], h[2], h[3])' = LeavingFrom(h[1], h[2], h[3])
    BY <1>29 DEF Credited, Incoming, Moving, Announced, Outgoing, LeavingFrom, HandOver
  <2>4. \A h \in Hops : /\ (InHand(h)' \/ rel'[h] = "wait" \/ Unread(h[1], h[2], h[3])' => InUse(h))
                        /\ (Arriving(h)' => Arriving(h))
                        /\ (Arriving(h)' => k'[<<h[1], h[2]>>] = k[<<h[1], h[2]>>])
    BY <1>29, <1>0, Types, HopsType DEF InHand, Arriving, InUse, Unread, HandOver
  <2>5. ReleaseApart'
    BY <1>29, <1>0, Types, HopsType DEF Exclusion, ReleaseApart, InHand, Arriving, HandOver
  <2> QED BY <1>29, <2>1, <2>2, <2>3, <2>4, <2>5, ExclusionShrinks DEF InUse, HandOver
<1>30. ASSUME NEW c \in Stripes, NEW n \in Rollouts, AskNext(c, n) PROVE Exclusion'
  <2>1. NeverBack BY <1>30, <1>0, HopsType DEF NeverBack, AskNext, AfterBucket
  <2>2. WriteAccounted' BY <1>30, AccountsStay, Types, HopsType DEF Running, AskNext, AfterBucket
  <2>3. \A h \in Hops : /\ Credited(h)' = Credited(h) /\ Incoming(h)' = Incoming(h)
                        /\ Outgoing(h[1], h[2], h[3])' = Outgoing(h[1], h[2], h[3])
                        /\ LeavingFrom(h[1], h[2], h[3])' = LeavingFrom(h[1], h[2], h[3])
    BY <1>30 DEF Credited, Incoming, Moving, Announced, Outgoing, LeavingFrom, AskNext, AfterBucket
  <2>a. \A d \in Stripes, m \in Rollouts, s \in Slots :
          Unread(d, m, s)' => Unread(d, m, s) \/ (d = c /\ m = n /\ Slot(k[<<c, n>>]) = s)
    <3>1. k' = [k EXCEPT ![<<c, n>>] = @ + 1] /\ UNCHANGED got BY <1>30 DEF AskNext, AfterBucket
    <3> QED BY <3>1, UnreadGrows
  <2>b. /\ rel' = [rel EXCEPT ![<<c, n, Slot(k[<<c, n>>])>>] = "wait"] /\ k' = [k EXCEPT ![<<c, n>>] = @ + 1]
        /\ pc' \in {[pc EXCEPT ![<<c, n>>] = "final"], [pc EXCEPT ![<<c, n>>] = "bucket"]}
        /\ pc[<<c, n>>] \in {"offer", "held"}
    BY <1>30, Types DEF AskNext, AfterBucket
  <2>4. \A h \in Hops : /\ (InHand(h)' \/ rel'[h] = "wait" \/ Unread(h[1], h[2], h[3])' => InUse(h))
                        /\ (Arriving(h)' => Arriving(h))
                        /\ (Arriving(h)' => k'[<<h[1], h[2]>>] = k[<<h[1], h[2]>>])
    BY <2>a, <2>b, <1>0, Types, HopsType DEF InHand, Arriving, InUse
  <2>5. ReleaseApart'
    BY <1>30, <1>0, Types, HopsType DEF Exclusion, ReleaseApart, InHand, Arriving, AskNext, AfterBucket
  <2> QED BY <1>30, <2>1, <2>2, <2>3, <2>4, <2>5, ExclusionShrinks DEF InUse, AskNext, AfterBucket
<1>31. ASSUME NEW c \in Stripes, NEW n \in Rollouts, MergeChunk(c, n) PROVE Exclusion'
  <2>1. NeverBack BY <1>31, <1>0, HopsType DEF NeverBack, MergeChunk, AfterBucket, Running
  <2>2. WriteAccounted' BY <1>31, AccountsStay, Types, HopsType DEF Running, MergeChunk, AfterBucket
  <2>3. \A h \in Hops : /\ Credited(h)' = Credited(h) /\ Incoming(h)' = Incoming(h)
                        /\ Outgoing(h[1], h[2], h[3])' = Outgoing(h[1], h[2], h[3])
                        /\ LeavingFrom(h[1], h[2], h[3])' = LeavingFrom(h[1], h[2], h[3])
    BY <1>31 DEF Credited, Incoming, Moving, Announced, Outgoing, LeavingFrom, MergeChunk, AfterBucket
  <2>a. \A d \in Stripes, m \in Rollouts, s \in Slots :
          Unread(d, m, s)' => Unread(d, m, s) \/ (d = c /\ m = n /\ Slot(k[<<c, n>>]) = s)
    <3>1. k' = [k EXCEPT ![<<c, n>>] = @ + 1] /\ UNCHANGED got BY <1>31 DEF MergeChunk, AfterBucket
    <3> QED BY <3>1, UnreadGrows
  <2>b. /\ rel' = [rel EXCEPT ![<<c, n, Slot(k[<<c, n>>])>>] = "wait"] /\ k' = [k EXCEPT ![<<c, n>>] = @ + 1]
        /\ pc' \in {[pc EXCEPT ![<<c, n>>] = "final"], [pc EXCEPT ![<<c, n>>] = "bucket"]}
        /\ pc[<<c, n>>] \in {"offer", "held"}
    BY <1>31, Types DEF MergeChunk, AfterBucket
  <2>4. \A h \in Hops : /\ (InHand(h)' \/ rel'[h] = "wait" \/ Unread(h[1], h[2], h[3])' => InUse(h))
                        /\ (Arriving(h)' => Arriving(h))
                        /\ (Arriving(h)' => k'[<<h[1], h[2]>>] = k[<<h[1], h[2]>>])
    BY <2>a, <2>b, <1>0, Types, HopsType DEF InHand, Arriving, InUse
  <2>5. ReleaseApart'
    BY <1>31, <1>0, Types, HopsType DEF Exclusion, ReleaseApart, InHand, Arriving, MergeChunk, AfterBucket
  <2> QED BY <1>31, <2>1, <2>2, <2>3, <2>4, <2>5, ExclusionShrinks DEF InUse, MergeChunk, AfterBucket
<1>32. ASSUME NEW c \in Stripes, NEW n \in Rollouts, AllReleased(c, n) PROVE Exclusion'
  <2>1. NeverBack BY <1>32, <1>0, HopsType DEF NeverBack, AllReleased, AfterRelease, Running
  <2>2. WriteAccounted' BY <1>32, AccountsStay, Types, HopsType DEF Running, AllReleased, AfterRelease
  <2>3. \A h \in Hops : /\ Credited(h)' = Credited(h) /\ Incoming(h)' = Incoming(h)
                        /\ Outgoing(h[1], h[2], h[3])' = Outgoing(h[1], h[2], h[3])
                        /\ LeavingFrom(h[1], h[2], h[3])' = LeavingFrom(h[1], h[2], h[3])
    BY <1>32 DEF Credited, Incoming, Moving, Announced, Outgoing, LeavingFrom, AllReleased, AfterRelease
  <2>4. \A h \in Hops : /\ (InHand(h)' \/ rel'[h] = "wait" \/ Unread(h[1], h[2], h[3])' => InUse(h))
                        /\ (Arriving(h)' => Arriving(h))
                        /\ (Arriving(h)' => k'[<<h[1], h[2]>>] = k[<<h[1], h[2]>>])
    BY <1>32, <1>0, Types, HopsType DEF InHand, Arriving, InUse, Unread, AllReleased, AfterRelease
  <2>5. ReleaseApart'
    BY <1>32, <1>0, Types, HopsType DEF Exclusion, ReleaseApart, InHand, Arriving, AllReleased, AfterRelease
  <2> QED BY <1>32, <2>1, <2>2, <2>3, <2>4, <2>5, ExclusionShrinks DEF InUse, AllReleased, AfterRelease
<1>33. ASSUME NEW c \in Stripes, NEW n \in Rollouts, ChainDrained(c, n) PROVE Exclusion'
  <2>1. NeverBack BY <1>33, <1>0, HopsType DEF NeverBack, ChainDrained, Running
  <2>2. WriteAccounted' BY <1>33, AccountsStay, Types, HopsType DEF Running, ChainDrained
  <2>3. \A h \in Hops : /\ Credited(h)' = Credited(h) /\ Incoming(h)' = Incoming(h)
                        /\ Outgoing(h[1], h[2], h[3])' = Outgoing(h[1], h[2], h[3])
                        /\ LeavingFrom(h[1], h[2], h[3])' = LeavingFrom(h[1], h[2], h[3])
    BY <1>33 DEF Credited, Incoming, Moving, Announced, Outgoing, LeavingFrom, ChainDrained
  <2>4. \A h \in Hops : /\ (InHand(h)' \/ rel'[h] = "wait" \/ Unread(h[1], h[2], h[3])' => InUse(h))
                        /\ (Arriving(h)' => Arriving(h))
                        /\ (Arriving(h)' => k'[<<h[1], h[2]>>] = k[<<h[1], h[2]>>])
    BY <1>33, <1>0, Types, HopsType DEF InHand, Arriving, InUse, Unread, ChainDrained
  <2>5. ReleaseApart'
    BY <1>33, <1>0, Types, HopsType DEF Exclusion, ReleaseApart, InHand, Arriving, ChainDrained
  <2> QED BY <1>33, <2>1, <2>2, <2>3, <2>4, <2>5, ExclusionShrinks DEF InUse, ChainDrained
<1>34. ASSUME NEW c \in Stripes, NEW n \in Rollouts, ChainFails(c, n) PROVE Exclusion'
  <2>1. NeverBack BY <1>34, <1>0, HopsType DEF NeverBack, ChainFails, EndChain, TimesOut, Fault, Running
  <2>2. /\ EndChain(c, n)
        /\ UNCHANGED <<st, k, aborted, werr, credit, frees, posted, inq, early, dma, air, got>>
    BY <1>34 DEF ChainFails
  <2>3. /\ pc' = [pc EXCEPT ![<<c, n>>] = "error"]
        /\ waiting' \subseteq waiting /\ writing' \subseteq writing
    BY <2>2, EndChainType
  <2>4. WriteAccounted'
    <3> SUFFICES ASSUME NEW i \in dma
                 PROVE  LET w == Prev[<<i[1], i[2]>>] IN
                        \/ i \in writing' \/ <<i[1], w, Slot(i[3])>> \in werr
                        \/ ~Running(w) \/ pc'[<<i[1], w>>] = "error"
      BY <2>2 DEF WriteAccounted, Running
    <3>1. i \in Items /\ i[1] \in Stripes /\ Prev[<<i[1], i[2]>>] \in Workers
      BY Types, ItemsChar, HopsType DEF Underway
    <3>2. CASE i[1] = c /\ Prev[<<i[1], i[2]>>] = n BY <3>1, <3>2, <2>3, Types
    <3>3. CASE ~(i[1] = c /\ Prev[<<i[1], i[2]>>] = n)
      <4>1. i \in writing => i \in writing' BY <2>2, <3>3 DEF EndChain, MyItems
      <4>2. pc'[<<i[1], Prev[<<i[1], i[2]>>]>>] = pc[<<i[1], Prev[<<i[1], i[2]>>]>>]
        BY <2>3, <3>1, <3>3, Types
      <4> QED BY <4>1, <4>2 DEF Exclusion, WriteAccounted
    <3> QED BY <3>2, <3>3
  <2>5. \A h \in Hops : /\ Credited(h)' = Credited(h) /\ Incoming(h)' \subseteq Incoming(h)
                        /\ Outgoing(h[1], h[2], h[3])' \subseteq Outgoing(h[1], h[2], h[3])
                        /\ LeavingFrom(h[1], h[2], h[3])' = LeavingFrom(h[1], h[2], h[3])
    BY <2>2, <2>3 DEF Credited, Incoming, Moving, Announced, Outgoing, LeavingFrom
  <2>6. \A h \in Hops : /\ (InHand(h)' \/ rel'[h] = "wait" \/ Unread(h[1], h[2], h[3])' => InUse(h))
                        /\ (Arriving(h)' => Arriving(h))
                        /\ (Arriving(h)' => k'[<<h[1], h[2]>>] = k[<<h[1], h[2]>>])
    BY <2>2, <2>3, <1>0, Types, HopsType DEF EndChain, InHand, Arriving, InUse, Unread
  <2>7. ReleaseApart'
    BY <2>2, <2>3, <1>0, Types, HopsType DEF EndChain, Exclusion, ReleaseApart, InHand, Arriving
  <2> QED BY <2>1, <2>2, <2>4, <2>5, <2>6, <2>7, ExclusionShrinks DEF InUse
<1>35. ASSUME NEW c \in Stripes, NEW n \in Rollouts, ReadDone(c, n) PROVE Exclusion'
  <2>1. NeverBack BY <1>35, <1>0, HopsType DEF NeverBack, ReadDone
  <2>2. WriteAccounted' BY <1>35, AccountsStay DEF Running, ReadDone
  <2>3. \A h \in Hops : /\ Credited(h)' = Credited(h) /\ Incoming(h)' = Incoming(h)
                        /\ Outgoing(h[1], h[2], h[3])' = Outgoing(h[1], h[2], h[3])
                        /\ LeavingFrom(h[1], h[2], h[3])' = LeavingFrom(h[1], h[2], h[3])
    BY <1>35 DEF Credited, Incoming, Moving, Announced, Outgoing, LeavingFrom, ReadDone
  <2>4. \A d \in Stripes, m \in Rollouts :
          Len(got[<<d, m>>]) \in Nat /\ Len(got'[<<d, m>>]) \in Nat /\ Len(got[<<d, m>>]) <= Len(got'[<<d, m>>])
    <3>1. got' = [got EXCEPT ![<<c, n>>] = Append(@, mem[<<c, n, Slot(Len(got[<<c, n>>]))>>])]
      BY <1>35 DEF ReadDone
    <3>2. /\ Len(got'[<<c, n>>]) = Len(got[<<c, n>>]) + 1
          /\ \A x \in Stripes \X Rollouts : x # <<c, n>> => got'[x] = got[x]
      <4>1. DOMAIN got = Stripes \X Rollouts BY DEF Shape, TypeOK
      <4>2. got'[<<c, n>>] = Append(got[<<c, n>>], mem[<<c, n, Slot(Len(got[<<c, n>>]))>>])
        BY <3>1, <4>1
      <4> QED BY <3>1, <4>1, <4>2, GotType
    <3> SUFFICES ASSUME NEW d \in Stripes, NEW m \in Rollouts
                 PROVE  /\ Len(got[<<d, m>>]) \in Nat /\ Len(got'[<<d, m>>]) \in Nat
                        /\ Len(got[<<d, m>>]) <= Len(got'[<<d, m>>])
      OBVIOUS
    <3>3. Len(got[<<d, m>>]) \in Nat BY GotType
    <3> QED BY <3>2, <3>3
  <2>5. \A h \in Hops : /\ (Unread(h[1], h[2], h[3])' => Unread(h[1], h[2], h[3]))
                        /\ InHand(h)' = InHand(h) /\ Arriving(h)' = Arriving(h)
    <3> SUFFICES ASSUME NEW h \in Hops
                 PROVE  /\ (Unread(h[1], h[2], h[3])' => Unread(h[1], h[2], h[3]))
                        /\ InHand(h)' = InHand(h) /\ Arriving(h)' = Arriving(h)
      OBVIOUS
    <3>1. h[1] \in Stripes /\ h[2] \in Rollouts BY HopsType
    <3>2. Unread(h[1], h[2], h[3])' => Unread(h[1], h[2], h[3])
      <4> DEFINE a == Len(got[<<h[1], h[2]>>]) z == Len(got'[<<h[1], h[2]>>]) q == k[<<h[1], h[2]>>]
      <4>1. a \in Nat /\ z \in Nat /\ a <= z /\ q \in Nat BY <2>4, <3>1, GotType
      <4>2. \A b \in z .. q - 1 : b \in a .. q - 1 BY <4>1
      <4>3. k' = k BY <1>35 DEF ReadDone
      <4> QED BY <4>2, <4>3 DEF Unread
    <3> QED BY <1>35, <3>2 DEF ReadDone, InHand, Arriving
  <2>6. ReleaseApart' BY <1>35, <2>5 DEF ReadDone, Exclusion, ReleaseApart
  <2> QED BY <1>35, <2>1, <2>2, <2>3, <2>5, <2>6, ExclusionShrinks DEF InUse, ReadDone
<1>36. ASSUME NEW h \in Hops, Release(h) PROVE Exclusion'
  <2>1. /\ rel[h] = "wait" /\ Running(h[2]) /\ SlotUnused(h[1], h[2], h[3]) /\ h \notin werr
        /\ rel' = [rel EXCEPT ![h] = "none"] /\ frees' = frees \cup {h}
        /\ UNCHANGED <<st, pc, k, aborted, waiting, writing, werr, credit, posted, inq, early, dma, air, got>>
    BY <1>36 DEF Release
  <2>2. /\ h[1] \in Stripes /\ h[2] \in Rollouts /\ h = <<h[1], h[2], h[3]>> /\ DOMAIN rel = Hops
        /\ h[2] \in Workers
    BY HopsType, Types
  <2>3. Incoming(h) = {} /\ ~Granted(h)
    <3>1. InUse(h) BY <2>1 DEF InUse
    <3>2. ~Granted(h) BY <3>1 DEF Exclusion, GrantedMeansFree
    <3>3. \A i \in Items : i \notin Incoming(h) BY <3>1 DEF Exclusion, IncomingMeansFree
    <3> QED BY <3>2, <3>3, Types DEF Incoming
  <2>4. ~LeavingFrom(h[1], h[2], h[3])
    <3> SUFFICES ASSUME NEW i \in dma, i[1] = h[1], Prev[<<i[1], i[2]>>] = h[2], Slot(i[3]) = h[3]
                 PROVE  FALSE
      BY DEF LeavingFrom
    <3>1. pc[<<h[1], h[2]>>] # "error" BY <2>1 DEF Exclusion, ReleaseApart
    <3>2. i \in writing BY <2>1, <2>2, <3>1 DEF Exclusion, WriteAccounted
    <3> QED BY <2>1, <3>2 DEF SlotUnused, Outgoing
  <2>5. \A g \in Hops : /\ Credited(g)' = Credited(g) /\ Incoming(g)' = Incoming(g)
                        /\ InHand(g)' = InHand(g) /\ Arriving(g)' = Arriving(g)
                        /\ (InUse(g)' => InUse(g))
    BY <2>1, <2>2 DEF Credited, Incoming, Moving, Announced, InHand, Arriving, InUse, Unread,
                      Outgoing, LeavingFrom
  <2>6. ~InUse(h)' /\ ~Arriving(h)'
    BY <2>1, <2>2, <2>4 DEF Exclusion, ReleaseApart, InUse, InHand, Arriving, SlotUnused, Unread,
                            Outgoing, LeavingFrom
  <2>7. GrantedMeansFree'
    BY <2>1, <2>3, <2>5, <2>6 DEF Exclusion, GrantedMeansFree, Granted
  <2>8. IncomingMeansFree' BY <2>1, <2>5 DEF Exclusion, IncomingMeansFree
  <2>9. WriteAccounted' BY <2>1, AccountsStay DEF Running
  <2>10. ReleaseApart' BY <2>1, <2>2, <2>5 DEF Exclusion, ReleaseApart
  <2>11. NoGrantBeforeStart'
    BY <2>1, <2>5 DEF Exclusion, NoGrantBeforeStart, Granted, Running
  <2> QED BY <2>7, <2>8, <2>9, <2>10, <2>11 DEF Exclusion
<1>37. ASSUME NEW h \in Hops, ReleaseFails(h) PROVE Exclusion'
  <2>1. NeverBack BY <1>37, <1>0, HopsType DEF NeverBack, ReleaseFails
  <2>2. WriteAccounted' BY <1>37, AccountsStay, Types, HopsType DEF Running, ReleaseFails
  <2>3. \A g \in Hops : /\ Credited(g)' = Credited(g) /\ Incoming(g)' = Incoming(g)
                        /\ Outgoing(g[1], g[2], g[3])' = Outgoing(g[1], g[2], g[3])
                        /\ LeavingFrom(g[1], g[2], g[3])' = LeavingFrom(g[1], g[2], g[3])
    BY <1>37 DEF Credited, Incoming, Moving, Announced, Outgoing, LeavingFrom, ReleaseFails
  <2>4. \A g \in Hops : /\ (InHand(g)' \/ rel'[g] = "wait" \/ Unread(g[1], g[2], g[3])' => InUse(g))
                        /\ (Arriving(g)' => Arriving(g))
                        /\ (Arriving(g)' => k'[<<g[1], g[2]>>] = k[<<g[1], g[2]>>])
    BY <1>37, <1>0, Types, HopsType DEF InHand, Arriving, InUse, Unread, ReleaseFails
  <2>5. ReleaseApart'
    BY <1>37, <1>0, Types, HopsType DEF Exclusion, ReleaseApart, InHand, Arriving, ReleaseFails
  <2> QED BY <1>37, <2>1, <2>2, <2>3, <2>4, <2>5, ExclusionShrinks DEF InUse, ReleaseFails
<1>38. ASSUME NEW h \in Hops, DeliverFree(h) PROVE Exclusion'
  <2>1. /\ h \in frees /\ frees' = frees \ {h} /\ credit' = credit \cup {h}
        /\ UNCHANGED <<st, pc, k, aborted, waiting, writing, werr, rel, posted, inq, early, dma, air, got>>
    BY <1>38 DEF DeliverFree
  <2>2. \A g \in Hops : /\ Incoming(g)' = Incoming(g) /\ InUse(g)' = InUse(g)
                        /\ InHand(g)' = InHand(g) /\ Arriving(g)' = Arriving(g)
                        /\ (Credited(g)' => Credited(g) \/ g = h)
    BY <2>1 DEF Credited, Incoming, Moving, Announced, InHand, Arriving, InUse, Unread, Outgoing, LeavingFrom
  <2>3. GrantedMeansFree' BY <2>1, <2>2 DEF Exclusion, GrantedMeansFree, Granted
  <2>4. IncomingMeansFree' BY <2>1, <2>2 DEF Exclusion, IncomingMeansFree
  <2>5. WriteAccounted' BY <2>1, AccountsStay DEF Running
  <2>6. ReleaseApart' BY <2>1, <2>2 DEF Exclusion, ReleaseApart
  <2>7. NoGrantBeforeStart' BY <2>1, <2>2 DEF Exclusion, NoGrantBeforeStart, Granted
  <2> QED BY <2>3, <2>4, <2>5, <2>6, <2>7 DEF Exclusion
<1>39. ASSUME NEW m \in stale, DropStale(m) PROVE Exclusion'
  <2>1. NeverBack BY <1>39, <1>0, HopsType DEF NeverBack, DropStale
  <2>2. WriteAccounted'
    BY <1>39, <1>0, AccountsStay, HopsType DEF Running, DropStale
  <2>3. \A d \in Stripes, n \in Rollouts : pc'[<<d, n>>] = pc[<<d, n>>] /\ k'[<<d, n>>] = k[<<d, n>>]
    BY <1>39, <1>0, Types, HopsType DEF DropStale
  <2>4. \A h \in Hops : /\ (Credited(h)' => Credited(h))
                        /\ Incoming(h)' \subseteq Incoming(h)
                        /\ Outgoing(h[1], h[2], h[3])' \subseteq Outgoing(h[1], h[2], h[3])
                        /\ (LeavingFrom(h[1], h[2], h[3])' => LeavingFrom(h[1], h[2], h[3]))
    BY <1>39 DEF Credited, Incoming, Moving, Announced, Outgoing, LeavingFrom, DropStale
  <2> QED BY <1>39, <2>1, <2>2, <2>3, <2>4, ExclusionStays DEF DropStale
<1>40. CASE UNCHANGED vars
  <2>1. NeverBack BY <1>40, <1>0, HopsType DEF NeverBack, vars
  <2>2. WriteAccounted'
    BY <1>40, <1>0, AccountsStay, HopsType DEF Running, vars
  <2>3. \A d \in Stripes, m \in Rollouts : pc'[<<d, m>>] = pc[<<d, m>>] /\ k'[<<d, m>>] = k[<<d, m>>]
    BY <1>40, <1>0, Types, HopsType DEF vars
  <2>4. \A h \in Hops : /\ (Credited(h)' => Credited(h))
                        /\ Incoming(h)' \subseteq Incoming(h)
                        /\ Outgoing(h[1], h[2], h[3])' \subseteq Outgoing(h[1], h[2], h[3])
                        /\ (LeavingFrom(h[1], h[2], h[3])' => LeavingFrom(h[1], h[2], h[3]))
    BY <1>40 DEF Credited, Incoming, Moving, Announced, Outgoing, LeavingFrom, vars
  <2> QED BY <1>40, <2>1, <2>2, <2>3, <2>4, ExclusionStays DEF vars
<1> QED BY <1>1, <1>2, <1>3, <1>4, <1>5, <1>6, <1>7, <1>8, <1>9, <1>10, <1>11, <1>12, <1>13, <1>14, <1>15, <1>16, <1>17, <1>18, <1>19, <1>20, <1>21, <1>22, <1>23, <1>24, <1>25, <1>26, <1>27, <1>28, <1>29, <1>30, <1>31, <1>32, <1>33, <1>34, <1>35, <1>36, <1>37, <1>38, <1>39, <1>40 DEF Next, Stopped

-----------------------------------------------------------------------------
(* The theorems.                                                             *)

\* The discipline holds before anything has started.
LEMMA DisciplineInit == Init => SlotDiscipline
<1> SUFFICES ASSUME Init PROVE SlotDiscipline OBVIOUS
<1>1. Shape BY ShapeInit
<1>2. /\ Underway = {} /\ air = {} /\ inbound = {} /\ Moving = {} /\ Announced = {}
  BY DEF Init, Underway, Announced, Moving
<1>3. \A c \in Stripes, w \in Workers : Begun(c, w) = 0 BY DEF Init, Begun
<1>4. \A c \in Stripes, n \in Rollouts : Taken(c, n) = 0
  BY HopsType DEF Init, Taken
<1>5. Order
  <2>1. NotAhead
    <3> SUFFICES ASSUME NEW c \in Stripes, NEW n \in Rollouts
                 PROVE  Taken(c, n) <= Begun(c, Prev[<<c, n>>])
      BY DEF NotAhead
    <3>1. Taken(c, n) = 0 /\ Begun(c, Prev[<<c, n>>]) = 0 BY <1>3, <1>4, HopsType
    <3> QED BY <3>1
  <2>2. BegunFirst /\ TakenLast /\ StagesApart /\ OnlyDataFlies
    BY <1>2 DEF BegunFirst, TakenLast, StagesApart, OnlyDataFlies, Init
  <2>3. NothingBeforeStart BY DEF Init, NothingBeforeStart
  <2> QED BY <2>1, <2>2, <2>3 DEF Order
<1>6. Exclusion
  <2>1. \A h \in Hops : ~Granted(h) /\ Incoming(h) = {}
    BY <1>2 DEF Granted, Credited, Incoming, Init
  <2>2. GrantedMeansFree /\ IncomingMeansFree /\ NoGrantBeforeStart
    BY <2>1 DEF GrantedMeansFree, IncomingMeansFree, NoGrantBeforeStart
  <2>3. WriteAccounted /\ ReleaseApart BY DEF Init, WriteAccounted, ReleaseApart
  <2> QED BY <2>2, <2>3 DEF Exclusion
<1> QED BY <1>1, <1>5, <1>6 DEF SlotDiscipline

\* Every step keeps the discipline.
LEMMA DisciplineStep == SlotDiscipline /\ [Next]_vars => SlotDiscipline'
BY ShapeStep, OrderStep, ExclusionStep DEF SlotDiscipline

\* The discipline of the slots holds in every state of a sync: it is inductive.
THEOREM SlotDisciplineHolds == Spec => []SlotDiscipline
BY DisciplineInit, DisciplineStep, PTL DEF Spec

\* An item in flight is on its way into the slot of its hop.
LEMMA FlyingIsIncoming ==
  ASSUME Shape, NEW i \in Flying
  PROVE  /\ i \in Items /\ <<i[1], i[2], Slot(i[3])>> \in Hops
         /\ i \in Incoming(<<i[1], i[2], Slot(i[3])>>)
<1>1. i \in Items BY Types DEF Flying, Moving
<1>2. i \in Moving BY DEF Flying, Moving
<1> QED BY <1>1, <1>2, ItemsChar, HopsType DEF Incoming, Into

\* The discipline implies that no slot in use is overwritten.
LEMMA DisciplineIsSafe == SlotDiscipline => NoSlotOverwrittenInUse
<1> SUFFICES ASSUME SlotDiscipline, NEW i \in Flying
             PROVE  /\ ~BeingRead(i[1], i[2], Slot(i[3]))
                    /\ ~LeavingFrom(i[1], i[2], Slot(i[3]))
                    /\ \A j \in Flying : SameSlot(i, j) => i = j
  BY DEF NoSlotOverwrittenInUse
<1> DEFINE h == <<i[1], i[2], Slot(i[3])>>
<1>1. Shape /\ IncomingMeansFree BY DEF SlotDiscipline, Exclusion
<1>2. h \in Hops /\ i \in Items /\ i \in Incoming(h) BY <1>1, FlyingIsIncoming
<1>3. ~InUse(h) /\ \A j \in Items : j \in Incoming(h) => i = j
  BY <1>1, <1>2 DEF IncomingMeansFree
<1>4. ~BeingRead(i[1], i[2], Slot(i[3])) /\ ~LeavingFrom(i[1], i[2], Slot(i[3]))
  BY <1>3 DEF InUse, InHand, BeingRead
<1>5. ASSUME NEW j \in Flying, SameSlot(i, j) PROVE i = j
  <2>1. j \in Items /\ j \in Incoming(h) BY <1>1, <1>5, FlyingIsIncoming DEF SameSlot
  <2> QED BY <1>3, <2>1
<1> QED BY <1>4, <1>5

\* A slot is never written while its worker's consumer or its forward writes
\* may still read it, and by one write at a time: for every topology, number of
\* slots and buckets, and whatever tasks, transfers, pumps and workers fail.
THEOREM SlotSafety == Spec => []NoSlotOverwrittenInUse
BY SlotDisciplineHolds, DisciplineIsSafe, PTL

\* No worker's region is written before its receive stream was started, when
\* its memory is guarded by the engine.
THEOREM GuardedSafety == Spec => []WrittenOnlyWhileGuarded
<1>1. SlotDiscipline => WrittenOnlyWhileGuarded
  <2> SUFFICES ASSUME SlotDiscipline, NEW i \in Flying PROVE st[i[2]] \notin {"idle", "open"}
    BY DEF WrittenOnlyWhileGuarded
  <2>1. Shape /\ NoGrantBeforeStart BY DEF SlotDiscipline, Exclusion
  <2> QED BY <2>1, FlyingIsIncoming DEF NoGrantBeforeStart
<1> QED BY <1>1, SlotDisciplineHolds, PTL

-----------------------------------------------------------------------------
(* Contents: what the slots hold.                                            *)

\* What the proofs below use of an item.
LEMMA ItemType ==
  ASSUME NEW i \in Items
  PROVE  /\ i = <<i[1], i[2], i[3]>> /\ i[1] \in Stripes /\ i[2] \in Rollouts /\ i[3] \in Nat
         /\ i[2] \in Workers /\ Prev[<<i[1], i[2]>>] \in Workers /\ Slot(i[3]) \in Slots
         /\ <<i[1], i[2], Slot(i[3])>> \in Hops
         /\ <<i[1], i[2], Slot(i[3])>> \in Cells
         /\ <<i[1], Prev[<<i[1], i[2]>>], Slot(i[3])>> \in Cells
         /\ i[3] < NumBuckets(i[1])
         /\ Prev[<<i[1], i[2]>>] \notin Rollouts => Prev[<<i[1], i[2]>>] = Leader[i[1]]
         /\ Leader[i[1]] \in Workers /\ Leader[i[1]] \notin Rollouts
BY ItemsChar, HopsType, SlotType, TopologyAssumption

\* A step that leaves the regions alone keeps their contents, if the waiting
\* writes of buckets being packed stay or end in an error, and only buckets
\* that were announced are taken.
LEMMA ContentsStay ==
  ASSUME Shape, Shape', Order, Contents,
         UNCHANGED <<mem, copying, dma, air, carried, inbound, got, k>>,
         waiting' \subseteq waiting, writing' \subseteq writing,
         Announced' \subseteq Announced \cup (writing \ dma),
         \A w \in Trainers : Running(w)' => Running(w) \/ st[w] = "idle",
         \A i \in waiting : Prev[<<i[1], i[2]>>] \notin Rollouts /\ Running(Prev[<<i[1], i[2]>>])' =>
           \/ i \in waiting' \/ <<i[1], Prev[<<i[1], i[2]>>], Slot(i[3])>> \in werr',
         \A x \in werr : Running(x[2])' => x \in werr',
         \A c \in Stripes, n \in Rollouts :
           /\ pc'[<<c, n>>] \in {"offer", "held"} => pc[<<c, n>>] \in {"offer", "held"}
           /\ pc'[<<c, n>>] = "arrive" =>
                pc[<<c, n>>] = "arrive" \/ <<c, n, k[<<c, n>>]>> \in Announced
  PROVE  Contents'
<1>0. waiting \subseteq Items /\ writing \subseteq Items /\ dma \subseteq Items
  BY Types DEF Underway
<1>1. CopyBegun' BY DEF Contents, CopyBegun
<1>2. CopyWaits'
  <2> SUFFICES ASSUME NEW x \in copying, NEW n \in Rollouts, Prev[<<x[1], n>>] = Leader[x[1]],
                      Running(Leader[x[1]])', <<x[1], n, x[2]>> \notin waiting'
               PROVE  <<x[1], Leader[x[1]], Slot(x[2])>> \in werr'
    BY DEF CopyWaits
  <2> DEFINE c == x[1] w == Leader[c] i == <<c, n, x[2]>>
  <2>1. c \in Stripes /\ w \in Trainers /\ w \in Workers /\ w \notin Rollouts
    BY HopsType, TopologyAssumption DEF Shape, TypeOK
  <2>2. st[w] # "idle"
    <3>1. x[2] < k[<<c, w>>] BY DEF Contents, CopyBegun
    <3>2. k[<<c, w>>] # 0 BY <3>1, <2>1, NextItems DEF Shape, TypeOK, Buckets
    <3> QED BY <3>2, <2>1 DEF Shape, AtStart
  <2>3. Running(w) BY <2>1, <2>2
  <2>4. i \in waiting \/ <<c, w, Slot(x[2])>> \in werr BY <2>3 DEF Contents, CopyWaits
  <2> QED BY <2>1, <2>4
<1>3. CopyFirst' BY DEF Contents, CopyFirst, Order, StagesApart
<1>4. SourceHolds' BY DEF Contents, SourceHolds, Order, StagesApart
<1>5. AirCarries' BY DEF Contents, AirCarries
<1>6. TargetHolds'
  <2> SUFFICES ASSUME NEW i \in Items, ~Empty(i[1]), AtTarget(i)', Landed(i)'
               PROVE  mem[<<i[1], i[2], Slot(i[3])>>] = i[3]
    BY DEF TargetHolds
  <2>1. Landed(i) BY DEF Landed
  <2>2. i = <<i[1], i[2], i[3]>> /\ i[1] \in Stripes /\ i[2] \in Rollouts BY ItemType
  <2>3. AtTarget(i)
    <3>1. CASE i \in writing' \ dma' BY <3>1 DEF AtTarget
    <3>2. CASE i \in Announced' BY <3>2 DEF AtTarget
    <3>3. CASE pc'[<<i[1], i[2]>>] = "arrive" /\ k'[<<i[1], i[2]>>] = i[3]
      BY <2>2, <3>3 DEF AtTarget
    <3> QED BY <3>1, <3>2, <3>3 DEF AtTarget
  <2> QED BY <2>1, <2>3 DEF Contents, TargetHolds
<1>7. HandHolds' BY DEF Contents, HandHolds
<1>8. UnreadHolds' BY DEF Contents, UnreadHolds
<1>9. DeliveredInOrder' BY DEF Contents, DeliveredInOrder
<1> QED BY <1>1, <1>2, <1>3, <1>4, <1>5, <1>6, <1>7, <1>8, <1>9 DEF Contents

\* A write that reaches its slot disturbs nothing: its source holds its bucket,
\* no write leaves the slot and nobody reads it, and it is the only one to come.
LEMMA WriteLands ==
  ASSUME Shape, Order, Exclusion, Contents, NEW j \in Items, j \in dma \cup air,
         mem' = [mem EXCEPT ![<<j[1], j[2], Slot(j[3])>>] = j[3]],
         UNCHANGED <<pc, k, waiting, writing, copying, got, posted, inq, early>>,
         dma' \subseteq dma, dma \subseteq dma' \cup {j}, inbound' \subseteq inbound \cup {j}
  PROVE  SourceHolds' /\ TargetHolds' /\ HandHolds' /\ UnreadHolds'
<1> DEFINE h == <<j[1], j[2], Slot(j[3])>>
<1>1. /\ h \in Hops /\ h[1] = j[1] /\ h[2] = j[2] /\ h[3] = Slot(j[3]) /\ h \in Cells
      /\ j[1] \in Stripes /\ j[2] \in Rollouts /\ j = <<j[1], j[2], j[3]>>
  BY ItemType
<1>2. /\ DOMAIN mem = Cells /\ mem'[h] = j[3]
      /\ \A x \in Cells : x # h => mem'[x] = mem[x]
  BY <1>1 DEF Shape, TypeOK
<1>3. j \in Incoming(h) BY <1>1 DEF Incoming, Moving, Into
<1>4. /\ ~InUse(h)
      /\ Arriving(h) => j[3] = k[<<j[1], j[2]>>]
      /\ \A i \in Items : i \in Incoming(h) => i = j
  BY <1>1, <1>3 DEF Exclusion, IncomingMeansFree
<1>5. SourceHolds'
  <2> SUFFICES ASSUME NEW i \in Items, i \in waiting \cup dma, ~Empty(i[1])
               PROVE  LET w == Prev[<<i[1], i[2]>>] IN
                      \/ mem'[<<i[1], w, Slot(i[3])>>] = i[3]
                      \/ i \in waiting /\ w \notin Rollouts /\ <<i[1], i[3]>> \in copying
    BY Types DEF SourceHolds, Underway
  <2>1. <<i[1], Prev[<<i[1], i[2]>>], Slot(i[3])>> # h
    <3> SUFFICES ASSUME i[1] = j[1], Prev[<<i[1], i[2]>>] = j[2], Slot(i[3]) = Slot(j[3])
                 PROVE  FALSE
      OBVIOUS
    <3>1. i \in waiting => Outgoing(h[1], h[2], h[3]) # {} BY <1>1 DEF Outgoing
    <3>2. i \in dma => LeavingFrom(h[1], h[2], h[3]) BY <1>1 DEF LeavingFrom
    <3> QED BY <1>4, <3>1, <3>2 DEF InUse
  <2> QED BY <1>2, <2>1, ItemType DEF Contents, SourceHolds
<1>6. TargetHolds'
  <2> SUFFICES ASSUME NEW i \in Items, ~Empty(i[1]), AtTarget(i)', Landed(i)'
               PROVE  mem'[<<i[1], i[2], Slot(i[3])>>] = i[3]
    BY DEF TargetHolds
  <2>1. CASE i = j BY <2>1, <1>2
  <2>2. CASE i # j
    <3>1. AtTarget(i) /\ Landed(i) BY <2>2 DEF AtTarget, Landed, Announced
    <3>2. mem[<<i[1], i[2], Slot(i[3])>>] = i[3] BY <3>1 DEF Contents, TargetHolds
    <3>3. CASE <<i[1], i[2], Slot(i[3])>> # h BY <3>2, <3>3, <1>2, ItemType
    <3>4. CASE <<i[1], i[2], Slot(i[3])>> = h
      <4>1. i[1] = j[1] /\ i[2] = j[2] /\ Slot(i[3]) = Slot(j[3]) /\ i = <<i[1], i[2], i[3]>>
        BY <3>4, ItemType
      <4>2. i \notin Incoming(h) BY <1>4, <2>2
      <4>3. i \notin Moving BY <1>1, <4>1, <4>2 DEF Incoming, Into
      <4>4. pc[<<i[1], i[2]>>] = "arrive" /\ k[<<i[1], i[2]>>] = i[3]
        BY <3>1, <4>3 DEF AtTarget, Moving
      <4>5. Arriving(h) BY <1>1, <4>1, <4>4 DEF Arriving
      <4> QED BY <1>1, <1>4, <2>2, <4>1, <4>4, <4>5
    <3> QED BY <3>3, <3>4
  <2> QED BY <2>1, <2>2
<1>7. HandHolds'
  <2> SUFFICES ASSUME NEW c \in Stripes, NEW n \in Rollouts, pc[<<c, n>>] \in {"offer", "held"},
                      ~Empty(c)
               PROVE  mem'[<<c, n, Slot(k[<<c, n>>])>>] = k[<<c, n>>]
    BY DEF HandHolds
  <2>1. <<c, n, Slot(k[<<c, n>>])>> # h
    BY <1>1, <1>4 DEF InUse, InHand
  <2>2. <<c, n, Slot(k[<<c, n>>])>> \in Cells BY HopsType, GotType
  <2> QED BY <1>2, <2>1, <2>2 DEF Contents, HandHolds
<1>8. UnreadHolds'
  <2> SUFFICES ASSUME NEW c \in Stripes, NEW n \in Rollouts, ~Empty(c),
                      NEW b \in Len(got[<<c, n>>]) .. k[<<c, n>>] - 1
               PROVE  mem'[<<c, n, Slot(b)>>] = b
    BY DEF UnreadHolds
  <2>1. <<c, n, Slot(b)>> # h
    BY <1>1, <1>4 DEF InUse, Unread
  <2>2. b \in Nat BY GotType
  <2>3. <<c, n, Slot(b)>> \in Cells BY <2>2, HopsType
  <2> QED BY <1>2, <2>1, <2>3 DEF Contents, UnreadHolds
<1> QED BY <1>5, <1>6, <1>7, <1>8

\* When a chain moves on, the bucket its consumer held is unread, and in place.
LEMMA BucketPasses ==
  ASSUME Shape, Shape', Contents, NEW c \in Stripes, NEW n \in Rollouts, AfterBucket(c, n),
         pc[<<c, n>>] \in {"offer", "held"},
         UNCHANGED <<st, waiting, writing, werr, inbox, device>>
  PROVE  Contents'
<1> USE DEF inbox, device
<1>0. n \in Workers /\ n \notin Trainers /\ DOMAIN pc = Stripes \X Workers
  BY Types, TopologyAssumption DEF Workers
<1>1. /\ k' = [k EXCEPT ![<<c, n>>] = @ + 1]
      /\ \A x \in Stripes \X Workers : x # <<c, n>> => pc'[x] = pc[x]
      /\ pc'[<<c, n>>] \in {"final", "bucket"}
  BY <1>0 DEF AfterBucket
<1>2. CopyBegun'
  <2> SUFFICES ASSUME NEW x \in copying PROVE x[2] < k'[<<x[1], Leader[x[1]]>>]
    BY DEF Contents, CopyBegun
  <2>1. x[1] \in Stripes /\ Leader[x[1]] \in Trainers
    BY TopologyAssumption DEF Shape, TypeOK
  <2> QED BY <2>1, <1>0, <1>1, Types DEF Contents, CopyBegun
<1>3. CopyWaits' BY DEF Contents, CopyWaits, Running
<1>4. CopyFirst' BY DEF Contents, CopyFirst
<1>5. SourceHolds' /\ AirCarries' /\ DeliveredInOrder'
  BY DEF Contents, SourceHolds, AirCarries, DeliveredInOrder
<1>6. TargetHolds'
  <2> SUFFICES ASSUME NEW i \in Items, ~Empty(i[1]), AtTarget(i)', Landed(i)'
               PROVE  mem[<<i[1], i[2], Slot(i[3])>>] = i[3]
    BY DEF TargetHolds
  <2>1. pc'[<<i[1], i[2]>>] = "arrive" => <<i[1], i[2]>> # <<c, n>> BY <1>1
  <2>2. AtTarget(i) /\ Landed(i)
    BY <1>1, <2>1, ItemType, Types DEF AtTarget, Landed, Announced
  <2> QED BY <2>2 DEF Contents, TargetHolds
<1>7. HandHolds'
  <2> SUFFICES ASSUME NEW d \in Stripes, NEW m \in Rollouts, pc'[<<d, m>>] \in {"offer", "held"},
                      ~Empty(d)
               PROVE  mem[<<d, m, Slot(k'[<<d, m>>])>>] = k'[<<d, m>>]
    BY DEF HandHolds
  <2>1. m \in Workers /\ <<d, m>> # <<c, n>> BY <1>1 DEF Workers
  <2>2. k'[<<d, m>>] = k[<<d, m>>] /\ pc'[<<d, m>>] = pc[<<d, m>>] BY <1>1, <2>1, Types
  <2> QED BY <2>2 DEF Contents, HandHolds
<1>8. UnreadHolds'
  <2> SUFFICES ASSUME NEW d \in Stripes, NEW m \in Rollouts, ~Empty(d),
                      NEW b \in Len(got[<<d, m>>]) .. k'[<<d, m>>] - 1
               PROVE  mem[<<d, m, Slot(b)>>] = b
    BY DEF UnreadHolds
  <2>1. Len(got[<<d, m>>]) \in Nat /\ k[<<d, m>>] \in Nat /\ m \in Workers
    BY GotType DEF Workers
  <2>2. CASE b \in Len(got[<<d, m>>]) .. k[<<d, m>>] - 1
    BY <2>2 DEF Contents, UnreadHolds
  <2>3. CASE b \notin Len(got[<<d, m>>]) .. k[<<d, m>>] - 1
    <3>1. k'[<<d, m>>] = IF d = c /\ m = n THEN k[<<d, m>>] + 1 ELSE k[<<d, m>>]
      BY <1>1, <2>1, Types
    <3>2. d = c /\ m = n /\ b = k[<<c, n>>] BY <2>1, <2>3, <3>1
    <3> QED BY <3>2 DEF Contents, HandHolds
  <2> QED BY <2>2, <2>3
<1> QED BY <1>2, <1>3, <1>4, <1>5, <1>6, <1>7, <1>8 DEF Contents

\* Every step keeps the contents of the slots: one step of the proof per action.
LEMMA ContentsStep ==
  SlotDiscipline /\ Contents /\ [Next]_vars => Contents'
<1> SUFFICES ASSUME SlotDiscipline, Contents, [Next]_vars PROVE Contents' OBVIOUS
<1> USE DEF control, tasks, inbox, device
<1> /\ Shape /\ Order /\ Exclusion BY DEF SlotDiscipline
<1> Shape' BY ShapeStep
<1>0. /\ DOMAIN st = Workers /\ Rollouts \subseteq Workers /\ Trainers \subseteq Workers
      /\ Trainers \cap Rollouts = {} /\ DOMAIN pc = Stripes \X Workers
  BY Types, TopologyAssumption DEF Workers
<1>1. ASSUME NEW w \in Trainers, SendWeights(w) PROVE Contents'
  BY <1>1, <1>0, ContentsStay, HopsType, ItemType
     DEF SendWeights, FreshCredit, Wake, Announced, Running, MyItems
<1>2. ASSUME NEW n \in Rollouts, ReceiveWeights(n) PROVE Contents'
  BY <1>2, <1>0, ContentsStay, HopsType, ItemType
     DEF ReceiveWeights, Wake, Announced, Running, MyItems
<1>3. ASSUME NEW n \in Rollouts, StartReceive(n) PROVE Contents'
  BY <1>3, <1>0, ContentsStay, HopsType, ItemType
     DEF StartReceive, Wake, Announced, Running, MyItems
<1>4. ASSUME NEW n \in Rollouts, CloseUnstarted(n) PROVE Contents'
  BY <1>4, <1>0, ContentsStay, HopsType, ItemType
     DEF CloseUnstarted, BeginFail, Wake, Announced, Running, MyItems
<1>5. ASSUME NEW w \in Trainers, DriveGenerator(w) PROVE Contents'
  BY <1>5, <1>0, ContentsStay, HopsType, ItemType
     DEF DriveGenerator, Wake, Announced, Running, MyItems
<1>6. ASSUME NEW n \in Rollouts, RaiseError(n) PROVE Contents'
  BY <1>6, <1>0, ContentsStay, HopsType, ItemType
     DEF RaiseError, BeginFail, Wake, Announced, Running, MyItems
<1>7. ASSUME NEW n \in Rollouts, FinishReceive(n) PROVE Contents'
  BY <1>7, <1>0, ContentsStay, HopsType, ItemType
     DEF FinishReceive, Complete, Wake, Announced, Running, MyItems
<1>8. ASSUME NEW w \in Workers, Interrupt(w) PROVE Contents'
  BY <1>8, <1>0, ContentsStay, HopsType, ItemType
     DEF Interrupt, BeginFail, Wake, Announced, Running, MyItems
<1>9. ASSUME NEW w \in Workers, PumpFails(w) PROVE Contents'
  BY <1>9, <1>0, ContentsStay, HopsType, ItemType
     DEF PumpFails, Wake, Announced, Running, MyItems
<1>10. ASSUME NEW w \in Workers, Reap(w) PROVE Contents'
  BY <1>10, <1>0, ContentsStay, HopsType, ItemType DEF Reap, Wake, Announced, Running, MyItems
<1>11. ASSUME NEW w \in Workers, DeliverAbort(w) PROVE Contents'
  BY <1>11, <1>0, ContentsStay, HopsType, ItemType
     DEF DeliverAbort, Wake, Announced, Running, MyItems
<1>12. ASSUME NEW c \in Stripes, Pack(c) PROVE Contents'
  <2> DEFINE w == Leader[c] b == k[<<c, w>>] new == {c} \X Nexts(c, w) \X {b}
  <2>1. /\ w \in Workers /\ w \notin Rollouts /\ b \in Nat /\ b < NumBuckets(c)
        /\ <<c, w, Slot(b)>> \in Cells
    BY <1>12, HopsType, TopologyAssumption, Types DEF Pack, Shape, BucketLeft
  <2>2. /\ st[w] = "run" /\ pc[<<c, w>>] = "pack" /\ EarlierWriteOver(c, w, Slot(b))
        /\ waiting' = waiting \cup new
        /\ UNCHANGED <<st, writing, werr, posted, inq, early, dma, air, carried, inbound, got>>
        /\ k' = [k EXCEPT ![<<c, w>>] = b + 1]
        /\ \A x \in Stripes \X Workers : x # <<c, w>> => pc'[x] = pc[x]
    BY <1>12, <1>0 DEF Pack
  <2>3. \/ Empty(c) /\ UNCHANGED <<copying, mem>>
        \/ /\ ~Empty(c) /\ copying' = copying \cup {<<c, b>>}
           /\ mem' = [mem EXCEPT ![<<c, w, Slot(b)>>] = NoData]
    BY <1>12 DEF Pack
  <2>4. \A i \in new : /\ i \in Items /\ i[1] = c /\ i[3] = b /\ Prev[<<i[1], i[2]>>] = w
                       /\ i = <<c, i[2], b>>
    BY <2>1, NextItems DEF Nexts
  \* No write of an earlier bucket reads the slot any more.
  <2>5. \A i \in waiting \cup writing \cup dma :
          ~(i[1] = c /\ Prev[<<i[1], i[2]>>] = w /\ Slot(i[3]) = Slot(b))
    <3> SUFFICES ASSUME NEW i \in waiting \cup writing \cup dma,
                        i[1] = c, Prev[<<i[1], i[2]>>] = w, Slot(i[3]) = Slot(b)
                 PROVE  FALSE
      OBVIOUS
    <3>1. i \notin waiting \cup writing BY <2>2 DEF EarlierWriteOver, Outgoing
    <3>2. i \in dma BY <3>1
    <3> QED BY <2>2, <3>1, <3>2 DEF Exclusion, WriteAccounted, EarlierWriteOver, Running
  <2>6. CopyBegun'
    <3> SUFFICES ASSUME NEW x \in copying' PROVE ~Empty(x[1]) /\ x[2] < k'[<<x[1], Leader[x[1]]>>]
      BY DEF CopyBegun
    <3>1. CASE x \in copying
      <4>1. /\ x[1] \in Stripes /\ Leader[x[1]] \in Workers /\ x[2] \in Nat
            /\ ~Empty(x[1]) /\ x[2] < k[<<x[1], Leader[x[1]]>>]
        BY <3>1, HopsType, NumBucketsType DEF Shape, TypeOK, Buckets, Contents, CopyBegun
      <4>2. k[<<x[1], Leader[x[1]]>>] \in Nat BY <4>1, Types
      <4>3. \/ k'[<<x[1], Leader[x[1]]>>] = k[<<x[1], Leader[x[1]]>>]
            \/ k[<<x[1], Leader[x[1]]>>] = b /\ k'[<<x[1], Leader[x[1]]>>] = b + 1
        BY <2>1, <2>2, <4>1, Types
      <4> QED BY <4>1, <4>2, <4>3
    <3>2. CASE x \notin copying
      <4>1. x = <<c, b>> /\ ~Empty(c) BY <2>3, <3>2
      <4>2. k'[<<c, w>>] = b + 1 BY <2>1, <2>2, Types
      <4> QED BY <2>1, <4>1, <4>2
    <3> QED BY <3>1, <3>2
  <2>7. CopyWaits'
    <3> SUFFICES ASSUME NEW x \in copying', NEW n \in Rollouts, Prev[<<x[1], n>>] = Leader[x[1]],
                        Running(Leader[x[1]])'
                 PROVE  \/ <<x[1], n, x[2]>> \in waiting'
                        \/ <<x[1], Leader[x[1]], Slot(x[2])>> \in werr'
      BY DEF CopyWaits
    <3>1. CASE x \in copying BY <2>2, <3>1 DEF Contents, CopyWaits, Running
    <3>2. CASE x \notin copying
      <4>1. x = <<c, b>> BY <2>3, <3>2
      <4> QED BY <2>2, <4>1 DEF Nexts
    <3> QED BY <3>1, <3>2
  <2>8. CopyFirst'
    <3> SUFFICES ASSUME NEW i \in waiting' \cup writing' \cup dma', NEW x \in copying',
                        x[1] = i[1], Prev[<<i[1], i[2]>>] = Leader[i[1]], Slot(x[2]) = Slot(i[3])
                 PROVE  i \in waiting' /\ i[3] = x[2]
      BY DEF CopyFirst
    <3>1. CASE i \in new
      <4>1. CASE x \in copying
        <5>1. /\ i[2] \in Rollouts /\ <<c, i[2], x[2]>> \notin waiting
              /\ <<c, w, Slot(x[2])>> \notin werr
          BY <2>2, <2>4, <2>5, <3>1 DEF Nexts, EarlierWriteOver
        <5> QED BY <2>2, <2>4, <3>1, <4>1, <5>1 DEF Contents, CopyWaits, Running
      <4>2. CASE x \notin copying
        <5>1. x = <<c, b>> BY <2>3, <4>2
        <5> QED BY <2>2, <2>4, <3>1, <5>1
      <4> QED BY <4>1, <4>2
    <3>2. CASE i \notin new
      <4>1. i \in waiting \cup writing \cup dma BY <2>2, <3>2
      <4>2. x \in copying
        <5> SUFFICES ASSUME x = <<c, b>> PROVE FALSE BY <2>3
        <5> QED BY <2>5, <4>1
      <4> QED BY <2>2, <4>1, <4>2 DEF Contents, CopyFirst
    <3> QED BY <3>1, <3>2
  <2>9. SourceHolds'
    <3> SUFFICES ASSUME NEW i \in Items, i \in waiting' \cup dma', ~Empty(i[1])
                 PROVE  LET v == Prev[<<i[1], i[2]>>] IN
                        \/ mem'[<<i[1], v, Slot(i[3])>>] = i[3]
                        \/ i \in waiting' /\ v \notin Rollouts /\ <<i[1], i[3]>> \in copying'
      BY DEF SourceHolds, Shape, TypeOK
    <3>1. CASE i \in new BY <2>1, <2>2, <2>3, <2>4, <3>1
    <3>2. CASE i \notin new
      <4>1. i \in waiting \cup dma BY <2>2, <3>2
      <4>2. <<i[1], Prev[<<i[1], i[2]>>], Slot(i[3])>> # <<c, w, Slot(b)>> BY <2>5, <4>1
      <4>3. mem'[<<i[1], Prev[<<i[1], i[2]>>], Slot(i[3])>>] = mem[<<i[1], Prev[<<i[1], i[2]>>], Slot(i[3])>>]
        BY <2>1, <2>3, <4>2, ItemType DEF Shape, TypeOK
      <4> QED BY <2>2, <2>3, <4>1, <4>3 DEF Contents, SourceHolds
    <3> QED BY <3>1, <3>2
  <2>10. AirCarries' /\ DeliveredInOrder' BY <2>2 DEF Contents, AirCarries, DeliveredInOrder
  <2>11. \A d \in Stripes, m \in Rollouts :
           /\ m \in Workers /\ pc'[<<d, m>>] = pc[<<d, m>>] /\ k'[<<d, m>>] = k[<<d, m>>]
           /\ \A s \in Slots : mem'[<<d, m, s>>] = mem[<<d, m, s>>]
    <3> SUFFICES ASSUME NEW d \in Stripes, NEW m \in Rollouts
                 PROVE  /\ m \in Workers /\ pc'[<<d, m>>] = pc[<<d, m>>] /\ k'[<<d, m>>] = k[<<d, m>>]
                        /\ \A s \in Slots : mem'[<<d, m, s>>] = mem[<<d, m, s>>]
      OBVIOUS
    <3>1. m # w /\ m \in Workers BY <2>1, <1>0
    <3>2. pc'[<<d, m>>] = pc[<<d, m>>] /\ k'[<<d, m>>] = k[<<d, m>>] BY <2>1, <2>2, <3>1, Types
    <3>3. \A s \in Slots : mem'[<<d, m, s>>] = mem[<<d, m, s>>]
      BY <2>1, <2>3, <3>1 DEF Shape, TypeOK, Cells
    <3> QED BY <3>1, <3>2, <3>3
  <2>12. TargetHolds'
    <3> SUFFICES ASSUME NEW i \in Items, ~Empty(i[1]), AtTarget(i)', Landed(i)'
                 PROVE  mem'[<<i[1], i[2], Slot(i[3])>>] = i[3]
      BY DEF TargetHolds
    <3>1. AtTarget(i) /\ Landed(i) BY <2>2, <2>11, ItemType DEF AtTarget, Landed, Announced
    <3> QED BY <2>11, <3>1, ItemType DEF Contents, TargetHolds
  <2>13. HandHolds'
    <3> SUFFICES ASSUME NEW d \in Stripes, NEW m \in Rollouts, pc'[<<d, m>>] \in {"offer", "held"},
                        ~Empty(d)
                 PROVE  mem'[<<d, m, Slot(k'[<<d, m>>])>>] = k'[<<d, m>>]
      BY DEF HandHolds
    <3>1. Slot(k[<<d, m>>]) \in Slots BY GotType, SlotType
    <3> QED BY <2>11, <3>1 DEF Contents, HandHolds
  <2>14. UnreadHolds'
    <3> SUFFICES ASSUME NEW d \in Stripes, NEW m \in Rollouts, ~Empty(d),
                        NEW a \in Len(got[<<d, m>>]) .. k[<<d, m>>] - 1
                 PROVE  mem'[<<d, m, Slot(a)>>] = a
      BY <2>2, <2>11 DEF UnreadHolds
    <3>1. a \in Nat BY GotType
    <3>2. Slot(a) \in Slots BY <3>1, SlotType
    <3> QED BY <2>11, <3>2 DEF Contents, UnreadHolds
  <2> QED BY <2>6, <2>7, <2>8, <2>9, <2>10, <2>12, <2>13, <2>14 DEF Contents
<1>13. ASSUME NEW c \in Stripes, CopyDone(c) PROVE Contents'
  <2> PICK b \in 0 .. NumBuckets(c) - 1 : /\ <<c, b>> \in copying
         /\ copying' = copying \ {<<c, b>>}
         /\ mem' = [mem EXCEPT ![<<c, Leader[c], Slot(b)>>] = b]
    BY <1>13 DEF CopyDone
  <2> DEFINE w == Leader[c]
  <2>1. /\ w \in Workers /\ w \notin Rollouts /\ b \in Nat /\ <<c, w, Slot(b)>> \in Cells
    BY HopsType, TopologyAssumption, NumBucketsType
  <2>2. UNCHANGED <<st, pc, k, waiting, writing, werr, posted, inq, early, dma, air, carried, inbound, got>>
    BY <1>13 DEF CopyDone
  <2>3. CopyBegun' /\ CopyWaits' /\ CopyFirst' /\ AirCarries' /\ DeliveredInOrder'
    BY <2>2 DEF Contents, CopyBegun, CopyWaits, CopyFirst, AirCarries, DeliveredInOrder, Running
  <2>4. SourceHolds'
    <3> SUFFICES ASSUME NEW i \in Items, i \in waiting \cup dma, ~Empty(i[1])
                 PROVE  LET v == Prev[<<i[1], i[2]>>] IN
                        \/ mem'[<<i[1], v, Slot(i[3])>>] = i[3]
                        \/ i \in waiting /\ v \notin Rollouts /\ <<i[1], i[3]>> \in copying'
      BY <2>2, Types DEF SourceHolds, Underway
    <3> DEFINE v == Prev[<<i[1], i[2]>>]
    <3>1. CASE <<i[1], v, Slot(i[3])>> = <<c, w, Slot(b)>>
      <4>1. i[1] = c /\ v = w /\ Slot(i[3]) = Slot(b) BY <3>1
      <4>2. i[3] = b BY <4>1 DEF Contents, CopyFirst
      <4> QED BY <2>1, <3>1, <4>2 DEF Shape, TypeOK
    <3>2. CASE <<i[1], v, Slot(i[3])>> # <<c, w, Slot(b)>>
      <4>1. mem'[<<i[1], v, Slot(i[3])>>] = mem[<<i[1], v, Slot(i[3])>>]
        BY <2>1, <3>2, ItemType DEF Shape, TypeOK
      <4>2. v \notin Rollouts => <<i[1], i[3]>> # <<c, b>> BY <3>2, ItemType
      <4> QED BY <4>1, <4>2 DEF Contents, SourceHolds
    <3> QED BY <3>1, <3>2
  <2>5. \A d \in Stripes, m \in Rollouts, s \in Slots : mem'[<<d, m, s>>] = mem[<<d, m, s>>]
    BY <2>1, <1>0 DEF Shape, TypeOK, Cells
  <2>6. TargetHolds'
    <3> SUFFICES ASSUME NEW i \in Items, ~Empty(i[1]), AtTarget(i)', Landed(i)'
                 PROVE  mem'[<<i[1], i[2], Slot(i[3])>>] = i[3]
      BY DEF TargetHolds
    <3>1. AtTarget(i) /\ Landed(i) BY <2>2 DEF AtTarget, Landed, Announced
    <3> QED BY <2>5, <3>1, ItemType DEF Contents, TargetHolds
  <2>7. HandHolds'
    <3> SUFFICES ASSUME NEW d \in Stripes, NEW m \in Rollouts, pc[<<d, m>>] \in {"offer", "held"},
                        ~Empty(d)
                 PROVE  mem'[<<d, m, Slot(k[<<d, m>>])>>] = k[<<d, m>>]
      BY <2>2 DEF HandHolds
    <3>1. Slot(k[<<d, m>>]) \in Slots BY GotType, SlotType
    <3> QED BY <2>5, <3>1 DEF Contents, HandHolds
  <2>8. UnreadHolds'
    <3> SUFFICES ASSUME NEW d \in Stripes, NEW m \in Rollouts, ~Empty(d),
                        NEW a \in Len(got[<<d, m>>]) .. k[<<d, m>>] - 1
                 PROVE  mem'[<<d, m, Slot(a)>>] = a
      BY <2>2 DEF UnreadHolds
    <3>1. a \in Nat BY GotType
    <3>2. Slot(a) \in Slots BY <3>1, SlotType
    <3> QED BY <2>5, <3>2 DEF Contents, UnreadHolds
  <2> QED BY <2>3, <2>4, <2>6, <2>7, <2>8 DEF Contents
<1>14. ASSUME NEW c \in Stripes, Flush(c) PROVE Contents'
  BY <1>14, <1>0, ContentsStay, HopsType, ItemType DEF Flush, Wake, Announced, Running, MyItems
<1>15. ASSUME NEW c \in Stripes, AwaitFailedWrite(c) PROVE Contents'
  BY <1>15, <1>0, ContentsStay, HopsType, ItemType
     DEF AwaitFailedWrite, BeginFail, Wake, Announced, Running, MyItems
<1>16. ASSUME NEW c \in Stripes, FinishSend(c) PROVE Contents'
  BY <1>16, <1>0, ContentsStay, HopsType, ItemType
     DEF FinishSend, Complete, Wake, Announced, Running, MyItems
<1>17. ASSUME NEW c \in Stripes, DrainFails(c) PROVE Contents'
  BY <1>17, <1>0, ContentsStay, HopsType, ItemType
     DEF DrainFails, BeginFail, Wake, Announced, Running, MyItems
<1>18. ASSUME NEW i \in Items, SubmitWrite(i) PROVE Contents'
  <2> DEFINE w == Prev[<<i[1], i[2]>>]
  <2>1. /\ i \in waiting
        /\ w \in Rollouts \/ <<i[1], i[3]>> \notin copying
        /\ waiting' = waiting \ {i}
        /\ UNCHANGED <<st, pc, k, werr, inq, early, mem, copying, air, carried, inbound, got>>
    BY <1>18 DEF SubmitWrite
  <2>2. \/ Empty(i[1]) /\ posted' = posted \cup {i} /\ UNCHANGED <<writing, dma>>
        \/ /\ ~Empty(i[1]) /\ UNCHANGED posted
           /\ writing' = writing \cup {i} /\ dma' = dma \cup {i}
    BY <1>18 DEF SubmitWrite
  <2>3. CopyBegun' /\ AirCarries' /\ HandHolds' /\ UnreadHolds' /\ DeliveredInOrder'
    BY <2>1 DEF Contents, CopyBegun, AirCarries, HandHolds, UnreadHolds, DeliveredInOrder
  <2>4. CopyWaits'
    <3> SUFFICES ASSUME NEW x \in copying, NEW n \in Rollouts, Prev[<<x[1], n>>] = Leader[x[1]]
                 PROVE  \/ <<x[1], n, x[2]>> \in waiting'
                        \/ <<x[1], Leader[x[1]], Slot(x[2])>> \in werr
                        \/ ~Running(Leader[x[1]])
      BY <2>1 DEF CopyWaits, Running
    <3>1. <<x[1], n, x[2]>> # i
      <4> SUFFICES ASSUME <<x[1], n, x[2]>> = i PROVE FALSE OBVIOUS
      <4>1. x = <<i[1], i[3]>> BY DEF Shape, TypeOK
      <4>2. w = Leader[i[1]] /\ w \notin Rollouts BY <4>1, ItemType
      <4> QED BY <2>1, <4>1, <4>2
    <3> QED BY <2>1, <3>1 DEF Contents, CopyWaits
  <2>5. CopyFirst'
    <3> SUFFICES ASSUME NEW j \in waiting' \cup writing' \cup dma', NEW x \in copying,
                        x[1] = j[1], Prev[<<j[1], j[2]>>] = Leader[j[1]], Slot(x[2]) = Slot(j[3])
                 PROVE  j \in waiting' /\ j[3] = x[2]
      BY <2>1 DEF CopyFirst
    <3>1. j \in waiting /\ j[3] = x[2]
      BY <2>1, <2>2 DEF Contents, CopyFirst
    <3>2. j # i
      <4>1. x = <<j[1], j[3]>> BY <3>1 DEF Shape, TypeOK
      <4>2. w \in Rollouts \/ <<i[1], i[3]>> \notin copying BY <2>1
      <4> QED BY <4>1, <4>2, ItemType
    <3> QED BY <2>1, <3>1, <3>2
  <2>6. SourceHolds' BY <2>1, <2>2 DEF Contents, SourceHolds
  <2>7. TargetHolds'
    <3> SUFFICES ASSUME NEW j \in Items, ~Empty(j[1]), AtTarget(j)', Landed(j)'
                 PROVE  mem[<<j[1], j[2], Slot(j[3])>>] = j[3]
      BY <2>1 DEF TargetHolds
    <3>1. AtTarget(j) /\ Landed(j) BY <2>1, <2>2 DEF AtTarget, Landed, Announced
    <3> QED BY <3>1 DEF Contents, TargetHolds
  <2> QED BY <2>3, <2>4, <2>5, <2>6, <2>7 DEF Contents
<1>19. ASSUME NEW i \in Items, WriteSucceeded(i) PROVE Contents'
  BY <1>19, <1>0, ContentsStay, HopsType, ItemType
     DEF WriteSucceeded, StatusDone, Wake, Announced, Running, MyItems
<1>20. ASSUME NEW i \in Items, WriteAborted(i) PROVE Contents'
  BY <1>20, <1>0, ContentsStay, HopsType, ItemType
     DEF WriteAborted, WriteTaskFails, Siblings, Nexts, Wake, Announced, Running, MyItems
<1>21. ASSUME NEW i \in Items, WriteFault(i) PROVE Contents'
  BY <1>21, <1>0, ContentsStay, HopsType, ItemType
     DEF WriteFault, WriteTimesOut, WriteReportsFailure, WriteTaskFails, Siblings, Nexts, Wake,
     Announced, Running, MyItems
<1>22. ASSUME NEW i \in Items, TakeMessage(i) PROVE Contents'
  BY <1>22, <1>0, ContentsStay, HopsType, ItemType
     DEF TakeMessage, Wake, Announced, Running, MyItems
<1>23. ASSUME NEW i \in Items, DeliverBucket(i) PROVE Contents'
  BY <1>23, <1>0, ContentsStay, HopsType, ItemType
     DEF DeliverBucket, Wake, Announced, Running, MyItems
<1>24. ASSUME NEW i \in Items, LocalCopyDone(i) PROVE Contents'
  <2>1. /\ i \in dma /\ dma' = dma \ {i}
        /\ mem' = [mem EXCEPT ![<<i[1], i[2], Slot(i[3])>>] = mem[<<i[1], Prev[<<i[1], i[2]>>], Slot(i[3])>>]]
        /\ UNCHANGED <<st, pc, k, waiting, writing, werr, posted, inq, early, copying, air, carried, inbound, got>>
    BY <1>24 DEF LocalCopyDone
  <2>2. mem[<<i[1], Prev[<<i[1], i[2]>>], Slot(i[3])>>] = i[3]
    BY <2>1 DEF Contents, SourceHolds, Order, StagesApart, OnlyDataFlies
  <2>3. CopyBegun' /\ CopyWaits' /\ CopyFirst' /\ AirCarries' /\ DeliveredInOrder'
    BY <2>1 DEF Contents, CopyBegun, CopyWaits, CopyFirst, AirCarries, DeliveredInOrder, Running
  <2>4. SourceHolds' /\ TargetHolds' /\ HandHolds' /\ UnreadHolds' BY <2>1, <2>2, WriteLands
  <2> QED BY <2>3, <2>4 DEF Contents
<1>25. ASSUME NEW i \in Items, RemoteWriteLeft(i) PROVE Contents'
  <2>1. /\ i \in dma /\ Notifies(i[1], i[2]) /\ dma' = dma \ {i} /\ air' = air \cup {i}
        /\ carried' = [carried EXCEPT ![i] = mem[<<i[1], Prev[<<i[1], i[2]>>], Slot(i[3])>>]]
        /\ UNCHANGED <<st, pc, k, waiting, writing, werr, posted, inq, early, mem, copying, inbound, got>>
    BY <1>25 DEF RemoteWriteLeft
  <2>2. mem[<<i[1], Prev[<<i[1], i[2]>>], Slot(i[3])>>] = i[3]
    BY <2>1 DEF Contents, SourceHolds, Order, StagesApart, OnlyDataFlies
  <2>3. /\ CopyBegun' /\ CopyWaits' /\ CopyFirst' /\ SourceHolds'
        /\ HandHolds' /\ UnreadHolds' /\ DeliveredInOrder'
    BY <2>1 DEF Contents, CopyBegun, CopyWaits, CopyFirst, SourceHolds, HandHolds, UnreadHolds,
                DeliveredInOrder, Running
  <2>4. AirCarries' BY <2>1, <2>2, Types DEF Contents, AirCarries, Shape, TypeOK
  <2>5. TargetHolds'
    <3> SUFFICES ASSUME NEW j \in Items, ~Empty(j[1]), AtTarget(j)', Landed(j)'
                 PROVE  mem[<<j[1], j[2], Slot(j[3])>>] = j[3]
      BY <2>1 DEF TargetHolds
    <3>1. Landed(j) /\ j # i BY <2>1 DEF Landed, Order, StagesApart
    <3>2. AtTarget(j) BY <2>1, <3>1 DEF AtTarget, Announced
    <3> QED BY <3>1, <3>2 DEF Contents, TargetHolds
  <2> QED BY <2>3, <2>4, <2>5 DEF Contents
<1>26. ASSUME NEW i \in Items, RemoteWriteLanded(i) PROVE Contents'
  <2>1. /\ i \in air /\ air' = air \ {i}
        /\ mem' = [mem EXCEPT ![<<i[1], i[2], Slot(i[3])>>] = carried[i]]
        /\ carried' = [carried EXCEPT ![i] = NoData] /\ inbound' = inbound \cup {i}
        /\ UNCHANGED <<st, pc, k, waiting, writing, werr, posted, inq, early, copying, dma, got>>
    BY <1>26 DEF RemoteWriteLanded
  <2>2. carried[i] = i[3] BY <2>1 DEF Contents, AirCarries
  <2>3. CopyBegun' /\ CopyWaits' /\ CopyFirst' /\ DeliveredInOrder'
    BY <2>1 DEF Contents, CopyBegun, CopyWaits, CopyFirst, DeliveredInOrder, Running
  <2>4. AirCarries' BY <2>1, Types DEF Contents, AirCarries, Shape, TypeOK
  <2>5. SourceHolds' /\ TargetHolds' /\ HandHolds' /\ UnreadHolds' BY <2>1, <2>2, WriteLands
  <2> QED BY <2>3, <2>4, <2>5 DEF Contents
<1>27. ASSUME NEW c \in Stripes, NEW n \in Rollouts, TakeBucket(c, n) PROVE Contents'
  BY <1>27, <1>0, ContentsStay, HopsType, ItemType
     DEF TakeBucket, EndChain, Wake, Announced, Running, MyItems
<1>28. ASSUME NEW c \in Stripes, NEW n \in Rollouts, BucketArrived(c, n) PROVE Contents'
  <2> DEFINE b == k[<<c, n>>] j == <<c, n, b>> new == {c} \X Nexts(c, n) \X {b}
  <2>1. /\ n \in Workers /\ n \notin Trainers /\ b \in Nat /\ b < NumBuckets(c)
        /\ pc[<<c, n>>] = "arrive" /\ j \in Items /\ Arrived(j)
        /\ inbound' = inbound \ {j} /\ waiting' = waiting \cup new
        /\ UNCHANGED <<st, writing, werr, posted, inq, early, mem, copying, dma, air, carried, got>>
    BY <1>28, <1>0, Types, ItemsChar DEF BucketArrived, Shape, BucketLeft
  <2>2. \/ /\ Empty(c) /\ k' = [k EXCEPT ![<<c, n>>] = @ + 1]
           /\ pc' \in {[pc EXCEPT ![<<c, n>>] = "final"], [pc EXCEPT ![<<c, n>>] = "bucket"]}
        \/ ~Empty(c) /\ pc' = [pc EXCEPT ![<<c, n>>] = "offer"] /\ UNCHANGED k
    BY <1>28, <1>0 DEF BucketArrived, AfterBucket
  <2>3. ~Empty(c) => mem[<<c, n, Slot(b)>>] = b
    <3>1. AtTarget(j) BY <2>1 DEF AtTarget
    <3>2. ~Empty(c) => Landed(j) BY <2>1 DEF Arrived, Landed
    <3> QED BY <2>1, <3>1, <3>2 DEF Contents, TargetHolds
  <2>4. \A i \in new : i[1] = c /\ i[3] = b /\ Prev[<<i[1], i[2]>>] = n
    BY DEF Nexts
  <2>5. \A d \in Stripes, m \in Workers : <<d, m>> # <<c, n>> =>
          pc'[<<d, m>>] = pc[<<d, m>>] /\ k'[<<d, m>>] = k[<<d, m>>]
    BY <2>1, <2>2, Types
  <2>6. AirCarries' /\ DeliveredInOrder'
    BY <2>1 DEF Contents, AirCarries, DeliveredInOrder
  <2>7. CopyBegun'
    <3> SUFFICES ASSUME NEW x \in copying PROVE x[2] < k'[<<x[1], Leader[x[1]]>>]
      BY <2>1 DEF Contents, CopyBegun
    <3>1. x[1] \in Stripes /\ Leader[x[1]] \in Trainers
      BY TopologyAssumption DEF Shape, TypeOK
    <3> QED BY <2>1, <2>5, <3>1, <1>0 DEF Contents, CopyBegun
  <2>8. CopyWaits' BY <2>1 DEF Contents, CopyWaits, Running
  <2>9. CopyFirst'
    <3> SUFFICES ASSUME NEW i \in waiting' \cup writing \cup dma, NEW x \in copying,
                        x[1] = i[1], Prev[<<i[1], i[2]>>] = Leader[i[1]], Slot(x[2]) = Slot(i[3])
                 PROVE  i \in waiting' /\ i[3] = x[2]
      BY <2>1 DEF CopyFirst
    <3>1. i \notin new BY <2>1, <2>4, TopologyAssumption
    <3> QED BY <2>1, <3>1 DEF Contents, CopyFirst
  <2>10. SourceHolds'
    <3> SUFFICES ASSUME NEW i \in Items, i \in waiting' \cup dma, ~Empty(i[1])
                 PROVE  LET v == Prev[<<i[1], i[2]>>] IN
                        \/ mem[<<i[1], v, Slot(i[3])>>] = i[3]
                        \/ i \in waiting' /\ v \notin Rollouts /\ <<i[1], i[3]>> \in copying
      BY <2>1 DEF SourceHolds, Shape, TypeOK
    <3>1. CASE i \in new BY <2>3, <2>4, <3>1
    <3>2. CASE i \notin new BY <2>1, <3>2 DEF Contents, SourceHolds
    <3> QED BY <3>1, <3>2
  <2>11. TargetHolds'
    <3> SUFFICES ASSUME NEW i \in Items, ~Empty(i[1]), AtTarget(i)', Landed(i)'
                 PROVE  mem[<<i[1], i[2], Slot(i[3])>>] = i[3]
      BY <2>1 DEF TargetHolds
    <3>1. pc'[<<i[1], i[2]>>] = "arrive" => <<i[1], i[2]>> # <<c, n>> BY <2>1, <2>2, <1>0
    <3>2. AtTarget(i) BY <2>1, <2>5, <3>1, ItemType DEF AtTarget, Announced
    <3>3. Landed(i) BY <2>1 DEF Landed
    <3> QED BY <3>2, <3>3 DEF Contents, TargetHolds
  <2>12. HandHolds'
    <3> SUFFICES ASSUME NEW d \in Stripes, NEW m \in Rollouts, pc'[<<d, m>>] \in {"offer", "held"},
                        ~Empty(d)
                 PROVE  mem[<<d, m, Slot(k'[<<d, m>>])>>] = k'[<<d, m>>]
      BY <2>1 DEF HandHolds
    <3>1. CASE <<d, m>> = <<c, n>>
      <4>1. k' = k BY <2>2, <3>1
      <4> QED BY <2>3, <3>1, <4>1
    <3>2. CASE <<d, m>> # <<c, n>> BY <2>5, <3>2, <1>0 DEF Contents, HandHolds
    <3> QED BY <3>1, <3>2
  <2>13. UnreadHolds'
    <3> SUFFICES ASSUME NEW d \in Stripes, NEW m \in Rollouts, ~Empty(d),
                        NEW a \in Len(got[<<d, m>>]) .. k'[<<d, m>>] - 1
                 PROVE  mem[<<d, m, Slot(a)>>] = a
      BY <2>1 DEF UnreadHolds
    <3>1. k'[<<d, m>>] = k[<<d, m>>]
      <4>1. CASE <<d, m>> = <<c, n>>
        <5>1. d = c BY <4>1
        <5>2. k' = k BY <2>2, <5>1
        <5> QED BY <5>2
      <4>2. CASE <<d, m>> # <<c, n>> BY <2>5, <4>2, <1>0
      <4> QED BY <4>1, <4>2
    <3> QED BY <3>1 DEF Contents, UnreadHolds
  <2> QED BY <2>6, <2>7, <2>8, <2>9, <2>10, <2>11, <2>12, <2>13 DEF Contents
<1>29. ASSUME NEW c \in Stripes, NEW n \in Rollouts, HandOver(c, n) PROVE Contents'
  BY <1>29, <1>0, ContentsStay, HopsType, ItemType
     DEF HandOver, Wake, Announced, Running, MyItems
<1>30. ASSUME NEW c \in Stripes, NEW n \in Rollouts, AskNext(c, n) PROVE Contents'
  BY <1>30, BucketPasses DEF AskNext
<1>31. ASSUME NEW c \in Stripes, NEW n \in Rollouts, MergeChunk(c, n) PROVE Contents'
  BY <1>31, BucketPasses DEF MergeChunk
<1>32. ASSUME NEW c \in Stripes, NEW n \in Rollouts, AllReleased(c, n) PROVE Contents'
  BY <1>32, <1>0, ContentsStay, HopsType, ItemType
     DEF AllReleased, AfterRelease, Wake, Announced, Running, MyItems
<1>33. ASSUME NEW c \in Stripes, NEW n \in Rollouts, ChainDrained(c, n) PROVE Contents'
  BY <1>33, <1>0, ContentsStay, HopsType, ItemType
     DEF ChainDrained, Wake, Announced, Running, MyItems
<1>34. ASSUME NEW c \in Stripes, NEW n \in Rollouts, ChainFails(c, n) PROVE Contents'
  BY <1>34, <1>0, ContentsStay, HopsType, ItemType
     DEF ChainFails, EndChain, Wake, Announced, Running, MyItems
<1>35. ASSUME NEW c \in Stripes, NEW n \in Rollouts, ReadDone(c, n) PROVE Contents'
  <2> DEFINE b == Len(got[<<c, n>>]) v == mem[<<c, n, Slot(b)>>]
  <2>1. /\ ~Empty(c) /\ b < k[<<c, n>>] /\ got' = [got EXCEPT ![<<c, n>>] = Append(@, v)]
        /\ UNCHANGED <<st, pc, k, waiting, writing, werr, posted, inq, early, mem, copying, dma, air, carried, inbound>>
    BY <1>35 DEF ReadDone
  <2>2. b \in Nat /\ k[<<c, n>>] \in Nat /\ got[<<c, n>>] \in Seq(Values) BY GotType
  <2>3. v = b
    <3>1. b \in b .. k[<<c, n>>] - 1 BY <2>1, <2>2
    <3> QED BY <2>1, <3>1 DEF Contents, UnreadHolds
  <2>4. /\ got'[<<c, n>>] = Append(got[<<c, n>>], b)
        /\ \A x \in Stripes \X Rollouts : x # <<c, n>> => got'[x] = got[x]
    BY <2>1, <2>3 DEF Shape, TypeOK
  <2>5. /\ Len(got'[<<c, n>>]) = b + 1 /\ got'[<<c, n>>][b + 1] = b
        /\ \A x \in 1 .. b : got'[<<c, n>>][x] = got[<<c, n>>][x]
    <3> DEFINE g == got[<<c, n>>]
    <3> HIDE DEF g
    <3>1. g \in Seq(Values) /\ Len(g) \in Nat BY <2>2 DEF g
    <3>2. /\ Len(Append(g, b)) = Len(g) + 1 /\ Append(g, b)[Len(g) + 1] = b
          /\ \A x \in 1 .. Len(g) : Append(g, b)[x] = g[x]
      <4>1. g \in Seq(Values \cup {b}) BY <3>1
      <4> QED BY <4>1
    <3> QED BY <2>4, <3>2 DEF g
  <2>6. CopyBegun' /\ CopyWaits' /\ CopyFirst' /\ SourceHolds' /\ AirCarries' /\ TargetHolds' /\ HandHolds'
    BY <2>1 DEF Contents, CopyBegun, CopyWaits, CopyFirst, SourceHolds, AirCarries, TargetHolds,
                AtTarget, Landed, Announced, HandHolds, Running
  <2>7. UnreadHolds'
    <3> SUFFICES ASSUME NEW d \in Stripes, NEW m \in Rollouts, ~Empty(d),
                        NEW a \in Len(got'[<<d, m>>]) .. k[<<d, m>>] - 1
                 PROVE  a \in Len(got[<<d, m>>]) .. k[<<d, m>>] - 1
      BY <2>1 DEF Contents, UnreadHolds
    <3>1. CASE <<d, m>> = <<c, n>> BY <2>2, <2>5, <3>1
    <3>2. CASE <<d, m>> # <<c, n>> BY <2>4, <3>2
    <3> QED BY <3>1, <3>2
  <2>8. DeliveredInOrder'
    <3> SUFFICES ASSUME NEW d \in Stripes, NEW m \in Rollouts, NEW x \in 1 .. Len(got'[<<d, m>>])
                 PROVE  got'[<<d, m>>][x] = x - 1
      BY DEF DeliveredInOrder
    <3>1. CASE <<d, m>> = <<c, n>>
      <4>1. d = c /\ m = n /\ (x \in 1 .. b \/ x = b + 1) BY <2>2, <2>5, <3>1
      <4> QED BY <2>2, <2>5, <4>1 DEF Contents, DeliveredInOrder
    <3>2. CASE <<d, m>> # <<c, n>> BY <2>4, <3>2 DEF Contents, DeliveredInOrder
    <3> QED BY <3>1, <3>2
  <2> QED BY <2>6, <2>7, <2>8 DEF Contents
<1>36. ASSUME NEW h \in Hops, Release(h) PROVE Contents'
  BY <1>36, <1>0, ContentsStay, HopsType, ItemType
     DEF Release, Wake, Announced, Running, MyItems
<1>37. ASSUME NEW h \in Hops, ReleaseFails(h) PROVE Contents'
  BY <1>37, <1>0, ContentsStay, HopsType, ItemType
     DEF ReleaseFails, Wake, Announced, Running, MyItems
<1>38. ASSUME NEW h \in Hops, DeliverFree(h) PROVE Contents'
  BY <1>38, <1>0, ContentsStay, HopsType, ItemType
     DEF DeliverFree, Wake, Announced, Running, MyItems
<1>39. ASSUME NEW m \in stale, DropStale(m) PROVE Contents'
  BY <1>39, <1>0, ContentsStay, HopsType, ItemType
     DEF DropStale, Wake, Announced, Running, MyItems
<1>40. CASE UNCHANGED vars BY <1>40, ContentsStay DEF vars, Announced, Running
<1> QED BY <1>1, <1>2, <1>3, <1>4, <1>5, <1>6, <1>7, <1>8, <1>9, <1>10, <1>11, <1>12, <1>13,
   <1>14, <1>15, <1>16, <1>17, <1>18, <1>19, <1>20, <1>21, <1>22, <1>23, <1>24, <1>25, <1>26,
   <1>27, <1>28, <1>29, <1>30, <1>31, <1>32, <1>33, <1>34, <1>35, <1>36, <1>37, <1>38, <1>39,
   <1>40 DEF Next, Stopped

-----------------------------------------------------------------------------
(* Accounts: nothing is lost unless somebody failed.                         *)

\* Who failed has failed for good, and the slots of a failed receiver are
\* never granted again.
LEMMA LossesStay ==
  ASSUME Shape, Shape',
         \A w \in Workers : st[w] = "failed" => st'[w] = "failed",
         \A c \in Stripes, w \in Workers :
           pc[<<c, w>>] = "error" => pc'[<<c, w>>] = "error" \/ st'[w] = "failed",
         \A x \in werr : x \in werr' \/ st'[x[2]] = "failed",
         \A h \in Hops : Granted(h)' =>
           Granted(h) \/ (st[h[2]] # "failed" /\ pc[<<h[1], h[2]>>] # "error")
  PROVE  \A i \in Items : /\ LostByWriter(i) => LostByWriter(i)'
                          /\ LostByReceiver(i) => LostByReceiver(i)'
<1> SUFFICES ASSUME NEW i \in Items
             PROVE  /\ LostByWriter(i) => LostByWriter(i)'
                    /\ LostByReceiver(i) => LostByReceiver(i)'
  OBVIOUS
<1>1. LostByWriter(i) => LostByWriter(i)' BY ItemType DEF LostByWriter
<1>2. LostByReceiver(i) => LostByReceiver(i)' BY ItemType DEF LostByReceiver
<1> QED BY <1>1, <1>2

\* What is on its way into a slot, or taken and not yet offered, is lost for
\* good with its receiver: the slot is not granted.
LEMMA LostOnTheWay ==
  ASSUME Shape, Exclusion, NEW i \in Items,
         \/ i \in Moving
         \/ pc[<<i[1], i[2]>>] \in {"arrive", "offer", "held"} /\ k[<<i[1], i[2]>>] = i[3]
  PROVE  ~Granted(<<i[1], i[2], Slot(i[3])>>)
<1> DEFINE h == <<i[1], i[2], Slot(i[3])>>
<1>1. h \in Hops /\ h[1] = i[1] /\ h[2] = i[2] /\ h[3] = Slot(i[3]) BY ItemType
<1>2. CASE i \in Moving
  <2>1. i \in Incoming(h) BY <1>1, <1>2 DEF Incoming, Into
  <2> QED BY <1>1, <2>1 DEF Exclusion, GrantedMeansFree
<1>3. CASE pc[<<i[1], i[2]>>] \in {"arrive", "offer", "held"} /\ k[<<i[1], i[2]>>] = i[3]
  <2>1. Arriving(h) \/ InUse(h) BY <1>1, <1>3 DEF Arriving, InUse, InHand
  <2> QED BY <1>1, <2>1 DEF Exclusion, GrantedMeansFree
<1> QED BY <1>2, <1>3

\* A step that moves no chain keeps the accounts: items move on, or are lost in
\* a write task that leaves its error.
LEMMA LedgerStays ==
  ASSUME Shape, Shape', Accounts, UNCHANGED <<pc, k, got>>,
         \A w \in Workers : st[w] = "failed" => st'[w] = "failed",
         \A n \in Rollouts : st[n] \in {"idle", "open"} => st'[n] \in {"idle", "open", "failed"},
         werr \subseteq werr',
         \A i \in Items : i \in Underway => i \in Underway' \/ LostByWriter(i)',
         waiting' \cup writing' \subseteq waiting \cup writing,
         \A x \in werr' \ werr : Outgoing(x[1], x[2], x[3]) # {},
         \A h \in Hops :
           /\ Granted(h)' => Granted(h) \/ (st[h[2]] # "failed" /\ pc[<<h[1], h[2]>>] # "error")
           /\ rel[h] # "none" /\ rel'[h] = "none" =>
                Outgoing(h[1], h[2], h[3]) = {} /\ h \notin werr' /\ ~Unread(h[1], h[2], h[3]),
         Successful'
  PROVE  Accounts'
<1>1. CountersBound' BY DEF Accounts, CountersBound
<1>2. Conserved'
  <2> SUFFICES ASSUME NEW i \in Items, i[3] < Begun(i[1], Prev[<<i[1], i[2]>>])'
               PROVE  \/ i \in Underway' \/ i[3] < Taken(i[1], i[2])'
                      \/ LostByWriter(i)' \/ LostByReceiver(i)'
    BY DEF Conserved
  <2> DEFINE w == Prev[<<i[1], i[2]>>]
  <2>1. CASE st'[w] = "failed" BY <2>1 DEF LostByWriter
  <2>2. CASE st'[w] # "failed"
    <3>1. i[3] < Begun(i[1], w)
      <4>1. i[3] \in Nat /\ i[1] \in Stripes /\ w \in Workers BY ItemType
      <4>2. CASE w \in Rollouts /\ st[w] \in {"idle", "open"}
        <5>1. st'[w] \in {"idle", "open"} BY <2>2, <4>2
        <5> QED BY <4>2, <5>1 DEF Begun
      <4>3. CASE ~(w \in Rollouts /\ st[w] \in {"idle", "open"})
        <5>1. k[<<i[1], w>>] \in Nat BY <4>1, Types
        <5> QED BY <4>1, <4>3, <5>1 DEF Begun
      <4> QED BY <4>2, <4>3
    <3>2. \/ i \in Underway \/ i[3] < Taken(i[1], i[2])
          \/ LostByWriter(i) \/ LostByReceiver(i)
      BY <3>1 DEF Accounts, Conserved
    <3>3. CASE i \in Underway BY <3>3
    <3>4. CASE i[3] < Taken(i[1], i[2]) BY <3>4 DEF Taken
    <3>5. CASE LostByWriter(i) \/ LostByReceiver(i) BY <3>5, LossesStay
    <3> QED BY <3>2, <3>3, <3>4, <3>5
  <2> QED BY <2>1, <2>2
<1>3. \A c, w, s : Outgoing(c, w, s)' \subseteq Outgoing(c, w, s) BY DEF Outgoing
<1>4. ReleaseKnows'
  <2> SUFFICES ASSUME NEW h \in Hops, st'[h[2]] # "failed", pc[<<h[1], h[2]>>] # "error",
                      Outgoing(h[1], h[2], h[3])' # {} \/ h \in werr' \/ Unread(h[1], h[2], h[3]),
                      rel'[h] = "none"
               PROVE  InHand(h)
    BY DEF ReleaseKnows, InHand, Unread
  <2>1. Outgoing(h[1], h[2], h[3]) # {} \/ h \in werr \/ Unread(h[1], h[2], h[3]) BY <1>3
  <2>2. st[h[2]] # "failed" BY HopsType
  <2>3. rel[h] # "none" \/ InHand(h) BY <2>1, <2>2 DEF Accounts, ReleaseKnows
  <2>4. rel[h] # "none" => ~(Outgoing(h[1], h[2], h[3])' # {} \/ h \in werr' \/ Unread(h[1], h[2], h[3]))
    BY <1>3
  <2> QED BY <2>3, <2>4
<1>5. Flushed' BY <1>3 DEF Accounts, Flushed
<1>6. ChainsRead' BY DEF Accounts, ChainsRead, AllRead
<1> QED BY <1>1, <1>2, <1>4, <1>5, <1>6 DEF Accounts

\* Who has succeeded stays so: nothing starts to leave its region.
LEMMA SuccessStays ==
  ASSUME Successful, dma' \subseteq dma, \A i \in dma' : i \in inflight => i \in inflight',
         \A w \in Workers : st'[w] = "done" =>
           st[w] = "done" /\ \A c \in Stripes : pc[<<c, w>>] = "done" => pc'[<<c, w>>] = "done"
  PROVE  Successful'
BY DEF Successful

\* A write task that ends leaves its error.
LEMMA TaskEnds ==
  ASSUME Shape, Shape', Accounts, NEW j \in Items, j \in waiting \cup writing, WriteTaskFails(j)
  PROVE  Accounts'
<1> USE DEF inbox, device
<1> DEFINE w == Prev[<<j[1], j[2]>>]
<1>1. /\ waiting' = waiting \ Siblings(j) /\ writing' = writing \ Siblings(j)
      /\ werr' = werr \cup {<<j[1], w, Slot(j[3])>>}
      /\ UNCHANGED <<st, pc, k, aborted, rel, credit, frees, posted, inq, early, dma, air, got, inflight>>
  BY DEF WriteTaskFails
<1>2. \A i \in Siblings(j) : i[1] = j[1] /\ Prev[<<i[1], i[2]>>] = w /\ i[3] = j[3]
  BY DEF Siblings, Nexts
<1>3. \A i \in Items : i \in Underway => i \in Underway' \/ LostByWriter(i)'
  <2> SUFFICES ASSUME NEW i \in Items, i \in Underway, i \notin Underway' PROVE LostByWriter(i)'
    OBVIOUS
  <2>1. i \in Siblings(j) BY <1>1 DEF Underway, Announced
  <2> QED BY <1>1, <1>2, <2>1 DEF LostByWriter
<1>4. Outgoing(j[1], w, Slot(j[3])) # {} BY DEF Outgoing
<1>5. \A x \in werr' \ werr : Outgoing(x[1], x[2], x[3]) # {} BY <1>1, <1>4
<1>6. Successful' BY <1>1 DEF Accounts, Successful
<1>7. \A h \in Hops : Granted(h)' = Granted(h) BY <1>1 DEF Granted, Credited
<1> QED BY <1>1, <1>3, <1>5, <1>6, <1>7, LedgerStays

\* A write that is over has its task, or its writer failed.
LEMMA WriteOver ==
  ASSUME SlotDiscipline, Successful, NEW i \in Items, i \in dma
  PROVE  i \in writing \/ LostByWriter(i)
<1> DEFINE w == Prev[<<i[1], i[2]>>]
<1>1. /\ i \in writing \/ <<i[1], w, Slot(i[3])>> \in werr
         \/ ~Running(w) \/ pc[<<i[1], w>>] = "error"
      /\ st[w] \notin {"idle", "open"} /\ w \in Workers
  BY ItemType DEF SlotDiscipline, Exclusion, WriteAccounted, Order, NothingBeforeStart
<1>2. st[w] # "done" BY <1>1 DEF Successful
<1>3. st[w] \in {"run", "failing", "failed"}
  BY <1>1, <1>2 DEF SlotDiscipline, Shape, TypeOK
<1> QED BY <1>1, <1>3 DEF Running, LostByWriter

\* Wake: nothing is granted by it.
LEMMA WakeGrantsNothing ==
  ASSUME NEW w, Wake(w), UNCHANGED frees
  PROVE  \A h \in Hops : Granted(h)' => Granted(h)
BY DEF Wake, Granted, Credited, MyHops

\* A worker whose last credits have come: its next hops have read everything.
LEMMA DrainedMeansRead ==
  ASSUME SlotDiscipline, Accounts, NEW c \in Stripes, NEW w \in Workers, st[w] # "failed",
         st[w] \notin {"idle", "open"}, w \in Rollouts \/ w = Leader[c],
         pc[<<c, w>>] = "drain", Drained(c, w), w \notin aborted
  PROVE  \A n \in Nexts(c, w) : AllRead(c, n)
<1> SUFFICES ASSUME NEW n \in Nexts(c, w) PROVE AllRead(c, n) OBVIOUS
<1> /\ Shape /\ Order /\ Exclusion BY DEF SlotDiscipline
<1>1. n \in Rollouts /\ Prev[<<c, n>>] = w BY DEF Nexts
<1>2. /\ k[<<c, n>>] \in Nat /\ Len(got[<<c, n>>]) \in Nat /\ NumBuckets(c) \in Nat \ {0}
      /\ Load[c] \in Nat
  BY <1>1, GotType, NumBucketsType, SizeAssumption
<1>3. \A s \in Slots : LET h == <<c, n, s>> IN
        /\ h \in Hops /\ Granted(h) /\ Incoming(h) = {} /\ ~InUse(h) /\ ~Arriving(h)
  <2> SUFFICES ASSUME NEW s \in Slots
               PROVE  LET h == <<c, n, s>> IN
                      /\ h \in Hops /\ Granted(h) /\ Incoming(h) = {} /\ ~InUse(h) /\ ~Arriving(h)
    OBVIOUS
  <2>1. <<c, n, s>> \in Hops BY <1>1 DEF Hops
  <2>2. Granted(<<c, n, s>>) BY <1>1 DEF Drained, Granted, Credited
  <2> QED BY <2>1, <2>2 DEF Exclusion, GrantedMeansFree
<1>4. ASSUME NEW b \in Nat, b < NumBuckets(c) PROVE b < Taken(c, n)
  <2> DEFINE i == <<c, n, b>>
  <2>1. i \in Items /\ Slot(b) \in Slots BY <1>1, <1>4, ItemsChar, SlotType
  <2>2. b < Begun(c, w)
    <3>1. k[<<c, w>>] = NumBuckets(c) BY DEF Accounts, CountersBound
    <3> QED BY <1>2, <1>4, <3>1 DEF Begun
  <2>3. \/ i \in Underway \/ b < Taken(c, n) \/ LostByWriter(i) \/ LostByReceiver(i)
    BY <1>1, <2>1, <2>2 DEF Accounts, Conserved
  <2>4. i \notin Underway
    <3>0. i[1] = c /\ i[2] = n /\ i[3] = b OBVIOUS
    <3>1. i \notin waiting
      <4>1. Outgoing(c, w, Slot(b)) = {} BY <2>1 DEF Accounts, Flushed
      <4> HIDE DEF i
      <4> QED BY <1>1, <3>0, <4>1 DEF Outgoing
    <3>2. i \notin Moving
      <4>1. Incoming(<<c, n, Slot(b)>>) = {} BY <1>3, <2>1
      <4> HIDE DEF i
      <4> QED BY <3>0, <4>1 DEF Incoming, Into
    <3> QED BY <3>1, <3>2 DEF Underway, Moving
  <2>5. ~LostByWriter(i) BY <1>1, <2>1 DEF LostByWriter, Accounts, Flushed
  <2>6. ~LostByReceiver(i) BY <1>3, <2>1 DEF LostByReceiver
  <2> QED BY <2>3, <2>4, <2>5, <2>6
<1>5. Taken(c, n) = k[<<c, n>>]
  <2>1. Slot(k[<<c, n>>]) \in Slots BY <1>2, SlotType
  <2>2. pc[<<c, n>>] \notin {"arrive", "offer", "held"}
    BY <1>3, <2>1 DEF InUse, InHand, Arriving
  <2> QED BY <2>2 DEF Taken
<1>6. k[<<c, n>>] >= NumBuckets(c)
  <2>1. NumBuckets(c) - 1 \in Nat /\ NumBuckets(c) - 1 < NumBuckets(c) BY <1>2
  <2>2. NumBuckets(c) - 1 < k[<<c, n>>] BY <1>4, <1>5, <2>1
  <2> QED BY <1>2, <2>2
<1>7. Len(got[<<c, n>>]) <= Load[c] BY <1>1 DEF Accounts, CountersBound
<1>8. CASE Empty(c) BY <1>2, <1>7, <1>8 DEF Empty, AllRead
<1>9. CASE ~Empty(c)
  <2>1. Len(got[<<c, n>>]) >= k[<<c, n>>]
    <3> SUFFICES ASSUME Len(got[<<c, n>>]) < k[<<c, n>>] PROVE FALSE BY <1>2
    <3>1. Len(got[<<c, n>>]) \in Len(got[<<c, n>>]) .. k[<<c, n>>] - 1 BY <1>2
    <3>2. Unread(c, n, Slot(Len(got[<<c, n>>]))) BY <1>9, <3>1 DEF Unread
    <3> QED BY <1>2, <1>3, <3>2, SlotType DEF InUse
  <2>2. NumBuckets(c) = Load[c] BY <1>9 DEF NumBuckets, Empty
  <2> QED BY <1>2, <1>6, <1>7, <2>1, <2>2 DEF AllRead
<1> QED BY <1>8, <1>9

\* A chain whose release tasks are over has written and read everything.
LEMMA ReleasedMeansRead ==
  ASSUME Shape, Accounts, NEW c \in Stripes, NEW n \in Rollouts, pc[<<c, n>>] = "final",
         st[n] # "failed", \A s \in Slots : rel[<<c, n, s>>] = "none"
  PROVE  /\ AllRead(c, n)
         /\ \A s \in Slots : Outgoing(c, n, s) = {} /\ <<c, n, s>> \notin werr
<1>1. ASSUME NEW s \in Slots
      PROVE  Outgoing(c, n, s) = {} /\ <<c, n, s>> \notin werr /\ ~Unread(c, n, s)
  <2>1. <<c, n, s>> \in Hops BY DEF Hops
  <2>2. ~InHand(<<c, n, s>>) BY DEF InHand
  <2> QED BY <2>1, <2>2 DEF Accounts, ReleaseKnows
<1>2. /\ k[<<c, n>>] = NumBuckets(c) /\ Len(got[<<c, n>>]) \in Nat
      /\ Len(got[<<c, n>>]) <= k[<<c, n>>] /\ Len(got[<<c, n>>]) <= Load[c]
      /\ NumBuckets(c) \in Nat \ {0} /\ Load[c] \in Nat
  BY HopsType, GotType, NumBucketsType, SizeAssumption DEF Accounts, CountersBound
<1>3. CASE Empty(c) BY <1>1, <1>2, <1>3 DEF Empty, AllRead
<1>4. CASE ~Empty(c)
  <2>1. Len(got[<<c, n>>]) = k[<<c, n>>]
    <3> SUFFICES ASSUME Len(got[<<c, n>>]) < k[<<c, n>>] PROVE FALSE BY <1>2
    <3>1. Len(got[<<c, n>>]) \in Len(got[<<c, n>>]) .. k[<<c, n>>] - 1 BY <1>2
    <3>2. Unread(c, n, Slot(Len(got[<<c, n>>]))) BY <1>4, <3>1 DEF Unread
    <3> QED BY <1>1, <1>2, <3>2, SlotType
  <2>2. NumBuckets(c) = Load[c] BY <1>4 DEF NumBuckets, Empty
  <2> QED BY <1>1, <1>2, <2>1, <2>2 DEF AllRead
<1> QED BY <1>3, <1>4

\* A success is reported when no status is left of a write out of the region.
LEMMA CompleteSucceeds ==
  ASSUME Shape, Successful, NEW w \in Workers, Complete(w), UNCHANGED <<dma, inflight>>,
         st[w] # "done",
         \A c \in Stripes : w \in Rollouts \/ Leader[c] = w => pc'[<<c, w>>] = "done",
         \A c \in Stripes, v \in Workers : pc[<<c, v>>] = "done" => pc'[<<c, v>>] = "done"
  PROVE  Successful'
<1>1. /\ st'[w] = "done" => inflight \cap MyItems(w) = {}
      /\ \A v \in Workers : v # w => st'[v] = st[v]
  BY Types DEF Complete
<1>2. \A i \in dma : i \in Items BY Types DEF Underway
<1>3. st'[w] = "done" => \A i \in dma : Prev[<<i[1], i[2]>>] # w
  BY <1>1, <1>2 DEF Successful, MyItems
<1> QED BY <1>1, <1>3 DEF Successful

\* A step of one chain that begins and takes no bucket, and hands none back.
LEMMA ChainMoves ==
  ASSUME Shape, Shape', Accounts, NEW c \in Stripes, NEW w \in Workers, NEW q,
         pc' = [pc EXCEPT ![<<c, w>>] = q], q # "error", pc[<<c, w>>] # "error",
         UNCHANGED <<k, got, tasks, posted, inq, early, dma>>,
         Begun(c, w)' = Begun(c, w),
         \A v \in Workers : v # w => st'[v] = st[v],
         st[w] # "failed",
         w \in Rollouts => /\ Taken(c, w)' = Taken(c, w) /\ st[w] \notin {"idle", "open"}
                           /\ st'[w] \notin {"idle", "open"}
                           /\ pc[<<c, w>>] \in {"offer", "held"} => q \in {"offer", "held"},
         \A h \in Hops : Granted(h)' => Granted(h),
         q \in {"flush", "final", "drain", "done"} => k[<<c, w>>] = NumBuckets(c),
         q \in {"drain", "done"} =>
           /\ \A s \in Slots : Outgoing(c, w, s) = {} /\ <<c, w, s>> \notin werr
           /\ w \in Rollouts => AllRead(c, w),
         q = "done" => \A n \in Nexts(c, w) : AllRead(c, n),
         Successful'
  PROVE  Accounts'
<1>0. /\ DOMAIN pc = Stripes \X Workers /\ pc'[<<c, w>>] = q /\ Rollouts \subseteq Workers
      /\ \A d \in Stripes, v \in Workers : <<d, v>> # <<c, w>> => pc'[<<d, v>>] = pc[<<d, v>>]
  BY Types DEF Workers
<1>1. CountersBound'
  <2>1. \A d \in Stripes, v \in Workers :
          pc'[<<d, v>>] \in {"flush", "final", "drain", "done"} => k[<<d, v>>] = NumBuckets(d)
    <3> SUFFICES ASSUME NEW d \in Stripes, NEW v \in Workers,
                        pc'[<<d, v>>] \in {"flush", "final", "drain", "done"}
                 PROVE  k[<<d, v>>] = NumBuckets(d)
      OBVIOUS
    <3>1. CASE <<d, v>> = <<c, w>> BY <3>1, <1>0
    <3>2. CASE <<d, v>> # <<c, w>> BY <3>2, <1>0 DEF Accounts, CountersBound
    <3> QED BY <3>1, <3>2
  <2> QED BY <2>1 DEF Accounts, CountersBound
<1>2. Conserved'
  <2> SUFFICES ASSUME NEW i \in Items, i[3] < Begun(i[1], Prev[<<i[1], i[2]>>])'
               PROVE  \/ i \in Underway' \/ i[3] < Taken(i[1], i[2])'
                      \/ LostByWriter(i)' \/ LostByReceiver(i)'
    BY DEF Conserved
  <2> DEFINE v == Prev[<<i[1], i[2]>>]
  <2>1. i[1] \in Stripes /\ i[2] \in Rollouts /\ v \in Workers BY ItemType
  <2>2. Begun(i[1], v)' = Begun(i[1], v)
    <3>1. CASE <<i[1], v>> = <<c, w>> BY <3>1
    <3>2. CASE <<i[1], v>> # <<c, w>>
      <4>1. CASE v = w
        <5>1. pc'[<<i[1], v>>] = pc[<<i[1], v>>] BY <2>1, <3>2, <1>0
        <5> QED BY <4>1, <5>1 DEF Begun
      <4>2. CASE v # w BY <2>1, <3>2, <4>2, <1>0 DEF Begun
      <4> QED BY <4>1, <4>2
    <3> QED BY <3>1, <3>2
  <2>3. Taken(i[1], i[2])' = Taken(i[1], i[2])
    <3>1. CASE <<i[1], i[2]>> = <<c, w>>
      <4>1. i[1] = c /\ i[2] = w BY <3>1
      <4> QED BY <2>1, <4>1
    <3>2. CASE <<i[1], i[2]>> # <<c, w>> BY <2>1, <3>2, <1>0 DEF Taken
    <3> QED BY <3>1, <3>2
  <2>4. /\ LostByWriter(i) => LostByWriter(i)' 
        /\ LostByReceiver(i) => LostByReceiver(i)'
    <3>1. \A u \in Workers : st[u] = "failed" => st'[u] = "failed" OBVIOUS
    <3>2. \A d \in Stripes, u \in Workers : pc[<<d, u>>] = "error" => pc'[<<d, u>>] = "error"
      <4> SUFFICES ASSUME NEW d \in Stripes, NEW u \in Workers, pc[<<d, u>>] = "error"
                   PROVE  pc'[<<d, u>>] = "error"
        OBVIOUS
      <4>1. <<d, u>> # <<c, w>> OBVIOUS
      <4> QED BY <4>1, <1>0
    <3> QED BY <3>1, <3>2, LossesStay DEF tasks
  <2> QED BY <2>2, <2>3, <2>4 DEF Accounts, Conserved, Underway, Announced, tasks
<1>3. ReleaseKnows'
  <2> SUFFICES ASSUME NEW h \in Hops, st'[h[2]] # "failed", pc'[<<h[1], h[2]>>] # "error",
                      Outgoing(h[1], h[2], h[3]) # {} \/ h \in werr \/ Unread(h[1], h[2], h[3])
               PROVE  rel[h] # "none" \/ InHand(h)'
    BY DEF ReleaseKnows, Outgoing, Unread, tasks
  <2>1. h[1] \in Stripes /\ h[2] \in Rollouts /\ h[2] \in Workers BY HopsType
  <2>2. CASE <<h[1], h[2]>> = <<c, w>>
    <3>1. h[1] = c /\ h[2] = w BY <2>2
    <3>2. rel[h] # "none" \/ InHand(h) BY <3>1 DEF Accounts, ReleaseKnows
    <3>3. InHand(h) => InHand(h)' BY <2>1, <3>1, <1>0 DEF InHand
    <3> QED BY <3>2, <3>3
  <2>3. CASE <<h[1], h[2]>> # <<c, w>>
    <3>1. pc'[<<h[1], h[2]>>] = pc[<<h[1], h[2]>>] BY <2>1, <2>3, <1>0
    <3>2. st[h[2]] # "failed" BY <2>1
    <3>3. rel[h] # "none" \/ InHand(h) BY <3>1, <3>2 DEF Accounts, ReleaseKnows
    <3> QED BY <3>1, <3>3 DEF InHand
  <2> QED BY <2>2, <2>3
<1>4. Flushed'
  <2> SUFFICES ASSUME NEW d \in Stripes, NEW v \in Workers, NEW s \in Slots,
                      pc'[<<d, v>>] \in {"drain", "done"}
               PROVE  Outgoing(d, v, s) = {} /\ <<d, v, s>> \notin werr
    BY DEF Flushed, Outgoing, tasks
  <2>1. CASE <<d, v>> = <<c, w>>
    <3>1. d = c /\ v = w BY <2>1
    <3> QED BY <3>1, <1>0
  <2>2. CASE <<d, v>> # <<c, w>> BY <2>2, <1>0 DEF Accounts, Flushed
  <2> QED BY <2>1, <2>2
<1>5. ChainsRead'
  <2> SUFFICES ASSUME NEW d \in Stripes, NEW v \in Workers
               PROVE  /\ pc'[<<d, v>>] \in {"drain", "done"} /\ v \in Rollouts => AllRead(d, v)
                      /\ pc'[<<d, v>>] = "done" => \A n \in Nexts(d, v) : AllRead(d, n)
    BY DEF ChainsRead, AllRead
  <2>1. CASE <<d, v>> = <<c, w>>
    <3>1. d = c /\ v = w BY <2>1
    <3> QED BY <3>1, <1>0
  <2>2. CASE <<d, v>> # <<c, w>> BY <2>2, <1>0 DEF Accounts, ChainsRead
  <2> QED BY <2>1, <2>2
<1> QED BY <1>1, <1>2, <1>3, <1>4, <1>5 DEF Accounts

\* When the loop moves on, the release task of the slot takes over.
LEMMA LedgerPasses ==
  ASSUME Shape, Shape', Accounts, NEW c \in Stripes, NEW n \in Rollouts, AfterBucket(c, n),
         pc[<<c, n>>] \in {"offer", "held"}, st[n] \notin {"idle", "open", "failed", "done"},
         UNCHANGED <<st, aborted, waiting, writing, werr, inflight, credit, inbox, device>>
  PROVE  Accounts'
<1> USE DEF inbox, device
<1> DEFINE b == k[<<c, n>>] g == <<c, n, Slot(b)>>
<1>0. /\ n \in Workers /\ DOMAIN pc = Stripes \X Workers /\ b \in Nat /\ b < NumBuckets(c)
      /\ NumBuckets(c) \in Nat /\ g \in Hops /\ DOMAIN rel = Hops
  BY HopsType, Types, NumBucketsType DEF Shape, BucketLeft
<1>1. /\ k' = [k EXCEPT ![<<c, n>>] = b + 1] /\ rel' = [rel EXCEPT ![g] = "wait"]
      /\ pc' = [pc EXCEPT ![<<c, n>>] = IF b + 1 = NumBuckets(c) THEN "final" ELSE "bucket"]
  BY DEF AfterBucket
<1>2. \A d \in Stripes, v \in Workers : <<d, v>> # <<c, n>> =>
        pc'[<<d, v>>] = pc[<<d, v>>] /\ k'[<<d, v>>] = k[<<d, v>>]
  BY <1>0, <1>1, Types
<1>3. k'[<<c, n>>] = b + 1 /\ pc'[<<c, n>>] \in {"final", "bucket"}
      /\ (pc'[<<c, n>>] = "final" => b + 1 = NumBuckets(c))
  BY <1>0, <1>1, Types
<1>4. CountersBound'
  <2>1. ASSUME NEW d \in Stripes, NEW v \in Workers
        PROVE  /\ k'[<<d, v>>] <= NumBuckets(d)
               /\ pc'[<<d, v>>] \in {"flush", "final", "drain", "done"} => k'[<<d, v>>] = NumBuckets(d)
    <3>1. CASE <<d, v>> = <<c, n>>
      <4>1. d = c /\ v = n BY <3>1
      <4> QED BY <4>1, <1>0, <1>3
    <3>2. CASE <<d, v>> # <<c, n>> BY <3>2, <1>2 DEF Accounts, CountersBound
    <3> QED BY <3>1, <3>2
  <2>2. ASSUME NEW d \in Stripes, NEW m \in Rollouts
        PROVE  Len(got[<<d, m>>]) <= k'[<<d, m>>] /\ Len(got[<<d, m>>]) <= Load[d]
    <3>0. /\ m \in Workers /\ Len(got[<<d, m>>]) \in Nat /\ k[<<d, m>>] \in Nat
          /\ Len(got[<<d, m>>]) <= k[<<d, m>>] /\ Len(got[<<d, m>>]) <= Load[d]
      BY HopsType, GotType DEF Accounts, CountersBound
    <3>1. k'[<<d, m>>] = k[<<d, m>>] \/ k'[<<d, m>>] = k[<<d, m>>] + 1 BY <3>0, <1>2, <1>3
    <3> QED BY <3>0, <3>1
  <2> QED BY <2>1, <2>2 DEF CountersBound
<1>5. Conserved'
  <2> SUFFICES ASSUME NEW i \in Items, i[3] < Begun(i[1], Prev[<<i[1], i[2]>>])'
               PROVE  \/ i \in Underway' \/ i[3] < Taken(i[1], i[2])'
                      \/ LostByWriter(i)' \/ LostByReceiver(i)'
    BY DEF Conserved
  <2> DEFINE v == Prev[<<i[1], i[2]>>]
  <2>1. i[1] \in Stripes /\ i[2] \in Rollouts /\ i[2] \in Workers /\ v \in Workers
        /\ i[3] \in Nat /\ i[3] < NumBuckets(i[1])
    BY ItemType
  <2>2. i[3] < Begun(i[1], v)
    <3>1. CASE <<i[1], v>> = <<c, n>>
      <4>1. i[1] = c /\ v = n BY <3>1
      <4>2. Begun(c, n) = b + 1 BY <1>0 DEF Begun
      <4>3. CASE pc'[<<c, n>>] = "final" BY <1>0, <1>3, <2>1, <4>1, <4>2, <4>3
      <4>4. CASE pc'[<<c, n>>] = "bucket"
        <5>1. Begun(c, n)' = b + 1 BY <1>3, <4>4 DEF Begun
        <5> QED BY <4>1, <4>2, <5>1
      <4> QED BY <1>3, <4>3, <4>4
    <3>2. CASE <<i[1], v>> # <<c, n>> BY <2>1, <3>2, <1>2 DEF Begun
    <3> QED BY <3>1, <3>2
  <2>3. Taken(i[1], i[2])' = Taken(i[1], i[2])
    <3>1. CASE <<i[1], i[2]>> = <<c, n>>
      <4>1. i[1] = c /\ i[2] = n BY <3>1
      <4> QED BY <1>0, <1>3, <4>1 DEF Taken
    <3>2. CASE <<i[1], i[2]>> # <<c, n>> BY <2>1, <3>2, <1>2 DEF Taken
    <3> QED BY <3>1, <3>2
  <2>4. /\ LostByWriter(i) => LostByWriter(i)'
        /\ LostByReceiver(i) => LostByReceiver(i)'
    <3>2. \A d \in Stripes, u \in Workers : pc[<<d, u>>] = "error" => pc'[<<d, u>>] = "error"
      <4> SUFFICES ASSUME NEW d \in Stripes, NEW u \in Workers, pc[<<d, u>>] = "error"
                   PROVE  pc'[<<d, u>>] = "error"
        OBVIOUS
      <4>1. <<d, u>> # <<c, n>> OBVIOUS
      <4> QED BY <4>1, <1>2
    <3>3. \A h \in Hops : Granted(h)' => Granted(h) BY DEF Granted, Credited
    <3> QED BY <3>2, <3>3, LossesStay
  <2> QED BY <2>2, <2>3, <2>4 DEF Accounts, Conserved, Underway, Announced
<1>6. ReleaseKnows'
  <2> SUFFICES ASSUME NEW h \in Hops, st[h[2]] # "failed", pc'[<<h[1], h[2]>>] # "error",
                      Outgoing(h[1], h[2], h[3]) # {} \/ h \in werr \/ Unread(h[1], h[2], h[3])',
                      h # g
               PROVE  rel[h] # "none" \/ InHand(h)'
    BY <1>0, <1>1 DEF ReleaseKnows, Outgoing
  <2>1. h[1] \in Stripes /\ h[2] \in Rollouts /\ h[2] \in Workers /\ h = <<h[1], h[2], h[3]>>
        /\ h[3] \in Slots
    BY HopsType
  <2>2. CASE <<h[1], h[2]>> = <<c, n>>
    <3>1. h[1] = c /\ h[2] = n /\ h[3] # Slot(b) BY <2>1, <2>2
    <3>2. Unread(h[1], h[2], h[3])' => Unread(h[1], h[2], h[3])
      <4>1. k' = [k EXCEPT ![<<c, n>>] = @ + 1] /\ got' = got BY DEF AfterBucket
      <4>2. \A s \in Slots : Unread(c, n, s)' => Unread(c, n, s) \/ Slot(b) = s
        BY <4>1, UnreadGrows
      <4> QED BY <2>1, <3>1, <4>2
    <3>3. ~InHand(h) BY <3>1 DEF InHand
    <3> QED BY <3>1, <3>2, <3>3 DEF Accounts, ReleaseKnows
  <2>3. CASE <<h[1], h[2]>> # <<c, n>>
    <3>1. pc'[<<h[1], h[2]>>] = pc[<<h[1], h[2]>>] /\ k'[<<h[1], h[2]>>] = k[<<h[1], h[2]>>]
      BY <2>1, <2>3, <1>2
    <3>2. Unread(h[1], h[2], h[3])' = Unread(h[1], h[2], h[3]) BY <3>1 DEF Unread
    <3>3. rel[h] # "none" \/ InHand(h) BY <3>1, <3>2 DEF Accounts, ReleaseKnows
    <3> QED BY <3>1, <3>3 DEF InHand
  <2> QED BY <2>2, <2>3
<1>7. Flushed' /\ ChainsRead'
  <2>1. \A d \in Stripes, v \in Workers : pc'[<<d, v>>] \in {"drain", "done"} => pc'[<<d, v>>] = pc[<<d, v>>]
    <3> SUFFICES ASSUME NEW d \in Stripes, NEW v \in Workers, pc'[<<d, v>>] \in {"drain", "done"}
                 PROVE  pc'[<<d, v>>] = pc[<<d, v>>]
      OBVIOUS
    <3>1. <<d, v>> # <<c, n>> BY <1>3
    <3> QED BY <1>2, <3>1
  <2>2. Flushed' BY <2>1 DEF Accounts, Flushed, Outgoing
  <2>3. ChainsRead' BY <2>1 DEF Accounts, ChainsRead, AllRead
  <2> QED BY <2>2, <2>3
<1>8. Successful'
  <2>1. \A w \in Workers : st[w] = "done" => \A d \in Stripes : <<d, w>> # <<c, n>> OBVIOUS
  <2> QED BY <1>2, <2>1, SuccessStays DEF Accounts
<1> QED BY <1>4, <1>5, <1>6, <1>7, <1>8 DEF Accounts

\* A chain that ends with an exception loses its writes and the bucket it was
\* about to take; the slot of that bucket is not granted again.
LEMMA ChainEnds ==
  ASSUME SlotDiscipline, Shape', Accounts, NEW c \in Stripes, NEW n \in Rollouts, EndChain(c, n),
         Running(n), pc[<<c, n>>] \notin {"offer", "held"},
         early' \subseteq early, early \subseteq early' \cup {<<c, n, k[<<c, n>>]>>},
         UNCHANGED <<st, k, aborted, werr, inflight, credit, frees, posted, inq, device>>
  PROVE  Accounts'
<1> USE DEF device
<1> /\ Shape /\ Exclusion BY DEF SlotDiscipline
<1>0. /\ DOMAIN pc = Stripes \X Workers /\ n \in Workers /\ pc'[<<c, n>>] = "error"
      /\ \A d \in Stripes, v \in Workers : <<d, v>> # <<c, n>> => pc'[<<d, v>>] = pc[<<d, v>>]
      /\ \A i \in Items : <<i[1], Prev[<<i[1], i[2]>>]>> # <<c, n>> =>
           (i \in waiting => i \in waiting') /\ (i \in writing => i \in writing')
      /\ waiting' \subseteq waiting /\ writing' \subseteq writing
      /\ \A h \in Hops : <<h[1], h[2]>> # <<c, n>> => rel'[h] = rel[h]
  BY Types, HopsType DEF EndChain, MyItems
<1>1. CountersBound' BY <1>0 DEF Accounts, CountersBound
<1>2. Conserved'
  <2> SUFFICES ASSUME NEW i \in Items, i[3] < Begun(i[1], Prev[<<i[1], i[2]>>])',
                      ~LostByWriter(i)'
               PROVE  i \in Underway' \/ i[3] < Taken(i[1], i[2])' \/ LostByReceiver(i)'
    BY DEF Conserved
  <2> DEFINE v == Prev[<<i[1], i[2]>>]
  <2>1. i[1] \in Stripes /\ i[2] \in Rollouts /\ i[2] \in Workers /\ v \in Workers /\ i[3] \in Nat
        /\ i = <<i[1], i[2], i[3]>> /\ k[<<i[1], i[2]>>] \in Nat
    BY ItemType, Types
  <2>2. <<i[1], v>> # <<c, n>>
    <3> SUFFICES ASSUME i[1] = c, v = n PROVE FALSE OBVIOUS
    <3> QED BY <1>0 DEF LostByWriter
  <2>3. Begun(i[1], v)' = Begun(i[1], v) BY <2>1, <2>2, <1>0 DEF Begun
  <2>4. \A h \in Hops : Granted(h)' => Granted(h) BY DEF Granted, Credited
  <2>5. /\ LostByWriter(i) => LostByWriter(i)'
        /\ LostByReceiver(i) => LostByReceiver(i)'
    <3>1. \A d \in Stripes, u \in Workers : pc[<<d, u>>] = "error" => pc'[<<d, u>>] = "error"
      BY <1>0
    <3> QED BY <2>4, <3>1, LossesStay
  <2>6. ASSUME <<i[1], i[2]>> = <<c, n>>,
               \/ i \in Moving
               \/ pc[<<i[1], i[2]>>] \in {"arrive", "offer", "held"} /\ k[<<i[1], i[2]>>] = i[3]
        PROVE  LostByReceiver(i)'
    <3>1. ~Granted(<<i[1], i[2], Slot(i[3])>>)' BY <2>4, <2>6, LostOnTheWay, ItemType
    <3>2. pc'[<<i[1], i[2]>>] = "error" BY <2>6, <1>0
    <3> QED BY <3>1, <3>2 DEF LostByReceiver
  <2>7. CASE i \in Underway
    <3>1. CASE i \in Underway' BY <3>1
    <3>2. CASE i \notin Underway'
      <4>1. i \in early /\ i = <<c, n, k[<<c, n>>]>>
        BY <2>2, <2>7, <3>2, <1>0 DEF Underway, Announced
      <4>2. i[1] = c /\ i[2] = n /\ i \in Moving BY <4>1 DEF Moving, Announced
      <4> QED BY <2>6, <4>2
    <3> QED BY <3>1, <3>2
  <2>8. CASE i[3] < Taken(i[1], i[2])
    <3>1. CASE <<i[1], i[2]>> = <<c, n>>
      <4>1. Taken(i[1], i[2])' = k[<<i[1], i[2]>>] BY <3>1, <1>0 DEF Taken
      <4>2. \/ i[3] < k[<<i[1], i[2]>>]
            \/ pc[<<i[1], i[2]>>] \in {"arrive", "offer", "held"} /\ k[<<i[1], i[2]>>] = i[3]
        BY <2>1, <2>8 DEF Taken
      <4> QED BY <2>6, <3>1, <4>1, <4>2
    <3>2. CASE <<i[1], i[2]>> # <<c, n>> BY <2>1, <2>8, <3>2, <1>0 DEF Taken
    <3> QED BY <3>1, <3>2
  <2> QED BY <2>3, <2>5, <2>7, <2>8 DEF Accounts, Conserved
<1>3. \A d, v, s : Outgoing(d, v, s)' \subseteq Outgoing(d, v, s) BY <1>0 DEF Outgoing
<1>4. ReleaseKnows'
  <2> SUFFICES ASSUME NEW h \in Hops, st[h[2]] # "failed", pc'[<<h[1], h[2]>>] # "error",
                      Outgoing(h[1], h[2], h[3])' # {} \/ h \in werr \/ Unread(h[1], h[2], h[3])
               PROVE  rel'[h] # "none" \/ InHand(h)'
    BY DEF ReleaseKnows, Unread
  <2>1. h[1] \in Stripes /\ h[2] \in Workers BY HopsType
  <2>2. <<h[1], h[2]>> # <<c, n>> BY <1>0
  <2>3. pc'[<<h[1], h[2]>>] = pc[<<h[1], h[2]>>] /\ rel'[h] = rel[h] BY <2>1, <2>2, <1>0
  <2>4. rel[h] # "none" \/ InHand(h) BY <2>3, <1>3 DEF Accounts, ReleaseKnows
  <2> QED BY <2>3, <2>4 DEF InHand
<1>5. \A d \in Stripes, v \in Workers :
        pc'[<<d, v>>] \in {"drain", "done"} => pc'[<<d, v>>] = pc[<<d, v>>]
  BY <1>0
<1>6. Flushed' BY <1>3, <1>5 DEF Accounts, Flushed
<1>7. ChainsRead' BY <1>5 DEF Accounts, ChainsRead, AllRead
<1>8. Successful'
  <2>1. st[n] # "done" BY DEF Running
  <2>2. \A w \in Workers : st[w] = "done" => \A d \in Stripes : pc[<<d, w>>] = "done" => pc'[<<d, w>>] = "done"
    BY <2>1, <1>0
  <2> QED BY <2>2, SuccessStays DEF Accounts
<1> QED BY <1>1, <1>2, <1>4, <1>6, <1>7, <1>8 DEF Accounts


\* Every step keeps the accounts: one step of the proof per action.
LEMMA AccountsStep ==
  SlotDiscipline /\ Accounts /\ [Next]_vars => Accounts'
<1> SUFFICES ASSUME SlotDiscipline, Accounts, [Next]_vars PROVE Accounts' OBVIOUS
<1> USE DEF control, tasks, inbox, device
<1> /\ Shape /\ Order /\ Exclusion BY DEF SlotDiscipline
<1> Shape' BY ShapeStep
<1>0. /\ DOMAIN st = Workers /\ Rollouts \subseteq Workers /\ Trainers \subseteq Workers
      /\ Trainers \cap Rollouts = {} /\ DOMAIN pc = Stripes \X Workers /\ Successful
  BY Types, TopologyAssumption DEF Workers, Accounts
<1>1. ASSUME NEW w \in Trainers, SendWeights(w) PROVE Accounts'
  <2>1. PICK c \in Stripes : Leader[c] = w /\ pc' = [pc EXCEPT ![<<c, w>>] = "pack"]
    BY <1>1 DEF SendWeights
  <2>2. /\ st[w] = "idle" /\ st' = [st EXCEPT ![w] = "run"] /\ w \in Workers /\ w \notin Rollouts
        /\ UNCHANGED <<k, got, waiting, writing, werr, rel, inflight, posted, inq, early, dma, aborted, frees>>
        /\ credit' \subseteq credit
    BY <1>1, <1>0 DEF SendWeights, FreshCredit
  <2>3. pc[<<c, w>>] = "off" BY <2>2 DEF Shape, AtStart
  <2>4. \A u \in Workers : u # w => st'[u] = st[u] /\ \A d \in Stripes : pc'[<<d, u>>] = pc[<<d, u>>]
    BY <2>1, <2>2, <1>0
  <2>5. Successful' BY <2>2, <2>4, <1>0, SuccessStays
  <2>6. \A h \in Hops : Granted(h)' => Granted(h) BY <2>2 DEF Granted, Credited
  <2>7. Begun(c, w)' = Begun(c, w) BY <2>2 DEF Begun
  <2> QED BY <2>1, <2>2, <2>3, <2>4, <2>5, <2>6, <2>7, ChainMoves
<1>2. ASSUME NEW n \in Rollouts, ReceiveWeights(n) PROVE Accounts'
  <2>1. Successful' BY <1>2, <1>0, SuccessStays DEF ReceiveWeights
  <2> QED BY <1>2, <1>0, <2>1, LedgerStays, ItemType, HopsType
     DEF ReceiveWeights, Granted, Credited, Underway, Announced, Outgoing
<1>3. ASSUME NEW n \in Rollouts, StartReceive(n) PROVE Accounts'
  <2>1. /\ st[n] = "open" /\ st' = [st EXCEPT ![n] = "run"] /\ n \in Workers
        /\ pc' = [x \in Stripes \X Workers |-> IF x[2] = n THEN "bucket" ELSE pc[x]]
        /\ credit' \subseteq credit /\ frees' = frees \cup Grants(n)
        /\ UNCHANGED <<k, aborted, faults, tasks, posted, inq, early, device>>
    BY <1>3, <1>0 DEF StartReceive, FreshCredit
  <2>2. /\ \A c \in Stripes : pc[<<c, n>>] = "off" /\ k[<<c, n>>] = 0 /\ pc'[<<c, n>>] = "bucket"
        /\ \A c \in Stripes, v \in Workers : v # n => pc'[<<c, v>>] = pc[<<c, v>>]
        /\ st'[n] = "run" /\ \A v \in Workers : v # n => st'[v] = st[v]
    BY <2>1, <1>0 DEF Shape, AtStart
  <2>3. CountersBound' BY <2>1, <2>2 DEF Accounts, CountersBound
  <2>4. Conserved'
    <3> SUFFICES ASSUME NEW i \in Items, i[3] < Begun(i[1], Prev[<<i[1], i[2]>>])'
                 PROVE  \/ i \in Underway' \/ i[3] < Taken(i[1], i[2])'
                        \/ LostByWriter(i)' \/ LostByReceiver(i)'
      BY DEF Conserved
    <3> DEFINE v == Prev[<<i[1], i[2]>>]
    <3>1. i[1] \in Stripes /\ i[2] \in Rollouts /\ i[2] \in Workers /\ v \in Workers BY ItemType
    <3>2. Begun(i[1], v)' = Begun(i[1], v) BY <2>1, <2>2, <3>1 DEF Begun
    <3>3. Taken(i[1], i[2])' = Taken(i[1], i[2]) BY <2>1, <2>2, <3>1 DEF Taken
    <3>4. Underway' = Underway BY <2>1 DEF Underway, Announced
    <3>5. /\ LostByWriter(i) => LostByWriter(i)'
          /\ LostByReceiver(i) => LostByReceiver(i)'
      <4>1. \A w \in Workers : st[w] = "failed" => st'[w] = "failed" BY <2>1, <2>2
      <4>2. \A d \in Stripes, u \in Workers : pc[<<d, u>>] = "error" => pc'[<<d, u>>] = "error"
        BY <2>2
      <4>3. \A h \in Hops : Granted(h)' =>
              Granted(h) \/ (st[h[2]] # "failed" /\ pc[<<h[1], h[2]>>] # "error")
        BY <2>1, <2>2 DEF Granted, Credited, Grants
      <4> QED BY <2>1, <4>1, <4>2, <4>3, LossesStay
    <3> QED BY <3>2, <3>3, <3>4, <3>5 DEF Accounts, Conserved
  <2>5. ReleaseKnows'
    <3> SUFFICES ASSUME NEW h \in Hops, st'[h[2]] # "failed", pc'[<<h[1], h[2]>>] # "error",
                        Outgoing(h[1], h[2], h[3]) # {} \/ h \in werr \/ Unread(h[1], h[2], h[3])
                 PROVE  rel[h] # "none" \/ InHand(h)'
      BY <2>1 DEF ReleaseKnows, Unread, Outgoing
    <3>1. h[1] \in Stripes /\ h[2] \in Workers BY HopsType
    <3>2. st[h[2]] # "failed" /\ pc[<<h[1], h[2]>>] # "error" BY <2>1, <2>2, <3>1
    <3>3. rel[h] # "none" \/ InHand(h) BY <3>2 DEF Accounts, ReleaseKnows
    <3>4. InHand(h) => InHand(h)' BY <2>1, <2>2, <3>1 DEF InHand
    <3> QED BY <3>3, <3>4
  <2>6. \A d \in Stripes, v \in Workers :
          pc'[<<d, v>>] \in {"drain", "done"} => pc'[<<d, v>>] = pc[<<d, v>>]
    BY <2>2
  <2>7. Flushed' BY <2>1, <2>6 DEF Accounts, Flushed, Outgoing
  <2>8. ChainsRead' BY <2>1, <2>6 DEF Accounts, ChainsRead, AllRead
  <2>9. Successful' BY <2>1, <2>2, <1>0, SuccessStays
  <2> QED BY <2>3, <2>4, <2>5, <2>7, <2>8, <2>9 DEF Accounts
<1>4. ASSUME NEW n \in Rollouts, CloseUnstarted(n) PROVE Accounts'
  <2>1. Successful' BY <1>4, <1>0, SuccessStays DEF CloseUnstarted, BeginFail
  <2> QED BY <1>4, <1>0, <2>1, LedgerStays, ItemType, HopsType
     DEF CloseUnstarted, BeginFail, Granted, Credited, Underway, Announced, Outgoing
<1>5. ASSUME NEW w \in Trainers, DriveGenerator(w) PROVE Accounts'
  <2>1. /\ st' = [st EXCEPT ![w] = "done"] /\ st[w] = "idle" /\ w \notin Rollouts
        /\ \A c \in Stripes : Leader[c] # w
        /\ UNCHANGED <<pc, k, aborted, faults, tasks, credit, inbox, device>>
    BY <1>5, <1>0 DEF DriveGenerator
  <2>2. \A i \in dma : Prev[<<i[1], i[2]>>] # w
    <3> SUFFICES ASSUME NEW i \in Items, Prev[<<i[1], i[2]>>] = w PROVE FALSE
      BY Types DEF Underway
    <3> QED BY <2>1, ItemType
  <2>3. Successful' BY <2>1, <2>2, <1>0 DEF Successful
  <2> QED BY <2>1, <2>3, <1>0, LedgerStays DEF Granted, Credited, Underway, Announced, Outgoing
<1>6. ASSUME NEW n \in Rollouts, RaiseError(n) PROVE Accounts'
  <2>1. Successful' BY <1>6, <1>0, SuccessStays DEF RaiseError, BeginFail
  <2> QED BY <1>6, <1>0, <2>1, LedgerStays, ItemType, HopsType
     DEF RaiseError, BeginFail, Granted, Credited, Underway, Announced, Outgoing
<1>7. ASSUME NEW n \in Rollouts, FinishReceive(n) PROVE Accounts'
  <2>1. /\ st[n] = "run" /\ \A c \in Stripes : pc[<<c, n>>] = "done"
        /\ Complete(n) /\ n \in Workers
        /\ UNCHANGED <<pc, k, aborted, faults, tasks, credit, inbox, device>>
    BY <1>7, <1>0 DEF FinishReceive
  <2>2. Successful'
    <3>1. \A d \in Stripes : n \in Rollouts \/ Leader[d] = n => pc'[<<d, n>>] = "done" BY <2>1
    <3>2. \A d \in Stripes, v \in Workers : pc[<<d, v>>] = "done" => pc'[<<d, v>>] = "done"
      BY <2>1
    <3>3. UNCHANGED <<dma, inflight>> /\ st[n] # "done" BY <2>1
    <3> QED BY <2>1, <3>1, <3>2, <3>3, <1>0, CompleteSucceeds
  <2>3. /\ \A v \in Workers : v # n => st'[v] = st[v]
        /\ st'[n] \in {"done", "failed"}
    BY <2>1, <1>0 DEF Complete
  <2>4. \A h \in Hops : Granted(h)' = Granted(h) BY <2>1 DEF Granted, Credited
  <2>5. Underway' = Underway BY <2>1 DEF Underway, Announced
  <2>6. /\ \A v \in Workers : st[v] = "failed" => st'[v] = "failed"
        /\ \A m \in Rollouts : st[m] \in {"idle", "open"} => st'[m] \in {"idle", "open", "failed"}
    BY <2>1, <2>3, <1>0
  <2> QED BY <2>1, <2>2, <2>4, <2>5, <2>6, LedgerStays
<1>8. ASSUME NEW w \in Workers, Interrupt(w) PROVE Accounts'
  <2>1. Successful' BY <1>8, <1>0, SuccessStays DEF Interrupt, BeginFail
  <2> QED BY <1>8, <1>0, <2>1, LedgerStays, ItemType, HopsType
     DEF Interrupt, BeginFail, Granted, Credited, Underway, Announced, Outgoing
<1>9. ASSUME NEW w \in Workers, PumpFails(w) PROVE Accounts'
  <2>1. Successful' BY <1>9, <1>0, SuccessStays DEF PumpFails, Wake
  <2>2. \A h \in Hops : Granted(h)' => Granted(h) BY <1>9, WakeGrantsNothing DEF PumpFails
  <2> QED BY <1>9, <1>0, <2>1, <2>2, LedgerStays
     DEF PumpFails, Wake, Underway, Announced, Outgoing
<1>10. ASSUME NEW w \in Workers, Reap(w) PROVE Accounts'
  <2>1. /\ st[w] = "failing" /\ st' = [st EXCEPT ![w] = "failed"]
        /\ pc' = [x \in DOMAIN pc |-> IF x[2] = w /\ pc[x] # "held" THEN "off" ELSE pc[x]]
        /\ waiting' = waiting \ MyItems(w) /\ writing' = writing \ MyItems(w)
        /\ werr' = {x \in werr : x[2] # w}
        /\ rel' = [h \in Hops |-> IF h[2] = w THEN "none" ELSE rel[h]]
        /\ aborted' = aborted \ {w} /\ credit' = credit \ MyHops(w) /\ frees' \subseteq frees
        /\ posted' = {i \in posted : i[2] # w} /\ inq' = {i \in inq : i[2] # w}
        /\ early' = {i \in early : i[2] # w}
        /\ UNCHANGED <<k, inflight, device>>
    BY <1>10 DEF Reap
  <2>2. /\ st'[w] = "failed" /\ \A v \in Workers : v # w => st'[v] = st[v]
        /\ \A c \in Stripes, v \in Workers : v # w => pc'[<<c, v>>] = pc[<<c, v>>]
        /\ \A c \in Stripes : /\ pc[<<c, w>>] = "held" => pc'[<<c, w>>] = "held"
                              /\ pc[<<c, w>>] # "held" => pc'[<<c, w>>] = "off"
    BY <2>1, <1>0
  <2>3. \A d \in Stripes, v \in Workers :
          pc'[<<d, v>>] \in {"flush", "final", "drain", "done"} => pc'[<<d, v>>] = pc[<<d, v>>]
    BY <2>2
  <2>4. CountersBound' BY <2>1, <2>3 DEF Accounts, CountersBound
  <2>5. \A h \in Hops : Granted(h)' => Granted(h) BY <2>1 DEF Granted, Credited, MyHops
  <2>6. Conserved'
    <3> SUFFICES ASSUME NEW i \in Items, i[3] < Begun(i[1], Prev[<<i[1], i[2]>>])',
                        ~LostByWriter(i)'
                 PROVE  i \in Underway' \/ i[3] < Taken(i[1], i[2])' \/ LostByReceiver(i)'
      BY DEF Conserved
    <3> DEFINE v == Prev[<<i[1], i[2]>>]
    <3>1. i[1] \in Stripes /\ i[2] \in Rollouts /\ i[2] \in Workers /\ v \in Workers
          /\ i[3] \in Nat /\ k[<<i[1], i[2]>>] \in Nat
      BY ItemType, Types
    <3>2. v # w BY <2>2 DEF LostByWriter
    <3>3. Begun(i[1], v)' = Begun(i[1], v) BY <2>1, <2>2, <3>1, <3>2 DEF Begun
    <3>4. /\ LostByWriter(i) => LostByWriter(i)'
          /\ LostByReceiver(i) => LostByReceiver(i)'
      <4>1. \A u \in Workers : st[u] = "failed" => st'[u] = "failed" BY <2>2
      <4>2. \A d \in Stripes, u \in Workers :
              pc[<<d, u>>] = "error" => pc'[<<d, u>>] = "error" \/ st'[u] = "failed"
        BY <2>2
      <4>3. \A x \in werr : x \in werr' \/ st'[x[2]] = "failed" BY <2>1, <2>2
      <4> QED BY <2>5, <4>1, <4>2, <4>3, LossesStay
    <3>5. ASSUME i[2] = w,
                 \/ i \in Moving
                 \/ pc[<<i[1], i[2]>>] \in {"arrive", "offer", "held"} /\ k[<<i[1], i[2]>>] = i[3]
          PROVE  LostByReceiver(i)'
      <4>1. ~Granted(<<i[1], i[2], Slot(i[3])>>)' BY <2>5, <3>5, LostOnTheWay, ItemType
      <4> QED BY <2>2, <3>5, <4>1 DEF LostByReceiver
    <3>6. CASE i \in Underway
      <4>1. CASE i \in Underway' BY <4>1
      <4>2. CASE i \notin Underway'
        <5>1. i \in Announced /\ i[2] = w
          BY <2>1, <3>2, <3>6, <4>2 DEF Underway, Announced, MyItems
        <5> QED BY <3>5, <5>1 DEF Moving
      <4> QED BY <4>1, <4>2
    <3>7. CASE i[3] < Taken(i[1], i[2])
      <4>1. CASE i[2] = w
        <5>1. Taken(i[1], i[2])' >= k[<<i[1], i[2]>>] BY <2>1, <3>1 DEF Taken
        <5>2. Taken(i[1], i[2])' \in Nat BY <2>1, <3>1 DEF Taken
        <5>3. \/ i[3] < k[<<i[1], i[2]>>]
              \/ pc[<<i[1], i[2]>>] \in {"arrive", "offer", "held"} /\ k[<<i[1], i[2]>>] = i[3]
          BY <3>1, <3>7 DEF Taken
        <5> QED BY <3>1, <3>5, <4>1, <5>1, <5>2, <5>3
      <4>2. CASE i[2] # w BY <2>1, <2>2, <3>1, <3>7, <4>2 DEF Taken
      <4> QED BY <4>1, <4>2
    <3> QED BY <3>3, <3>4, <3>6, <3>7 DEF Accounts, Conserved
  <2>7. \A d, v, s : Outgoing(d, v, s)' \subseteq Outgoing(d, v, s) BY <2>1 DEF Outgoing
  <2>8. ReleaseKnows'
    <3> SUFFICES ASSUME NEW h \in Hops, st'[h[2]] # "failed", pc'[<<h[1], h[2]>>] # "error",
                        Outgoing(h[1], h[2], h[3])' # {} \/ h \in werr' \/ Unread(h[1], h[2], h[3])
                 PROVE  rel'[h] # "none" \/ InHand(h)'
      BY <2>1 DEF ReleaseKnows, Unread
    <3>1. h[1] \in Stripes /\ h[2] \in Workers /\ h[2] # w BY HopsType, <2>2
    <3>2. /\ pc'[<<h[1], h[2]>>] = pc[<<h[1], h[2]>>] /\ rel'[h] = rel[h] /\ st'[h[2]] = st[h[2]]
          /\ k'[<<h[1], h[2]>>] = k[<<h[1], h[2]>>]
      BY <2>1, <2>2, <3>1
    <3>3. rel[h] # "none" \/ InHand(h) BY <2>1, <2>7, <3>2 DEF Accounts, ReleaseKnows
    <3> QED BY <3>2, <3>3 DEF InHand
  <2>9. Flushed' BY <2>1, <2>3, <2>7 DEF Accounts, Flushed
  <2>10. ChainsRead' BY <2>1, <2>3 DEF Accounts, ChainsRead, AllRead
  <2>11. Successful' BY <2>1, <2>2, <1>0, SuccessStays
  <2> QED BY <2>4, <2>6, <2>8, <2>9, <2>10, <2>11 DEF Accounts
<1>11. ASSUME NEW w \in Workers, DeliverAbort(w) PROVE Accounts'
  <2>1. Successful' BY <1>11, <1>0, SuccessStays DEF DeliverAbort, Wake
  <2>2. \A h \in Hops : Granted(h)' => Granted(h) BY <1>11, WakeGrantsNothing DEF DeliverAbort
  <2> QED BY <1>11, <1>0, <2>1, <2>2, LedgerStays
     DEF DeliverAbort, Wake, Underway, Announced, Outgoing
<1>12. ASSUME NEW c \in Stripes, Pack(c) PROVE Accounts'
  <2> DEFINE w == Leader[c] b == k[<<c, w>>] new == {c} \X Nexts(c, w) \X {b}
  <2>1. /\ w \in Workers /\ w \notin Rollouts /\ b \in Nat /\ b < NumBuckets(c)
        /\ NumBuckets(c) \in Nat
    BY <1>12, HopsType, TopologyAssumption, Types, NumBucketsType DEF Pack, Shape, BucketLeft
  <2>2. /\ st[w] = "run" /\ pc[<<c, w>>] = "pack"
        /\ waiting' = waiting \cup new /\ k' = [k EXCEPT ![<<c, w>>] = b + 1]
        /\ pc' = [pc EXCEPT ![<<c, w>>] = IF b + 1 = NumBuckets(c) THEN "flush" ELSE "pack"]
        /\ UNCHANGED <<st, aborted, writing, werr, rel, inflight, credit, inbox, dma, got>>
    BY <1>12 DEF Pack
  <2>3. /\ \A d \in Stripes, v \in Workers : <<d, v>> # <<c, w>> =>
             pc'[<<d, v>>] = pc[<<d, v>>] /\ k'[<<d, v>>] = k[<<d, v>>]
        /\ k'[<<c, w>>] = b + 1 /\ pc'[<<c, w>>] \in {"flush", "pack"}
        /\ pc'[<<c, w>>] = "flush" => b + 1 = NumBuckets(c)
    BY <2>1, <2>2, Types
  <2>4. \A i \in new : i[1] = c /\ Prev[<<i[1], i[2]>>] = w BY DEF Nexts
  <2>5. CountersBound'
    <3>1. ASSUME NEW d \in Stripes, NEW v \in Workers
          PROVE  /\ k'[<<d, v>>] <= NumBuckets(d)
                 /\ pc'[<<d, v>>] \in {"flush", "final", "drain", "done"} => k'[<<d, v>>] = NumBuckets(d)
      <4>1. CASE <<d, v>> = <<c, w>>
        <5>1. d = c /\ v = w BY <4>1
        <5> QED BY <5>1, <2>1, <2>3
      <4>2. CASE <<d, v>> # <<c, w>> BY <4>2, <2>3 DEF Accounts, CountersBound
      <4> QED BY <4>1, <4>2
    <3>2. \A d \in Stripes, m \in Rollouts : k'[<<d, m>>] = k[<<d, m>>] BY <2>1, <2>3, <1>0
    <3> QED BY <2>2, <3>1, <3>2 DEF Accounts, CountersBound
  <2>6. Conserved'
    <3> SUFFICES ASSUME NEW i \in Items, i[3] < Begun(i[1], Prev[<<i[1], i[2]>>])'
                 PROVE  \/ i \in Underway' \/ i[3] < Taken(i[1], i[2])'
                        \/ LostByWriter(i)' \/ LostByReceiver(i)'
      BY DEF Conserved
    <3> DEFINE v == Prev[<<i[1], i[2]>>]
    <3>1. i[1] \in Stripes /\ i[2] \in Rollouts /\ i[2] \in Workers /\ v \in Workers
          /\ i[3] \in Nat /\ i = <<i[1], i[2], i[3]>>
      BY ItemType
    <3>2. Taken(i[1], i[2])' = Taken(i[1], i[2])
      <4>1. i[2] # w BY <2>1, <3>1
      <4> QED BY <2>3, <3>1, <4>1 DEF Taken
    <3>3. /\ LostByWriter(i) => LostByWriter(i)'
          /\ LostByReceiver(i) => LostByReceiver(i)'
      <4>1. \A d \in Stripes, u \in Workers : pc[<<d, u>>] = "error" => pc'[<<d, u>>] = "error"
        <5> SUFFICES ASSUME NEW d \in Stripes, NEW u \in Workers, pc[<<d, u>>] = "error"
                     PROVE  pc'[<<d, u>>] = "error"
          OBVIOUS
        <5>1. <<d, u>> # <<c, w>> BY <2>2
        <5> QED BY <5>1, <2>3
      <4>2. \A h \in Hops : Granted(h)' => Granted(h) BY <2>2 DEF Granted, Credited
      <4> QED BY <2>2, <4>1, <4>2, LossesStay
    <3>4. i \in Underway => i \in Underway' BY <2>2 DEF Underway, Announced
    <3>5. CASE i[3] < Begun(i[1], v) BY <3>2, <3>3, <3>4, <3>5 DEF Accounts, Conserved
    <3>6. CASE ~(i[3] < Begun(i[1], v))
      <4>1. <<i[1], v>> = <<c, w>> BY <2>2, <2>3, <3>1, <3>6 DEF Begun
      <4>2. i[1] = c /\ v = w BY <4>1
      <4>3. Begun(c, w) = b /\ Begun(c, w)' = b + 1 BY <2>1, <2>3 DEF Begun
      <4>4. i[3] = b BY <2>1, <3>1, <3>6, <4>2, <4>3
      <4>5. i \in new BY <3>1, <4>2, <4>4 DEF Nexts
      <4> QED BY <2>2, <4>5 DEF Underway
    <3> QED BY <3>5, <3>6
  <2>7. \A d \in Stripes, v \in Workers : \A s : <<d, v>> # <<c, w>> => Outgoing(d, v, s)' = Outgoing(d, v, s)
    BY <2>2, <2>4 DEF Outgoing
  <2>8. ReleaseKnows'
    <3> SUFFICES ASSUME NEW h \in Hops, st[h[2]] # "failed", pc'[<<h[1], h[2]>>] # "error",
                        Outgoing(h[1], h[2], h[3])' # {} \/ h \in werr \/ Unread(h[1], h[2], h[3])'
                 PROVE  rel[h] # "none" \/ InHand(h)'
      BY <2>2 DEF ReleaseKnows
    <3>1. h[1] \in Stripes /\ h[2] \in Workers /\ h[2] # w BY HopsType, <2>1
    <3>2. /\ pc'[<<h[1], h[2]>>] = pc[<<h[1], h[2]>>] /\ k'[<<h[1], h[2]>>] = k[<<h[1], h[2]>>]
      BY <2>3, <3>1
    <3>3. Outgoing(h[1], h[2], h[3])' = Outgoing(h[1], h[2], h[3]) BY <2>7, <3>1
    <3>4. Unread(h[1], h[2], h[3])' = Unread(h[1], h[2], h[3]) BY <2>2, <3>2 DEF Unread
    <3>5. rel[h] # "none" \/ InHand(h) BY <3>2, <3>3, <3>4 DEF Accounts, ReleaseKnows
    <3> QED BY <3>2, <3>5 DEF InHand
  <2>9. \A d \in Stripes, v \in Workers : pc'[<<d, v>>] \in {"drain", "done"} =>
          <<d, v>> # <<c, w>> /\ pc'[<<d, v>>] = pc[<<d, v>>]
    <3> SUFFICES ASSUME NEW d \in Stripes, NEW v \in Workers, pc'[<<d, v>>] \in {"drain", "done"}
                 PROVE  <<d, v>> # <<c, w>> /\ pc'[<<d, v>>] = pc[<<d, v>>]
      OBVIOUS
    <3>1. <<d, v>> # <<c, w>> BY <2>3
    <3> QED BY <3>1, <2>3
  <2>10. Flushed' BY <2>2, <2>7, <2>9 DEF Accounts, Flushed
  <2>11. ChainsRead' BY <2>2, <2>9 DEF Accounts, ChainsRead, AllRead
  <2>12. Successful'
    <3>1. \A v \in Workers : st[v] = "done" => v # w BY <2>2
    <3> QED BY <2>2, <2>3, <3>1, <1>0, SuccessStays
  <2> QED BY <2>5, <2>6, <2>8, <2>10, <2>11, <2>12 DEF Accounts
<1>13. ASSUME NEW c \in Stripes, CopyDone(c) PROVE Accounts'
  <2>1. Successful' BY <1>13, <1>0, SuccessStays DEF CopyDone
  <2> QED BY <1>13, <1>0, <2>1, LedgerStays, ItemType, HopsType
     DEF CopyDone, Granted, Credited, Underway, Announced, Outgoing
<1>14. ASSUME NEW c \in Stripes, Flush(c) PROVE Accounts'
  <2> DEFINE w == Leader[c]
  <2>1. /\ st[w] = "run" /\ pc[<<c, w>>] = "flush" /\ \A s \in Slots : EarlierWriteOver(c, w, s)
        /\ pc' = [pc EXCEPT ![<<c, w>>] = "drain"] /\ w \in Workers /\ w \notin Rollouts
        /\ UNCHANGED <<st, k, aborted, faults, tasks, credit, inbox, device>>
    BY <1>14, HopsType, TopologyAssumption DEF Flush
  <2>2. \A d \in Stripes, u \in Workers : <<d, u>> # <<c, w>> => pc'[<<d, u>>] = pc[<<d, u>>]
    BY <2>1, <1>0
  <2>3. Successful' BY <2>1, <2>2, <1>0, SuccessStays
  <2>4. \A h \in Hops : Granted(h)' => Granted(h) BY <2>1 DEF Granted, Credited
  <2>5. Begun(c, w)' = Begun(c, w) BY <2>1 DEF Begun
  <2>6. k[<<c, w>>] = NumBuckets(c) BY <2>1 DEF Accounts, CountersBound
  <2>7. \A s \in Slots : Outgoing(c, w, s) = {} /\ <<c, w, s>> \notin werr
    BY <2>1 DEF EarlierWriteOver
  <2> QED BY <2>1, <2>3, <2>4, <2>5, <2>6, <2>7, ChainMoves
<1>15. ASSUME NEW c \in Stripes, AwaitFailedWrite(c) PROVE Accounts'
  <2>1. Successful' BY <1>15, <1>0, SuccessStays DEF AwaitFailedWrite, BeginFail
  <2> QED BY <1>15, <1>0, <2>1, LedgerStays, ItemType, HopsType
     DEF AwaitFailedWrite, BeginFail, Granted, Credited, Underway, Announced, Outgoing
<1>16. ASSUME NEW c \in Stripes, FinishSend(c) PROVE Accounts'
  <2> DEFINE w == Leader[c]
  <2>1. /\ st[w] = "run" /\ pc[<<c, w>>] = "drain" /\ Drained(c, w) /\ w \notin aborted
        /\ Complete(w)
        /\ pc' = [pc EXCEPT ![<<c, w>>] = "done"] /\ w \in Workers /\ w \notin Rollouts
        /\ UNCHANGED <<k, aborted, faults, tasks, credit, inbox, device>>
    BY <1>16, HopsType, TopologyAssumption DEF FinishSend
  <2>2. \A d \in Stripes, u \in Workers : <<d, u>> # <<c, w>> => pc'[<<d, u>>] = pc[<<d, u>>]
    BY <2>1, <1>0
  <2>3. pc'[<<c, w>>] = "done" BY <2>1, <1>0
  <2>4. Successful'
    <3>1. \A d \in Stripes : w \in Rollouts \/ Leader[d] = w => pc'[<<d, w>>] = "done"
      BY <2>1, <2>3, TopologyAssumption
    <3>2. \A d \in Stripes, v \in Workers : pc[<<d, v>>] = "done" => pc'[<<d, v>>] = "done"
      BY <2>2, <2>3
    <3>3. UNCHANGED <<dma, inflight>> /\ st[w] # "done" BY <2>1
    <3> QED BY <2>1, <3>1, <3>2, <3>3, <1>0, CompleteSucceeds
  <2>5. \A h \in Hops : Granted(h)' => Granted(h) BY <2>1 DEF Granted, Credited
  <2>6. Begun(c, w)' = Begun(c, w) BY <2>1 DEF Begun
  <2>7. /\ k[<<c, w>>] = NumBuckets(c)
        /\ \A s \in Slots : Outgoing(c, w, s) = {} /\ <<c, w, s>> \notin werr
    BY <2>1 DEF Accounts, CountersBound, Flushed
  <2>8. \A n \in Nexts(c, w) : AllRead(c, n) BY <2>1, DrainedMeansRead
  <2>9. \A v \in Workers : v # w => st'[v] = st[v] BY <2>1, <1>0 DEF Complete
  <2> QED BY <2>1, <2>4, <2>5, <2>6, <2>7, <2>8, <2>9, ChainMoves
<1>17. ASSUME NEW c \in Stripes, DrainFails(c) PROVE Accounts'
  <2>1. Successful' BY <1>17, <1>0, SuccessStays DEF DrainFails, BeginFail
  <2> QED BY <1>17, <1>0, <2>1, LedgerStays, ItemType, HopsType
     DEF DrainFails, BeginFail, Granted, Credited, Underway, Announced, Outgoing
<1>18. ASSUME NEW i \in Items, SubmitWrite(i) PROVE Accounts'
  <2> DEFINE w == Prev[<<i[1], i[2]>>]
  <2>1. /\ i \in waiting /\ Running(w) /\ waiting' = waiting \ {i} /\ credit' \subseteq credit
        /\ UNCHANGED <<st, pc, k, got, aborted, werr, rel, frees, inq, early>>
    BY <1>18 DEF SubmitWrite, CreditSpent
  <2>2. \/ posted' = posted \cup {i} /\ UNCHANGED <<writing, inflight, dma>>
        \/ /\ UNCHANGED posted /\ writing' = writing \cup {i}
           /\ inflight' = inflight \cup {i} /\ dma' = dma \cup {i}
    BY <1>18 DEF SubmitWrite
  <2>3. \A j \in Items : j \in Underway => j \in Underway' BY <2>1, <2>2 DEF Underway, Announced
  <2>4. Successful' BY <2>1, <2>2, <1>0 DEF Successful, Running
  <2>5. \A h \in Hops : Granted(h)' => Granted(h) BY <2>1 DEF Granted, Credited
  <2>6. waiting' \cup writing' \subseteq waiting \cup writing BY <2>1, <2>2
  <2> QED BY <2>1, <2>3, <2>4, <2>5, <2>6, LedgerStays
<1>19. ASSUME NEW i \in Items, WriteSucceeded(i) PROVE Accounts'
  <2>1. Successful' BY <1>19, <1>0, SuccessStays DEF WriteSucceeded, StatusDone
  <2> QED BY <1>19, <1>0, <2>1, LedgerStays, ItemType, HopsType
     DEF WriteSucceeded, StatusDone, Granted, Credited, Underway, Announced, Outgoing
<1>20. ASSUME NEW i \in Items, WriteAborted(i) PROVE Accounts'
  BY <1>20, TaskEnds DEF WriteAborted
<1>21. ASSUME NEW i \in Items, WriteFault(i) PROVE Accounts'
  BY <1>21, TaskEnds
     DEF WriteFault, WriteTimesOut, WriteReportsFailure, StuckWrite, StuckInStatus
<1>22. ASSUME NEW i \in Items, TakeMessage(i) PROVE Accounts'
  <2>1. Successful' BY <1>22, <1>0, SuccessStays DEF TakeMessage
  <2> QED BY <1>22, <1>0, <2>1, LedgerStays, ItemType, HopsType
     DEF TakeMessage, Granted, Credited, Underway, Announced, Outgoing
<1>23. ASSUME NEW i \in Items, DeliverBucket(i) PROVE Accounts'
  <2>1. Successful' BY <1>23, <1>0, SuccessStays DEF DeliverBucket
  <2> QED BY <1>23, <1>0, <2>1, LedgerStays, ItemType, HopsType
     DEF DeliverBucket, Granted, Credited, Underway, Announced, Outgoing
<1>24. ASSUME NEW i \in Items, LocalCopyDone(i) PROVE Accounts'
  <2>1. /\ i \in dma /\ dma' = dma \ {i}
        /\ UNCHANGED <<control, tasks, inbox, credit, got>>
    BY <1>24 DEF LocalCopyDone
  <2>2. i \in writing \/ LostByWriter(i) BY <2>1, <1>0, WriteOver
  <2>3. LostByWriter(i)' = LostByWriter(i) BY <2>1 DEF LostByWriter
  <2>4. \A j \in Items : j \in Underway => j \in Underway' \/ LostByWriter(j)'
    BY <2>1, <2>2, <2>3 DEF Underway, Announced
  <2>5. Successful' BY <2>1, <1>0, SuccessStays
  <2>6. \A h \in Hops : Granted(h)' = Granted(h) BY <2>1 DEF Granted, Credited
  <2> QED BY <2>1, <2>4, <2>5, <2>6, LedgerStays
<1>25. ASSUME NEW i \in Items, RemoteWriteLeft(i) PROVE Accounts'
  <2>1. /\ i \in dma /\ dma' = dma \ {i}
        /\ UNCHANGED <<control, tasks, inbox, credit, got>>
    BY <1>25 DEF RemoteWriteLeft
  <2>2. i \in writing \/ LostByWriter(i) BY <2>1, <1>0, WriteOver
  <2>3. LostByWriter(i)' = LostByWriter(i) BY <2>1 DEF LostByWriter
  <2>4. \A j \in Items : j \in Underway => j \in Underway' \/ LostByWriter(j)'
    BY <2>1, <2>2, <2>3 DEF Underway, Announced
  <2>5. Successful' BY <2>1, <1>0, SuccessStays
  <2>6. \A h \in Hops : Granted(h)' = Granted(h) BY <2>1 DEF Granted, Credited
  <2> QED BY <2>1, <2>4, <2>5, <2>6, LedgerStays
<1>26. ASSUME NEW i \in Items, RemoteWriteLanded(i) PROVE Accounts'
  <2>1. Successful' BY <1>26, <1>0, SuccessStays DEF RemoteWriteLanded
  <2> QED BY <1>26, <1>0, <2>1, LedgerStays, ItemType, HopsType
     DEF RemoteWriteLanded, Granted, Credited, Underway, Announced, Outgoing
<1>27. ASSUME NEW c \in Stripes, NEW n \in Rollouts, TakeBucket(c, n) PROVE Accounts'
  <2> DEFINE i == <<c, n, k[<<c, n>>]>>
  <2>1. /\ Running(n) /\ pc[<<c, n>>] = "bucket" /\ i \in early /\ early' = early \ {i}
        /\ n \in Workers
        /\ UNCHANGED <<st, k, aborted, werr, inflight, credit, frees, posted, inq, device>>
    BY <1>27, <1>0 DEF TakeBucket
  <2>2. CASE EndChain(c, n) BY <2>1, <2>2, ChainEnds
  <2>3. CASE ~EndChain(c, n)
    <3>1. pc' = [pc EXCEPT ![<<c, n>>] = "arrive"] /\ UNCHANGED <<waiting, writing, rel>>
      BY <1>27, <2>3 DEF TakeBucket
    <3>2. /\ pc'[<<c, n>>] = "arrive" /\ k[<<c, n>>] \in Nat
          /\ \A d \in Stripes, v \in Workers : <<d, v>> # <<c, n>> => pc'[<<d, v>>] = pc[<<d, v>>]
      BY <2>1, <3>1, <1>0, Types
    <3>3. \A d \in Stripes, v \in Workers :
            pc'[<<d, v>>] \in {"flush", "final", "drain", "done"} => pc'[<<d, v>>] = pc[<<d, v>>]
      BY <3>2
    <3>4. CountersBound' BY <2>1, <3>3 DEF Accounts, CountersBound
    <3>5. Conserved'
      <4> SUFFICES ASSUME NEW j \in Items, j[3] < Begun(j[1], Prev[<<j[1], j[2]>>])'
                   PROVE  \/ j \in Underway' \/ j[3] < Taken(j[1], j[2])'
                          \/ LostByWriter(j)' \/ LostByReceiver(j)'
        BY DEF Conserved
      <4> DEFINE v == Prev[<<j[1], j[2]>>]
      <4>1. j[1] \in Stripes /\ j[2] \in Rollouts /\ j[2] \in Workers /\ v \in Workers /\ j[3] \in Nat
            /\ k[<<j[1], j[2]>>] \in Nat
        BY ItemType, Types
      <4>2. Begun(j[1], v)' = Begun(j[1], v)
        <5>1. CASE <<j[1], v>> = <<c, n>>
          <6>1. pc[<<j[1], v>>] = "bucket" /\ pc'[<<j[1], v>>] = "arrive" BY <2>1, <3>2, <5>1
          <6> QED BY <2>1, <6>1 DEF Begun
        <5>2. CASE <<j[1], v>> # <<c, n>>
          <6>1. pc'[<<j[1], v>>] = pc[<<j[1], v>>] BY <3>2, <4>1, <5>2
          <6> QED BY <2>1, <6>1 DEF Begun
        <5> QED BY <5>1, <5>2
      <4>3. j[3] < Taken(j[1], j[2]) => j[3] < Taken(j[1], j[2])'
        <5>1. CASE <<j[1], j[2]>> = <<c, n>>
          <6>1. pc[<<j[1], j[2]>>] = "bucket" /\ pc'[<<j[1], j[2]>>] = "arrive"
            BY <2>1, <3>2, <5>1
          <6> QED BY <2>1, <4>1, <6>1 DEF Taken
        <5>2. CASE <<j[1], j[2]>> # <<c, n>> BY <2>1, <3>2, <4>1, <5>2 DEF Taken
        <5> QED BY <5>1, <5>2
      <4>4. j \in Underway => j \in Underway' \/ j[3] < Taken(j[1], j[2])'
        <5>1. CASE j = i
          <6>1. j[1] = c /\ j[2] = n /\ j[3] = k[<<c, n>>] BY <5>1
          <6>2. Taken(c, n)' = k[<<c, n>>] + 1 BY <2>1, <3>2 DEF Taken
          <6> QED BY <3>2, <6>1, <6>2
        <5>2. CASE j # i BY <2>1, <3>1, <5>2 DEF Underway, Announced
        <5> QED BY <5>1, <5>2
      <4>5. /\ LostByWriter(j) => LostByWriter(j)'
            /\ LostByReceiver(j) => LostByReceiver(j)'
        <5>1. \A d \in Stripes, u \in Workers : pc[<<d, u>>] = "error" => pc'[<<d, u>>] = "error"
          <6> SUFFICES ASSUME NEW d \in Stripes, NEW u \in Workers, pc[<<d, u>>] = "error"
                       PROVE  pc'[<<d, u>>] = "error"
            OBVIOUS
          <6>1. <<d, u>> # <<c, n>> BY <2>1
          <6> QED BY <6>1, <3>2
        <5>2. \A h \in Hops : Granted(h)' => Granted(h) BY <2>1 DEF Granted, Credited
        <5> QED BY <2>1, <5>1, <5>2, LossesStay
      <4> QED BY <4>2, <4>3, <4>4, <4>5 DEF Accounts, Conserved
    <3>6. ReleaseKnows'
      <4> SUFFICES ASSUME NEW h \in Hops, st[h[2]] # "failed", pc'[<<h[1], h[2]>>] # "error",
                          Outgoing(h[1], h[2], h[3]) # {} \/ h \in werr \/ Unread(h[1], h[2], h[3])
                   PROVE  rel[h] # "none" \/ InHand(h)'
        BY <2>1, <3>1 DEF ReleaseKnows, Unread, Outgoing
      <4>1. h[1] \in Stripes /\ h[2] \in Workers BY HopsType
      <4>2. CASE <<h[1], h[2]>> = <<c, n>>
        <5>1. pc[<<h[1], h[2]>>] = "bucket" BY <2>1, <4>2
        <5> QED BY <5>1 DEF Accounts, ReleaseKnows, InHand
      <4>3. CASE <<h[1], h[2]>> # <<c, n>>
        <5>1. pc'[<<h[1], h[2]>>] = pc[<<h[1], h[2]>>] BY <3>2, <4>1, <4>3
        <5> QED BY <2>1, <5>1 DEF Accounts, ReleaseKnows, InHand
      <4> QED BY <4>2, <4>3
    <3>7. Flushed' BY <2>1, <3>1, <3>3 DEF Accounts, Flushed, Outgoing
    <3>8. ChainsRead' BY <2>1, <3>3 DEF Accounts, ChainsRead, AllRead
    <3>9. Successful'
      <4>1. \A v \in Workers : st[v] = "done" => v # n BY <2>1 DEF Running
      <4> QED BY <2>1, <3>2, <4>1, <1>0, SuccessStays
    <3> QED BY <3>4, <3>5, <3>6, <3>7, <3>8, <3>9 DEF Accounts
  <2> QED BY <2>2, <2>3
<1>28. ASSUME NEW c \in Stripes, NEW n \in Rollouts, BucketArrived(c, n) PROVE Accounts'
  <2> DEFINE b == k[<<c, n>>] g == <<c, n, Slot(b)>> new == {c} \X Nexts(c, n) \X {b}
  <2>1. /\ Running(n) /\ pc[<<c, n>>] = "arrive" /\ n \in Workers /\ b \in Nat
        /\ b < NumBuckets(c) /\ NumBuckets(c) \in Nat \ {0} /\ (Empty(c) => NumBuckets(c) = 1)
        /\ g \in Hops /\ DOMAIN rel = Hops
    BY <1>28, <1>0, Types, NumBucketsType, HopsType DEF BucketArrived, Shape, BucketLeft
  <2>2. /\ waiting' = waiting \cup new
        /\ UNCHANGED <<st, aborted, writing, werr, inflight, credit, inbox, dma, got>>
    BY <1>28 DEF BucketArrived
  <2>3. IF Empty(c)
        THEN /\ k' = [k EXCEPT ![<<c, n>>] = b + 1] /\ rel' = [rel EXCEPT ![g] = "wait"]
             /\ pc' = [pc EXCEPT ![<<c, n>>] = "final"]
        ELSE /\ pc' = [pc EXCEPT ![<<c, n>>] = "offer"] /\ UNCHANGED <<k, rel>>
    BY <1>28, <2>1 DEF BucketArrived, AfterBucket
  <2>4. /\ \A d \in Stripes, v \in Workers : <<d, v>> # <<c, n>> =>
             pc'[<<d, v>>] = pc[<<d, v>>] /\ k'[<<d, v>>] = k[<<d, v>>]
        /\ \A h \in Hops : h # g => rel'[h] = rel[h]
        /\ \/ Empty(c) /\ pc'[<<c, n>>] = "final" /\ k'[<<c, n>>] = b + 1 /\ rel'[g] = "wait"
           \/ ~Empty(c) /\ pc'[<<c, n>>] = "offer" /\ k'[<<c, n>>] = b /\ rel'[g] = rel[g]
    BY <2>1, <2>3, <1>0, Types
  <2>5. \A i \in new : i[1] = c /\ Prev[<<i[1], i[2]>>] = n /\ i[3] = b BY DEF Nexts
  <2>6. CountersBound'
    <3>1. ASSUME NEW d \in Stripes, NEW v \in Workers
          PROVE  /\ k'[<<d, v>>] <= NumBuckets(d)
                 /\ pc'[<<d, v>>] \in {"flush", "final", "drain", "done"} => k'[<<d, v>>] = NumBuckets(d)
      <4>1. CASE <<d, v>> = <<c, n>>
        <5>1. d = c /\ v = n BY <4>1
        <5> QED BY <5>1, <2>1, <2>4
      <4>2. CASE <<d, v>> # <<c, n>> BY <4>2, <2>4 DEF Accounts, CountersBound
      <4> QED BY <4>1, <4>2
    <3>2. ASSUME NEW d \in Stripes, NEW m \in Rollouts
          PROVE  Len(got[<<d, m>>]) <= k'[<<d, m>>] /\ Len(got[<<d, m>>]) <= Load[d]
      <4>0. /\ m \in Workers /\ Len(got[<<d, m>>]) \in Nat /\ k[<<d, m>>] \in Nat
            /\ Len(got[<<d, m>>]) <= k[<<d, m>>] /\ Len(got[<<d, m>>]) <= Load[d]
        BY HopsType, GotType DEF Accounts, CountersBound
      <4>1. k'[<<d, m>>] = k[<<d, m>>] \/ k'[<<d, m>>] = k[<<d, m>>] + 1 BY <4>0, <2>4
      <4> QED BY <4>0, <4>1
    <3> QED BY <2>2, <3>1, <3>2 DEF CountersBound
  <2>7. Conserved'
    <3> SUFFICES ASSUME NEW i \in Items, i[3] < Begun(i[1], Prev[<<i[1], i[2]>>])'
                 PROVE  \/ i \in Underway' \/ i[3] < Taken(i[1], i[2])'
                        \/ LostByWriter(i)' \/ LostByReceiver(i)'
      BY DEF Conserved
    <3> DEFINE v == Prev[<<i[1], i[2]>>]
    <3>1. i[1] \in Stripes /\ i[2] \in Rollouts /\ i[2] \in Workers /\ v \in Workers
          /\ i[3] \in Nat /\ i = <<i[1], i[2], i[3]>> /\ i[3] < NumBuckets(i[1])
      BY ItemType
    <3>2. Taken(i[1], i[2])' = Taken(i[1], i[2])
      <4>1. CASE <<i[1], i[2]>> = <<c, n>>
        <5>1. i[1] = c /\ i[2] = n BY <4>1
        <5> QED BY <5>1, <2>1, <2>4 DEF Taken
      <4>2. CASE <<i[1], i[2]>> # <<c, n>> BY <4>2, <3>1, <2>4 DEF Taken
      <4> QED BY <4>1, <4>2
    <3>3. /\ LostByWriter(i) => LostByWriter(i)'
          /\ LostByReceiver(i) => LostByReceiver(i)'
      <4>1. \A d \in Stripes, u \in Workers : pc[<<d, u>>] = "error" => pc'[<<d, u>>] = "error"
        <5> SUFFICES ASSUME NEW d \in Stripes, NEW u \in Workers, pc[<<d, u>>] = "error"
                     PROVE  pc'[<<d, u>>] = "error"
          OBVIOUS
        <5>1. <<d, u>> # <<c, n>> BY <2>1
        <5> QED BY <5>1, <2>4
      <4>2. \A h \in Hops : Granted(h)' => Granted(h) BY <2>2 DEF Granted, Credited
      <4> QED BY <2>2, <4>1, <4>2, LossesStay
    <3>4. i \in Underway => i \in Underway' BY <2>2 DEF Underway, Announced
    <3>5. CASE i[3] < Begun(i[1], v) BY <3>2, <3>3, <3>4, <3>5 DEF Accounts, Conserved
    <3>6. CASE ~(i[3] < Begun(i[1], v))
      <4>1. <<i[1], v>> = <<c, n>> BY <2>2, <2>4, <3>1, <3>6 DEF Begun
      <4>2. i[1] = c /\ v = n BY <4>1
      <4>3. Begun(c, n) = b BY <2>1 DEF Begun
      <4>4. i[3] = b
        <5>1. Empty(c) => i[3] = b BY <2>1, <3>1, <4>2
        <5>2. ~Empty(c) => Begun(c, n)' \in {b, b + 1} BY <2>4 DEF Begun
        <5> QED BY <2>1, <3>1, <3>6, <4>2, <4>3, <5>1, <5>2
      <4>5. i \in new BY <3>1, <4>2, <4>4 DEF Nexts
      <4> QED BY <2>2, <4>5 DEF Underway
    <3> QED BY <3>5, <3>6
  <2>8. \A d \in Stripes, v \in Workers : \A s : <<d, v, s>> # g => Outgoing(d, v, s)' = Outgoing(d, v, s)
    <3> SUFFICES ASSUME NEW d \in Stripes, NEW v \in Workers, NEW s, <<d, v, s>> # g
                 PROVE  Outgoing(d, v, s)' = Outgoing(d, v, s)
      OBVIOUS
    <3> QED BY <2>2, <2>5 DEF Outgoing
  <2>9. ReleaseKnows'
    <3> SUFFICES ASSUME NEW h \in Hops, st[h[2]] # "failed", pc'[<<h[1], h[2]>>] # "error",
                        Outgoing(h[1], h[2], h[3])' # {} \/ h \in werr \/ Unread(h[1], h[2], h[3])'
                 PROVE  rel'[h] # "none" \/ InHand(h)'
      BY <2>2 DEF ReleaseKnows
    <3>1. h[1] \in Stripes /\ h[2] \in Workers /\ h = <<h[1], h[2], h[3]>> BY HopsType
    <3>2. CASE h = g
      <4>1. h[1] = c /\ h[2] = n /\ h[3] = Slot(b) BY <3>2
      <4> QED BY <3>2, <4>1, <2>4 DEF InHand
    <3>3. CASE h # g
      <4>1. Outgoing(h[1], h[2], h[3])' = Outgoing(h[1], h[2], h[3]) /\ rel'[h] = rel[h]
        BY <2>4, <2>8, <3>1, <3>3
      <4>2. CASE <<h[1], h[2]>> = <<c, n>>
        <5>1. h[1] = c /\ h[2] = n BY <4>2
        <5>2. Unread(h[1], h[2], h[3])' => Unread(h[1], h[2], h[3])
          BY <2>2, <2>4, <5>1 DEF Unread
        <5>3. ~InHand(h) /\ pc[<<h[1], h[2]>>] # "error" BY <2>1, <5>1 DEF InHand
        <5> QED BY <4>1, <5>2, <5>3 DEF Accounts, ReleaseKnows
      <4>3. CASE <<h[1], h[2]>> # <<c, n>>
        <5>1. /\ pc'[<<h[1], h[2]>>] = pc[<<h[1], h[2]>>] /\ k'[<<h[1], h[2]>>] = k[<<h[1], h[2]>>]
          BY <2>4, <3>1, <4>3
        <5>2. Unread(h[1], h[2], h[3])' = Unread(h[1], h[2], h[3]) BY <2>2, <5>1 DEF Unread
        <5>3. rel[h] # "none" \/ InHand(h) BY <4>1, <5>1, <5>2 DEF Accounts, ReleaseKnows
        <5> QED BY <4>1, <5>1, <5>3 DEF InHand
      <4> QED BY <4>2, <4>3
    <3> QED BY <3>2, <3>3
  <2>10. \A d \in Stripes, v \in Workers : pc'[<<d, v>>] \in {"drain", "done"} =>
           <<d, v>> # <<c, n>> /\ pc'[<<d, v>>] = pc[<<d, v>>]
    <3> SUFFICES ASSUME NEW d \in Stripes, NEW v \in Workers, pc'[<<d, v>>] \in {"drain", "done"}
                 PROVE  <<d, v>> # <<c, n>> /\ pc'[<<d, v>>] = pc[<<d, v>>]
      OBVIOUS
    <3>1. <<d, v>> # <<c, n>> BY <2>4
    <3> QED BY <3>1, <2>4
  <2>11. Flushed'
    <3>1. \A d \in Stripes, v \in Workers : \A s : <<d, v>> # <<c, n>> => Outgoing(d, v, s)' = Outgoing(d, v, s)
      BY <2>8
    <3> QED BY <2>2, <2>10, <3>1 DEF Accounts, Flushed
  <2>12. ChainsRead' BY <2>2, <2>10 DEF Accounts, ChainsRead, AllRead
  <2>13. Successful'
    <3>1. \A v \in Workers : st[v] = "done" => v # n BY <2>1 DEF Running
    <3> QED BY <2>2, <2>4, <3>1, <1>0, SuccessStays
  <2> QED BY <2>6, <2>7, <2>9, <2>11, <2>12, <2>13 DEF Accounts
<1>29. ASSUME NEW c \in Stripes, NEW n \in Rollouts, HandOver(c, n) PROVE Accounts'
  <2>1. /\ st[n] = "run" /\ pc[<<c, n>>] = "offer" /\ n \in Workers
        /\ pc' = [pc EXCEPT ![<<c, n>>] = "held"] /\ pc'[<<c, n>>] = "held"
        /\ UNCHANGED <<st, k, aborted, faults, tasks, credit, inbox, device>>
    BY <1>29, <1>0 DEF HandOver
  <2>2. \A d \in Stripes, u \in Workers : <<d, u>> # <<c, n>> => pc'[<<d, u>>] = pc[<<d, u>>]
    BY <2>1, <1>0
  <2>3. Successful' BY <2>1, <2>2, <1>0, SuccessStays
  <2>4. \A h \in Hops : Granted(h)' => Granted(h) BY <2>1 DEF Granted, Credited
  <2>5. Begun(c, n)' = Begun(c, n) /\ Taken(c, n)' = Taken(c, n) BY <2>1 DEF Begun, Taken
  <2> QED BY <2>1, <2>3, <2>4, <2>5, ChainMoves
<1>30. ASSUME NEW c \in Stripes, NEW n \in Rollouts, AskNext(c, n) PROVE Accounts'
  BY <1>30, LedgerPasses DEF AskNext
<1>31. ASSUME NEW c \in Stripes, NEW n \in Rollouts, MergeChunk(c, n) PROVE Accounts'
  BY <1>31, LedgerPasses DEF MergeChunk, Running
<1>32. ASSUME NEW c \in Stripes, NEW n \in Rollouts, AllReleased(c, n) PROVE Accounts'
  <2> DEFINE q == AfterRelease(c, n)
  <2>1. /\ Running(n) /\ pc[<<c, n>>] = "final" /\ n \in Workers
        /\ \A s \in Slots : rel[<<c, n, s>>] = "none"
        /\ pc' = [pc EXCEPT ![<<c, n>>] = q] /\ pc'[<<c, n>>] = q
        /\ UNCHANGED <<st, k, aborted, faults, tasks, credit, inbox, device>>
    BY <1>32, <1>0 DEF AllReleased
  <2>2. q \in {"drain", "done"} /\ (q = "done" => Nexts(c, n) = {}) BY DEF AfterRelease
  <2> HIDE DEF q
  <2>3. st[n] \in {"run", "failing"} BY <2>1 DEF Running
  <2>4. \A d \in Stripes, u \in Workers : <<d, u>> # <<c, n>> => pc'[<<d, u>>] = pc[<<d, u>>]
    BY <2>1, <1>0
  <2>5. Successful' BY <2>1, <2>3, <2>4, <1>0, SuccessStays
  <2>6. \A h \in Hops : Granted(h)' => Granted(h) BY <2>1 DEF Granted, Credited
  <2>7. Begun(c, n)' = Begun(c, n) /\ Taken(c, n)' = Taken(c, n)
    BY <2>1, <2>2, <2>3 DEF Begun, Taken
  <2>8. /\ AllRead(c, n)
        /\ \A s \in Slots : Outgoing(c, n, s) = {} /\ <<c, n, s>> \notin werr
    BY <2>1, <2>3, ReleasedMeansRead
  <2>9. k[<<c, n>>] = NumBuckets(c) BY <2>1 DEF Accounts, CountersBound
  <2> QED BY <2>1, <2>2, <2>3, <2>5, <2>6, <2>7, <2>8, <2>9, ChainMoves
<1>33. ASSUME NEW c \in Stripes, NEW n \in Rollouts, ChainDrained(c, n) PROVE Accounts'
  <2>1. /\ Running(n) /\ pc[<<c, n>>] = "drain" /\ n \in Workers
        /\ Drained(c, n) /\ n \notin aborted
        /\ pc' = [pc EXCEPT ![<<c, n>>] = "done"] /\ pc'[<<c, n>>] = "done"
        /\ UNCHANGED <<st, k, aborted, faults, tasks, credit, inbox, device>>
    BY <1>33, <1>0 DEF ChainDrained
  <2>2. st[n] \in {"run", "failing"} BY <2>1 DEF Running
  <2>3. \A d \in Stripes, u \in Workers : <<d, u>> # <<c, n>> => pc'[<<d, u>>] = pc[<<d, u>>]
    BY <2>1, <1>0
  <2>4. Successful' BY <2>1, <2>2, <2>3, <1>0, SuccessStays
  <2>5. \A h \in Hops : Granted(h)' => Granted(h) BY <2>1 DEF Granted, Credited
  <2>6. Begun(c, n)' = Begun(c, n) /\ Taken(c, n)' = Taken(c, n) BY <2>1, <2>2 DEF Begun, Taken
  <2>7. \A m \in Nexts(c, n) : AllRead(c, m) BY <2>1, <2>2, DrainedMeansRead
  <2>8. /\ k[<<c, n>>] = NumBuckets(c) /\ AllRead(c, n)
        /\ \A s \in Slots : Outgoing(c, n, s) = {} /\ <<c, n, s>> \notin werr
    BY <2>1 DEF Accounts, CountersBound, Flushed, ChainsRead
  <2> QED BY <2>1, <2>2, <2>4, <2>5, <2>6, <2>7, <2>8, ChainMoves
<1>34. ASSUME NEW c \in Stripes, NEW n \in Rollouts, ChainFails(c, n) PROVE Accounts'
  BY <1>34, ChainEnds DEF ChainFails
<1>35. ASSUME NEW c \in Stripes, NEW n \in Rollouts, ReadDone(c, n) PROVE Accounts'
  <2> DEFINE b == Len(got[<<c, n>>])
  <2>1. /\ ~Empty(c) /\ b < k[<<c, n>>] /\ n \in Workers
        /\ got' = [got EXCEPT ![<<c, n>>] = Append(@, mem[<<c, n, Slot(b)>>])]
        /\ UNCHANGED <<control, tasks, credit, inbox, dma>>
    BY <1>35, <1>0 DEF ReadDone
  <2>2. /\ \A d \in Stripes, m \in Rollouts : <<d, m>> # <<c, n>> => got'[<<d, m>>] = got[<<d, m>>]
        /\ Len(got'[<<c, n>>]) = b + 1 /\ b \in Nat /\ k[<<c, n>>] \in Nat
    <3>1. got[<<c, n>>] \in Seq(Values) /\ mem[<<c, n, Slot(b)>>] \in Values /\ b \in Nat
          /\ k[<<c, n>>] \in Nat
      BY GotType
    <3>2. got'[<<c, n>>] = Append(got[<<c, n>>], mem[<<c, n, Slot(b)>>])
      BY <2>1 DEF Shape, TypeOK
    <3>3. Len(got'[<<c, n>>]) = b + 1
      <4> DEFINE g == got[<<c, n>>] v == mem[<<c, n, Slot(b)>>]
      <4>1. g \in Seq(Values) /\ v \in Values /\ got'[<<c, n>>] = Append(g, v) BY <3>1, <3>2
      <4>2. b = Len(g) OBVIOUS
      <4> HIDE DEF g, v, b
      <4> QED BY <4>1, <4>2
    <3> QED BY <2>1, <3>1, <3>3 DEF Shape, TypeOK
  <2>3. k[<<c, n>>] <= NumBuckets(c) /\ NumBuckets(c) = Load[c] /\ Load[c] \in Nat
    BY <2>1, SizeAssumption DEF Accounts, CountersBound, NumBuckets, Empty
  <2>4. CountersBound'
    <3>1. ASSUME NEW d \in Stripes, NEW m \in Rollouts
          PROVE  Len(got'[<<d, m>>]) <= k[<<d, m>>] /\ Len(got'[<<d, m>>]) <= Load[d]
      <4>1. CASE <<d, m>> = <<c, n>>
        <5>1. d = c /\ m = n BY <4>1
        <5> QED BY <5>1, <2>1, <2>2, <2>3
      <4>2. CASE <<d, m>> # <<c, n>> BY <4>2, <2>2 DEF Accounts, CountersBound
      <4> QED BY <4>1, <4>2
    <3> QED BY <2>1, <3>1 DEF Accounts, CountersBound
  <2>5. Conserved'
    BY <2>1 DEF Accounts, Conserved, Begun, Taken, Underway, Announced, LostByWriter,
       LostByReceiver,
                Granted, Credited
  <2>6. ReleaseKnows'
    <3>1. ASSUME NEW h \in Hops, Unread(h[1], h[2], h[3])' PROVE Unread(h[1], h[2], h[3])
      <4>0. h[1] \in Stripes /\ h[2] \in Rollouts BY HopsType
      <4>1. CASE <<h[1], h[2]>> = <<c, n>>
        <5>1. h[1] = c /\ h[2] = n BY <4>1
        <5>2. PICK a \in (b + 1) .. k[<<c, n>>] - 1 : Slot(a) = h[3]
          BY <2>1, <2>2, <3>1, <5>1 DEF Unread
        <5>3. a \in b .. k[<<c, n>>] - 1 BY <2>2
        <5> QED BY <2>1, <5>1, <5>2, <5>3 DEF Unread
      <4>2. CASE <<h[1], h[2]>> # <<c, n>> BY <2>1, <2>2, <3>1, <4>0, <4>2 DEF Unread
      <4> QED BY <4>1, <4>2
    <3> QED BY <2>1, <3>1 DEF Accounts, ReleaseKnows, Outgoing, InHand
  <2>7. Flushed' BY <2>1 DEF Accounts, Flushed, Outgoing
  <2>8. ChainsRead'
    <3>1. ASSUME NEW d \in Stripes, NEW m \in Rollouts, AllRead(d, m) PROVE AllRead(d, m)'
      <4>1. <<d, m>> # <<c, n>>
        <5> SUFFICES ASSUME d = c, m = n PROVE FALSE OBVIOUS
        <5> QED BY <2>1, <2>2, <2>3, <3>1 DEF AllRead
      <4> QED BY <2>2, <3>1, <4>1 DEF AllRead
    <3>2. \A d \in Stripes, v \in Workers : Nexts(d, v) \subseteq Rollouts BY DEF Nexts
    <3> QED BY <2>1, <3>1, <3>2 DEF Accounts, ChainsRead
  <2>9. Successful' BY <2>1, SuccessStays, <1>0
  <2> QED BY <2>4, <2>5, <2>6, <2>7, <2>8, <2>9 DEF Accounts
<1>36. ASSUME NEW h \in Hops, Release(h) PROVE Accounts'
  <2>1. /\ rel[h] = "wait" /\ Running(h[2]) /\ SlotUnused(h[1], h[2], h[3]) /\ h \notin werr
        /\ rel' = [rel EXCEPT ![h] = "none"] /\ frees' = frees \cup {h}
        /\ UNCHANGED <<control, waiting, writing, werr, inflight, credit, posted, inq, early, device>>
    BY <1>36 DEF Release
  <2>2. Successful' BY <2>1, <1>0, SuccessStays
  <2>3. pc[<<h[1], h[2]>>] # "error" BY <2>1 DEF Exclusion, ReleaseApart
  <2>4. \A g \in Hops : Granted(g)' =>
          Granted(g) \/ (st[g[2]] # "failed" /\ pc[<<g[1], g[2]>>] # "error")
    BY <2>1, <2>3 DEF Granted, Credited, Running
  <2>5. Underway' = Underway BY <2>1 DEF Underway, Announced
  <2>6. \A g \in Hops : rel[g] # "none" /\ rel'[g] = "none" =>
          Outgoing(g[1], g[2], g[3]) = {} /\ g \notin werr' /\ ~Unread(g[1], g[2], g[3])
    BY <2>1, Types DEF SlotUnused
  <2> QED BY <2>1, <2>2, <2>4, <2>5, <2>6, LedgerStays
<1>37. ASSUME NEW h \in Hops, ReleaseFails(h) PROVE Accounts'
  <2>1. Successful' BY <1>37, <1>0, SuccessStays DEF ReleaseFails
  <2> QED BY <1>37, <1>0, <2>1, LedgerStays, ItemType, HopsType
     DEF ReleaseFails, Granted, Credited, Underway, Announced, Outgoing, Running
<1>38. ASSUME NEW h \in Hops, DeliverFree(h) PROVE Accounts'
  <2>1. Successful' BY <1>38, <1>0, SuccessStays DEF DeliverFree
  <2> QED BY <1>38, <1>0, <2>1, LedgerStays, ItemType, HopsType
     DEF DeliverFree, Granted, Credited, Underway, Announced, Outgoing
<1>39. ASSUME NEW m \in stale, DropStale(m) PROVE Accounts'
  <2>1. Successful' BY <1>39, <1>0, SuccessStays DEF DropStale
  <2> QED BY <1>39, <1>0, <2>1, LedgerStays, ItemType, HopsType
     DEF DropStale, Granted, Credited, Underway, Announced, Outgoing
<1>40. CASE UNCHANGED vars
  <2>1. Successful' BY <1>40, <1>0, SuccessStays DEF vars
  <2> QED BY <1>40, <2>1, LedgerStays DEF vars, Granted, Credited, Underway, Announced, Outgoing
<1> QED BY <1>1, <1>2, <1>3, <1>4, <1>5, <1>6, <1>7, <1>8, <1>9, <1>10, <1>11, <1>12, <1>13,
   <1>14, <1>15, <1>16, <1>17, <1>18, <1>19, <1>20, <1>21, <1>22, <1>23, <1>24, <1>25, <1>26,
   <1>27, <1>28, <1>29, <1>30, <1>31, <1>32, <1>33, <1>34, <1>35, <1>36, <1>37, <1>38, <1>39,
   <1>40 DEF Next, Stopped

-----------------------------------------------------------------------------
(* The promises.                                                             *)

\* Nothing is stored, and nothing is owed, before anything has started.
LEMMA DeliveryInit == Init => Delivery
<1> SUFFICES ASSUME Init PROVE Delivery OBVIOUS
<1>1. SlotDiscipline BY DisciplineInit
<1>2. \A i \in Items : /\ i[1] \in Stripes /\ i[2] \in Rollouts /\ i[3] \in Nat
                       /\ Prev[<<i[1], i[2]>>] \in Workers
  BY ItemType
<1>3. /\ \A c \in Stripes, w \in Workers : pc[<<c, w>>] = "off" /\ k[<<c, w>>] = 0
      /\ \A c \in Stripes, n \in Rollouts : /\ n \in Workers /\ got[<<c, n>>] = <<>>
                                            /\ pc[<<c, n>>] = "off" /\ k[<<c, n>>] = 0
      /\ \A w \in Workers : st[w] = "idle"
      /\ waiting = {} /\ writing = {} /\ dma = {} /\ air = {} /\ copying = {} /\ werr = {}
      /\ posted = {} /\ inq = {} /\ early = {}
  BY HopsType DEF Init
<1>4. Contents
  <2>1. CopyBegun /\ CopyWaits /\ CopyFirst /\ SourceHolds /\ AirCarries
    BY <1>3 DEF CopyBegun, CopyWaits, CopyFirst, SourceHolds, AirCarries
  <2>2. TargetHolds BY <1>2, <1>3 DEF TargetHolds, AtTarget, Announced
  <2>3. HandHolds BY <1>3 DEF HandHolds
  <2>4. UnreadHolds /\ DeliveredInOrder BY <1>3 DEF UnreadHolds, DeliveredInOrder
  <2> QED BY <2>1, <2>2, <2>3, <2>4 DEF Contents
<1>5. Accounts
  <2>1. CountersBound BY <1>3, NumBucketsType, SizeAssumption DEF CountersBound
  <2>2. Conserved BY <1>2, <1>3 DEF Conserved, Begun
  <2>3. ReleaseKnows BY <1>3, HopsType DEF ReleaseKnows, Outgoing, Unread
  <2>4. Flushed /\ ChainsRead BY <1>3 DEF Flushed, ChainsRead
  <2>5. Successful BY <1>3 DEF Successful
  <2> QED BY <2>1, <2>2, <2>3, <2>4, <2>5 DEF Accounts
<1> QED BY <1>1, <1>4, <1>5 DEF Delivery

\* Every step keeps all of it.
LEMMA DeliveryStep == Delivery /\ [Next]_vars => Delivery'
BY DisciplineStep, ContentsStep, AccountsStep DEF Delivery

\* Delivery is invariant: the slots hold what their readers expect, and no
\* bucket of a sync is lost unless its writer or its receiver failed.
THEOREM DeliveryHolds == Spec => []Delivery
<1> QED BY DeliveryInit, DeliveryStep, PTL DEF Spec

\* Every consumer reads buckets 0, 1, 2, ... of each stripe with the data that
\* the trainer packed (_push_stripe, _receive_chain), whatever fails.
THEOREM InOrder == Spec => []DeliveredInOrder
<1>1. Delivery => DeliveredInOrder BY DEF Delivery, Contents
<1> QED BY <1>1, DeliveryHolds, PTL

\* A worker is done only when all its chains are, its region is at rest, and it
\* and its next hops have read everything.
LEMMA DeliveryIsQuiet == Delivery => SuccessIsQuiet
<1> SUFFICES ASSUME Delivery, NEW w \in Workers, st[w] = "done"
             PROVE  /\ \A i \in Flying : i[2] # w
                    /\ \A i \in dma : Prev[<<i[1], i[2]>>] # w
                    /\ \A c \in Stripes : \A n \in Nexts(c, w) \cup ({w} \cap Rollouts) :
                         Len(got[<<c, n>>]) = Load[c]
  BY DEF SuccessIsQuiet
<1> /\ Shape /\ Order /\ Accounts BY DEF Delivery, SlotDiscipline
<1>1. \A c \in Stripes : w \in Rollouts \/ Leader[c] = w => pc[<<c, w>>] = "done"
  BY DEF Accounts, Successful
<1>2. ASSUME NEW i \in Flying, i[2] = w PROVE FALSE
  <2>1. /\ i \in Items /\ i[1] \in Stripes /\ w \in Rollouts /\ i[3] \in Nat
        /\ i[3] < NumBuckets(i[1])
    BY <1>2, Types, ItemType DEF Flying, Underway
  <2>2. pc[<<i[1], w>>] = "done" /\ k[<<i[1], w>>] = NumBuckets(i[1])
    BY <1>1, <2>1 DEF Accounts, CountersBound
  <2>3. Taken(i[1], w) <= i[3] \/ Offered(i[1], w) <= i[3]
    BY <1>2 DEF Order, TakenLast, Flying, Underway
  <2> QED BY <2>1, <2>2, <2>3, NumBucketsType DEF Taken, Offered
<1>3. \A i \in dma : Prev[<<i[1], i[2]>>] # w BY DEF Accounts, Successful
<1>4. ASSUME NEW c \in Stripes, NEW n \in Nexts(c, w) \cup ({w} \cap Rollouts)
      PROVE  Len(got[<<c, n>>]) = Load[c]
  <2>1. CASE w \in Rollouts BY <1>1, <2>1 DEF Accounts, ChainsRead, AllRead
  <2>2. CASE w \notin Rollouts
    <3>1. n \in Nexts(c, w) /\ w = Leader[c] BY <2>2, TopologyAssumption DEF Nexts
    <3> QED BY <1>1, <3>1 DEF Accounts, ChainsRead, AllRead
  <2> QED BY <2>1, <2>2
<1> QED BY <1>2, <1>3, <1>4

\* Who reports success is quiet and complete: _check_drained, _drain_credits.
THEOREM Quiet == Spec => []SuccessIsQuiet
<1> QED BY DeliveryIsQuiet, DeliveryHolds, PTL

-----------------------------------------------------------------------------
(* The sync implements the broadcast, step by step.                          *)

\* What a worker's state means to the outside.
Pending(s) == s \in {"idle", "open", "run"}

\* A worker that stops with an error fails in the broadcast.
LEMMA FailureIsFail ==
  ASSUME Shape, NEW w \in Workers, NEW q \in {"failing", "failed"},
         st' = [st EXCEPT ![w] = q], Pending(st[w]), got' = got
  PROVE  Broadcast!Next
<1>1. Broadcast!Fail(w) BY Types DEF Pending, Broadcast!Fail
<1> QED BY <1>1 DEF Broadcast!Next, Broadcast!Everyone, Workers

\* A worker that is done succeeds in the broadcast.
LEMMA SuccessIsSucceed ==
  ASSUME Shape, SuccessIsQuiet', NEW w \in Workers,
         st' = [st EXCEPT ![w] = "done"], Pending(st[w]), got' = got
  PROVE  Broadcast!Next
<1>1. \A c \in Stripes : \A n \in Nexts(c, w) \cup ({w} \cap Rollouts) : Len(got[<<c, n>>]) = Load[c]
  BY Types DEF SuccessIsQuiet, Nexts
<1>2. w \in Rollouts => Broadcast!HasAll(w) BY <1>1 DEF Broadcast!HasAll
<1>3. ASSUME NEW c \in Stripes, NEW n \in Rollouts,
             <<c, w, n>> \in {f \in Stripes \X Workers \X Rollouts : Prev[<<f[1], f[3]>>] = f[2]}
      PROVE  Len(got[<<c, n>>]) = Load[c]
  <2>1. Prev[<<c, n>>] = w BY <1>3
  <2> QED BY <1>1, <2>1 DEF Nexts
<1>4. Broadcast!Succeed(w) BY <1>2, <1>3, Types DEF Pending, Broadcast!Succeed
<1> QED BY <1>4 DEF Broadcast!Next, Broadcast!Everyone, Workers

\* The outside does not see a worker enter the sync, or reap its tasks.
LEMMA InsideIsStutter ==
  ASSUME Shape, NEW w \in Workers, NEW q, st' = [st EXCEPT ![w] = q],
         \/ Pending(st[w]) /\ Pending(q)
         \/ st[w] = "failing" /\ q = "failed",
         got' = got
  PROVE  UNCHANGED Broadcast!vars
BY Types DEF Pending, Broadcast!vars

\* Every step is a step of the broadcast or a stutter.
LEMMA BroadcastStep ==
  Delivery /\ SuccessIsQuiet' /\ [Next]_vars => [Broadcast!Next]_(Broadcast!vars)
<1> SUFFICES ASSUME Delivery, SuccessIsQuiet', [Next]_vars
             PROVE  Broadcast!Next \/ UNCHANGED Broadcast!vars
  OBVIOUS
<1> USE DEF control, tasks, inbox, device
<1> Shape BY DEF Delivery, SlotDiscipline
<1>0. /\ Rollouts \subseteq Workers /\ Trainers \subseteq Workers /\ DOMAIN st = Workers
      /\ \A c \in Stripes : Leader[c] \in Workers
  BY Types, HopsType DEF Workers
<1>a. UNCHANGED <<st, got>> => UNCHANGED Broadcast!vars BY DEF Broadcast!vars
<1>1. ASSUME NEW w \in Trainers, SendWeights(w) PROVE Broadcast!Next \/ UNCHANGED Broadcast!vars
  BY <1>1, <1>0, InsideIsStutter DEF SendWeights, Pending
<1>2. ASSUME NEW n \in Rollouts, ReceiveWeights(n)
      PROVE Broadcast!Next \/ UNCHANGED Broadcast!vars
  BY <1>2, <1>0, InsideIsStutter DEF ReceiveWeights, Pending
<1>3. ASSUME NEW n \in Rollouts, StartReceive(n)
      PROVE Broadcast!Next \/ UNCHANGED Broadcast!vars
  BY <1>3, <1>0, InsideIsStutter DEF StartReceive, Pending
<1>4. ASSUME NEW n \in Rollouts, CloseUnstarted(n)
      PROVE Broadcast!Next \/ UNCHANGED Broadcast!vars
  BY <1>4, <1>0, FailureIsFail DEF CloseUnstarted, BeginFail, Pending
<1>5. ASSUME NEW w \in Trainers, DriveGenerator(w)
      PROVE Broadcast!Next \/ UNCHANGED Broadcast!vars
  BY <1>5, <1>0, SuccessIsSucceed DEF DriveGenerator, Pending
<1>6. ASSUME NEW n \in Rollouts, RaiseError(n) PROVE Broadcast!Next \/ UNCHANGED Broadcast!vars
  BY <1>6, <1>0, FailureIsFail DEF RaiseError, BeginFail, Pending
<1>7. ASSUME NEW n \in Rollouts, FinishReceive(n)
      PROVE Broadcast!Next \/ UNCHANGED Broadcast!vars
  <2>1. /\ st[n] = "run" /\ got' = got
        /\ st' = [st EXCEPT ![n] = "done"] \/ st' = [st EXCEPT ![n] = "failed"]
    BY <1>7 DEF FinishReceive, Complete
  <2> QED BY <2>1, <1>0, FailureIsFail, SuccessIsSucceed DEF Pending
<1>8. ASSUME NEW w \in Workers, Interrupt(w) PROVE Broadcast!Next \/ UNCHANGED Broadcast!vars
  BY <1>8, <1>0, FailureIsFail DEF Interrupt, BeginFail, Pending
<1>9. ASSUME NEW w \in Workers, PumpFails(w) PROVE Broadcast!Next \/ UNCHANGED Broadcast!vars
  BY <1>9, <1>a DEF PumpFails
<1>10. ASSUME NEW w \in Workers, Reap(w) PROVE Broadcast!Next \/ UNCHANGED Broadcast!vars
  BY <1>10, <1>0, InsideIsStutter DEF Reap, Pending
<1>11. ASSUME NEW w \in Workers, DeliverAbort(w)
      PROVE Broadcast!Next \/ UNCHANGED Broadcast!vars
  BY <1>11, <1>a DEF DeliverAbort
<1>12. ASSUME NEW c \in Stripes, Pack(c) PROVE Broadcast!Next \/ UNCHANGED Broadcast!vars
  BY <1>12, <1>a DEF Pack
<1>13. ASSUME NEW c \in Stripes, CopyDone(c) PROVE Broadcast!Next \/ UNCHANGED Broadcast!vars
  BY <1>13, <1>a DEF CopyDone
<1>14. ASSUME NEW c \in Stripes, Flush(c) PROVE Broadcast!Next \/ UNCHANGED Broadcast!vars
  BY <1>14, <1>a DEF Flush
<1>15. ASSUME NEW c \in Stripes, AwaitFailedWrite(c)
      PROVE Broadcast!Next \/ UNCHANGED Broadcast!vars
  BY <1>15, <1>0, FailureIsFail DEF AwaitFailedWrite, BeginFail, Pending
<1>16. ASSUME NEW c \in Stripes, FinishSend(c) PROVE Broadcast!Next \/ UNCHANGED Broadcast!vars
  <2>1. /\ st[Leader[c]] = "run" /\ got' = got
        /\ st' = [st EXCEPT ![Leader[c]] = "done"] \/ st' = [st EXCEPT ![Leader[c]] = "failed"]
    BY <1>16 DEF FinishSend, Complete
  <2> QED BY <2>1, <1>0, FailureIsFail, SuccessIsSucceed DEF Pending
<1>17. ASSUME NEW c \in Stripes, DrainFails(c) PROVE Broadcast!Next \/ UNCHANGED Broadcast!vars
  BY <1>17, <1>0, FailureIsFail DEF DrainFails, BeginFail, Pending
<1>18. ASSUME NEW i \in Items, SubmitWrite(i) PROVE Broadcast!Next \/ UNCHANGED Broadcast!vars
  BY <1>18, <1>a DEF SubmitWrite
<1>19. ASSUME NEW i \in Items, WriteSucceeded(i)
      PROVE Broadcast!Next \/ UNCHANGED Broadcast!vars
  BY <1>19, <1>a DEF WriteSucceeded
<1>20. ASSUME NEW i \in Items, WriteAborted(i) PROVE Broadcast!Next \/ UNCHANGED Broadcast!vars
  BY <1>20, <1>a DEF WriteAborted, WriteTaskFails
<1>21. ASSUME NEW i \in Items, WriteFault(i) PROVE Broadcast!Next \/ UNCHANGED Broadcast!vars
  BY <1>21, <1>a DEF WriteFault, WriteTimesOut, WriteReportsFailure, WriteTaskFails
<1>22. ASSUME NEW i \in Items, TakeMessage(i) PROVE Broadcast!Next \/ UNCHANGED Broadcast!vars
  BY <1>22, <1>a DEF TakeMessage
<1>23. ASSUME NEW i \in Items, DeliverBucket(i) PROVE Broadcast!Next \/ UNCHANGED Broadcast!vars
  BY <1>23, <1>a DEF DeliverBucket
<1>24. ASSUME NEW i \in Items, LocalCopyDone(i) PROVE Broadcast!Next \/ UNCHANGED Broadcast!vars
  BY <1>24, <1>a DEF LocalCopyDone
<1>25. ASSUME NEW i \in Items, RemoteWriteLeft(i)
      PROVE Broadcast!Next \/ UNCHANGED Broadcast!vars
  BY <1>25, <1>a DEF RemoteWriteLeft
<1>26. ASSUME NEW i \in Items, RemoteWriteLanded(i)
      PROVE Broadcast!Next \/ UNCHANGED Broadcast!vars
  BY <1>26, <1>a DEF RemoteWriteLanded
<1>27. ASSUME NEW c \in Stripes, NEW n \in Rollouts, TakeBucket(c, n)
      PROVE Broadcast!Next \/ UNCHANGED Broadcast!vars
  BY <1>27, <1>a DEF TakeBucket
<1>28. ASSUME NEW c \in Stripes, NEW n \in Rollouts, BucketArrived(c, n)
      PROVE Broadcast!Next \/ UNCHANGED Broadcast!vars
  BY <1>28, <1>a DEF BucketArrived
<1>29. ASSUME NEW c \in Stripes, NEW n \in Rollouts, HandOver(c, n)
      PROVE Broadcast!Next \/ UNCHANGED Broadcast!vars
  BY <1>29, <1>a DEF HandOver
<1>30. ASSUME NEW c \in Stripes, NEW n \in Rollouts, AskNext(c, n)
      PROVE Broadcast!Next \/ UNCHANGED Broadcast!vars
  BY <1>30, <1>a DEF AskNext
<1>31. ASSUME NEW c \in Stripes, NEW n \in Rollouts, MergeChunk(c, n)
      PROVE Broadcast!Next \/ UNCHANGED Broadcast!vars
  BY <1>31, <1>a DEF MergeChunk
<1>32. ASSUME NEW c \in Stripes, NEW n \in Rollouts, AllReleased(c, n)
      PROVE Broadcast!Next \/ UNCHANGED Broadcast!vars
  BY <1>32, <1>a DEF AllReleased
<1>33. ASSUME NEW c \in Stripes, NEW n \in Rollouts, ChainDrained(c, n)
      PROVE Broadcast!Next \/ UNCHANGED Broadcast!vars
  BY <1>33, <1>a DEF ChainDrained
<1>34. ASSUME NEW c \in Stripes, NEW n \in Rollouts, ChainFails(c, n)
      PROVE Broadcast!Next \/ UNCHANGED Broadcast!vars
  BY <1>34, <1>a DEF ChainFails
<1>35. ASSUME NEW c \in Stripes, NEW n \in Rollouts, ReadDone(c, n)
      PROVE Broadcast!Next \/ UNCHANGED Broadcast!vars
  <2> DEFINE b == Len(got[<<c, n>>])
  <2>1. /\ ~Empty(c) /\ b < k[<<c, n>>]
        /\ got' = [got EXCEPT ![<<c, n>>] = Append(@, mem[<<c, n, Slot(b)>>])] /\ st' = st
    BY <1>35 DEF ReadDone
  <2>2. b \in Nat /\ k[<<c, n>>] \in Nat /\ n \in Workers BY GotType, <1>0
  <2>3. k[<<c, n>>] <= NumBuckets(c) /\ NumBuckets(c) = Load[c] /\ Load[c] \in Nat
    BY <2>1, <2>2, SizeAssumption DEF Delivery, Accounts, CountersBound, NumBuckets, Empty
  <2>4. mem[<<c, n, Slot(b)>>] = b
    <3>1. b \in b .. k[<<c, n>>] - 1 BY <2>1, <2>2
    <3> QED BY <2>1, <3>1 DEF Delivery, Contents, UnreadHolds
  <2>5. got' = [got EXCEPT ![<<c, n>>] = Append(@, Len(@))] BY <2>1, <2>4
  <2>6. b < Load[c] BY <2>1, <2>2, <2>3
  <2>7. st' = st BY <2>1
  <2>8. Broadcast!Read(c, n) BY <2>5, <2>6, <2>7, Zenon DEF Broadcast!Read
  <2> QED BY <2>8 DEF Broadcast!Next
<1>36. ASSUME NEW h \in Hops, Release(h) PROVE Broadcast!Next \/ UNCHANGED Broadcast!vars
  BY <1>36, <1>a DEF Release
<1>37. ASSUME NEW h \in Hops, ReleaseFails(h) PROVE Broadcast!Next \/ UNCHANGED Broadcast!vars
  BY <1>37, <1>a DEF ReleaseFails
<1>38. ASSUME NEW h \in Hops, DeliverFree(h) PROVE Broadcast!Next \/ UNCHANGED Broadcast!vars
  BY <1>38, <1>a DEF DeliverFree
<1>39. ASSUME NEW m \in stale, DropStale(m) PROVE Broadcast!Next \/ UNCHANGED Broadcast!vars
  BY <1>39, <1>a DEF DropStale
<1>40. CASE UNCHANGED vars BY <1>40, <1>a DEF vars
<1> QED BY <1>1, <1>2, <1>3, <1>4, <1>5, <1>6, <1>7, <1>8, <1>9, <1>10, <1>11, <1>12, <1>13,
   <1>14, <1>15, <1>16, <1>17, <1>18, <1>19, <1>20, <1>21, <1>22, <1>23, <1>24, <1>25, <1>26,
   <1>27, <1>28, <1>29, <1>30, <1>31, <1>32, <1>33, <1>34, <1>35, <1>36, <1>37, <1>38, <1>39,
   <1>40 DEF Next, Stopped

\* A sync implements the broadcast it promises: whatever the interleaving and
\* the faults, its results are those of WeightBroadcast.
THEOREM BroadcastImplemented == Spec => ImplementsBroadcast
<1>1. Init => Broadcast!Init BY DEF Init, Broadcast!Init, Broadcast!Everyone, Workers
<1> QED BY <1>1, BroadcastStep, DeliveryHolds, Quiet, PTL
   DEF Spec, ImplementsBroadcast, Broadcast!Spec
=============================================================================
