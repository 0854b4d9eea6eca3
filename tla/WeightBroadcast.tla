-------------------------- MODULE WeightBroadcast --------------------------
(***************************************************************************)
(* What a weight sync promises, whatever engine carries it.  Sources send  *)
(* numbered buckets; every receiver reads each source's buckets in order,  *)
(* unchanged, and never reads anything else.  A worker reports success     *)
(* only when it has read everything and so has every receiver it feeds; it *)
(* may fail at any time before that, for good.                             *)
(***************************************************************************)
EXTENDS Naturals, Sequences

CONSTANTS
  Senders, Receivers,
  Sources,      \* the streams of buckets
  Size,         \* [Sources -> Nat]: buckets in each stream
  Feeds         \* the <<s, w, n>> where receiver n gets stream s from w

VARIABLES
  outcome,      \* [worker -> "pending", "success" or "failure"]
  read          \* [Sources \X Receivers -> Seq(Nat)]

vars == <<outcome, read>>
Everyone == Senders \cup Receivers

Init == /\ outcome = [w \in Everyone |-> "pending"]
        /\ read = [x \in Sources \X Receivers |-> <<>>]

HasAll(n) == \A s \in Sources : Len(read[<<s, n>>]) = Size[s]

\* A receiver's device may go on reading after its sync failed.
Read(s, n) ==
  /\ Len(read[<<s, n>>]) < Size[s]
  /\ read' = [read EXCEPT ![<<s, n>>] = Append(@, Len(@))]
  /\ UNCHANGED outcome

Succeed(w) ==
  /\ outcome[w] = "pending"
  /\ w \in Receivers => HasAll(w)
  /\ \A s \in Sources, n \in Receivers : <<s, w, n>> \in Feeds => Len(read[<<s, n>>]) = Size[s]
  /\ outcome' = [outcome EXCEPT ![w] = "success"]
  /\ UNCHANGED read

Fail(w) ==
  /\ outcome[w] = "pending"
  /\ outcome' = [outcome EXCEPT ![w] = "failure"]
  /\ UNCHANGED read

Next == \/ \E w \in Everyone : Succeed(w) \/ Fail(w)
        \/ \E s \in Sources, n \in Receivers : Read(s, n)

Spec == Init /\ [][Next]_vars
=============================================================================
