----------------------------- MODULE HeavyLight -----------------------------
(***************************************************************************)
(* What insert and add_trace together do to the packet counts of flows,    *)
(* without slots, masks or widths.  A bucket keeps the counts of at most   *)
(* NumSlots flows; the others are in the sketch.  A flow that was let in   *)
(* by evicting another one is marked: it may have counts on both sides.    *)
(*                                                                         *)
(* light[k] is what was inserted into the sketch under key k, the share of *)
(* k in its counters.                                                      *)
(***************************************************************************)
EXTENDS Integers, FiniteSets

CONSTANTS Keys,       \* flow keys, not the reserved key 0
          Positions,  \* the buckets
          BucketOf,   \* the bucket of each key
          NumSlots,   \* flows per bucket
          Counts      \* the packet counts of trace records

ASSUME HeavyLightAssumption ==
  /\ BucketOf \in [Keys -> Positions]
  /\ NumSlots \in Nat \ {0}
  /\ Counts \subseteq Nat

VARIABLES kept,    \* the flows that have a slot of their bucket
          heavy,   \* heavy[k]: the count in k's slot, 0 if k has none
          marked,  \* the flows whose slot has the flag
          neg,     \* neg[p]: counts turned away since the last eviction
          light,   \* light[k]: counts inserted into the sketch under k
          truth    \* truth[k]: the counts of k in the trace

vars == <<kept, heavy, marked, neg, light, truth>>

KeptIn(p) == {k \in kept : BucketOf[k] = p}
Full(p)   == Cardinality(KeptIn(p)) = NumSlots

Init ==
  /\ kept = {}
  /\ heavy = [k \in Keys |-> 0]
  /\ marked = {}
  /\ neg = [p \in Positions |-> 0]
  /\ light = [k \in Keys |-> 0]
  /\ truth = [k \in Keys |-> 0]

Count(k, c) == truth' = [truth EXCEPT ![k] = @ + c]

\* Mutant: a full bucket takes one flow more.
AddToFullBucket(k, c) ==
  /\ k \in kept \/ Cardinality(KeptIn(BucketOf[k])) <= NumSlots
  /\ kept' = kept \cup {k}
  /\ heavy' = [heavy EXCEPT ![k] = @ + c]
  /\ light' = [light EXCEPT ![k] = @ + c]
  /\ Count(k, c)
  /\ UNCHANGED <<marked, neg>>

\* The flow has a slot or an empty slot is left: the slot takes the count, and
\* so does the sketch.
AddToSlot(k, c) ==
  /\ k \in kept \/ Cardinality(KeptIn(BucketOf[k])) < NumSlots
  /\ kept' = kept \cup {k}
  /\ heavy' = [heavy EXCEPT ![k] = @ + c]
  /\ light' = [light EXCEPT ![k] = @ + c]
  /\ Count(k, c)
  /\ UNCHANGED <<marked, neg>>

\* The bucket is full of larger flows: the sketch takes the count.
TurnAway(k, c) ==
  /\ k \notin kept
  /\ Full(BucketOf[k])
  /\ \A v \in KeptIn(BucketOf[k]) : neg[BucketOf[k]] + c <= 8 * heavy[v]
  /\ neg' = [neg EXCEPT ![BucketOf[k]] = @ + c]
  /\ light' = [light EXCEPT ![k] = @ + c]
  /\ Count(k, c)
  /\ UNCHANGED <<kept, heavy, marked>>

\* Mutant: the new flow is not marked.
EvictUnmarked(k, c, v) ==
  /\ k \notin kept
  /\ v \in KeptIn(BucketOf[k])
  /\ Full(BucketOf[k])
  /\ \A u \in KeptIn(BucketOf[k]) : heavy[v] <= heavy[u]
  /\ neg[BucketOf[k]] + c > 8 * heavy[v]
  /\ kept' = (kept \ {v}) \cup {k}
  /\ heavy' = [heavy EXCEPT ![v] = 0, ![k] = c]
  /\ marked' = marked \ {v}
  /\ neg' = [neg EXCEPT ![BucketOf[k]] = 0]
  /\ light' = [light EXCEPT ![v] = @ + heavy[v]]
  /\ Count(k, c)

\* Mutant: the evicted flow's counts go nowhere.
EvictDropped(k, c, v) ==
  /\ k \notin kept
  /\ v \in KeptIn(BucketOf[k])
  /\ Full(BucketOf[k])
  /\ \A u \in KeptIn(BucketOf[k]) : heavy[v] <= heavy[u]
  /\ neg[BucketOf[k]] + c > 8 * heavy[v]
  /\ kept' = (kept \ {v}) \cup {k}
  /\ heavy' = [heavy EXCEPT ![v] = 0, ![k] = c]
  /\ marked' = (marked \ {v}) \cup {k}
  /\ neg' = [neg EXCEPT ![BucketOf[k]] = 0]
  /\ light' = light
  /\ Count(k, c)

\* The counts turned away outweigh the smallest flow v: v moves to the sketch.
Evict(k, c, v) ==
  /\ k \notin kept
  /\ v \in KeptIn(BucketOf[k])
  /\ Full(BucketOf[k])
  /\ \A u \in KeptIn(BucketOf[k]) : heavy[v] <= heavy[u]
  /\ neg[BucketOf[k]] + c > 8 * heavy[v]
  /\ kept' = (kept \ {v}) \cup {k}
  /\ heavy' = [heavy EXCEPT ![v] = 0, ![k] = c]
  /\ marked' = (marked \ {v}) \cup {k}
  /\ neg' = [neg EXCEPT ![BucketOf[k]] = 0]
  /\ light' = [light EXCEPT ![v] = @ + heavy[v]]
  /\ Count(k, c)

\* A STAT message: a fresh bucket array and a cleared sketch.
NewTrace ==
  /\ kept' = {}
  /\ heavy' = [k \in Keys |-> 0]
  /\ marked' = {}
  /\ neg' = [p \in Positions |-> 0]
  /\ light' = [k \in Keys |-> 0]
  /\ truth' = [k \in Keys |-> 0]

Add(k, c) == AddToSlot(k, c) \/ TurnAway(k, c) \/ \E v \in Keys : Evict(k, c, v)

Next == NewTrace \/ \E k \in Keys, c \in Counts : Add(k, c)

Spec == Init /\ [][Next]_vars

---------------------------------------------------------------------------
\* Counts are naturals, and only a flow with a slot carries the mark (ObliviousBucket.h).
TypeOK ==
  /\ kept \in SUBSET Keys
  /\ heavy \in [Keys -> Nat]
  /\ marked \in SUBSET kept
  /\ neg \in [Positions -> Nat]
  /\ light \in [Keys -> Nat]
  /\ truth \in [Keys -> Nat]

\* A flow without a slot has no count there.
UnkeptIsZero == \A k \in Keys \ kept : heavy[k] = 0

\* No bucket keeps more flows than it has slots, and a bucket that is not full
\* has kept every flow it saw: a flow that gets an empty slot is new.
BucketsFillFirst ==
  \A p \in Positions :
    /\ IsFiniteSet(KeptIn(p))
    /\ Cardinality(KeptIn(p)) <= NumSlots
    /\ ~Full(p) => \A k \in Keys \ kept : BucketOf[k] = p => truth[k] = 0

\* A flow without the mark is counted exactly by its slot: FLOW_SIZE answers it
\* from the bucket alone, however many other flows came and went.
UnmarkedExact == \A k \in kept \ marked : heavy[k] = truth[k]

\* A flow's counts are never lost between bucket and sketch, and none enters
\* them more than twice: slot and sketch share together are at least its packets
\* and at most twice them.
BoundedEstimate ==
  \A k \in Keys : truth[k] <= heavy[k] + light[k] /\ heavy[k] + light[k] <= 2 * truth[k]

\* The inductive invariant.
IInv ==
  /\ TypeOK
  /\ UnkeptIsZero
  /\ BucketsFillFirst
  /\ UnmarkedExact
  /\ BoundedEstimate
=============================================================================
