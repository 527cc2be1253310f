-------------------------- MODULE HeavyLightProofs --------------------------
(***************************************************************************)
(* Proofs about HeavyLight: UnmarkedExact and BoundedEstimate hold for any *)
(* number of flows, buckets and slots and any trace.                       *)
(*                                                                         *)
(* UnmarkedExact is not inductive: a flow that gets an empty slot is       *)
(* counted there from this record on, which is exact only if the flow is   *)
(* new.  BucketsFillFirst says it is.                                      *)
(***************************************************************************)
EXTENDS HeavyLight, FiniteSetTheorems, TLAPS

\* A bucket with an empty slot keeps one flow more after AddToSlot, the other
\* buckets keep the flows they kept.
LEMMA AddedFlow ==
  ASSUME NEW k \in Keys, NEW p \in Positions, TypeOK, kept' = kept \cup {k}
  PROVE  KeptIn(p)' = IF BucketOf[k] = p THEN KeptIn(p) \cup {k} ELSE KeptIn(p)
BY DEF KeptIn, TypeOK

\* A bucket that evicts v for k keeps as many flows as before, the others keep theirs.
LEMMA SwappedFlow ==
  ASSUME NEW k \in Keys, NEW v \in KeptIn(BucketOf[k]), NEW p \in Positions, TypeOK,
         kept' = (kept \ {v}) \cup {k}
  PROVE  KeptIn(p)' = IF BucketOf[k] = p THEN (KeptIn(p) \ {v}) \cup {k} ELSE KeptIn(p)
BY DEF KeptIn, TypeOK

\* The initial state, and the state NewTrace leads to, satisfies the invariant.
LEMMA InitIInv == Init => IInv
<1> SUFFICES ASSUME Init PROVE IInv
  OBVIOUS
<1> USE HeavyLightAssumption DEF Init
<1>1. TypeOK /\ UnkeptIsZero /\ UnmarkedExact /\ BoundedEstimate
  BY DEF TypeOK, UnkeptIsZero, UnmarkedExact, BoundedEstimate
<1>2. ASSUME NEW p \in Positions PROVE KeptIn(p) = {}
  BY DEF KeptIn
<1>3. BucketsFillFirst
  BY <1>2, FS_EmptySet DEF BucketsFillFirst
<1> QED
  BY <1>1, <1>3 DEF IInv

\* Clearing bucket and sketch for a new trace re-establishes the invariant.
LEMMA NewTraceIInv == NewTrace => IInv'
<1> SUFFICES ASSUME NewTrace PROVE IInv'
  OBVIOUS
<1> USE HeavyLightAssumption DEF NewTrace
<1>1. (TypeOK /\ UnkeptIsZero /\ UnmarkedExact /\ BoundedEstimate)'
  BY DEF TypeOK, UnkeptIsZero, UnmarkedExact, BoundedEstimate
<1>2. ASSUME NEW p \in Positions PROVE KeptIn(p)' = {}
  BY DEF KeptIn
<1>3. BucketsFillFirst'
  BY <1>2, FS_EmptySet DEF BucketsFillFirst
<1> QED
  BY <1>1, <1>3 DEF IInv

\* Counting a packet in the flow's own or an empty slot keeps the invariant.
LEMMA AddToSlotIInv ==
  ASSUME IInv, NEW k \in Keys, NEW c \in Counts, AddToSlot(k, c)
  PROVE  IInv'
<1> USE HeavyLightAssumption
<1>0. c \in Nat /\ BucketOf[k] \in Positions /\ TypeOK
  BY DEF IInv
<1>1. TypeOK'
  BY <1>0 DEF TypeOK, AddToSlot, Count
<1>2. UnkeptIsZero'
  BY <1>0 DEF IInv, TypeOK, UnkeptIsZero, AddToSlot
<1>3. BucketsFillFirst'
  <2> SUFFICES ASSUME NEW p \in Positions
               PROVE  /\ IsFiniteSet(KeptIn(p)')
                      /\ Cardinality(KeptIn(p)') <= NumSlots
                      /\ Cardinality(KeptIn(p)') # NumSlots =>
                           \A j \in Keys \ kept' : BucketOf[j] = p => truth'[j] = 0
    BY DEF BucketsFillFirst, Full
  <2>1. KeptIn(p)' = IF BucketOf[k] = p THEN KeptIn(p) \cup {k} ELSE KeptIn(p)
    BY <1>0, AddedFlow DEF AddToSlot
  <2>2. /\ IsFiniteSet(KeptIn(p))
        /\ Cardinality(KeptIn(p)) \in Nat
        /\ Cardinality(KeptIn(p)) <= NumSlots
        /\ Cardinality(KeptIn(p)) # NumSlots =>
             \A j \in Keys \ kept : BucketOf[j] = p => truth[j] = 0
    BY FS_CardinalityType DEF IInv, BucketsFillFirst, Full
  <2>3. \A j \in Keys \ kept' : j \in Keys \ kept /\ j # k /\ truth'[j] = truth[j]
    BY <1>0 DEF AddToSlot, Count, TypeOK
  <2>4. CASE BucketOf[k] = p /\ k \notin kept
    <3>1. k \notin KeptIn(p)
      BY <2>4 DEF KeptIn
    <3>2. Cardinality(KeptIn(p)') = Cardinality(KeptIn(p)) + 1 /\ IsFiniteSet(KeptIn(p)')
      BY <2>1, <2>2, <2>4, <3>1, FS_AddElement
    <3>3. Cardinality(KeptIn(p)) < NumSlots
      BY <2>4 DEF AddToSlot
    <3> QED
      BY <2>2, <2>3, <3>2, <3>3
  <2>5. CASE BucketOf[k] # p \/ k \in kept
    <3>1. KeptIn(p)' = KeptIn(p)
      BY <2>1, <2>5 DEF KeptIn
    <3> QED
      BY <2>2, <2>3, <3>1
  <2> QED
    BY <2>4, <2>5
<1>4. UnmarkedExact'
  <2> SUFFICES ASSUME NEW j \in kept' \ marked' PROVE heavy'[j] = truth'[j]
    BY DEF UnmarkedExact
  <2>1. CASE j # k
    BY <1>0, <2>1 DEF AddToSlot, Count, TypeOK, IInv, UnmarkedExact
  <2>2. CASE j = k /\ k \in kept
    BY <1>0, <2>2 DEF AddToSlot, Count, TypeOK, IInv, UnmarkedExact
  <2>3. CASE j = k /\ k \notin kept
    <3>1. truth[k] = 0
      BY <1>0, <2>3 DEF AddToSlot, IInv, BucketsFillFirst, Full
    <3>2. heavy[k] = 0
      BY <2>3 DEF IInv, UnkeptIsZero
    <3> QED
      BY <1>0, <2>3, <3>1, <3>2 DEF AddToSlot, Count, TypeOK
  <2> QED
    BY <2>1, <2>2, <2>3
<1>5. BoundedEstimate'
  BY <1>0 DEF AddToSlot, Count, TypeOK, IInv, BoundedEstimate
<1> QED
  BY <1>1, <1>2, <1>3, <1>4, <1>5 DEF IInv

\* A packet that finds no slot and evicts nobody keeps the invariant.
LEMMA TurnAwayIInv ==
  ASSUME IInv, NEW k \in Keys, NEW c \in Counts, TurnAway(k, c)
  PROVE  IInv'
<1> USE HeavyLightAssumption
<1>0. c \in Nat /\ BucketOf[k] \in Positions /\ TypeOK
  BY DEF IInv
<1>1. TypeOK'
  BY <1>0 DEF TypeOK, TurnAway, Count
<1>2. UnkeptIsZero'
  BY DEF IInv, UnkeptIsZero, TurnAway
<1>3. BucketsFillFirst'
  <2>1. \A p \in Positions : KeptIn(p)' = KeptIn(p)
    BY DEF KeptIn, TurnAway
  <2>2. \A j \in Keys : BucketOf[j] # BucketOf[k] => truth'[j] = truth[j]
    BY <1>0 DEF TurnAway, Count, TypeOK
  <2> QED
    BY <2>1, <2>2 DEF IInv, BucketsFillFirst, Full, TurnAway
<1>4. UnmarkedExact'
  BY <1>0 DEF TurnAway, Count, TypeOK, IInv, UnmarkedExact
<1>5. BoundedEstimate'
  BY <1>0 DEF TurnAway, Count, TypeOK, IInv, BoundedEstimate
<1> QED
  BY <1>1, <1>2, <1>3, <1>4, <1>5 DEF IInv

\* An eviction, which marks the newcomer's slot, keeps the invariant.
LEMMA EvictIInv ==
  ASSUME IInv, NEW k \in Keys, NEW c \in Counts, NEW v \in Keys, Evict(k, c, v)
  PROVE  IInv'
<1> USE HeavyLightAssumption
<1>0. /\ c \in Nat /\ BucketOf[k] \in Positions /\ TypeOK
      /\ k \notin kept /\ v \in kept /\ v # k
      /\ heavy[k] = 0
  BY DEF IInv, Evict, KeptIn, UnkeptIsZero
<1>1. TypeOK'
  BY <1>0 DEF TypeOK, Evict, Count
<1>2. UnkeptIsZero'
  BY <1>0 DEF IInv, TypeOK, UnkeptIsZero, Evict
<1>3. BucketsFillFirst'
  <2> SUFFICES ASSUME NEW p \in Positions
               PROVE  /\ IsFiniteSet(KeptIn(p)')
                      /\ Cardinality(KeptIn(p)') <= NumSlots
                      /\ Cardinality(KeptIn(p)') # NumSlots =>
                           \A j \in Keys \ kept' : BucketOf[j] = p => truth'[j] = 0
    BY DEF BucketsFillFirst, Full
  <2>1. KeptIn(p)' = IF BucketOf[k] = p THEN (KeptIn(p) \ {v}) \cup {k} ELSE KeptIn(p)
    BY <1>0, SwappedFlow DEF Evict
  <2>2. /\ IsFiniteSet(KeptIn(p))
        /\ Cardinality(KeptIn(p)) \in Nat
        /\ Cardinality(KeptIn(p)) <= NumSlots
        /\ Cardinality(KeptIn(p)) # NumSlots =>
             \A j \in Keys \ kept : BucketOf[j] = p => truth[j] = 0
    BY FS_CardinalityType DEF IInv, BucketsFillFirst, Full
  <2>3. CASE BucketOf[k] = p
    <3>1. v \in KeptIn(p) /\ k \notin KeptIn(p) \ {v} /\ Cardinality(KeptIn(p)) = NumSlots
      BY <1>0, <2>3 DEF Evict, KeptIn, Full
    <3>2. /\ IsFiniteSet(KeptIn(p) \ {v})
          /\ Cardinality(KeptIn(p) \ {v}) = Cardinality(KeptIn(p)) - 1
      BY <2>2, <3>1, FS_RemoveElement
    <3>3. /\ IsFiniteSet((KeptIn(p) \ {v}) \cup {k})
          /\ Cardinality((KeptIn(p) \ {v}) \cup {k}) = Cardinality(KeptIn(p) \ {v}) + 1
      BY <3>1, <3>2, FS_AddElement
    <3> QED
      BY <2>1, <2>2, <2>3, <3>1, <3>2, <3>3
  <2>4. CASE BucketOf[k] # p
    <3>1. BucketOf[v] # p
      BY <2>4 DEF Evict, KeptIn
    <3>2. \A j \in Keys \ kept' : BucketOf[j] = p => j \in Keys \ kept /\ truth'[j] = truth[j]
      BY <1>0, <2>4, <3>1 DEF Evict, Count, TypeOK
    <3> QED
      BY <2>1, <2>2, <2>4, <3>2
  <2> QED
    BY <2>3, <2>4
<1>4. UnmarkedExact'
  BY <1>0 DEF Evict, Count, TypeOK, IInv, UnmarkedExact
<1>5. BoundedEstimate'
  <2> SUFFICES ASSUME NEW j \in Keys
               PROVE  /\ truth'[j] <= heavy'[j] + light'[j]
                      /\ heavy'[j] + light'[j] <= 2 * truth'[j]
    BY DEF BoundedEstimate
  <2>1. truth[j] <= heavy[j] + light[j] /\ heavy[j] + light[j] <= 2 * truth[j]
    BY DEF IInv, BoundedEstimate
  <2>2. CASE j = k
    BY <1>0, <2>1, <2>2 DEF Evict, Count, TypeOK
  <2>3. CASE j = v
    BY <1>0, <2>1, <2>3 DEF Evict, Count, TypeOK
  <2>4. CASE j # k /\ j # v
    BY <1>0, <2>1, <2>4 DEF Evict, Count, TypeOK
  <2> QED
    BY <2>2, <2>3, <2>4
<1> QED
  BY <1>1, <1>2, <1>3, <1>4, <1>5 DEF IInv

\* Every reachable state satisfies the inductive invariant.
THEOREM IInvHolds == Spec => []IInv
<1>1. Init => IInv
  BY InitIInv
<1>2. IInv /\ [Next]_vars => IInv'
  <2> SUFFICES ASSUME IInv, [Next]_vars PROVE IInv'
    OBVIOUS
  <2>1. CASE NewTrace
    BY <2>1, NewTraceIInv
  <2>2. ASSUME NEW k \in Keys, NEW c \in Counts, AddToSlot(k, c) PROVE IInv'
    BY <2>2, AddToSlotIInv
  <2>3. ASSUME NEW k \in Keys, NEW c \in Counts, TurnAway(k, c) PROVE IInv'
    BY <2>3, TurnAwayIInv
  <2>4. ASSUME NEW k \in Keys, NEW c \in Counts, NEW v \in Keys, Evict(k, c, v) PROVE IInv'
    BY <2>4, EvictIInv
  <2>5. CASE UNCHANGED vars
    BY <2>5 DEF vars, IInv, TypeOK, UnkeptIsZero, BucketsFillFirst, UnmarkedExact,
                BoundedEstimate, KeptIn, Full
  <2> QED
    BY <2>1, <2>2, <2>3, <2>4, <2>5 DEF Next, Add
<1> QED
  BY <1>1, <1>2, PTL DEF Spec

\* A flow without the mark is counted exactly by its slot (ObliviousBucket.h's
\* get_flag test in the FLOW_SIZE query rests on it).
THEOREM UnmarkedExactHolds == Spec => []UnmarkedExact
<1>1. IInv => UnmarkedExact
  BY DEF IInv
<1> QED
  BY <1>1, IInvHolds, PTL

\* Bucket and sketch together neither lose a packet of a flow nor count one
\* more than twice.
THEOREM BoundedEstimateHolds == Spec => []BoundedEstimate
<1>1. IInv => BoundedEstimate
  BY DEF IInv
<1> QED
  BY <1>1, IInvHolds, PTL
=============================================================================
