--------------------------- MODULE FlowStatsProofs ---------------------------
(***************************************************************************)
(* What FlowStats computes, and FlowQueries reads, for every array of      *)
(* buckets, hash, trace and counter width.  The masked loops of oinsert    *)
(* and oscan are recursive functions; AccumulateLoop, EvictLoop and        *)
(* ScanLoop carry an invariant through their rounds, and OInsertOutcome    *)
(* sums them up: a slot takes the count, or the bucket turns it away, or   *)
(* the first slot with the least value is evicted.  RecordInserted says    *)
(* the same of a step, and the lemmas that end in After carry each part of *)
(* IInv over it.  The queries over the tree also need SharesUsed.          *)
(*                                                                         *)
(* Two hypotheses stand for widths.  With MaxPackets < Flag no slot counts *)
(* into its flag; with 8 * MaxPackets < ValMod the shift of swap_threshold *)
(* drops no bit.  Both fail only for traces of 2^31 and 2^29 packets; the  *)
(* counters of the sketch may wrap.                                        *)
(***************************************************************************)
EXTENDS FlowQueries, SumProofs

---------------------------------------------------------------------------
(* Values and flags                                                         *)

LEMMA ValueOf ==
  ASSUME NEW v \in Values
  PROVE  /\ ValOf(v) = IF Flagged(v) THEN v - Flag ELSE v
         /\ ValOf(v) \in 0..(Flag - 1)
<1>0. Flag \in Nat \ {0} /\ v \in 0..(2 * Flag - 1)
  BY FlowStatsAssumption DEF Values, ValMod
<1>1. CASE v < Flag
  <2>1. v \in Nat
    BY <1>0
  <2>2. v % Flag = v
    BY <1>0, <1>1, <2>1, Remainder
  <2> QED
    BY <1>0, <1>1, <2>2 DEF ValOf, Flagged
<1>2. CASE v >= Flag
  <2>1. v - Flag \in 0..(Flag - 1) /\ v = Flag * 1 + (v - Flag)
    BY <1>0, <1>2
  <2>2. v % Flag = v - Flag
    BY <1>0, <2>1, RemainderOf
  <2> QED
    BY <1>0, <1>2, <2>1, <2>2 DEF ValOf, Flagged
<1> QED
  BY <1>0, <1>1, <1>2

---------------------------------------------------------------------------
(* The loops of a bucket                                                    *)

Bucket == [key : [Slots -> Keys \cup {NoKey}], val : [Slots -> Values], neg : Values]

LEMMA SlotFacts ==
  /\ NumSlots \in Nat /\ NumSlots >= 1 /\ Slots = 1..NumSlots /\ Slots \subseteq Nat
  /\ NoKey \notin Keys
  /\ Flag \in Nat \ {0} /\ ValMod \in Nat \ {0} /\ Values \subseteq Nat /\ Values = 0..(ValMod - 1)
BY FlowStatsAssumption DEF Slots, Values, ValMod, NoKey

\* The loop of oscan.
LEMMA ScanLoop ==
  ASSUME NEW b \in Bucket, NEW k
  PROVE  \E f : /\ f[0] = 0
                /\ \A i \in Slots : f[i] = IF b.key[i] = k THEN b.val[i] ELSE f[i - 1]
                /\ OScan(b, k) = f[NumSlots]
<1> DEFINE step == [i \in 1..NumSlots |->
                      [r \in Nat |-> IF b.key[i] = k THEN b.val[i] ELSE r]]
           Is(f) == f = [i \in 0..NumSlots |->
                           IF i = 0 THEN 0 ELSE IF b.key[i] = k THEN b.val[i] ELSE f[i - 1]]
<1>0. NumSlots \in Nat
  BY SlotFacts
<1>1. step \in [1..NumSlots -> [Nat -> Nat]]
  BY SlotFacts DEF Bucket
<1> DEFINE S == Nat
           s == 0
<1>2. PICK f : Loop(f, NumSlots, S, s, step)
  <2>1. s \in S /\ step \in [1..NumSlots -> [S -> S]]
    BY <1>1
  <2> HIDE DEF step, S, s
  <2> QED
    BY <1>0, <2>1, Iterated
<1>3. Is(f)
  <2>1. \A i \in 1..NumSlots : f[i - 1] \in Nat
    BY <1>0, <1>2 DEF Loop
  <2>2. \A i \in 1..NumSlots : f[i] = IF b.key[i] = k THEN b.val[i] ELSE f[i - 1]
    BY <1>2, <2>1 DEF Loop
  <2>3. \A i \in 0..NumSlots : i = 0 \/ i \in 1..NumSlots
    BY <1>0
  <2> QED
    BY <1>2, <2>2, <2>3 DEF Loop
<1>4. PICK g : g = CHOOSE h : Is(h)
  OBVIOUS
<1>5. Is(g)
  <2> HIDE DEF Is
  <2> QED
    BY <1>3, <1>4
<1>6. OScan(b, k) = g[NumSlots]
  BY <1>4 DEF OScan
<1>7. g[0] = 0
  <2>1. 0 \in 0..NumSlots
    BY <1>0
  <2> QED
    BY <1>5, <2>1
<1>8. \A i \in Slots : g[i] = IF b.key[i] = k THEN b.val[i] ELSE g[i - 1]
  <2>1. \A i \in Slots : i \in 0..NumSlots /\ i # 0
    BY SlotFacts
  <2> QED
    BY <1>5, <2>1
<1> HIDE DEF Is
<1> QED
  BY <1>6, <1>7, <1>8

\* What oscan finds: the value of the slot with the key, or 0.
LEMMA ScanNone ==
  ASSUME NEW b \in Bucket, NEW k, \A i \in Slots : b.key[i] # k
  PROVE  OScan(b, k) = 0
<1>1. PICK f : /\ f[0] = 0
               /\ \A i \in Slots : f[i] = IF b.key[i] = k THEN b.val[i] ELSE f[i - 1]
               /\ OScan(b, k) = f[NumSlots]
  BY ScanLoop
<1> DEFINE A == {i \in 0..NumSlots : f[i] = 0}
<1>2. 0 \in A
  BY <1>1, SlotFacts
<1>3. ASSUME NEW n \in 0..(NumSlots - 1), n \in A PROVE n + 1 \in A
  <2>1. n + 1 \in Slots /\ n + 1 - 1 = n
    BY SlotFacts
  <2> QED
    BY <1>1, <1>3, <2>1, SlotFacts
<1>4. 0..NumSlots \subseteq A
  <2> HIDE DEF A
  <2> QED
    BY <1>2, <1>3, UpTo, SlotFacts
<1> QED
  BY <1>1, <1>4, SlotFacts

LEMMA ScanOne ==
  ASSUME NEW b \in Bucket, NEW k, NEW h \in Slots, b.key[h] = k,
         \A i \in Slots : b.key[i] = k => i = h
  PROVE  OScan(b, k) = b.val[h]
<1>1. PICK f : /\ f[0] = 0
               /\ \A i \in Slots : f[i] = IF b.key[i] = k THEN b.val[i] ELSE f[i - 1]
               /\ OScan(b, k) = f[NumSlots]
  BY ScanLoop
<1> DEFINE A == {i \in 0..NumSlots : i >= h => f[i] = b.val[h]}
<1>2. 0 \in A
  BY SlotFacts
<1>3. ASSUME NEW n \in 0..(NumSlots - 1), n \in A PROVE n + 1 \in A
  <2>1. n + 1 \in Slots /\ n + 1 - 1 = n /\ h \in Nat
    BY SlotFacts
  <2>2. f[n + 1] = IF n + 1 = h THEN b.val[h] ELSE f[n]
    BY <1>1, <2>1
  <2> QED
    BY <1>3, <2>1, <2>2, SlotFacts
<1>4. 0..NumSlots \subseteq A
  <2> HIDE DEF A
  <2> QED
    BY <1>2, <1>3, UpTo, SlotFacts
<1> QED
  BY <1>1, <1>4, SlotFacts

\* The first loop of oinsert.
Accs == [key : [Slots -> Keys \cup {NoKey}], val : [Slots -> Values], min : Nat, success : BOOLEAN]

First(b) == [key |-> b.key, val |-> b.val, min |-> ValOf(b.val[1]), success |-> FALSE]

LEMMA AccumulateSlotType ==
  ASSUME NEW s \in Accs, NEW i \in Slots, NEW k \in Keys, NEW c \in Nat
  PROVE  AccumulateSlot(s, i, k, c) \in Accs
<1> DEFINE empty == s.key[i] = NoKey
           key   == IF empty /\ ~s.success THEN k ELSE s.key[i]
           found == key = k
           val   == IF found THEN (s.val[i] + c) % ValMod ELSE s.val[i]
<1>1. key \in Keys \cup {NoKey}
  BY DEF Accs
<1>2. val \in Values /\ s.val[i] \in Values
  <2>1. s.val[i] \in Values /\ s.val[i] + c \in Nat
    BY SlotFacts DEF Accs
  <2>2. (s.val[i] + c) % ValMod \in Values
    BY <2>1, SlotFacts, Remainder
  <2> QED
    BY <2>1, <2>2
<1>3. ValOf(val) \in Nat
  <2> HIDE DEF val
  <2> QED
    BY <1>2, ValueOf, SlotFacts
<1>4. /\ [s.key EXCEPT ![i] = key] \in [Slots -> Keys \cup {NoKey}]
      /\ [s.val EXCEPT ![i] = val] \in [Slots -> Values]
  <2> HIDE DEF key, val
  <2> QED
    BY <1>1, <1>2 DEF Accs
<1>5. (s.success \/ empty \/ found) \in BOOLEAN
  OBVIOUS
<1>6. (IF s.min > ValOf(val) THEN ValOf(val) ELSE s.min) \in Nat
  <2> HIDE DEF val
  <2> QED
    BY <1>3 DEF Accs
<1>7. AccumulateSlot(s, i, k, c) =
        [key |-> [s.key EXCEPT ![i] = key], val |-> [s.val EXCEPT ![i] = val],
         min |-> IF s.min > ValOf(val) THEN ValOf(val) ELSE s.min,
         success |-> s.success \/ empty \/ found]
  BY DEF AccumulateSlot
<1> HIDE DEF key, val, empty, found
<1> QED
  BY <1>4, <1>5, <1>6, <1>7 DEF Accs

\* A round at a slot that has another key, at one that has or gets the key.
LEMMA AccumulateElsewhere ==
  ASSUME NEW s, NEW i \in Slots, NEW k, NEW c, s.key[i] # k, s.success \/ s.key[i] # NoKey,
         s.key \in [Slots -> Keys \cup {NoKey}], s.val \in [Slots -> Values]
  PROVE  /\ AccumulateSlot(s, i, k, c).key = s.key
         /\ AccumulateSlot(s, i, k, c).val = s.val
         /\ AccumulateSlot(s, i, k, c).min
              = IF s.min > ValOf(s.val[i]) THEN ValOf(s.val[i]) ELSE s.min
         /\ s.success => AccumulateSlot(s, i, k, c).success
         /\ ~s.success => ~AccumulateSlot(s, i, k, c).success
<1>1. (IF s.key[i] = NoKey /\ ~s.success THEN k ELSE s.key[i]) = s.key[i]
  OBVIOUS
<1>2. [s.key EXCEPT ![i] = s.key[i]] = s.key /\ [s.val EXCEPT ![i] = s.val[i]] = s.val
  OBVIOUS
<1> QED
  BY <1>1, <1>2, Zenon DEF AccumulateSlot

LEMMA AccumulateHere ==
  ASSUME NEW s, NEW i, NEW k, NEW c, NEW r, r = AccumulateSlot(s, i, k, c),
         s.key[i] = k \/ (s.key[i] = NoKey /\ ~s.success)
  PROVE  /\ r.key = [s.key EXCEPT ![i] = k]
         /\ r.val = [s.val EXCEPT ![i] = (s.val[i] + c) % ValMod]
         /\ r.success
<1>1. (IF s.key[i] = NoKey /\ ~s.success THEN k ELSE s.key[i]) = k
  OBVIOUS
<1> QED
  BY <1>1, Zenon DEF AccumulateSlot

LEMMA AccumulateLoop ==
  ASSUME NEW b \in Bucket, NEW k \in Keys, NEW c \in Nat
  PROVE  \E f : /\ f[0] = First(b)
                /\ \A i \in Slots : f[i] = AccumulateSlot(f[i - 1], i, k, c)
                /\ Accumulate(b, k, c) = f[NumSlots]
<1> DEFINE step == [i \in 1..NumSlots |-> [s \in Accs |-> AccumulateSlot(s, i, k, c)]]
           s0 == First(b)
           Is(f) == f = [i \in 0..NumSlots |->
                           IF i = 0
                           THEN [key |-> b.key, val |-> b.val, min |-> ValOf(b.val[1]),
                                 success |-> FALSE]
                           ELSE AccumulateSlot(f[i - 1], i, k, c)]
<1>0. NumSlots \in Nat
  BY SlotFacts
<1>1. step \in [1..NumSlots -> [Accs -> Accs]]
  BY SlotFacts, AccumulateSlotType
<1>2. PICK f : Loop(f, NumSlots, Accs, s0, step)
  <2>1. s0 \in Accs
    <3>1. b.val[1] \in Values
      BY SlotFacts DEF Bucket
    <3>2. ValOf(b.val[1]) \in Nat
      BY <3>1, ValueOf
    <3> QED
      BY <3>2 DEF Accs, First, Bucket
  <2> HIDE DEF step, s0
  <2> QED
    BY <1>0, <1>1, <2>1, Iterated
<1>3. Is(f)
  <2>1. \A i \in 1..NumSlots : f[i - 1] \in Accs
    BY <1>0, <1>2 DEF Loop
  <2>2. \A i \in 1..NumSlots : f[i] = AccumulateSlot(f[i - 1], i, k, c)
    BY <1>2, <2>1 DEF Loop
  <2>3. \A i \in 0..NumSlots : i = 0 \/ i \in 1..NumSlots
    BY <1>0
  <2>4. \A i \in 0..NumSlots :
          f[i] = IF i = 0 THEN s0 ELSE AccumulateSlot(f[i - 1], i, k, c)
    <3> HIDE DEF s0
    <3> QED
      BY <1>2, <2>2, <2>3 DEF Loop
  <2>5. f = [i \in 0..NumSlots |-> IF i = 0 THEN s0 ELSE AccumulateSlot(f[i - 1], i, k, c)]
    <3> HIDE DEF s0
    <3> QED
      BY <1>2, <2>4 DEF Loop
  <2> QED
    BY <2>5, Zenon DEF First
<1>4. PICK g : g = CHOOSE h : Is(h)
  OBVIOUS
<1>5. Is(g)
  <2> HIDE DEF Is
  <2> QED
    BY <1>3, <1>4
<1>6. Accumulate(b, k, c) = g[NumSlots]
  BY <1>4, Zenon DEF Accumulate
<1>7. \A i \in 0..NumSlots : g[i] = IF i = 0 THEN First(b) ELSE AccumulateSlot(g[i - 1], i, k, c)
  BY <1>5 DEF First
<1>8. 0 \in 0..NumSlots /\ \A i \in Slots : i \in 0..NumSlots /\ i # 0
  BY SlotFacts
<1> HIDE DEF Is
<1> QED
  BY <1>6, <1>7, <1>8

\* The slot h has the key or is the first empty one: it takes the count.
LEMMA AccumulateTaken ==
  ASSUME NEW b \in Bucket, NEW k \in Keys, NEW c \in Nat, NEW h \in Slots,
         b.key[h] \in {k, NoKey},
         \A j \in Slots : j < h => b.key[j] \notin {k, NoKey},
         \A j \in Slots : j > h => b.key[j] # k
  PROVE  /\ Accumulate(b, k, c).key = [b.key EXCEPT ![h] = k]
         /\ Accumulate(b, k, c).val = [b.val EXCEPT ![h] = (b.val[h] + c) % ValMod]
         /\ Accumulate(b, k, c).success
<1>1. PICK f : /\ f[0] = First(b)
               /\ \A i \in Slots : f[i] = AccumulateSlot(f[i - 1], i, k, c)
               /\ Accumulate(b, k, c) = f[NumSlots]
  BY AccumulateLoop
<1> DEFINE key == [b.key EXCEPT ![h] = k]
           val == [b.val EXCEPT ![h] = (b.val[h] + c) % ValMod]
           Before(s) == s.key = b.key /\ s.val = b.val /\ ~s.success
           After(s) == s.key = key /\ s.val = val /\ s.success
           A == {i \in 0..NumSlots : IF i < h THEN Before(f[i]) ELSE After(f[i])}
<1>0. /\ b.key \in [Slots -> Keys \cup {NoKey}] /\ b.val \in [Slots -> Values]
      /\ h \in Nat /\ h > 0 /\ h <= NumSlots /\ k # NoKey
  BY SlotFacts DEF Bucket
<1>2. 0 \in A
  BY <1>0, <1>1, SlotFacts DEF First
<1>3. ASSUME NEW n \in 0..(NumSlots - 1), n \in A PROVE n + 1 \in A
  <2> DEFINE i == n + 1
             s == f[n]
  <2>1. i \in Slots /\ i - 1 = n /\ i \in 0..NumSlots
    BY SlotFacts
  <2>2. f[i] = AccumulateSlot(s, i, k, c)
    BY <1>1, <2>1
  <2>3. CASE i < h
    <3>1. Before(s)
      BY <1>0, <1>3, <2>1, <2>3
    <3>2. b.key[i] \notin {k, NoKey}
      BY <2>1, <2>3
    <3> HIDE DEF i, s
    <3>4. Before(f[i])
      BY <1>0, <2>1, <2>2, <3>1, <3>2, AccumulateElsewhere DEF i
    <3> QED
      BY <2>1, <2>3, <3>4 DEF i
  <2>4. CASE i = h
    <3>1. Before(s)
      BY <1>0, <1>3, <2>1, <2>4
    <3>2. b.key[i] \in {k, NoKey}
      BY <2>4
    <3> HIDE DEF i, s
    <3>4. After(f[i])
      BY <2>2, <2>4, <3>1, <3>2, AccumulateHere
    <3> QED
      BY <1>0, <2>1, <2>4, <3>4 DEF i
  <2>5. CASE i > h
    <3>1. After(s)
      BY <1>0, <1>3, <2>1, <2>5
    <3>2. key[i] = b.key[i] /\ key[i] # k
      BY <1>0, <2>1, <2>5
    <3>3. key \in [Slots -> Keys \cup {NoKey}] /\ val \in [Slots -> Values]
      <4>1. (b.val[h] + c) % ValMod \in Values
        <5>1. b.val[h] + c \in Nat
          BY <1>0, SlotFacts
        <5> QED
          BY <5>1, SlotFacts, Remainder
      <4> QED
        BY <1>0, <4>1
    <3> HIDE DEF i, s, key, val
    <3>4. After(f[i])
      <4>1. i \in Slots
        BY <2>1 DEF i
      <4> QED
        BY <2>2, <3>1, <3>2, <3>3, <4>1, AccumulateElsewhere
    <3> QED
      BY <1>0, <2>1, <2>5, <3>4 DEF i
  <2> QED
    BY <1>0, <2>1, <2>3, <2>4, <2>5
<1>4. 0..NumSlots \subseteq A
  <2> HIDE DEF A
  <2> QED
    BY <1>2, <1>3, UpTo, SlotFacts
<1>5. After(f[NumSlots])
  <2>1. NumSlots \in 0..NumSlots /\ ~(NumSlots < h)
    BY <1>0, SlotFacts
  <2>2. NumSlots \in A
    BY <1>4, <2>1
  <2> QED
    BY <2>1, <2>2
<1> QED
  BY <1>1, <1>5

\* No slot has the key or is empty: nothing changes, the minimum is left.
LEMMA AccumulateFull ==
  ASSUME NEW b \in Bucket, NEW k \in Keys, NEW c \in Nat,
         \A j \in Slots : b.key[j] \notin {k, NoKey}
  PROVE  /\ Accumulate(b, k, c).key = b.key
         /\ Accumulate(b, k, c).val = b.val
         /\ ~Accumulate(b, k, c).success
         /\ \A j \in Slots : Accumulate(b, k, c).min <= ValOf(b.val[j])
         /\ \E j \in Slots : Accumulate(b, k, c).min = ValOf(b.val[j])
<1>1. PICK f : /\ f[0] = First(b)
               /\ \A i \in Slots : f[i] = AccumulateSlot(f[i - 1], i, k, c)
               /\ Accumulate(b, k, c) = f[NumSlots]
  BY AccumulateLoop
<1> DEFINE Same(s) == s.key = b.key /\ s.val = b.val /\ ~s.success
           Least(s, i) == /\ \A j \in Slots : j <= i => s.min <= ValOf(b.val[j])
                          /\ \E j \in Slots : s.min = ValOf(b.val[j])
           A == {i \in 0..NumSlots : Same(f[i]) /\ Least(f[i], i)}
<1>0. /\ b.key \in [Slots -> Keys \cup {NoKey}] /\ b.val \in [Slots -> Values]
      /\ \A j \in Slots : ValOf(b.val[j]) \in Nat
  <2>1. b.key \in [Slots -> Keys \cup {NoKey}] /\ b.val \in [Slots -> Values]
    BY DEF Bucket
  <2>2. \A v \in Values : ValOf(v) \in Nat
    BY ValueOf
  <2> QED
    BY <2>1, <2>2
<1>2. 0 \in A
  <2>1. 1 \in Slots /\ \A j \in Slots : ~(j <= 0)
    BY SlotFacts
  <2>2. Same(f[0]) /\ f[0].min = ValOf(b.val[1])
    BY <1>1 DEF First
  <2> QED
    BY <2>1, <2>2, SlotFacts
<1>3. ASSUME NEW n \in 0..(NumSlots - 1), n \in A PROVE n + 1 \in A
  <2> DEFINE i == n + 1
             s == f[n]
  <2>1. i \in Slots /\ i - 1 = n /\ i \in 0..NumSlots
    BY SlotFacts
  <2>2. f[i] = AccumulateSlot(s, i, k, c)
    BY <1>1, <2>1
  <2>3. Same(s) /\ Least(s, n)
    BY <1>3
  <2>4. b.key[i] \notin {k, NoKey}
    BY <2>1
  <2>6. Same(f[i]) /\ f[i].min = IF s.min > ValOf(b.val[i]) THEN ValOf(b.val[i]) ELSE s.min
    <3> HIDE DEF i, s
    <3>1. s.key[i] # k /\ s.key[i] # NoKey /\ ~s.success
      BY <2>3, <2>4
    <3>2. i \in Slots
      BY <2>1 DEF i
    <3> QED
      BY <1>0, <2>2, <2>3, <3>1, <3>2, AccumulateElsewhere
  <2>7. PICK m \in Nat : m = s.min
    BY <1>0, <2>3
  <2>8. \A j \in Slots : j <= i => j <= n \/ j = i
    BY SlotFacts
  <2>9. Least(f[i], i)
    <3>1. ASSUME NEW j \in Slots, j <= i PROVE f[i].min <= ValOf(b.val[j])
      <4>1. j <= n => m <= ValOf(b.val[j])
        BY <2>3, <2>7
      <4>2. f[i].min = IF m > ValOf(b.val[i]) THEN ValOf(b.val[i]) ELSE m
        BY <2>6, <2>7
      <4> HIDE DEF i, s
      <4> QED
        BY <1>0, <2>1, <2>8, <3>1, <4>1, <4>2
    <3>2. \E j \in Slots : f[i].min = ValOf(b.val[j])
      BY <2>1, <2>3, <2>6
    <3> QED
      BY <3>1, <3>2
  <2> QED
    BY <2>1, <2>6, <2>9
<1>4. 0..NumSlots \subseteq A
  <2> HIDE DEF A
  <2> QED
    BY <1>2, <1>3, UpTo, SlotFacts
<1>5. Same(f[NumSlots]) /\ Least(f[NumSlots], NumSlots)
  BY <1>4, SlotFacts
<1> QED
  BY <1>1, <1>5, SlotFacts

\* The second loop of oinsert.
Swaps == [key : [Slots -> Keys \cup {NoKey}], val : [Slots -> Int],
          swapKey : Keys \cup {NoKey}, swapVal : Nat, swapped : BOOLEAN]

LEMMA EvictSlotType ==
  ASSUME NEW s \in Swaps, NEW i \in Slots, NEW k \in Keys, NEW c \in Nat, NEW min \in Nat
  PROVE  EvictSlot(s, i, k, c, min) \in Swaps
<1>1. WithFlag(c) \in Int
  BY SlotFacts DEF WithFlag
<1> QED
  BY <1>1 DEF EvictSlot, Swaps

LEMMA EvictLoop ==
  ASSUME NEW acc, NEW k \in Keys, NEW c \in Nat, acc.min \in Nat,
         acc.key \in [Slots -> Keys \cup {NoKey}], acc.val \in [Slots -> Values]
  PROVE  \E f : /\ f[0] = [key |-> acc.key, val |-> acc.val, swapKey |-> k, swapVal |-> c,
                           swapped |-> FALSE]
                /\ \A i \in Slots : f[i] = EvictSlot(f[i - 1], i, k, c, acc.min)
                /\ Evict(acc, k, c) = f[NumSlots]
<1> DEFINE step == [i \in 1..NumSlots |-> [s \in Swaps |-> EvictSlot(s, i, k, c, acc.min)]]
           s0 == [key |-> acc.key, val |-> acc.val, swapKey |-> k, swapVal |-> c, swapped |-> FALSE]
           Is(f) == f = [i \in 0..NumSlots |->
                           IF i = 0
                           THEN [key |-> acc.key, val |-> acc.val, swapKey |-> k,
                                 swapVal |-> c, swapped |-> FALSE]
                           ELSE EvictSlot(f[i - 1], i, k, c, acc.min)]
<1>0. NumSlots \in Nat
  BY SlotFacts
<1>1. step \in [1..NumSlots -> [Swaps -> Swaps]]
  BY SlotFacts, EvictSlotType
<1>2. PICK f : Loop(f, NumSlots, Swaps, s0, step)
  <2>1. s0 \in Swaps
    <3>1. acc.val \in [Slots -> Int]
      BY SlotFacts
    <3> QED
      BY <3>1 DEF Swaps
  <2> HIDE DEF step, s0
  <2> QED
    BY <1>0, <1>1, <2>1, Iterated
<1>3. Is(f)
  <2>1. \A i \in 1..NumSlots : f[i - 1] \in Swaps
    BY <1>0, <1>2 DEF Loop
  <2>2. \A i \in 1..NumSlots : f[i] = EvictSlot(f[i - 1], i, k, c, acc.min)
    BY <1>2, <2>1 DEF Loop
  <2>3. \A i \in 0..NumSlots : i = 0 \/ i \in 1..NumSlots
    BY <1>0
  <2>4. \A i \in 0..NumSlots :
          f[i] = IF i = 0 THEN s0 ELSE EvictSlot(f[i - 1], i, k, c, acc.min)
    <3> HIDE DEF s0
    <3> QED
      BY <1>2, <2>2, <2>3 DEF Loop
  <2>5. f = [i \in 0..NumSlots |-> IF i = 0 THEN s0 ELSE EvictSlot(f[i - 1], i, k, c, acc.min)]
    <3> HIDE DEF s0
    <3> QED
      BY <1>2, <2>4 DEF Loop
  <2> QED
    BY <2>5, Zenon
<1>4. PICK g : g = CHOOSE h : Is(h)
  OBVIOUS
<1>5. Is(g)
  <2> HIDE DEF Is
  <2> QED
    BY <1>3, <1>4
<1>6. Evict(acc, k, c) = g[NumSlots]
  BY <1>4, Zenon DEF Evict
<1>7. \A i \in 0..NumSlots : g[i] = IF i = 0 THEN s0 ELSE EvictSlot(g[i - 1], i, k, c, acc.min)
  BY <1>5
<1>8. 0 \in 0..NumSlots /\ \A i \in Slots : i \in 0..NumSlots /\ i # 0
  BY SlotFacts
<1> HIDE DEF Is
<1> QED
  BY <1>6, <1>7, <1>8

\* The first slot with the minimum is handed out.
LEMMA EvictFirst ==
  ASSUME NEW acc, NEW k \in Keys, NEW c \in Nat, acc.min \in Nat,
         acc.key \in [Slots -> Keys \cup {NoKey}], acc.val \in [Slots -> Values],
         NEW h \in Slots, ValOf(acc.val[h]) = acc.min,
         \A j \in Slots : j < h => ValOf(acc.val[j]) # acc.min
  PROVE  /\ Evict(acc, k, c).key = [acc.key EXCEPT ![h] = k]
         /\ Evict(acc, k, c).val = [acc.val EXCEPT ![h] = WithFlag(c)]
         /\ Evict(acc, k, c).swapKey = acc.key[h]
         /\ Evict(acc, k, c).swapVal = acc.min
         /\ Evict(acc, k, c).swapped
<1>1. PICK f : /\ f[0] = [key |-> acc.key, val |-> acc.val, swapKey |-> k, swapVal |-> c,
                          swapped |-> FALSE]
               /\ \A i \in Slots : f[i] = EvictSlot(f[i - 1], i, k, c, acc.min)
               /\ Evict(acc, k, c) = f[NumSlots]
  BY EvictLoop
<1> DEFINE Before(s) == s.key = acc.key /\ s.val = acc.val /\ ~s.swapped
           After(s) == /\ s.key = [acc.key EXCEPT ![h] = k]
                       /\ s.val = [acc.val EXCEPT ![h] = WithFlag(c)]
                       /\ s.swapKey = acc.key[h]
                       /\ s.swapVal = acc.min
                       /\ s.swapped
           A == {i \in 0..NumSlots : IF i < h THEN Before(f[i]) ELSE After(f[i])}
<1>0. h \in Nat /\ h > 0 /\ h <= NumSlots
  BY SlotFacts
<1>2. 0 \in A
  BY <1>0, <1>1, SlotFacts
<1>3. ASSUME NEW n \in 0..(NumSlots - 1), n \in A PROVE n + 1 \in A
  <2> DEFINE i == n + 1
             s == f[n]
  <2>1. i \in Slots /\ i - 1 = n /\ i \in 0..NumSlots
    BY SlotFacts
  <2>2. f[i] = EvictSlot(s, i, k, c, acc.min)
    BY <1>1, <2>1
  <2>3. CASE i < h
    <3>1. Before(s)
      BY <1>0, <1>3, <2>1, <2>3
    <3>2. ValOf(acc.val[i]) # acc.min
      BY <2>1, <2>3
    <3>3. f[i] = s
      <4> HIDE DEF i, s
      <4> QED
        BY <2>2, <3>1, <3>2 DEF EvictSlot
    <3> QED
      BY <2>1, <2>3, <3>1, <3>3
  <2>4. CASE i = h
    <3>1. Before(s)
      BY <1>0, <1>3, <2>1, <2>4
    <3>2. ValOf(s.val[i]) = acc.min
      BY <2>4, <3>1
    <3> HIDE DEF i, s
    <3>3. f[i] = [key |-> [s.key EXCEPT ![i] = k], val |-> [s.val EXCEPT ![i] = WithFlag(c)],
                  swapKey |-> s.key[i], swapVal |-> acc.min, swapped |-> TRUE]
      BY <2>2, <3>1, <3>2 DEF EvictSlot
    <3>4. After(f[i])
      BY <2>4, <3>1, <3>3
    <3> QED
      BY <1>0, <2>1, <2>4, <3>4 DEF i
  <2>5. CASE i > h
    <3>1. After(s)
      BY <1>0, <1>3, <2>1, <2>5
    <3>2. f[i] = s
      <4> HIDE DEF i, s
      <4> QED
        BY <2>2, <3>1 DEF EvictSlot
    <3> QED
      BY <1>0, <2>1, <2>5, <3>1, <3>2
  <2> QED
    BY <1>0, <2>1, <2>3, <2>4, <2>5
<1>4. 0..NumSlots \subseteq A
  <2> HIDE DEF A
  <2> QED
    BY <1>2, <1>3, UpTo, SlotFacts
<1>5. After(f[NumSlots])
  <2>1. NumSlots \in 0..NumSlots /\ ~(NumSlots < h)
    BY <1>0, SlotFacts
  <2>2. NumSlots \in A
    BY <1>4, <2>1
  <2> QED
    BY <2>1, <2>2
<1> QED
  BY <1>1, <1>5

---------------------------------------------------------------------------
(* The three outcomes of oinsert                                            *)

Full(b, k) == \A j \in Slots : b.key[j] \notin {k, NoKey}

Takes(b, k, c, h, res) ==
  /\ h \in Slots /\ b.key[h] \in {k, NoKey}
  /\ \A j \in Slots : j < h => b.key[j] \notin {k, NoKey}
  /\ \A j \in Slots : j # h => b.key[j] # k
  /\ res.bucket = [key |-> [b.key EXCEPT ![h] = k],
                   val |-> [b.val EXCEPT ![h] = (b.val[h] + c) % ValMod], neg |-> b.neg]
  /\ res.swapKey = k /\ res.swapVal = c

TurnsAway(b, k, c, h, res) ==
  /\ Full(b, k)
  /\ h \in Slots /\ \A j \in Slots : ValOf(b.val[h]) <= ValOf(b.val[j])
  /\ ~Exceeds((b.neg + c) % ValMod, ValOf(b.val[h]))
  /\ res.bucket = [key |-> b.key, val |-> b.val, neg |-> (b.neg + c) % ValMod]
  /\ res.swapKey = k /\ res.swapVal = c

Evicts(b, k, c, h, res) ==
  /\ Full(b, k)
  /\ h \in Slots /\ \A j \in Slots : ValOf(b.val[h]) <= ValOf(b.val[j])
  /\ Exceeds((b.neg + c) % ValMod, ValOf(b.val[h]))
  /\ res.bucket = [key |-> [b.key EXCEPT ![h] = k], val |-> [b.val EXCEPT ![h] = WithFlag(c)],
                   neg |-> 0]
  /\ res.swapKey = b.key[h] /\ res.swapVal = ValOf(b.val[h])

\* A set of slots has a first one.
LEMMA FirstSlot ==
  ASSUME NEW S \in SUBSET Slots, S # {}
  PROVE  \E h \in S : \A j \in S : ~(j < h)
<1>1. S \in SUBSET Nat
  BY SlotFacts
<1>2. PICK h \in S : \A j \in S : h <= j
  BY <1>1, LeastNatural
<1> QED
  BY <1>1, <1>2

LEMMA OInsertOutcome ==
  ASSUME NEW b \in Bucket, NEW p, GoodBucket(b, p), NEW k \in Keys, NEW c \in Nat
  PROVE  \E h : LET res == OInsert(b, k, c)
                IN  Takes(b, k, c, h, res) \/ TurnsAway(b, k, c, h, res) \/ Evicts(b, k, c, h, res)
<1> DEFINE res == OInsert(b, k, c)
           acc == Accumulate(b, k, c)
<1>0. /\ b.key \in [Slots -> Keys \cup {NoKey}] /\ b.val \in [Slots -> Values]
      /\ k # NoKey
  BY SlotFacts DEF Bucket
<1>1. CASE ~Full(b, k)
  <2>1. PICK h \in Slots :
          /\ b.key[h] \in {k, NoKey}
          /\ \A j \in Slots : j < h => b.key[j] \notin {k, NoKey}
    <3> DEFINE S == {j \in Slots : b.key[j] \in {k, NoKey}}
    <3>1. S \in SUBSET Slots /\ S # {}
      BY <1>1 DEF Full
    <3>2. PICK h \in S : \A j \in S : ~(j < h)
      <4> HIDE DEF S
      <4> QED
        BY <3>1, FirstSlot
    <3> QED
      BY <3>2
  <2>2. ASSUME NEW j \in Slots, j # h PROVE b.key[j] # k
    <3>1. j < h \/ j > h
      BY <2>2, SlotFacts
    <3>2. b.key[h] = NoKey /\ j > h => b.key[j] = NoKey
      BY DEF GoodBucket
    <3>3. b.key[h] = k => b.key[j] # k
      BY <1>0, <2>2 DEF GoodBucket
    <3> QED
      BY <1>0, <2>1, <3>1, <3>2, <3>3
  <2>3. /\ acc.key = [b.key EXCEPT ![h] = k]
        /\ acc.val = [b.val EXCEPT ![h] = (b.val[h] + c) % ValMod]
        /\ acc.success
    <3>1. \A j \in Slots : j > h => b.key[j] # k
      BY <2>2, SlotFacts
    <3> QED
      BY <2>1, <3>1, AccumulateTaken
  <2> HIDE DEF acc
  <2>4. /\ res.bucket = [key |-> acc.key, val |-> acc.val, neg |-> b.neg]
        /\ res.swapKey = k /\ res.swapVal = c
    BY <2>3, Zenon DEF OInsert, acc
  <2>5. Takes(b, k, c, h, res)
    <3> HIDE DEF res
    <3> QED
      BY <2>1, <2>2, <2>3, <2>4 DEF Takes
  <2> QED
    BY <2>5
<1>2. CASE Full(b, k)
  <2>1. /\ acc.key = b.key /\ acc.val = b.val /\ ~acc.success
        /\ \A j \in Slots : acc.min <= ValOf(b.val[j])
        /\ \E j \in Slots : acc.min = ValOf(b.val[j])
    BY <1>2, AccumulateFull DEF Full
  <2> HIDE DEF acc
  <2>2. PICK h \in Slots :
          /\ ValOf(b.val[h]) = acc.min
          /\ \A j \in Slots : j < h => ValOf(b.val[j]) # acc.min
    <3> DEFINE S == {j \in Slots : ValOf(b.val[j]) = acc.min}
    <3>1. S \in SUBSET Slots /\ S # {}
      BY <2>1
    <3>2. PICK h \in S : \A j \in S : ~(j < h)
      <4> HIDE DEF S
      <4> QED
        BY <3>1, FirstSlot
    <3> QED
      BY <3>2
  <2>3. CASE ~Exceeds((b.neg + c) % ValMod, acc.min)
    <3>1. /\ res.bucket = [key |-> acc.key, val |-> acc.val, neg |-> (b.neg + c) % ValMod]
          /\ res.swapKey = k /\ res.swapVal = c
      <4>1. ~(~acc.success /\ Exceeds(IF acc.success THEN b.neg ELSE (b.neg + c) % ValMod, acc.min))
        BY <2>1, <2>3
      <4> QED
        BY <2>1, <4>1, Zenon DEF OInsert, acc
    <3>2. TurnsAway(b, k, c, h, res)
      <4> HIDE DEF res
      <4> QED
        BY <1>2, <2>1, <2>2, <2>3, <3>1 DEF TurnsAway
    <3> QED
      BY <3>2
  <2>4. CASE Exceeds((b.neg + c) % ValMod, acc.min)
    <3> DEFINE ev == Evict(acc, k, c)
    <3>1. /\ ev.key = [b.key EXCEPT ![h] = k]
          /\ ev.val = [b.val EXCEPT ![h] = WithFlag(c)]
          /\ ev.swapKey = b.key[h]
          /\ ev.swapVal = acc.min
          /\ ev.swapped
      <4>1. acc.min \in Nat
        <5>1. b.val[h] \in Values
          BY <1>0
        <5> QED
          BY <2>2, <5>1, ValueOf
      <4>2. /\ ev.key = [acc.key EXCEPT ![h] = k]
            /\ ev.val = [acc.val EXCEPT ![h] = WithFlag(c)]
            /\ ev.swapKey = acc.key[h]
            /\ ev.swapVal = acc.min
            /\ ev.swapped
        BY <1>0, <2>1, <2>2, <4>1, EvictFirst
      <4> QED
        BY <2>1, <4>2
    <3> HIDE DEF ev
    <3>2. /\ res.bucket = [key |-> ev.key, val |-> ev.val, neg |-> 0]
          /\ res.swapKey = ev.swapKey /\ res.swapVal = ev.swapVal
      <4>1. ~acc.success /\ Exceeds(IF acc.success THEN b.neg ELSE (b.neg + c) % ValMod, acc.min)
        BY <2>1, <2>4
      <4> QED
        BY <3>1, <4>1, Zenon DEF OInsert, acc, ev
    <3>3. Evicts(b, k, c, h, res)
      <4> HIDE DEF res
      <4> QED
        BY <1>2, <2>1, <2>2, <2>4, <3>1, <3>2 DEF Evicts
    <3> QED
      BY <3>3
  <2> QED
    BY <2>3, <2>4
<1> QED
  BY <1>1, <1>2

---------------------------------------------------------------------------
(* Values                                                                   *)

\* A count that stays below the flag does not touch it.
LEMMA AddToValue ==
  ASSUME NEW v \in Values, NEW c \in Nat, ValOf(v) + c < Flag
  PROVE  /\ (v + c) % ValMod = v + c
         /\ v + c \in Values
         /\ ValOf(v + c) = ValOf(v) + c
         /\ Flagged(v) => Flagged(v + c)
         /\ Flagged(v + c) => Flagged(v)
<1>1. v \in Nat /\ Flag \in Nat \ {0} /\ ValMod = 2 * Flag /\ Values = 0..(2 * Flag - 1)
  BY SlotFacts DEF ValMod
<1>2. ValOf(v) = (IF v >= Flag THEN v - Flag ELSE v)
  BY ValueOf DEF Flagged
<1>3. v + c < ValMod /\ v + c \in Values /\ (v + c >= Flag <=> v >= Flag)
  BY <1>1, <1>2
<1>4. PICK w : w = v + c /\ w \in Values /\ w \in Nat /\ w < ValMod
  BY <1>1, <1>3
<1>5. w % ValMod = w
  <2>1. ValMod \in Nat \ {0}
    BY SlotFacts
  <2> QED
    BY <1>4, <2>1, Remainder
<1>6. ValOf(w) = IF w >= Flag THEN w - Flag ELSE w
  BY <1>4, ValueOf DEF Flagged
<1>7. ValOf(w) = ValOf(v) + c
  BY <1>1, <1>2, <1>3, <1>4, <1>6
<1> QED
  BY <1>3, <1>4, <1>5, <1>7 DEF Flagged

LEMMA FlaggedCount ==
  ASSUME NEW c \in Nat, c < Flag
  PROVE  WithFlag(c) \in Values /\ ValOf(WithFlag(c)) = c /\ Flagged(WithFlag(c))
<1>1. Flag \in Nat \ {0} /\ Values = 0..(2 * Flag - 1)
  BY SlotFacts DEF ValMod
<1>2. WithFlag(c) = c + Flag /\ c + Flag \in Values /\ c + Flag >= Flag
  BY <1>1 DEF WithFlag
<1>3. PICK w : w = c + Flag /\ w \in Values
  BY <1>2
<1>4. ValOf(w) = w - Flag
  BY <1>2, <1>3, ValueOf DEF Flagged
<1>5. w - Flag = c
  BY <1>1, <1>3
<1> QED
  BY <1>2, <1>3, <1>4, <1>5 DEF Flagged

LEMMA ZeroValue == 0 \in Values /\ ValOf(0) = 0 /\ ~Flagged(0)
<1>1. 0 \in Values /\ ~Flagged(0)
  BY SlotFacts DEF Flagged, Values
<1> QED
  BY <1>1, ValueOf

---------------------------------------------------------------------------
(* oinsert keeps a bucket good                                              *)

LEMMA GoodAfter ==
  ASSUME NEW b \in Bucket, NEW p, GoodBucket(b, p), NEW k \in Keys, BucketOf[k] = p,
         NEW c \in Nat, c < Flag, NEW h, NEW res,
         Takes(b, k, c, h, res) \/ TurnsAway(b, k, c, h, res) \/ Evicts(b, k, c, h, res)
  PROVE  /\ res.bucket \in Bucket /\ GoodBucket(res.bucket, p)
         /\ res.swapKey \in Keys /\ res.swapVal \in Nat /\ BucketOf[res.swapKey] = p
<1>0. /\ b.key \in [Slots -> Keys \cup {NoKey}] /\ b.val \in [Slots -> Values] /\ b.neg \in Values
      /\ k # NoKey /\ b = [key |-> b.key, val |-> b.val, neg |-> b.neg]
  BY SlotFacts DEF Bucket
<1>1. CASE Takes(b, k, c, h, res)
  <2>1. (b.val[h] + c) % ValMod \in Values
    <3>1. h \in Slots
      BY <1>1 DEF Takes
    <3>2. b.val[h] + c \in Nat
      BY <1>0, <3>1, SlotFacts
    <3> QED
      BY <3>2, SlotFacts, Remainder
  <2>2. PICK n : n = (b.val[h] + c) % ValMod
    OBVIOUS
  <2>3. res.bucket = [key |-> [b.key EXCEPT ![h] = k], val |-> [b.val EXCEPT ![h] = n],
                      neg |-> b.neg]
    BY <1>1, <2>2 DEF Takes
  <2>4. res.bucket \in Bucket
    <3>1. /\ [b.key EXCEPT ![h] = k] \in [Slots -> Keys \cup {NoKey}]
          /\ [b.val EXCEPT ![h] = n] \in [Slots -> Values]
      BY <1>0, <2>1, <2>2
    <3> QED
      BY <1>0, <2>3, <3>1 DEF Bucket
  <2>5. /\ \A i \in Slots : res.bucket.key[i] = IF i = h THEN k ELSE b.key[i]
        /\ \A i \in Slots : i # h => res.bucket.val[i] = b.val[i]
    BY <1>0, <2>3
  <2>6. /\ h \in Slots
        /\ \A j \in Slots : j < h => b.key[j] # NoKey
        /\ \A j \in Slots : j # h => b.key[j] # k
    BY <1>1 DEF Takes
  <2>7. GoodBucket(res.bucket, p)
    <3>1. ASSUME NEW i \in Slots, NEW j \in Slots, res.bucket.key[i] # NoKey,
                 res.bucket.key[i] = res.bucket.key[j]
          PROVE  i = j
      BY <2>5, <2>6, <3>1 DEF GoodBucket
    <3>2. ASSUME NEW i \in Slots, res.bucket.key[i] # NoKey
          PROVE  BucketOf[res.bucket.key[i]] = p
      BY <2>5, <3>2 DEF GoodBucket
    <3>3. ASSUME NEW i \in Slots, res.bucket.key[i] = NoKey
          PROVE  res.bucket.val[i] = 0
      BY <1>0, <2>5, <3>3 DEF GoodBucket
    <3>4. ASSUME NEW i \in Slots, NEW j \in Slots, i < j, res.bucket.key[i] = NoKey
          PROVE  res.bucket.key[j] = NoKey
      <4>1. i # h /\ b.key[i] = NoKey
        BY <1>0, <2>5, <3>4
      <4>2. b.key[j] = NoKey /\ ~(i < h)
        BY <2>6, <3>4, <4>1 DEF GoodBucket
      <4>3. j # h
        BY <3>4, <4>2
      <4> QED
        BY <2>5, <4>2, <4>3
    <3> QED
      BY <3>1, <3>2, <3>3, <3>4 DEF GoodBucket
  <2> QED
    BY <1>1, <2>4, <2>7 DEF Takes
<1>2. CASE TurnsAway(b, k, c, h, res)
  <2>1. (b.neg + c) % ValMod \in Values
    <3>1. b.neg + c \in Nat
      BY <1>0, SlotFacts
    <3> QED
      BY <3>1, SlotFacts, Remainder
  <2>2. PICK n : n = (b.neg + c) % ValMod
    OBVIOUS
  <2>3. res.bucket = [key |-> b.key, val |-> b.val, neg |-> n]
    BY <1>2, <2>2 DEF TurnsAway
  <2>4. res.bucket \in Bucket
    BY <1>0, <2>1, <2>2, <2>3 DEF Bucket
  <2>5. GoodBucket(res.bucket, p)
    BY <2>3 DEF GoodBucket
  <2> QED
    BY <1>2, <2>4, <2>5 DEF TurnsAway
<1>3. CASE Evicts(b, k, c, h, res)
  <2>1. PICK n : n = WithFlag(c) /\ n \in Values
    BY FlaggedCount
  <2>2. res.bucket = [key |-> [b.key EXCEPT ![h] = k], val |-> [b.val EXCEPT ![h] = n], neg |-> 0]
    BY <1>3, <2>1 DEF Evicts
  <2>3. res.bucket \in Bucket
    <3>1. /\ [b.key EXCEPT ![h] = k] \in [Slots -> Keys \cup {NoKey}]
          /\ [b.val EXCEPT ![h] = n] \in [Slots -> Values]
      BY <1>0, <2>1
    <3> QED
      BY <2>2, <3>1, ZeroValue DEF Bucket
  <2>4. /\ \A i \in Slots : res.bucket.key[i] = IF i = h THEN k ELSE b.key[i]
        /\ h \in Slots
        /\ \A i \in Slots : b.key[i] # NoKey /\ b.key[i] # k /\ b.key[i] \in Keys
    BY <1>0, <1>3, <2>2 DEF Evicts, Full
  <2>5. GoodBucket(res.bucket, p)
    BY <1>0, <2>4 DEF GoodBucket
  <2>6. res.swapKey \in Keys /\ BucketOf[res.swapKey] = p
    BY <1>3, <2>4 DEF GoodBucket, Evicts
  <2>7. res.swapVal \in Nat
    <3>1. b.val[h] \in Values /\ res.swapVal = ValOf(b.val[h])
      BY <1>0, <1>3 DEF Evicts
    <3> QED
      BY <3>1, ValueOf
  <2> QED
    BY <2>3, <2>5, <2>6, <2>7
<1> QED
  BY <1>1, <1>2, <1>3

---------------------------------------------------------------------------
(* One record                                                               *)

\* A record is inserted into bucket p, which is b, with outcome res at slot h.
Inserted(k, c, p, b, h, res) ==
  /\ p = BucketOf[k] /\ p \in Positions
  /\ b = buckets[p] /\ b \in Bucket /\ GoodBucket(b, p)
  /\ c \in Nat /\ truth[k] + c < Flag
  /\ Takes(b, k, c, h, res) \/ TurnsAway(b, k, c, h, res) \/ Evicts(b, k, c, h, res)
  /\ buckets' = [buckets EXCEPT ![p] = res.bucket]
  /\ counters' = SketchInsert(counters, res.swapKey, res.swapVal)
  /\ used' = used \cup {Hash[r][res.swapKey] : r \in Rows}
  /\ light' = [light EXCEPT ![res.swapKey] = @ + res.swapVal]
  /\ truth' = [truth EXCEPT ![k] = @ + c]
  /\ SumOf(truth, Keys) + c <= MaxPackets

LEMMA RecordInserted ==
  ASSUME IInv, MaxPackets < Flag, NEW k \in Keys, NEW c \in Counts, AddRecord(k, c)
  PROVE  \E p, b, h, res : Inserted(k, c, p, b, h, res)
<1>1. PICK p, b, res : p = BucketOf[k] /\ b = buckets[p] /\ res = OInsert(b, k, c)
  OBVIOUS
<1>2. p \in Positions /\ b \in Bucket /\ GoodBucket(b, p) /\ c \in Nat
  <2>1. p \in Positions /\ c \in Nat
    BY <1>1, FlowStatsAssumption
  <2>2. b \in Bucket
    BY <1>1, <2>1 DEF IInv, TypeOK, Bucket
  <2> QED
    BY <1>1, <2>1, <2>2 DEF IInv, GoodBuckets
<1>3. PICK h : Takes(b, k, c, h, res) \/ TurnsAway(b, k, c, h, res) \/ Evicts(b, k, c, h, res)
  BY <1>1, <1>2, OInsertOutcome
<1>4. /\ buckets' = [buckets EXCEPT ![p] = res.bucket]
      /\ counters' = SketchInsert(counters, res.swapKey, res.swapVal)
      /\ used' = used \cup {Hash[r][res.swapKey] : r \in Rows}
      /\ light' = [light EXCEPT ![res.swapKey] = @ + res.swapVal]
      /\ truth' = [truth EXCEPT ![k] = @ + c]
      /\ SumOf(truth, Keys) + c <= MaxPackets
  BY <1>1, Zenon DEF AddRecord
<1>5. truth[k] + c < Flag
  <2>1. IsFiniteSet(Keys) /\ \A j \in Keys : truth[j] \in Nat
    BY CMSketchAssumption DEF IInv, TypeOK
  <2>2. truth[k] <= SumOf(truth, Keys) /\ SumOf(truth, Keys) \in Nat
    BY <2>1, SumElement, SumNat
  <2> QED
    BY <1>2, <1>4, <2>1, <2>2, FlowStatsAssumption
<1>6. Inserted(k, c, p, b, h, res)
  BY <1>1, <1>2, <1>3, <1>4, <1>5, Zenon DEF Inserted
<1> QED
  BY <1>6

\* What changes: one bucket, one packet count, one share of the sketch.
LEMMA InsertedChanges ==
  ASSUME TypeOK, NEW k \in Keys, NEW c, NEW p, NEW b, NEW h, NEW res,
         Inserted(k, c, p, b, h, res)
  PROVE  /\ res.bucket \in Bucket /\ GoodBucket(res.bucket, p)
         /\ res.swapKey \in Keys /\ res.swapVal \in Nat /\ BucketOf[res.swapKey] = p
         /\ buckets' \in [Positions -> Bucket] /\ buckets'[p] = res.bucket
         /\ \A q \in Positions \ {p} : buckets'[q] = buckets[q]
         /\ light' \in [Keys -> Nat] /\ light'[res.swapKey] = light[res.swapKey] + res.swapVal
         /\ \A j \in Keys \ {res.swapKey} : light'[j] = light[j]
         /\ truth' \in [Keys -> Nat] /\ truth'[k] = truth[k] + c
         /\ \A j \in Keys \ {k} : truth'[j] = truth[j]
<1>1. /\ res.bucket \in Bucket /\ GoodBucket(res.bucket, p)
      /\ res.swapKey \in Keys /\ res.swapVal \in Nat /\ BucketOf[res.swapKey] = p
  <2>1. c \in Nat /\ c < Flag
    <3>1. truth[k] \in Nat /\ c \in Nat /\ truth[k] + c < Flag
      BY DEF TypeOK, Inserted
    <3> QED
      BY <3>1, SlotFacts
  <2>2. /\ b \in Bucket /\ GoodBucket(b, p) /\ BucketOf[k] = p
        /\ Takes(b, k, c, h, res) \/ TurnsAway(b, k, c, h, res) \/ Evicts(b, k, c, h, res)
    BY DEF Inserted
  <2> QED
    BY <2>1, <2>2, GoodAfter
<1>2. /\ buckets' = [buckets EXCEPT ![p] = res.bucket]
      /\ light' = [light EXCEPT ![res.swapKey] = light[res.swapKey] + res.swapVal]
      /\ truth' = [truth EXCEPT ![k] = truth[k] + c]
      /\ p \in Positions /\ c \in Nat
  BY DEF Inserted
<1>3. /\ buckets \in [Positions -> Bucket] /\ light \in [Keys -> Nat] /\ truth \in [Keys -> Nat]
  BY DEF TypeOK, Bucket
<1>4. light[res.swapKey] + res.swapVal \in Nat /\ truth[k] + c \in Nat
  BY <1>1, <1>2, <1>3
<1> QED
  BY <1>1, <1>2, <1>3, <1>4

\* The slot that takes the count holds all that the bucket knows of the flow.
LEMMA TakingSlot ==
  ASSUME IInv, NEW k \in Keys, NEW c, NEW p, NEW b, NEW h, NEW res,
         Inserted(k, c, p, b, h, res), Takes(b, k, c, h, res)
  PROVE  h \in Slots /\ b.val[h] \in Values /\ Accounted(b.val[h], truth[k], light[k])
<1>1. /\ p = BucketOf[k] /\ p \in Positions /\ b = buckets[p]
      /\ b.key \in [Slots -> Keys \cup {NoKey}] /\ b.val \in [Slots -> Values]
      /\ GoodBucket(b, p)
  BY DEF Inserted, Bucket
<1>2. /\ h \in Slots /\ b.key[h] \in {k, NoKey}
      /\ \A j \in Slots : j # h => b.key[j] # k
  BY DEF Takes
<1>3. CASE b.key[h] = k
  <2>1. Accounted(b.val[h], truth[k], light[k])
    BY <1>1, <1>2, <1>3, SlotFacts DEF IInv, SlotsAccounted
  <2> QED
    BY <1>1, <1>2, <2>1
<1>4. CASE b.key[h] = NoKey
  <2>1. ~HasSlot(k)
    BY <1>1, <1>2, <1>4, SlotFacts DEF HasSlot
  <2>2. truth[k] = 0 /\ light[k] <= 2 * truth[k] /\ light[k] \in Nat
    BY <1>1, <1>2, <1>4, <2>1 DEF IInv, OthersAccounted, TypeOK
  <2>3. b.val[h] = 0
    BY <1>1, <1>2, <1>4 DEF GoodBucket
  <2>4. light[k] = 0
    BY <2>2
  <2>5. Accounted(0, truth[k], light[k])
    BY <2>2, <2>4, ZeroValue DEF Accounted
  <2> QED
    BY <1>1, <1>2, <2>3, <2>5
<1> QED
  BY <1>2, <1>3, <1>4

\* What the new bucket has in its slots is accounted for.
LEMMA SlotsAfter ==
  ASSUME IInv, NEW k \in Keys, NEW c, NEW p, NEW b, NEW h, NEW res,
         Inserted(k, c, p, b, h, res)
  PROVE  SlotsAccounted'
<1> DEFINE Right(q, i) == LET j == buckets'[q].key[i]
                          IN  j # NoKey => Accounted(buckets'[q].val[i], truth'[j], light'[j])
<1>1. /\ p = BucketOf[k] /\ p \in Positions /\ b = buckets[p] /\ GoodBucket(b, p)
      /\ b.key \in [Slots -> Keys \cup {NoKey}] /\ b.val \in [Slots -> Values]
      /\ c \in Nat /\ truth[k] + c < Flag
      /\ Takes(b, k, c, h, res) \/ TurnsAway(b, k, c, h, res) \/ Evicts(b, k, c, h, res)
  BY DEF Inserted, Bucket
<1>2. /\ res.swapKey \in Keys /\ res.swapVal \in Nat /\ BucketOf[res.swapKey] = p
      /\ buckets'[p] = res.bucket /\ \A q \in Positions \ {p} : buckets'[q] = buckets[q]
      /\ light'[res.swapKey] = light[res.swapKey] + res.swapVal
      /\ \A j \in Keys \ {res.swapKey} : light'[j] = light[j]
      /\ truth'[k] = truth[k] + c
      /\ \A j \in Keys \ {k} : truth'[j] = truth[j]
  BY InsertedChanges DEF IInv
<1>3. /\ light \in [Keys -> Nat] /\ truth \in [Keys -> Nat] /\ k # NoKey
      /\ buckets \in [Positions -> Bucket]
  BY SlotFacts DEF IInv, TypeOK, Bucket
<1>4. ASSUME NEW q \in Positions, q # p, NEW i \in Slots PROVE Right(q, i)
  <2>1. PICK j : j = buckets[q].key[i]
    OBVIOUS
  <2>2. j \in Keys \cup {NoKey}
    BY <1>3, <2>1 DEF Bucket
  <2>3. j # NoKey => BucketOf[j] = q
    BY <2>1 DEF IInv, GoodBuckets, GoodBucket
  <2>4. j # NoKey => truth'[j] = truth[j] /\ light'[j] = light[j]
    BY <1>1, <1>2, <1>4, <2>2, <2>3
  <2>5. j # NoKey => Accounted(buckets[q].val[i], truth[j], light[j])
    BY <2>1 DEF IInv, SlotsAccounted
  <2> QED
    BY <1>2, <1>4, <2>1, <2>4, <2>5
<1>5. \A i \in Slots : b.key[i] # NoKey =>
        b.key[i] \in Keys /\ Accounted(b.val[i], truth[b.key[i]], light[b.key[i]])
  BY <1>1 DEF IInv, SlotsAccounted
<1>6. CASE Takes(b, k, c, h, res)
  <2>1. PICK v \in Values : v = b.val[h] /\ Accounted(v, truth[k], light[k]) /\ h \in Slots
    BY <1>6, TakingSlot
  <2>2. /\ (v + c) % ValMod = v + c /\ v + c \in Values /\ ValOf(v + c) = ValOf(v) + c
        /\ Flagged(v) => Flagged(v + c)
    <3>1. ValOf(v) \in Nat /\ truth[k] \in Nat /\ ValOf(v) <= truth[k]
      BY <1>3, <2>1, ValueOf DEF Accounted
    <3>2. ValOf(v) + c < Flag
      BY <1>1, <3>1, SlotFacts
    <3> QED
      BY <1>1, <3>2, AddToValue
  <2>3. Accounted(v + c, truth[k] + c, light[k] + c)
    <3>1. ValOf(v) \in Nat /\ truth[k] \in Nat /\ light[k] \in Nat
      BY <1>3, ValueOf
    <3>2. PICK w, o : w = v + c /\ o = ValOf(w) /\ o = ValOf(v) + c
      BY <2>2
    <3>3. ~Flagged(w) => w = truth[k] + c
      BY <2>1, <2>2, <3>2 DEF Accounted
    <3>4. o <= truth[k] + c /\ truth[k] + c <= o + (light[k] + c) /\ o + (light[k] + c) <= 2 * (truth[k] + c)
      BY <1>1, <2>1, <3>1, <3>2 DEF Accounted
    <3> QED
      BY <3>2, <3>3, <3>4 DEF Accounted
  <2>4. PICK w : w = v + c
    OBVIOUS
  <2>5. /\ res.bucket = [key |-> [b.key EXCEPT ![h] = k], val |-> [b.val EXCEPT ![h] = w],
                         neg |-> b.neg]
        /\ res.swapKey = k /\ res.swapVal = c
        /\ \A j \in Slots : j # h => b.key[j] # k
    BY <1>6, <2>1, <2>2, <2>4 DEF Takes
  <2>6. ASSUME NEW i \in Slots PROVE Right(p, i)
    <3>1. CASE i = h
      <4>1. buckets'[p].key[i] = k /\ buckets'[p].val[i] = w
        BY <1>1, <1>2, <2>5, <3>1
      <4>2. light'[k] = light[k] + c /\ truth'[k] = truth[k] + c
        BY <1>2, <2>5
      <4> QED
        BY <2>3, <2>4, <4>1, <4>2
    <3>2. CASE i # h
      <4>1. buckets'[p].key[i] = b.key[i] /\ buckets'[p].val[i] = b.val[i] /\ b.key[i] # k
        BY <1>1, <1>2, <2>5, <3>2
      <4>2. b.key[i] # NoKey => light'[b.key[i]] = light[b.key[i]] /\ truth'[b.key[i]] = truth[b.key[i]]
        BY <1>2, <1>5, <2>5, <4>1
      <4> QED
        BY <1>5, <4>1, <4>2
    <3> QED
      BY <3>1, <3>2
  <2> QED
    BY <1>4, <2>6 DEF SlotsAccounted
<1>7. CASE TurnsAway(b, k, c, h, res)
  <2>1. /\ buckets'[p].key = b.key /\ buckets'[p].val = b.val
        /\ res.swapKey = k /\ \A i \in Slots : b.key[i] # k
    BY <1>2, <1>7 DEF TurnsAway, Full
  <2>2. ASSUME NEW i \in Slots PROVE Right(p, i)
    <3>1. b.key[i] # NoKey => light'[b.key[i]] = light[b.key[i]] /\ truth'[b.key[i]] = truth[b.key[i]]
      BY <1>2, <1>5, <2>1
    <3> QED
      BY <1>5, <2>1, <3>1
  <2> QED
    BY <1>4, <2>2 DEF SlotsAccounted
<1>8. CASE Evicts(b, k, c, h, res)
  <2>1. PICK w : w = WithFlag(c) /\ ValOf(w) = c /\ Flagged(w)
    <3>1. c < Flag
      BY <1>1, <1>3, SlotFacts
    <3> QED
      BY <1>1, <3>1, FlaggedCount
  <2>2. /\ res.bucket = [key |-> [b.key EXCEPT ![h] = k], val |-> [b.val EXCEPT ![h] = w],
                         neg |-> 0]
        /\ res.swapKey = b.key[h] /\ h \in Slots
        /\ \A i \in Slots : b.key[i] # k /\ b.key[i] # NoKey
    BY <1>8, <2>1 DEF Evicts, Full
  <2>3. ASSUME NEW i \in Slots PROVE Right(p, i)
    <3>1. CASE i = h
      <4>1. buckets'[p].key[i] = k /\ buckets'[p].val[i] = w
        BY <1>1, <1>2, <2>2, <3>1
      <4>2. light'[k] = light[k] /\ truth'[k] = truth[k] + c
        BY <1>2, <2>2
      <4>3. ~HasSlot(k)
        BY <1>1, <2>2 DEF HasSlot
      <4>4. truth[k] \in Nat /\ light[k] \in Nat /\ truth[k] <= light[k] /\ light[k] <= 2 * truth[k]
        BY <1>3, <4>3 DEF IInv, OthersAccounted
      <4>5. /\ c <= truth[k] + c /\ truth[k] + c <= c + light[k]
            /\ c + light[k] <= 2 * (truth[k] + c)
        BY <1>1, <4>4
      <4>6. Accounted(w, truth[k] + c, light[k])
        BY <2>1, <4>5 DEF Accounted
      <4> QED
        BY <4>1, <4>2, <4>6
    <3>2. CASE i # h
      <4>1. buckets'[p].key[i] = b.key[i] /\ buckets'[p].val[i] = b.val[i]
        BY <1>1, <1>2, <2>2, <3>2
      <4>2. b.key[i] # k /\ b.key[i] # res.swapKey /\ b.key[i] \in Keys
        BY <1>1, <1>5, <2>2, <3>2 DEF GoodBucket
      <4>3. light'[b.key[i]] = light[b.key[i]] /\ truth'[b.key[i]] = truth[b.key[i]]
        BY <1>2, <4>2
      <4> QED
        BY <1>5, <4>1, <4>3
    <3> QED
      BY <3>1, <3>2
  <2> QED
    BY <1>4, <2>3 DEF SlotsAccounted
<1> QED
  BY <1>1, <1>6, <1>7, <1>8

\* A flow that has no slot after the record is in the sketch.
LEMMA OthersAfter ==
  ASSUME IInv, NEW k \in Keys, NEW c, NEW p, NEW b, NEW h, NEW res,
         Inserted(k, c, p, b, h, res)
  PROVE  OthersAccounted'
<1>1. /\ p = BucketOf[k] /\ p \in Positions /\ b = buckets[p] /\ GoodBucket(b, p)
      /\ b.key \in [Slots -> Keys \cup {NoKey}] /\ b.val \in [Slots -> Values]
      /\ c \in Nat
      /\ Takes(b, k, c, h, res) \/ TurnsAway(b, k, c, h, res) \/ Evicts(b, k, c, h, res)
  BY DEF Inserted, Bucket
<1>2. /\ res.swapKey \in Keys /\ res.swapVal \in Nat /\ BucketOf[res.swapKey] = p
      /\ buckets'[p] = res.bucket /\ \A q \in Positions \ {p} : buckets'[q] = buckets[q]
      /\ light'[res.swapKey] = light[res.swapKey] + res.swapVal
      /\ \A j \in Keys \ {res.swapKey} : light'[j] = light[j]
      /\ truth'[k] = truth[k] + c
      /\ \A j \in Keys \ {k} : truth'[j] = truth[j]
  BY InsertedChanges DEF IInv
<1>3. /\ light \in [Keys -> Nat] /\ truth \in [Keys -> Nat] /\ k # NoKey
      /\ \A j \in Keys : BucketOf[j] \in Positions
  BY SlotFacts, FlowStatsAssumption DEF IInv, TypeOK
<1> DEFINE Bounds(t, l) == t <= l /\ l <= 2 * t
           Empty(j) == \E i \in Slots : buckets[BucketOf[j]].key[i] = NoKey
<1>4. \A j \in Keys : ~HasSlot(j) => Bounds(truth[j], light[j]) /\ (Empty(j) => truth[j] = 0)
  BY DEF IInv, OthersAccounted
<1> SUFFICES ASSUME NEW j \in Keys, ~HasSlot(j)'
             PROVE  Bounds(truth'[j], light'[j]) /\ (Empty(j)' => truth'[j] = 0)
  BY DEF OthersAccounted
<1>5. CASE BucketOf[j] # p
  <2>1. buckets'[BucketOf[j]] = buckets[BucketOf[j]]
    BY <1>2, <1>3, <1>5
  <2>2. ~HasSlot(j) /\ (Empty(j)' => Empty(j))
    BY <2>1 DEF HasSlot
  <2>3. truth'[j] = truth[j] /\ light'[j] = light[j]
    BY <1>1, <1>2, <1>5
  <2> QED
    BY <1>4, <2>2, <2>3
<1>6. CASE BucketOf[j] = p
  <2>1. \A i \in Slots : buckets'[p].key[i] # j
    BY <1>6 DEF HasSlot
  <2>2. CASE Takes(b, k, c, h, res)
    <3>1. /\ \A i \in Slots : res.bucket.key[i] = IF i = h THEN k ELSE b.key[i]
          /\ h \in Slots /\ b.key[h] \in {k, NoKey} /\ res.swapKey = k
      BY <1>1, <2>2 DEF Takes
    <3>2. j # k
      BY <1>2, <2>1, <3>1
    <3>3. j # NoKey
      BY SlotFacts
    <3>4. ~HasSlot(j)
      BY <1>1, <1>2, <1>6, <2>1, <3>1, <3>2, <3>3 DEF HasSlot
    <3>5. Empty(j)' => Empty(j)
      BY <1>1, <1>2, <1>3, <1>6, <3>1
    <3>6. truth'[j] = truth[j] /\ light'[j] = light[j]
      BY <1>2, <3>1, <3>2
    <3> QED
      BY <1>4, <3>4, <3>5, <3>6
  <2>3. CASE TurnsAway(b, k, c, h, res)
    <3>1. /\ res.bucket.key = b.key /\ res.swapKey = k /\ res.swapVal = c
          /\ \A i \in Slots : b.key[i] # NoKey
      BY <2>3 DEF TurnsAway, Full
    <3>2. ~HasSlot(j) /\ ~(Empty(j)')
      BY <1>1, <1>2, <1>6, <2>1, <3>1 DEF HasSlot
    <3>3. CASE j = k
      <4>1. truth'[j] = truth[j] + c /\ light'[j] = light[j] + c
        BY <1>2, <3>1, <3>3
      <4>2. Bounds(truth[j] + c, light[j] + c)
        BY <1>1, <1>3, <1>4, <3>2
      <4> QED
        BY <3>2, <4>1, <4>2
    <3>4. CASE j # k
      <4>1. truth'[j] = truth[j] /\ light'[j] = light[j]
        BY <1>2, <3>1, <3>4
      <4> QED
        BY <1>4, <3>2, <4>1
    <3> QED
      BY <3>3, <3>4
  <2>4. CASE Evicts(b, k, c, h, res)
    <3>1. /\ \A i \in Slots : res.bucket.key[i] = IF i = h THEN k ELSE b.key[i]
          /\ h \in Slots /\ res.swapKey = b.key[h] /\ res.swapVal = ValOf(b.val[h])
          /\ \A i \in Slots : b.key[i] # NoKey
      BY <1>1, <2>4 DEF Evicts, Full
    <3>2. ~(Empty(j)')
      BY <1>2, <1>3, <1>6, <3>1
    <3>3. j # k
      BY <1>2, <2>1, <3>1
    <3>4. CASE j = b.key[h]
      <4>1. truth'[j] = truth[j] /\ light'[j] = light[j] + ValOf(b.val[h])
        BY <1>2, <3>1, <3>3, <3>4
      <4>2. ValOf(b.val[h]) \in Nat
        <5>1. b.val[h] \in Values
          BY <1>1, <3>1
        <5> QED
          BY <5>1, ValueOf
      <4>3. Accounted(b.val[h], truth[j], light[j])
        BY <1>1, <3>1, <3>4 DEF IInv, SlotsAccounted
      <4>4. Bounds(truth[j], light[j] + ValOf(b.val[h]))
        BY <1>3, <4>2, <4>3 DEF Accounted
      <4> QED
        BY <3>2, <4>1, <4>4
    <3>5. CASE j # b.key[h]
      <4>1. ~HasSlot(j)
        BY <1>1, <1>2, <1>6, <2>1, <3>1, <3>5 DEF HasSlot
      <4>2. truth'[j] = truth[j] /\ light'[j] = light[j]
        BY <1>2, <3>1, <3>3, <3>5
      <4> QED
        BY <1>4, <3>2, <4>1, <4>2
    <3> QED
      BY <3>4, <3>5
  <2> QED
    BY <1>1, <2>2, <2>3, <2>4
<1> QED
  BY <1>5, <1>6

\* The flows of bucket q that have no slot in b.
LeftOut(b, q) == {j \in Keys : BucketOf[j] = q /\ ~\E i \in Slots : b.key[i] = j}

\* One bucket's part of TurnedAway.
Tells(b, q, t) ==
  /\ \A i \in Slots : b.neg <= 8 * ValOf(b.val[i])
  /\ (\E i \in Slots : Flagged(b.val[i])) \/ b.neg = SumOf(t, LeftOut(b, q))

LEMMA TurnedAwayIs ==
  /\ TurnedAway <=> \A q \in Positions : Tells(buckets[q], q, truth)
  /\ TurnedAway' <=> \A q \in Positions : Tells(buckets'[q], q, truth')
<1>1. \A q : {j \in Keys : BucketOf[j] = q /\ ~HasSlot(j)} = LeftOut(buckets[q], q)
  BY DEF LeftOut, HasSlot
<1>2. \A q : {j \in Keys : BucketOf[j] = q /\ ~(HasSlot(j)')} = LeftOut(buckets'[q], q)
  BY DEF LeftOut, HasSlot
<1>3. TurnedAway <=> \A q \in Positions : Tells(buckets[q], q, truth)
  BY <1>1, Zenon DEF TurnedAway, Tells, HasEvicted
<1>4. TurnedAway' <=> \A q \in Positions : Tells(buckets'[q], q, truth')
  BY <1>2, Zenon DEF TurnedAway, Tells, HasEvicted
<1> QED
  BY <1>3, <1>4

\* What a bucket turned away since its last eviction.  The shift of swap_threshold can only
\* make an eviction earlier, so no bound on the packets is needed beyond the flag's.
LEMMA TurnedAwayAfter ==
  ASSUME IInv, MaxPackets < Flag, NEW k \in Keys, NEW c, NEW p, NEW b, NEW h, NEW res,
         Inserted(k, c, p, b, h, res)
  PROVE  TurnedAway'
<1>1. /\ p = BucketOf[k] /\ p \in Positions /\ b = buckets[p] /\ b \in Bucket
      /\ GoodBucket(b, p) /\ c \in Nat /\ truth[k] + c < Flag
      /\ b.key \in [Slots -> Keys \cup {NoKey}] /\ b.val \in [Slots -> Values] /\ b.neg \in Nat
      /\ Takes(b, k, c, h, res) \/ TurnsAway(b, k, c, h, res) \/ Evicts(b, k, c, h, res)
  BY SlotFacts DEF Inserted, Bucket
<1>2. /\ buckets'[p] = res.bucket /\ \A q \in Positions \ {p} : buckets'[q] = buckets[q]
      /\ truth' \in [Keys -> Nat] /\ truth'[k] = truth[k] + c
      /\ \A j \in Keys \ {k} : truth'[j] = truth[j]
  BY InsertedChanges DEF IInv
<1>3. /\ IsFiniteSet(Keys) /\ truth \in [Keys -> Nat] /\ k # NoKey
      /\ \A i \in Slots : b.val[i] \in Values /\ ValOf(b.val[i]) \in Nat
  <2>1. IsFiniteSet(Keys) /\ truth \in [Keys -> Nat] /\ k # NoKey
    BY CMSketchAssumption, SlotFacts DEF IInv, TypeOK
  <2>2. ASSUME NEW i \in Slots PROVE b.val[i] \in Values /\ ValOf(b.val[i]) \in Nat
    <3>1. b.val[i] \in Values
      BY <1>1
    <3> QED
      BY <3>1, ValueOf
  <2> QED
    BY <2>1, <2>2
<1>4. \A q \in Positions : Tells(buckets[q], q, truth)
  BY TurnedAwayIs DEF IInv
<1>5. /\ \A i \in Slots : b.neg <= 8 * ValOf(b.val[i])
      /\ (\E i \in Slots : Flagged(b.val[i])) \/ b.neg = SumOf(truth, LeftOut(b, p))
  BY <1>1, <1>4 DEF Tells
<1>6. \A S \in SUBSET Keys :
        /\ IsFiniteSet(S) /\ \A j \in S : truth[j] \in Nat /\ truth'[j] \in Nat
        /\ k \notin S => SumOf(truth', S) = SumOf(truth, S)
        /\ k \in S => SumOf(truth', S) = SumOf(truth, S) + c
  <2> TAKE S \in SUBSET Keys
  <2>1. IsFiniteSet(S) /\ \A j \in S : truth[j] \in Nat /\ truth'[j] \in Nat
    BY <1>2, <1>3, FS_Subset
  <2>2. ASSUME k \notin S PROVE SumOf(truth', S) = SumOf(truth, S)
    <3>1. \A j \in S : truth'[j] = truth[j]
      BY <1>2, <2>2
    <3> QED
      BY <2>1, <3>1, SumMonotonic
  <2>3. ASSUME k \in S PROVE SumOf(truth', S) = SumOf(truth, S) + c
    <3>1. \A j \in S \ {k} : truth'[j] = truth[j]
      BY <1>2
    <3> QED
      BY <1>1, <1>2, <2>1, <2>3, <3>1, SumUpdate
  <2> QED
    BY <2>1, <2>2, <2>3
<1>7. ASSUME NEW q \in Positions \ {p} PROVE Tells(buckets'[q], q, truth')
  <2>1. PICK S : S = LeftOut(buckets[q], q)
    OBVIOUS
  <2>2. S \in SUBSET Keys /\ k \notin S
    BY <1>1, <1>7, <2>1 DEF LeftOut
  <2>3. SumOf(truth', S) = SumOf(truth, S) /\ buckets'[q] = buckets[q]
    BY <1>2, <1>6, <1>7, <2>2
  <2>4. Tells(buckets[q], q, truth)
    BY <1>4
  <2> QED
    BY <2>1, <2>3, <2>4 DEF Tells
<1>8. Tells(res.bucket, p, truth')
  <2>1. CASE Takes(b, k, c, h, res)
    <3>1. PICK v \in Values : v = b.val[h] /\ h \in Slots
      BY <1>3, <2>1 DEF Takes
    <3>2. /\ (v + c) % ValMod = v + c /\ ValOf(v + c) = ValOf(v) + c
          /\ (Flagged(v) => Flagged(v + c)) /\ ValOf(v) \in Nat
      <4>1. Accounted(v, truth[k], light[k])
        BY <2>1, <3>1, TakingSlot
      <4>2. ValOf(v) + c < Flag /\ ValOf(v) \in Nat
        BY <1>1, <1>3, <3>1, <4>1, SlotFacts DEF Accounted
      <4> QED
        BY <1>1, <4>2, AddToValue
    <3>3. /\ \A i \in Slots : res.bucket.key[i] = IF i = h THEN k ELSE b.key[i]
          /\ \A i \in Slots : res.bucket.val[i] = IF i = h THEN v + c ELSE b.val[i]
          /\ res.bucket.neg = b.neg
          /\ b.key[h] \in {k, NoKey} /\ \A j \in Slots : j # h => b.key[j] # k
      BY <1>1, <2>1, <3>1, <3>2 DEF Takes
    <3>4. \A i \in Slots : res.bucket.neg <= 8 * ValOf(res.bucket.val[i])
      <4> TAKE i \in Slots
      <4>1. b.neg <= 8 * ValOf(b.val[i]) /\ ValOf(b.val[i]) \in Nat
        BY <1>3, <1>5
      <4>2. CASE i = h
        <5>1. PICK n \in Nat : n = ValOf(v) /\ b.neg <= 8 * n /\ ValOf(v + c) = n + c
          BY <3>1, <3>2, <4>1, <4>2
        <5>2. b.neg <= 8 * (n + c)
          BY <1>1, <5>1
        <5> QED
          BY <3>3, <4>2, <5>1, <5>2
      <4>3. CASE i # h
        BY <3>3, <4>1, <4>3
      <4> QED
        BY <4>2, <4>3
    <3>5. CASE \E i \in Slots : Flagged(b.val[i])
      <4>1. \E i \in Slots : Flagged(res.bucket.val[i])
        BY <3>1, <3>2, <3>3, <3>5
      <4> QED
        BY <3>4, <4>1 DEF Tells
    <3>6. CASE b.neg = SumOf(truth, LeftOut(b, p))
      <4>1. LeftOut(res.bucket, p) = LeftOut(b, p) \ {k}
        <5>1. \E i \in Slots : res.bucket.key[i] = k
          BY <3>1, <3>3
        <5>2. ASSUME NEW j \in Keys, j # k
              PROVE  (\E i \in Slots : res.bucket.key[i] = j) <=> (\E i \in Slots : b.key[i] = j)
          BY <3>1, <3>3, <5>2, SlotFacts
        <5> QED
          BY <5>1, <5>2 DEF LeftOut
      <4>2. LeftOut(b, p) \in SUBSET Keys
        BY DEF LeftOut
      <4>3. SumOf(truth, LeftOut(b, p) \ {k}) = SumOf(truth, LeftOut(b, p))
        <5>1. CASE k \notin LeftOut(b, p)
          <6>1. LeftOut(b, p) \ {k} = LeftOut(b, p)
            BY <5>1
          <6> QED
            BY <6>1
        <5>2. CASE k \in LeftOut(b, p)
          <6>1. ~HasSlot(k) /\ b.key[h] = NoKey
            BY <1>1, <3>1, <3>3, <5>2 DEF LeftOut, HasSlot
          <6>2. truth[k] = 0
            BY <1>1, <3>1, <6>1 DEF IInv, OthersAccounted
          <6>3. SumOf(truth, LeftOut(b, p)) = 0 + SumOf(truth, LeftOut(b, p) \ {k})
            BY <1>6, <4>2, <5>2, <6>2, SumOne
          <6>4. SumOf(truth, LeftOut(b, p) \ {k}) \in Nat
            <7>1. LeftOut(b, p) \ {k} \in SUBSET Keys
              BY <4>2
            <7> QED
              BY <1>6, <7>1, SumNat
          <6> QED
            BY <6>3, <6>4
        <5> QED
          BY <5>1, <5>2
      <4>4. SumOf(truth', LeftOut(b, p) \ {k}) = SumOf(truth, LeftOut(b, p) \ {k})
        <5>1. LeftOut(b, p) \ {k} \in SUBSET Keys
          BY <4>2
        <5> QED
          BY <1>6, <5>1
      <4> QED
        BY <3>3, <3>4, <3>6, <4>1, <4>3, <4>4 DEF Tells
    <3> QED
      BY <1>5, <3>5, <3>6
  <2>2. CASE TurnsAway(b, k, c, h, res)
    <3>1. /\ h \in Slots /\ \A j \in Slots : ValOf(b.val[h]) <= ValOf(b.val[j])
          /\ \A j \in Slots : b.key[j] # k
          /\ (b.neg + c) % ValMod <= (ValOf(b.val[h]) * 8) % ValMod
          /\ res.bucket.key = b.key /\ res.bucket.val = b.val
          /\ res.bucket.neg = (b.neg + c) % ValMod
      <4>1. /\ h \in Slots /\ \A j \in Slots : ValOf(b.val[h]) <= ValOf(b.val[j])
            /\ ~((b.neg + c) % ValMod > (ValOf(b.val[h]) * 8) % ValMod)
            /\ res.bucket = [key |-> b.key, val |-> b.val, neg |-> (b.neg + c) % ValMod]
            /\ \A j \in Slots : b.key[j] # k
        BY <2>2 DEF TurnsAway, Exceeds, Full
      <4>2. (b.neg + c) % ValMod \in Nat /\ (ValOf(b.val[h]) * 8) % ValMod \in Nat
        <5>1. b.neg + c \in Nat /\ ValOf(b.val[h]) * 8 \in Nat
          BY <1>1, <1>3, <4>1
        <5> QED
          BY <5>1, Remainder, SlotFacts
      <4> QED
        BY <4>1, <4>2
    <3>2. (b.neg + c) % ValMod = b.neg + c
      <4>1. SumOf(truth, Keys) + c <= MaxPackets /\ b.neg <= SumOf(truth, Keys)
        BY <1>1 DEF Inserted, IInv, WithinBounds
      <4>2. SumOf(truth, Keys) \in Nat /\ MaxPackets \in Nat
        BY <1>3, SumNat, FlowStatsAssumption
      <4>3. b.neg + c \in Nat /\ b.neg + c < ValMod /\ ValMod \in Nat \ {0}
        BY <1>1, <4>1, <4>2, SlotFacts DEF ValMod
      <4> QED
        BY <4>3, Remainder
    <3>3. b.neg + c <= 8 * ValOf(b.val[h])
      <4>1. PICK n \in Nat : n = ValOf(b.val[h])
        BY <1>3, <3>1
      <4>2. n * 8 \in Nat /\ (n * 8) % ValMod <= n * 8 /\ (n * 8) % ValMod \in Nat
        <5>1. n * 8 \in Nat
          OBVIOUS
        <5> QED
          BY <5>1, Remainder, SlotFacts
      <4> QED
        BY <1>1, <3>1, <3>2, <4>1, <4>2
    <3>4. \A i \in Slots : res.bucket.neg <= 8 * ValOf(res.bucket.val[i])
      <4> TAKE i \in Slots
      <4>1. PICK m \in Nat, n \in Nat : m = ValOf(b.val[h]) /\ n = ValOf(b.val[i]) /\ m <= n
        BY <1>3, <3>1
      <4>2. b.neg + c <= 8 * n
        BY <1>1, <3>3, <4>1
      <4> QED
        BY <3>1, <3>2, <4>1, <4>2
    <3>5. CASE \E i \in Slots : Flagged(b.val[i])
      BY <3>1, <3>4, <3>5 DEF Tells
    <3>6. CASE b.neg = SumOf(truth, LeftOut(b, p))
      <4>1. LeftOut(res.bucket, p) = LeftOut(b, p) /\ k \in LeftOut(b, p)
        BY <1>1, <3>1 DEF LeftOut
      <4>2. LeftOut(b, p) \in SUBSET Keys
        BY DEF LeftOut
      <4>3. SumOf(truth', LeftOut(b, p)) = b.neg + c
        BY <1>6, <3>6, <4>1, <4>2
      <4> QED
        BY <3>1, <3>2, <3>4, <4>1, <4>3 DEF Tells
    <3> QED
      BY <1>5, <3>5, <3>6
  <2>3. CASE Evicts(b, k, c, h, res)
    <3>1. h \in Slots /\ res.bucket.val = [b.val EXCEPT ![h] = WithFlag(c)] /\ res.bucket.neg = 0
      BY <2>3 DEF Evicts
    <3>2. WithFlag(c) \in Values /\ Flagged(WithFlag(c))
      <4>1. c < Flag
        BY <1>1, <1>3, SlotFacts
      <4> QED
        BY <1>1, <4>1, FlaggedCount
    <3>3. Flagged(res.bucket.val[h])
      BY <1>1, <3>1, <3>2
    <3>4. \A i \in Slots : res.bucket.neg <= 8 * ValOf(res.bucket.val[i])
      <4> TAKE i \in Slots
      <4>1. res.bucket.val[i] \in Values
        BY <1>1, <1>3, <3>1, <3>2
      <4>2. ValOf(res.bucket.val[i]) \in Nat
        BY <4>1, ValueOf
      <4> QED
        BY <3>1, <4>2
    <3> QED
      BY <3>1, <3>3, <3>4 DEF Tells
  <2> QED
    BY <1>1, <2>1, <2>2, <2>3
<1>9. \A q \in Positions : Tells(buckets'[q], q, truth')
  BY <1>2, <1>7, <1>8
<1> QED
  BY <1>9, TurnedAwayIs

\* The sketch: each counter is the sum of the shares, modulo its range.
LEMMA CountersAfter ==
  ASSUME IInv, NEW k \in Keys, NEW c, NEW p, NEW b, NEW h, NEW res,
         Inserted(k, c, p, b, h, res)
  PROVE  CountersSum' /\ counters' \in [Rows -> [Cells -> 0..(CountMod - 1)]]
<1>1. PICK s \in Keys, v \in Nat : s = res.swapKey /\ v = res.swapVal
  BY InsertedChanges DEF IInv
<1>2. /\ light' \in [Keys -> Nat] /\ light'[s] = light[s] + v
      /\ \A j \in Keys \ {s} : light'[j] = light[j]
  BY <1>1, InsertedChanges DEF IInv
<1>3. counters' = [r \in Rows |-> [counters[r] EXCEPT ![Hash[r][s]] = (counters[r][Hash[r][s]] + v) % CountMod]]
  BY <1>1 DEF Inserted, SketchInsert
<1>4. /\ light \in [Keys -> Nat] /\ counters \in [Rows -> [Cells -> 0..(CountMod - 1)]]
      /\ CountMod \in Nat \ {0} /\ IsFiniteSet(Keys)
      /\ \A r \in Rows : Hash[r][s] \in Cells
  BY CMSketchAssumption DEF IInv, TypeOK
<1>5. \A r \in Rows : (counters[r][Hash[r][s]] + v) % CountMod \in 0..(CountMod - 1)
  <2> TAKE r \in Rows
  <2>1. counters[r][Hash[r][s]] + v \in Nat
    BY <1>4
  <2> QED
    BY <1>4, <2>1, Remainder
<1>6. ASSUME NEW r \in Rows, NEW i \in Cells
      PROVE  counters'[r][i] = SumOf(light', {j \in Keys : Hash[r][j] = i}) % CountMod
  <2> DEFINE S == {j \in Keys : Hash[r][j] = i}
  <2>1. /\ IsFiniteSet(S) /\ S \subseteq Keys
        /\ \A j \in S : light[j] \in Nat /\ light'[j] \in Nat
    <3>1. S \subseteq Keys
      OBVIOUS
    <3>2. IsFiniteSet(S)
      BY <1>4, <3>1, FS_Subset
    <3> QED
      BY <1>2, <1>4, <3>1, <3>2
  <2>2. counters[r][i] = SumOf(light, S) % CountMod /\ SumOf(light, S) \in Nat
    <3>1. counters[r][i] = SumOf(light, S) % CountMod
      BY DEF IInv, CountersSum
    <3> HIDE DEF S
    <3> QED
      BY <2>1, <3>1, SumNat
  <2>3. CASE Hash[r][s] = i
    <3>1. s \in S
      BY <2>3
    <3> HIDE DEF S
    <3>2. SumOf(light', S) = SumOf(light, S) + v
      BY <1>1, <1>2, <2>1, <3>1, SumUpdate
    <3>3. counters'[r][i] = (counters[r][i] + v) % CountMod
      BY <1>3, <1>4, <2>3
    <3>4. ((SumOf(light, S) % CountMod) + v) % CountMod = (SumOf(light, S) + v) % CountMod
      BY <1>1, <1>4, <2>2, RemainderAdd
    <3> QED
      BY <2>2, <3>2, <3>3, <3>4 DEF S
  <2>4. CASE Hash[r][s] # i
    <3>1. \A j \in S : light'[j] = light[j]
      BY <1>2, <2>4
    <3> HIDE DEF S
    <3>2. SumOf(light', S) = SumOf(light, S)
      BY <2>1, <3>1, SumMonotonic
    <3>3. counters'[r][i] = counters[r][i]
      BY <1>3, <1>4, <2>4
    <3> QED
      BY <2>2, <3>2, <3>3 DEF S
  <2> QED
    BY <2>3, <2>4
<1>7. counters' \in [Rows -> [Cells -> 0..(CountMod - 1)]]
  BY <1>3, <1>4, <1>5
<1> QED
  BY <1>6, <1>7 DEF CountersSum

\* The bounds on the trace.
LEMMA BoundsAfter ==
  ASSUME IInv, NEW k \in Keys, NEW c, NEW p, NEW b, NEW h, NEW res,
         Inserted(k, c, p, b, h, res)
  PROVE  WithinBounds' /\ SumOf(truth', Keys) = SumOf(truth, Keys) + c
<1>1. /\ buckets'[p] = res.bucket /\ \A q \in Positions \ {p} : buckets'[q] = buckets[q]
      /\ truth' \in [Keys -> Nat] /\ truth'[k] = truth[k] + c
      /\ \A j \in Keys \ {k} : truth'[j] = truth[j]
  BY InsertedChanges DEF IInv
<1>2. /\ b = buckets[p] /\ p \in Positions /\ c \in Nat
      /\ SumOf(truth, Keys) + c <= MaxPackets
      /\ Takes(b, k, c, h, res) \/ TurnsAway(b, k, c, h, res) \/ Evicts(b, k, c, h, res)
  BY DEF Inserted
<1>3. IsFiniteSet(Keys) /\ \A j \in Keys : truth[j] \in Nat
  BY CMSketchAssumption DEF IInv, TypeOK
<1>4. SumOf(truth', Keys) = SumOf(truth, Keys) + c /\ SumOf(truth, Keys) \in Nat
  <2>1. SumOf(truth', Keys) = SumOf(truth, Keys) + c
    BY <1>1, <1>2, <1>3, SumUpdate
  <2> QED
    BY <1>3, <2>1, SumNat
<1>5. \A q \in Positions : buckets[q].neg \in Nat /\ buckets[q].neg <= SumOf(truth, Keys)
  BY SlotFacts DEF IInv, TypeOK, WithinBounds
<1>6. res.bucket.neg <= SumOf(truth, Keys) + c
  <2>1. (b.neg + c) % ValMod <= b.neg + c /\ (b.neg + c) % ValMod \in Nat
    <3>1. b.neg + c \in Nat
      BY <1>2, <1>5
    <3> QED
      BY <3>1, Remainder, SlotFacts
  <2>2. res.bucket.neg \in {b.neg, (b.neg + c) % ValMod, 0}
    BY <1>2 DEF Takes, TurnsAway, Evicts
  <2> QED
    BY <1>2, <1>4, <1>5, <2>1, <2>2
<1>7. ASSUME NEW q \in Positions PROVE buckets'[q].neg <= SumOf(truth', Keys)
  <2>1. q # p => buckets[q].neg <= SumOf(truth, Keys) + c
    BY <1>2, <1>4, <1>5
  <2> QED
    BY <1>1, <1>4, <1>6, <2>1
<1> QED
  BY <1>2, <1>4, <1>7 DEF WithinBounds

---------------------------------------------------------------------------
(* The inductive invariant                                                  *)

\* A new trace: empty buckets, a cleared sketch.
LEMMA EmptyInv ==
  /\ Init => IInv
  /\ NewTrace => IInv'
<1> DEFINE Fresh(bs, cs, us, l, t) ==
             /\ bs = [p \in Positions |-> EmptyBucket]
             /\ cs = ZeroCounters /\ us = {}
             /\ l = [k \in Keys |-> 0] /\ t = [k \in Keys |-> 0]
<1>0. /\ EmptyBucket \in Bucket /\ EmptyBucket.neg = 0
      /\ \A i \in Slots : EmptyBucket.key[i] = NoKey /\ EmptyBucket.val[i] = 0
      /\ 1 \in Slots /\ 0 \in Nat
      /\ \A k \in Keys : k # NoKey /\ BucketOf[k] \in Positions
  BY SlotFacts, ZeroValue, FlowStatsAssumption DEF EmptyBucket, Bucket
<1>1. \A q : GoodBucket(EmptyBucket, q)
  BY <1>0 DEF GoodBucket
<1>2. ZeroCounters \in [Rows -> [Cells -> 0..(CountMod - 1)]]
  BY CMSketchAssumption DEF ZeroCounters
<1>3. \A S \in SUBSET Keys : SumOf([k \in Keys |-> 0], S) = 0
  <2> TAKE S \in SUBSET Keys
  <2>1. IsFiniteSet(S)
    BY FS_Subset, CMSketchAssumption
  <2> QED
    BY <2>1, SumZero
<1>4. 0 % CountMod = 0
  BY CMSketchAssumption, Remainder
<1>5. ASSUME Init PROVE IInv
  <2>1. TypeOK
    BY <1>0, <1>2, <1>5 DEF Init, TypeOK, Bucket
  <2>2. GoodBuckets
    BY <1>1, <1>5 DEF Init, GoodBuckets
  <2>3. SlotsAccounted
    BY <1>0, <1>5 DEF Init, SlotsAccounted
  <2>4. OthersAccounted
    BY <1>5 DEF Init, OthersAccounted
  <2>5. CountersSum
    <3> SUFFICES ASSUME NEW r \in Rows, NEW i \in Cells
                 PROVE  counters[r][i] = SumOf(light, {k \in Keys : Hash[r][k] = i}) % CountMod
      BY DEF CountersSum
    <3>1. counters[r][i] = 0
      BY <1>5 DEF Init, ZeroCounters
    <3>2. SumOf(light, {k \in Keys : Hash[r][k] = i}) = 0
      BY <1>3, <1>5 DEF Init
    <3> QED
      BY <1>4, <3>1, <3>2
  <2>6. WithinBounds
    <3>1. SumOf(truth, Keys) = 0 /\ \A p \in Positions : buckets[p].neg = 0
      BY <1>0, <1>3, <1>5 DEF Init
    <3> QED
      BY <3>1, FlowStatsAssumption DEF WithinBounds
  <2>7. TurnedAway
    <3> SUFFICES ASSUME NEW p \in Positions
                 PROVE  /\ \A i \in Slots : buckets[p].neg <= 8 * ValOf(buckets[p].val[i])
                        /\ buckets[p].neg = SumOf(truth, {k \in Keys : BucketOf[k] = p /\ ~HasSlot(k)})
      BY DEF TurnedAway
    <3>1. buckets[p].neg = 0 /\ \A i \in Slots : ValOf(buckets[p].val[i]) = 0
      BY <1>0, <1>5, ZeroValue DEF Init
    <3>2. SumOf(truth, {k \in Keys : BucketOf[k] = p /\ ~HasSlot(k)}) = 0
      BY <1>3, <1>5 DEF Init
    <3> QED
      BY <3>1, <3>2
  <2> QED
    BY <2>1, <2>2, <2>3, <2>4, <2>5, <2>6, <2>7 DEF IInv
<1>6. ASSUME NewTrace PROVE IInv'
  <2>1. TypeOK'
    BY <1>0, <1>2, <1>6 DEF NewTrace, TypeOK, Bucket
  <2>2. GoodBuckets'
    BY <1>1, <1>6 DEF NewTrace, GoodBuckets, GoodBucket
  <2>3. SlotsAccounted'
    BY <1>0, <1>6 DEF NewTrace, SlotsAccounted
  <2>4. OthersAccounted'
    BY <1>6 DEF NewTrace, OthersAccounted
  <2>5. CountersSum'
    <3> SUFFICES ASSUME NEW r \in Rows, NEW i \in Cells
                 PROVE  counters'[r][i] = SumOf(light', {k \in Keys : Hash[r][k] = i}) % CountMod
      BY DEF CountersSum
    <3>1. counters'[r][i] = 0
      BY <1>6 DEF NewTrace, ZeroCounters
    <3>2. SumOf(light', {k \in Keys : Hash[r][k] = i}) = 0
      BY <1>3, <1>6 DEF NewTrace
    <3> QED
      BY <1>4, <3>1, <3>2
  <2>6. WithinBounds'
    <3>1. SumOf(truth', Keys) = 0 /\ \A p \in Positions : buckets'[p].neg = 0
      BY <1>0, <1>3, <1>6 DEF NewTrace
    <3> QED
      BY <3>1, FlowStatsAssumption DEF WithinBounds
  <2>7. TurnedAway'
    <3> SUFFICES ASSUME NEW p \in Positions
                 PROVE  /\ \A i \in Slots : buckets'[p].neg <= 8 * ValOf(buckets'[p].val[i])
                        /\ buckets'[p].neg = SumOf(truth', {k \in Keys : BucketOf[k] = p /\ ~(HasSlot(k)')})
      BY DEF TurnedAway
    <3>1. buckets'[p].neg = 0 /\ \A i \in Slots : ValOf(buckets'[p].val[i]) = 0
      BY <1>0, <1>6, ZeroValue DEF NewTrace
    <3>2. SumOf(truth', {k \in Keys : BucketOf[k] = p /\ ~(HasSlot(k)')}) = 0
      BY <1>3, <1>6 DEF NewTrace
    <3> QED
      BY <3>1, <3>2
  <2> QED
    BY <2>1, <2>2, <2>3, <2>4, <2>5, <2>6, <2>7 DEF IInv
<1> QED
  BY <1>5, <1>6

LEMMA RecordInv ==
  ASSUME IInv, MaxPackets < Flag, NEW k \in Keys, NEW c \in Counts, AddRecord(k, c)
  PROVE  IInv'
<1>1. PICK p, b, h, res : Inserted(k, c, p, b, h, res)
  BY RecordInserted
<1>2. /\ res.bucket \in Bucket /\ GoodBucket(res.bucket, p)
      /\ res.swapKey \in Keys /\ p \in Positions
      /\ buckets' \in [Positions -> Bucket] /\ buckets'[p] = res.bucket
      /\ \A q \in Positions \ {p} : buckets'[q] = buckets[q]
      /\ light' \in [Keys -> Nat] /\ truth' \in [Keys -> Nat]
  <2>1. TypeOK /\ p \in Positions
    BY <1>1 DEF IInv, Inserted
  <2> QED
    BY <1>1, <2>1, InsertedChanges
<1>3. TypeOK'
  <2>1. used' \subseteq Cells
    <3>1. used \subseteq Cells /\ \A r \in Rows : Hash[r][res.swapKey] \in Cells
      BY <1>2, CMSketchAssumption DEF IInv, TypeOK
    <3> QED
      BY <1>1, <3>1 DEF Inserted
  <2>2. counters' \in [Rows -> [Cells -> 0..(CountMod - 1)]]
    BY <1>1, CountersAfter
  <2> QED
    BY <1>2, <2>1, <2>2 DEF TypeOK, Bucket
<1>4. GoodBuckets'
  <2>1. ASSUME NEW q \in Positions PROVE GoodBucket(buckets'[q], q)
    BY <1>2 DEF IInv, GoodBuckets
  <2> QED
    BY <2>1 DEF GoodBuckets, GoodBucket
<1>5. SlotsAccounted' /\ OthersAccounted' /\ TurnedAway' /\ CountersSum' /\ WithinBounds'
  BY <1>1, SlotsAfter, OthersAfter, TurnedAwayAfter, CountersAfter, BoundsAfter
<1> QED
  BY <1>3, <1>4, <1>5 DEF IInv

LEMMA StutterInv == IInv /\ UNCHANGED vars => IInv'
<1> SUFFICES ASSUME IInv, UNCHANGED vars PROVE IInv'
  OBVIOUS
<1>1. TurnedAway'
  <2>1. buckets' = buckets /\ truth' = truth
    BY DEF vars
  <2> QED
    BY <2>1, TurnedAwayIs DEF IInv
<1>2. TypeOK' /\ GoodBuckets' /\ SlotsAccounted' /\ OthersAccounted' /\ CountersSum' /\ WithinBounds'
  BY DEF IInv, TypeOK, GoodBuckets, GoodBucket, SlotsAccounted, OthersAccounted, HasSlot,
         CountersSum, WithinBounds, vars
<1> QED
  BY <1>1, <1>2 DEF IInv

\* What a slot holds and what the sketch holds add up, as long as a trace has fewer packets
\* than the flag is worth (2^31).
THEOREM IInvHolds ==
  ASSUME MaxPackets < Flag
  PROVE  Spec => []IInv
<1>1. Init => IInv
  BY EmptyInv
<1>2. IInv /\ [Next]_vars => IInv'
  <2> SUFFICES ASSUME IInv, [Next]_vars PROVE IInv'
    OBVIOUS
  <2>1. CASE NewTrace
    BY <2>1, EmptyInv
  <2>2. ASSUME NEW k \in Keys, NEW c \in Counts, AddRecord(k, c) PROVE IInv'
    BY <2>2, RecordInv
  <2>3. CASE UNCHANGED vars
    BY <2>3, StutterInv
  <2> QED
    BY <2>1, <2>2, <2>3 DEF Next
<1> QED
  BY <1>1, <1>2, PTL DEF Spec

---------------------------------------------------------------------------
(* The answers                                                              *)

\* What FLOW_SIZE reads of the bucket: the value of the flow's slot, or 0.
LEMMA RawValueIs ==
  ASSUME IInv, NEW k \in Keys
  PROVE  /\ RawValue(k) \in Values /\ light[k] \in Nat /\ truth[k] \in Nat
         /\ HasSlot(k) => Accounted(RawValue(k), truth[k], light[k])
         /\ ~HasSlot(k) => RawValue(k) = 0
         /\ truth[k] <= ValOf(RawValue(k)) + light[k]
         /\ ValOf(RawValue(k)) + light[k] <= 2 * truth[k]
<1>1. PICK b, p : b = buckets[p] /\ p = BucketOf[k] /\ p \in Positions /\ b \in Bucket
                  /\ GoodBucket(b, p)
  BY FlowStatsAssumption DEF IInv, TypeOK, GoodBuckets, Bucket
<1>2. k # NoKey /\ light[k] \in Nat /\ truth[k] \in Nat
  BY SlotFacts DEF IInv, TypeOK
<1>3. CASE HasSlot(k)
  <2>1. PICK h \in Slots : b.key[h] = k
    BY <1>1, <1>3 DEF HasSlot
  <2>2. \A i \in Slots : b.key[i] = k => i = h
    BY <1>1, <1>2, <2>1 DEF GoodBucket
  <2>3. RawValue(k) = b.val[h]
    BY <1>1, <2>1, <2>2, ScanOne DEF RawValue
  <2>4. b.val[h] \in Values /\ Accounted(b.val[h], truth[k], light[k])
    BY <1>1, <1>2, <2>1 DEF Bucket, IInv, SlotsAccounted
  <2> QED
    BY <1>2, <1>3, <2>3, <2>4 DEF Accounted
<1>4. CASE ~HasSlot(k)
  <2>1. RawValue(k) = 0
    <3>1. \A i \in Slots : b.key[i] # k
      BY <1>1, <1>4 DEF HasSlot
    <3> QED
      BY <1>1, <3>1, ScanNone DEF RawValue
  <2>2. truth[k] <= light[k] /\ light[k] <= 2 * truth[k]
    BY <1>4 DEF IInv, OthersAccounted
  <2>3. ValOf(RawValue(k)) = 0
    BY <2>1, ZeroValue
  <2> QED
    BY <1>2, <1>4, <2>1, <2>2, <2>3, ZeroValue
<1> QED
  BY <1>3, <1>4

\* The sketch answers with one of the key's counters.
LEMMA SketchAnswer ==
  ASSUME IInv, NEW k \in Keys
  PROVE  /\ \E r \in Rows : SketchQuery(counters, k) = SumOf(light, Sharing(k, r)) % CountMod
         /\ \A r \in Rows : IsFiniteSet(Sharing(k, r)) /\ SumOf(light, Sharing(k, r)) \in Nat
<1> DEFINE S == {counters[r][Hash[r][k]] : r \in Rows}
<1>1. /\ \A r \in Rows : Hash[r][k] \in Cells
      /\ \A r \in Rows : counters[r][Hash[r][k]] \in Nat
      /\ 0 \in Rows /\ CountMod \in Nat \ {0} /\ IsFiniteSet(Keys)
  BY CMSketchAssumption DEF IInv, TypeOK, Rows
<1>2. S \in SUBSET Nat /\ S # {}
  BY <1>1
<1>3. SketchQuery(counters, k) \in S
  <2>1. \E x \in S : \A y \in S : x <= y
    <3> HIDE DEF S
    <3> QED
      BY <1>2, LeastNatural
  <2>2. SketchQuery(counters, k) = CHOOSE x \in S : \A y \in S : x <= y
    BY DEF SketchQuery, Min
  <2> HIDE DEF S
  <2> QED
    BY <2>1, <2>2
<1>4. \A r \in Rows : counters[r][Hash[r][k]] = SumOf(light, Sharing(k, r)) % CountMod
  BY <1>1 DEF IInv, CountersSum, Sharing
<1>5. ASSUME NEW r \in Rows
      PROVE  IsFiniteSet(Sharing(k, r)) /\ SumOf(light, Sharing(k, r)) \in Nat
  <2>1. Sharing(k, r) \subseteq Keys
    BY DEF Sharing
  <2>2. IsFiniteSet(Sharing(k, r)) /\ \A j \in Sharing(k, r) : light[j] \in Nat
    BY <1>1, <2>1, FS_Subset DEF IInv, TypeOK
  <2> QED
    BY <2>2, SumNat
<1> QED
  BY <1>3, <1>4, <1>5

LEMMA EstimateFacts ==
  ASSUME IInv, NEW k \in Keys
  PROVE  /\ \E r \in Rows : FlowSize(k) + WrappedAway(SumOf(light, Sharing(k, r))) >= truth[k]
         /\ FlowSize(k) <= 2 * SumOf(truth, Colliding(k))
         /\ RawValue(k) # 0 /\ ~Flagged(RawValue(k)) => FlowSize(k) = truth[k]
<1>1. PICK v : v = RawValue(k)
  OBVIOUS
<1>2. /\ v \in Values /\ light[k] \in Nat /\ truth[k] \in Nat /\ ValOf(v) \in Nat
      /\ v # 0 /\ ~Flagged(v) => ValOf(v) = truth[k]
      /\ truth[k] <= ValOf(v) + light[k] /\ ValOf(v) + light[k] <= 2 * truth[k]
  <2>1. v \in Values /\ light[k] \in Nat /\ truth[k] \in Nat
        /\ truth[k] <= ValOf(v) + light[k] /\ ValOf(v) + light[k] <= 2 * truth[k]
    BY <1>1, RawValueIs
  <2>2. ValOf(v) \in Nat /\ (~Flagged(v) => ValOf(v) = v)
    BY <2>1, ValueOf
  <2>3. v # 0 /\ ~Flagged(v) => v = truth[k]
    <3>1. v # 0 => HasSlot(k)
      BY <1>1, RawValueIs
    <3>2. HasSlot(k) => Accounted(v, truth[k], light[k])
      BY <1>1, RawValueIs
    <3> QED
      BY <3>1, <3>2 DEF Accounted
  <2> QED
    BY <2>1, <2>2, <2>3
<1>3. PICK r \in Rows : SketchQuery(counters, k) = SumOf(light, Sharing(k, r)) % CountMod
  BY SketchAnswer
<1>4. PICK S, load : /\ S = Sharing(k, r) /\ load = SumOf(light, S)
                     /\ IsFiniteSet(S) /\ load \in Nat /\ k \in S /\ S \subseteq Keys
  <2>1. IsFiniteSet(Sharing(k, r)) /\ SumOf(light, Sharing(k, r)) \in Nat
    BY SketchAnswer
  <2>2. k \in Sharing(k, r) /\ Sharing(k, r) \subseteq Keys
    BY DEF Sharing
  <2> QED
    BY <2>1, <2>2
<1>5. PICK answer : answer = load % CountMod
  OBVIOUS
<1>6. /\ answer \in Nat /\ answer <= load
      /\ WrappedAway(load) \in Nat /\ load = WrappedAway(load) + answer
  <2>1. CountMod \in Nat \ {0}
    BY CMSketchAssumption
  <2>2. PICK n : n = load \div CountMod
    OBVIOUS
  <2>3. /\ load % CountMod \in 0..(CountMod - 1) /\ load % CountMod <= load
        /\ n \in Nat /\ load = CountMod * n + (load % CountMod)
    BY <1>4, <2>1, <2>2, Remainder
  <2>4. WrappedAway(load) = CountMod * n
    BY <2>2, Zenon DEF WrappedAway
  <2>5. CountMod * n \in Nat
    <3>1. n \in Nat
      BY <2>3
    <3> QED
      BY <2>1, <3>1
  <2> QED
    BY <1>5, <2>1, <2>3, <2>4, <2>5
<1>7. FlowSize(k) = ValOf(v) + (IF v = 0 \/ Flagged(v) THEN answer ELSE 0)
  BY <1>1, <1>3, <1>4, <1>5 DEF FlowSize
<1>8. \A j \in Keys : light[j] \in Nat /\ truth[j] \in Nat /\ light[j] <= 2 * truth[j]
  <2> TAKE j \in Keys
  <2>1. RawValue(j) \in Values /\ light[j] \in Nat /\ truth[j] \in Nat
        /\ ValOf(RawValue(j)) + light[j] <= 2 * truth[j]
    BY RawValueIs
  <2>2. ValOf(RawValue(j)) \in Nat
    BY <2>1, ValueOf
  <2> QED
    BY <2>1, <2>2
<1>9. FlowSize(k) + WrappedAway(SumOf(light, Sharing(k, r))) >= truth[k]
  <2>1. light[k] <= load
    BY <1>4, <1>8, SumElement
  <2>2. PICK lost \in Nat : lost = WrappedAway(load) /\ load = lost + answer
    BY <1>6
  <2>3. FlowSize(k) + lost >= truth[k]
    BY <1>2, <1>4, <1>6, <1>7, <2>1, <2>2
  <2> QED
    BY <1>4, <2>2, <2>3
<1>10. FlowSize(k) <= 2 * SumOf(truth, Colliding(k))
  <2> DEFINE T == S \ {k}
  <2>1. IsFiniteSet(T) /\ IsFiniteSet(S) /\ \A j \in S : light[j] \in Nat /\ truth[j] \in Nat
    BY <1>4, <1>8, FS_RemoveElement
  <2>2. SumOf(light, S) = light[k] + SumOf(light, T) /\ SumOf(truth, S) = truth[k] + SumOf(truth, T)
    BY <1>4, <2>1, SumOne
  <2>3. /\ SumOf(light, T) \in Nat /\ SumOf(truth, T) \in Nat
        /\ SumOf(light, T) <= 2 * SumOf(truth, T)
    <3>1. \A j \in T : light[j] \in Nat /\ truth[j] \in Nat /\ light[j] <= 2 * truth[j]
      BY <1>4, <1>8
    <3> HIDE DEF T
    <3> QED
      BY <2>1, <3>1, SumMonotonic, SumNat
  <2>4. SumOf(truth, S) <= SumOf(truth, Colliding(k)) /\ SumOf(truth, Colliding(k)) \in Nat
    <3>1. Colliding(k) \subseteq Keys /\ S \subseteq Colliding(k)
      BY <1>4 DEF Colliding, Sharing
    <3>2. IsFiniteSet(Colliding(k)) /\ \A j \in Colliding(k) : truth[j] \in Nat
      BY <1>8, <3>1, FS_Subset, CMSketchAssumption
    <3> QED
      BY <3>1, <3>2, SumSubset, SumNat
  <2>5. FlowSize(k) <= ValOf(v) + load
    BY <1>2, <1>4, <1>6, <1>7
  <2> HIDE DEF T
  <2>6. FlowSize(k) \in Nat
    BY <1>2, <1>6, <1>7
  <2> QED
    BY <1>2, <1>4, <2>2, <2>3, <2>4, <2>5, <2>6
<1>11. v # 0 /\ ~Flagged(v) => FlowSize(k) = truth[k]
  BY <1>2, <1>7
<1> QED
  BY <1>1, <1>9, <1>10, <1>11

\* FLOW_SIZE loses no packet but those that one of the flow's counters lost in wrapping
\* around.
THEOREM NoUnderestimateHolds ==
  ASSUME MaxPackets < Flag
  PROVE  Spec => []NoUnderestimate
<1>1. IInv => NoUnderestimate
  BY EstimateFacts DEF NoUnderestimate
<1> QED
  BY <1>1, IInvHolds, PTL

\* FLOW_SIZE counts no packet more than twice, of the flows that share a counter.
THEOREM AtMostTwiceHolds ==
  ASSUME MaxPackets < Flag
  PROVE  Spec => []AtMostTwice
<1>1. IInv => AtMostTwice
  BY EstimateFacts DEF AtMostTwice
<1> QED
  BY <1>1, IInvHolds, PTL

\* FLOW_SIZE is exact for a flow that was not let in by an eviction.
THEOREM UnflaggedExactHolds ==
  ASSUME MaxPackets < Flag
  PROVE  Spec => []UnflaggedExact
<1>1. IInv => UnflaggedExact
  BY EstimateFacts DEF UnflaggedExact
<1> QED
  BY <1>1, IInvHolds, PTL

\* The masked loops of oinsert give a flow one slot.
THEOREM OneSlotPerFlowHolds ==
  ASSUME MaxPackets < Flag
  PROVE  Spec => []OneSlotPerFlow
<1>1. IInv => OneSlotPerFlow
  BY DEF IInv, GoodBuckets, GoodBucket, OneSlotPerFlow
<1> QED
  BY <1>1, IInvHolds, PTL

---------------------------------------------------------------------------
(* The queries                                                              *)

\* A slot of the array with a flow in it.
LEMMA SlotHolds ==
  ASSUME IInv, NEW s \in AllSlots, KeyAt(s) # NoKey
  PROVE  /\ KeyAt(s) \in Keys
         /\ ValAt(s) \in Values
         /\ ValOf(ValAt(s)) \in Nat
         /\ truth[KeyAt(s)] \in Nat /\ light[KeyAt(s)] \in Nat
         /\ Accounted(ValAt(s), truth[KeyAt(s)], light[KeyAt(s)])
<1>1. PICK p \in Positions, i \in Slots : p = s[1] /\ i = s[2]
  BY DEF AllSlots
<1>2. PICK k, v : k = buckets[p].key[i] /\ v = buckets[p].val[i]
  OBVIOUS
<1>3. KeyAt(s) = k /\ ValAt(s) = v /\ k # NoKey
  BY <1>1, <1>2 DEF KeyAt, ValAt
<1>4. k \in Keys /\ v \in Values
  BY <1>1, <1>2, <1>3 DEF IInv, TypeOK
<1>5. truth[k] \in Nat /\ light[k] \in Nat /\ ValOf(v) \in Nat
  BY <1>4, ValueOf DEF IInv, TypeOK
<1>6. Accounted(v, truth[k], light[k])
  BY <1>1, <1>2, <1>3 DEF IInv, SlotsAccounted
<1> QED
  BY <1>3, <1>4, <1>5, <1>6

\* The count that HEAVY_HITTER and HEAVY_CHANGE read of a flow with a slot.
LEMMA CountMapIs ==
  ASSUME IInv, NEW k \in Keys, k \in DOMAIN CountMap
  PROVE  /\ CountMap[k] \in Nat /\ truth[k] \in Nat /\ light[k] \in Nat
         /\ CountMap[k] <= truth[k]
         /\ truth[k] <= CountMap[k] + (IF k \in FlaggedKeys THEN light[k] ELSE 0)
<1>1. DOMAIN CountMap = {KeyAt(s) : s \in AllSlots}
  BY DEF CountMap
<1>2. \E s \in AllSlots : KeyAt(s) = k
  BY <1>1
<1>3. PICK s : s = CHOOSE r \in AllSlots : KeyAt(r) = k
  OBVIOUS
<1>4. s \in AllSlots /\ KeyAt(s) = k
  BY <1>2, <1>3
<1>5. CountMap[k] = ValOf(ValAt(s))
  BY <1>2, <1>3 DEF CountMap
<1>6. k # NoKey
  BY SlotFacts
<1>7. /\ ValAt(s) \in Values
      /\ ValOf(ValAt(s)) \in Nat
      /\ truth[k] \in Nat /\ light[k] \in Nat
      /\ Accounted(ValAt(s), truth[k], light[k])
  BY <1>4, <1>6, SlotHolds
<1>8. ~Flagged(ValAt(s)) => ValOf(ValAt(s)) = ValAt(s)
  BY <1>7, ValueOf
<1>9. Flagged(ValAt(s)) => k \in FlaggedKeys
  BY <1>4 DEF FlaggedKeys
<1> QED
  BY <1>5, <1>7, <1>8, <1>9 DEF Accounted

\* A flow has one slot in the array.
LEMMA SlotOfKey ==
  ASSUME IInv, NEW s \in AllSlots, NEW r \in AllSlots, KeyAt(s) = KeyAt(r), KeyAt(s) # NoKey
  PROVE  s = r
<1>1. /\ s[1] \in Positions /\ s[2] \in Slots /\ s = <<s[1], s[2]>>
      /\ r[1] \in Positions /\ r[2] \in Slots /\ r = <<r[1], r[2]>>
  BY DEF AllSlots
<1>2. PICK p \in Positions, i \in Slots : p = s[1] /\ i = s[2]
  BY <1>1
<1>3. PICK q \in Positions, j \in Slots : q = r[1] /\ j = r[2]
  BY <1>1
<1>4. buckets[p].key[i] = buckets[q].key[j] /\ buckets[p].key[i] # NoKey
  BY <1>2, <1>3 DEF KeyAt
<1>5. p = q
  <2>1. BucketOf[buckets[p].key[i]] = p /\ BucketOf[buckets[q].key[j]] = q
    BY <1>4 DEF IInv, GoodBuckets, GoodBucket
  <2> QED
    BY <1>4, <2>1
<1>6. i = j
  BY <1>4, <1>5 DEF IInv, GoodBuckets, GoodBucket
<1> QED
  BY <1>1, <1>2, <1>3, <1>5, <1>6

\* A flow without a slot, of a bucket that has evicted nothing, has at most eight times the
\* count of any of the bucket's slots; if the bucket has an empty one, it has no packets.
LEMMA LeftOutBound ==
  ASSUME IInv, NEW j \in Keys \ Kept, ~HasEvicted(BucketOf[j]), NEW i \in Slots
  PROVE  LET b == buckets[BucketOf[j]]
         IN  IF b.key[i] = NoKey THEN truth[j] = 0
             ELSE /\ b.key[i] \in Kept /\ BucketOf[b.key[i]] = BucketOf[j]
                  /\ truth[j] <= 8 * CountMap[b.key[i]]
<1>1. PICK p \in Positions : p = BucketOf[j]
  BY FlowStatsAssumption
<1>2. PICK b : b = buckets[p]
  OBVIOUS
<1>3. /\ b.key \in [Slots -> Keys \cup {NoKey}] /\ b.neg \in Nat /\ truth \in [Keys -> Nat]
      /\ GoodBucket(b, p) /\ IsFiniteSet(Keys)
  BY <1>1, <1>2, SlotFacts, CMSketchAssumption DEF IInv, TypeOK, GoodBuckets
<1>4. ~HasSlot(j)
  <2>1. \A n \in Slots : <<p, n>> \in AllSlots /\ KeyAt(<<p, n>>) = b.key[n]
    BY <1>1, <1>2 DEF AllSlots, KeyAt
  <2>2. \A n \in Slots : b.key[n] # j
    BY <2>1 DEF Kept
  <2> QED
    BY <1>1, <1>2, <2>2 DEF HasSlot
<1>5. CASE b.key[i] = NoKey
  <2>1. truth[j] = 0
    BY <1>1, <1>2, <1>4, <1>5 DEF IInv, OthersAccounted
  <2> QED
    BY <1>1, <1>2, <1>5, <2>1
<1>6. CASE b.key[i] # NoKey
  <2>1. PICK m \in Keys : m = b.key[i] /\ BucketOf[m] = p
    BY <1>3, <1>6 DEF GoodBucket
  <2>2. PICK s \in AllSlots : KeyAt(s) = m /\ ValAt(s) = b.val[i]
    <3>1. /\ <<p, i>> \in AllSlots
          /\ KeyAt(<<p, i>>) = buckets[p].key[i] /\ ValAt(<<p, i>>) = buckets[p].val[i]
      BY <1>1 DEF AllSlots, KeyAt, ValAt
    <3> QED
      BY <1>2, <2>1, <3>1
  <2>3. m \in Kept /\ m # NoKey
    BY <2>2, SlotFacts DEF Kept
  <2>4. CountMap[m] = ValOf(b.val[i])
    <3>1. PICK r : r = CHOOSE q \in AllSlots : KeyAt(q) = m
      OBVIOUS
    <3>2. r \in AllSlots /\ KeyAt(r) = m
      BY <2>2, <3>1
    <3>3. r = s
      BY <2>2, <2>3, <3>2, SlotOfKey
    <3>4. CountMap[m] = ValOf(ValAt(r))
      BY <2>2, <3>1 DEF CountMap
    <3> QED
      BY <2>2, <3>3, <3>4
  <2>5. truth[j] <= b.neg
    <3>1. PICK S : S = {n \in Keys : BucketOf[n] = p /\ ~HasSlot(n)}
      OBVIOUS
    <3>2. b.neg = SumOf(truth, S)
      BY <1>1, <1>2, <3>1 DEF IInv, TurnedAway
    <3>3. j \in S /\ S \subseteq Keys
      BY <1>1, <1>4, <3>1
    <3>4. IsFiniteSet(S) /\ \A n \in S : truth[n] \in Nat
      BY <1>3, <3>3, FS_Subset
    <3> QED
      BY <3>2, <3>3, <3>4, SumElement
  <2>6. b.neg <= 8 * ValOf(b.val[i])
    BY <1>1, <1>2 DEF IInv, TurnedAway
  <2>7. ValOf(b.val[i]) \in Nat /\ truth[j] \in Nat
    BY <1>3, <2>2, <2>3, SlotHolds
  <2>8. truth[j] <= 8 * CountMap[m]
    BY <1>3, <2>4, <2>5, <2>6, <2>7
  <2> QED
    BY <1>1, <1>2, <1>6, <2>1, <2>3, <2>8
<1> QED
  BY <1>5, <1>6

\* Of the flows with slots, HEAVY_HITTER ranks none above one with more packets but for what
\* the sketch took of a flow let in by an eviction; a flow without a slot, in a bucket that
\* has evicted nothing, has at most eight times the packets of a listed one, or lost to
\* listed flows only.
THEOREM HeavyHitterRanksTrulyHolds ==
  ASSUME MaxPackets < Flag
  PROVE  Spec => []HeavyHitterRanksTruly
<1>1. IInv => HeavyHitterRanksTruly
  <2> SUFFICES ASSUME IInv, NEW top \in HeavyHitters, NEW k \in top \ {NoKey}
               PROVE  /\ \A j \in Kept \ top :
                           truth[j] <= truth[k] + (IF j \in FlaggedKeys THEN light[j] ELSE 0)
                      /\ \A j \in Keys \ Kept :
                           \/ HasEvicted(BucketOf[j])
                           \/ k \notin Rivals(j) /\ Rivals(j) \subseteq top
                           \/ truth[j] <= 8 * truth[k]
    BY DEF HeavyHitterRanksTruly
  <2>1. DOMAIN CountMap = {KeyAt(s) : s \in AllSlots}
    BY DEF CountMap
  <2>2. top \subseteq DOMAIN CountMap /\ \A x \in top, y \in DOMAIN CountMap \ top : CountMap[x] >= CountMap[y]
    BY DEF HeavyHitters
  <2>3. k \in Keys /\ k \in DOMAIN CountMap /\ k \in Kept
    <3>1. PICK s \in AllSlots : KeyAt(s) = k
      BY <2>1, <2>2
    <3> QED
      BY <2>2, <3>1, SlotHolds DEF Kept
  <2>4. CountMap[k] \in Nat /\ truth[k] \in Nat /\ CountMap[k] <= truth[k]
    BY <2>3, CountMapIs
  <2>5. \A j \in Kept : j \in Keys /\ j \in DOMAIN CountMap
    BY <2>1 DEF Kept
  <2>6. ASSUME NEW j \in Kept \ top
        PROVE  truth[j] <= truth[k] + (IF j \in FlaggedKeys THEN light[j] ELSE 0)
    <3>1. CountMap[k] >= CountMap[j]
      BY <2>2, <2>3, <2>5
    <3>2. /\ CountMap[j] \in Nat /\ truth[j] \in Nat /\ light[j] \in Nat
          /\ truth[j] <= CountMap[j] + (IF j \in FlaggedKeys THEN light[j] ELSE 0)
      BY <2>5, CountMapIs
    <3> QED
      BY <2>4, <3>1, <3>2
  <2>7. ASSUME NEW j \in Keys \ Kept, ~HasEvicted(BucketOf[j]),
               k \in Rivals(j) \/ ~(Rivals(j) \subseteq top)
        PROVE  truth[j] <= 8 * truth[k]
    <3>1. PICK m \in Rivals(j) : m = k \/ m \notin top
      BY <2>7
    <3>2. m \in Kept /\ BucketOf[m] = BucketOf[j] /\ m \in Keys
      BY <2>5, <3>1 DEF Rivals
    <3>3. PICK i \in Slots : buckets[BucketOf[j]].key[i] = m
      <4>1. PICK s \in AllSlots : KeyAt(s) = m
        BY <3>2 DEF Kept
      <4>2. PICK q \in Positions, n \in Slots : q = s[1] /\ n = s[2]
        BY DEF AllSlots
      <4>3. buckets[q].key[n] = m /\ m # NoKey
        BY <3>2, <4>1, <4>2, SlotFacts DEF KeyAt
      <4>4. BucketOf[m] = q
        BY <4>3 DEF IInv, GoodBuckets, GoodBucket
      <4> QED
        BY <3>2, <4>3, <4>4
    <3>4. m # NoKey
      BY <3>2, SlotFacts
    <3>5. truth[j] <= 8 * CountMap[m]
      BY <2>7, <3>3, <3>4, LeftOutBound
    <3>6. CountMap[m] \in Nat /\ CountMap[m] <= CountMap[k]
      <4>1. CountMap[m] \in Nat
        BY <2>5, <3>2, CountMapIs
      <4>2. m = k \/ CountMap[k] >= CountMap[m]
        BY <2>2, <2>3, <2>5, <3>1, <3>2
      <4> QED
        BY <2>4, <4>1, <4>2
    <3>7. truth[j] \in Nat
      BY DEF IInv, TypeOK
    <3>8. PICK x \in Nat, y \in Nat : x = CountMap[m] /\ y = truth[k] /\ x <= y
      BY <2>4, <3>6
    <3>9. truth[j] <= 8 * y
      BY <3>5, <3>7, <3>8
    <3> QED
      BY <3>8, <3>9
  <2> QED
    BY <2>6, <2>7
<1> QED
  BY <1>1, IInvHolds, PTL

\* Whenever the sketch takes counts of a flow, the flow's counter gets its block.
LEMMA SharesUsedHolds ==
  ASSUME MaxPackets < Flag
  PROVE  Spec => []SharesUsed
<1>1. Init => SharesUsed
  BY DEF Init, SharesUsed
<1>2. IInv /\ SharesUsed /\ [Next]_vars => SharesUsed'
  <2> SUFFICES ASSUME IInv, SharesUsed, [Next]_vars PROVE SharesUsed'
    OBVIOUS
  <2>1. CASE NewTrace
    BY <2>1 DEF NewTrace, SharesUsed
  <2>2. ASSUME NEW k \in Keys, NEW c \in Counts, AddRecord(k, c) PROVE SharesUsed'
    <3>1. PICK p, b, h, res : Inserted(k, c, p, b, h, res)
      BY <2>2, RecordInserted
    <3>2. \A j \in Keys \ {res.swapKey} : light'[j] = light[j]
      BY <3>1, InsertedChanges DEF IInv
    <3>3. used' = used \cup {Hash[r][res.swapKey] : r \in Rows}
      BY <3>1 DEF Inserted
    <3> QED
      BY <3>2, <3>3 DEF SharesUsed
  <2>3. CASE UNCHANGED vars
    BY <2>3 DEF vars, SharesUsed
  <2> QED
    BY <2>1, <2>2, <2>3 DEF Next
<1> QED
  BY <1>1, <1>2, IInvHolds, PTL DEF Spec

\* Whichever counters are in the stash: what CARDINALITY leaves out in both parts has its
\* counter there, or the heavy part has it whole.
THEOREM UncountedFlowsAreExactHolds ==
  ASSUME MaxPackets < Flag
  PROVE  Spec => []UncountedFlowsAreExact
<1>1. IInv /\ SharesUsed => UncountedFlowsAreExact
  <2> SUFFICES ASSUME IInv, SharesUsed, NEW hidden \in SUBSET used, NEW k \in Keys,
                      truth[k] > 0, ~CountedInBucket(k), ~CountedInSketch(k, hidden),
                      Counter(k) \notin hidden
               PROVE  k \in FlaggedKeys /\ CountMap[k] = truth[k]
    BY DEF UncountedFlowsAreExact
  <2>1. light[k] = 0
    <3>1. 0 \in Rows /\ Hash[0][k] \notin used
      BY FlowQueriesAssumption DEF Rows, CountedInSketch, CountedCounters, Counter
    <3> QED
      BY <3>1 DEF SharesUsed, IInv, TypeOK
  <2>2. truth[k] \in Nat /\ BucketOf[k] \in Positions
    BY FlowStatsAssumption DEF IInv, TypeOK
  <2>3. HasSlot(k)
    BY <2>1, <2>2 DEF IInv, OthersAccounted
  <2>4. PICK s \in AllSlots : KeyAt(s) = k
    <3>1. PICK i \in Slots : buckets[BucketOf[k]].key[i] = k
      BY <2>3 DEF HasSlot
    <3>2. <<BucketOf[k], i>> \in AllSlots /\ KeyAt(<<BucketOf[k], i>>) = k
      BY <2>2, <3>1 DEF AllSlots, KeyAt
    <3> QED
      BY <3>2
  <2>5. k \in FlaggedKeys
    <3>1. k # NoKey
      BY SlotFacts
    <3> QED
      BY <2>4, <3>1 DEF CountedInBucket, CountedSlots, FlaggedKeys
  <2>6. k \in DOMAIN CountMap
    BY <2>4 DEF CountMap
  <2> QED
    BY <2>1, <2>5, <2>6, CountMapIs
<1> QED
  BY <1>1, IInvHolds, SharesUsedHolds, PTL

\* The counter that get_distribution asks for a flagged slot has a block, with that value.
LEMMA TakenCounter ==
  ASSUME IInv, SharesUsed, NEW s \in AllSlots, TakesEx(s)
  PROVE  /\ KeyAt(s) \in FlaggedKeys
         /\ Counter(KeyAt(s)) \in used
         /\ counters[0][Counter(KeyAt(s))] = ExVal(s)
<1>1. PICK k : k = KeyAt(s)
  OBVIOUS
<1>2. /\ k # NoKey /\ k \in FlaggedKeys
      /\ SketchQuery(counters, k) = ExVal(s) /\ ExVal(s) # 0
  BY <1>1 DEF TakesEx, ExVal, FlaggedKeys
<1>3. k \in Keys
  BY <1>1, <1>2, SlotHolds
<1>4. 0 \in Rows /\ \A r \in Rows : r = 0
  BY FlowQueriesAssumption DEF Rows
<1>5. ExVal(s) = SumOf(light, Sharing(k, 0)) % CountMod /\ IsFiniteSet(Sharing(k, 0))
  BY <1>2, <1>3, <1>4, SketchAnswer
<1>6. Hash[0][k] \in Cells
  BY <1>3, <1>4, CMSketchAssumption
<1>7. counters[0][Hash[0][k]] = SumOf(light, Sharing(k, 0)) % CountMod
  BY <1>4, <1>6 DEF IInv, CountersSum, Sharing
<1>8. PICK j \in Sharing(k, 0) : light[j] # 0
  <2>1. 0 % CountMod = 0
    BY CMSketchAssumption, Remainder
  <2>2. SumOf(light, Sharing(k, 0)) # 0
    BY <1>2, <1>5, <2>1
  <2> QED
    BY <1>5, <2>2, SumZero
<1>9. Hash[0][k] \in used
  <2>1. j \in Keys /\ Hash[0][j] = Hash[0][k]
    BY <1>8 DEF Sharing
  <2>2. light[j] > 0
    BY <1>8, <2>1 DEF IInv, TypeOK
  <2> QED
    BY <1>4, <2>1, <2>2 DEF SharesUsed
<1> QED
  BY <1>1, <1>2, <1>5, <1>7, <1>9 DEF Counter

\* Whichever counters are in the stash: unless flagged flows share counters, or a counter
\* of one is in the stash, DIST takes from an entry no more than the tree put there, and no
\* entry wraps.
THEOREM DistWrapNeedsSharedCounterHolds ==
  ASSUME MaxPackets < Flag
  PROVE  Spec => []DistWrapNeedsSharedCounter
<1>1. IInv /\ SharesUsed => DistWrapNeedsSharedCounter
  <2> SUFFICES ASSUME IInv, SharesUsed, NEW hidden \in SUBSET used, NEW v,
                      \A k \in FlaggedKeys :
                        Counter(k) \notin hidden /\ \A j \in FlaggedKeys \ {k} : Counter(j) # Counter(k)
               PROVE  ~(Dist(v, hidden) < 0)
    BY DEF DistWrapNeedsSharedCounter
  <2>1. PICK A, B, C :
          /\ A = {i \in used \ hidden : counters[0][i] = v}
          /\ B = {s \in AllSlots : TakesEx(s) /\ ExVal(s) = v}
          /\ C = {s \in AllSlots : ValOf(ValAt(s)) + (IF TakesEx(s) THEN ExVal(s) ELSE 0) = v}
    OBVIOUS
  <2>2. IsFiniteSet(A) /\ IsFiniteSet(B) /\ IsFiniteSet(C)
    <3>1. IsFiniteSet(Cells)
      BY FlowQueriesAssumption, FS_Interval DEF Cells
    <3>2. A \subseteq Cells
      BY <2>1 DEF IInv, TypeOK
    <3>3. IsFiniteSet(Slots)
      BY FlowStatsAssumption, FS_Interval DEF Slots
    <3>4. IsFiniteSet(AllSlots)
      BY <3>3, FlowQueriesAssumption, FS_Product DEF AllSlots
    <3>5. B \subseteq AllSlots /\ C \subseteq AllSlots
      BY <2>1
    <3> QED
      BY <3>1, <3>2, <3>4, <3>5, FS_Subset
  <2>3. Cardinality(A) \in Nat /\ Cardinality(B) \in Nat /\ Cardinality(C) \in Nat
    BY <2>2, FS_CardinalityType
  <2>4. Cardinality(B) <= Cardinality(A)
    <3>1. PICK f : f = [s \in B |-> Counter(KeyAt(s))]
      OBVIOUS
    <3>2. ASSUME NEW s \in B
          PROVE  /\ KeyAt(s) \in FlaggedKeys /\ f[s] = Counter(KeyAt(s)) /\ f[s] \in A
                 /\ s \in AllSlots /\ KeyAt(s) # NoKey
      <4>1. s \in AllSlots /\ TakesEx(s) /\ ExVal(s) = v /\ f[s] = Counter(KeyAt(s))
        BY <2>1, <3>1
      <4>2. /\ KeyAt(s) \in FlaggedKeys /\ Counter(KeyAt(s)) \in used
            /\ counters[0][Counter(KeyAt(s))] = v
        BY <4>1, TakenCounter
      <4>3. KeyAt(s) # NoKey
        BY <4>1 DEF TakesEx, ExVal
      <4>4. Counter(KeyAt(s)) \notin hidden
        BY <4>2
      <4> QED
        BY <2>1, <4>1, <4>2, <4>3, <4>4
    <3>3. ASSUME NEW s \in B, NEW r \in B, f[s] = f[r] PROVE s = r
      <4>1. KeyAt(s) = KeyAt(r)
        BY <3>2, <3>3
      <4>2. s \in AllSlots /\ r \in AllSlots /\ KeyAt(s) # NoKey
        BY <3>2
      <4> QED
        BY <4>1, <4>2, SlotOfKey
    <3>4. f \in [B -> A]
      BY <3>1, <3>2
    <3>5. f \in Injection(B, A)
      BY <3>3, <3>4 DEF Injection, IsInjective
    <3> QED
      BY <2>2, <3>5, FS_Injection
  <2>5. Dist(v, hidden) = Cardinality(A) - Cardinality(B) + Cardinality(C)
    BY <2>1 DEF Dist, TreeDist
  <2> QED
    BY <2>3, <2>4, <2>5
<1> QED
  BY <1>1, IInvHolds, SharesUsedHolds, PTL

---------------------------------------------------------------------------
(* The refinement of HeavyLight                                             *)

\* The flows that a bucket keeps.
KeysOf(b) == {j \in Keys : \E i \in Slots : b.key[i] = j}

LEMMA KeysRead ==
  ASSUME NEW b \in Bucket, NEW p, GoodBucket(b, p), NEW j \in Keys
  PROVE  /\ \A i \in Slots : b.key[i] = j => OScan(b, j) = b.val[i]
         /\ j \notin KeysOf(b) => OScan(b, j) = 0
<1>1. j # NoKey
  BY SlotFacts
<1>2. ASSUME NEW h \in Slots, b.key[h] = j PROVE OScan(b, j) = b.val[h]
  <2>1. \A i \in Slots : b.key[i] = j => i = h
    BY <1>1, <1>2 DEF GoodBucket
  <2> QED
    BY <1>2, <2>1, ScanOne
<1>3. ASSUME j \notin KeysOf(b) PROVE OScan(b, j) = 0
  <2>1. \A i \in Slots : b.key[i] # j
    BY <1>3 DEF KeysOf
  <2> QED
    BY <2>1, ScanNone
<1> QED
  BY <1>2, <1>3

\* A bucket without an empty slot keeps NumSlots flows, one with an empty slot fewer.
LEMMA FullCount ==
  ASSUME NEW b \in Bucket, NEW p, GoodBucket(b, p), \A i \in Slots : b.key[i] # NoKey
  PROVE  Cardinality(KeysOf(b)) = NumSlots
<1> DEFINE T == {b.key[i] : i \in Slots}
<1>1. \A i \in Slots : b.key[i] \in Keys
  BY DEF Bucket
<1>2. KeysOf(b) = T
  BY <1>1 DEF KeysOf
<1>3. b.key \in Bijection(Slots, T)
  <2>1. b.key \in [Slots -> T]
    BY DEF Bucket
  <2>2. \A i, j \in Slots : b.key[i] = b.key[j] => i = j
    BY DEF GoodBucket
  <2>3. \A t \in T : \E i \in Slots : b.key[i] = t
    OBVIOUS
  <2> QED
    BY <2>1, <2>2, <2>3 DEF Bijection, Injection, Surjection, IsInjective
<1>4. IsFiniteSet(Slots) /\ Cardinality(Slots) = NumSlots
  <2>1. IsFiniteSet(1..NumSlots) /\ Cardinality(1..NumSlots) = NumSlots
    BY SlotFacts, FS_Interval
  <2> QED
    BY <2>1 DEF Slots
<1>5. ExistsBijection(Slots, T)
  BY <1>3 DEF ExistsBijection
<1> HIDE DEF T
<1> QED
  BY <1>2, <1>4, <1>5, FS_Bijection

LEMMA PartCount ==
  ASSUME NEW b \in Bucket, NEW p, GoodBucket(b, p), NEW h \in Slots, b.key[h] = NoKey
  PROVE  Cardinality(KeysOf(b)) < NumSlots
<1> DEFINE T == {b.key[i] : i \in 1..(h - 1)}
           f == [i \in 1..(h - 1) |-> b.key[i]]
<1>0. h - 1 \in Nat /\ h - 1 < NumSlots /\ 1..(h - 1) \subseteq Slots
  BY SlotFacts
<1>1. KeysOf(b) \subseteq T
  <2> SUFFICES ASSUME NEW i \in Slots, b.key[i] \in Keys PROVE i \in 1..(h - 1)
    BY DEF KeysOf
  <2>1. b.key[i] # NoKey
    BY SlotFacts
  <2>2. ~(h < i) /\ i # h
    BY <2>1 DEF GoodBucket
  <2> QED
    BY <2>2, SlotFacts
<1>2. f \in Surjection(1..(h - 1), T)
  BY DEF Surjection
<1>3. ExistsSurjection(1..(h - 1), T)
  <2> HIDE DEF T, f
  <2> QED
    BY <1>2 DEF ExistsSurjection
<1>4. Cardinality(T) <= h - 1
  <2> HIDE DEF T
  <2> QED
    BY <1>0, <1>3, FS_SurjCardinalityBound
<1>5. IsFiniteSet(T)
  <2>1. IsFiniteSet(1..(h - 1))
    BY <1>0, FS_Interval
  <2> HIDE DEF T, f
  <2> QED
    BY <1>2, <2>1, FS_Surjection
<1>6. Cardinality(KeysOf(b)) <= Cardinality(T) /\ Cardinality(T) \in Nat /\ Cardinality(KeysOf(b)) \in Nat
  <2> HIDE DEF T
  <2>1. IsFiniteSet(KeysOf(b)) /\ Cardinality(KeysOf(b)) <= Cardinality(T)
    BY <1>1, <1>5, FS_Subset
  <2> QED
    BY <1>5, <2>1, FS_CardinalityType
<1> HIDE DEF T
<1> QED
  BY <1>0, <1>4, <1>6, SlotFacts

\* The instance counts as the library does.
LEMMA SameCardinality == \A S : Ideal!Cardinality(S) = Cardinality(S)
BY Zenon DEF Ideal!Cardinality, Cardinality

\* HeavyLight's view of a bucket.
LEMMA KeptIs ==
  ASSUME IInv, NEW p \in Positions
  PROVE  Ideal!KeptIn(p) = KeysOf(buckets[p])
<1>1. \A j \in Keys, i \in Slots : buckets[p].key[i] = j => BucketOf[j] = p
  BY SlotFacts DEF IInv, GoodBuckets, GoodBucket
<1> QED
  BY <1>1 DEF Ideal!KeptIn, kept, KeysOf, HasSlot

\* What a record changes of that view: only the bucket that gets it.
LEMMA ViewAfter ==
  ASSUME IInv, NEW k \in Keys, NEW c, NEW p, NEW b, NEW h, NEW res,
         Inserted(k, c, p, b, h, res)
  PROVE  /\ \A j \in Keys : BucketOf[j] # p =>
              /\ j \in kept' <=> j \in kept
              /\ j \in marked' <=> j \in marked
              /\ heavy'[j] = heavy[j]
         /\ \A j \in Keys : BucketOf[j] = p =>
              /\ j \in kept <=> j \in KeysOf(b)
              /\ j \in kept' <=> j \in KeysOf(res.bucket)
              /\ j \in marked <=> Flagged(OScan(b, j))
              /\ j \in marked' <=> Flagged(OScan(res.bucket, j))
              /\ heavy[j] = ValOf(OScan(b, j))
              /\ heavy'[j] = ValOf(OScan(res.bucket, j))
         /\ neg' = [neg EXCEPT ![p] = res.bucket.neg]
         /\ neg[p] = b.neg
<1>1. /\ p \in Positions /\ b = buckets[p] /\ buckets'[p] = res.bucket
      /\ \A q \in Positions \ {p} : buckets'[q] = buckets[q]
      /\ \A j \in Keys : BucketOf[j] \in Positions
  <2>1. TypeOK /\ p \in Positions /\ b = buckets[p]
    BY DEF IInv, Inserted
  <2>2. buckets'[p] = res.bucket /\ \A q \in Positions \ {p} : buckets'[q] = buckets[q]
    BY <2>1, InsertedChanges
  <2> QED
    BY <2>1, <2>2, FlowStatsAssumption
<1>2. ASSUME NEW j \in Keys, BucketOf[j] # p
      PROVE  /\ j \in kept' <=> j \in kept
             /\ j \in marked' <=> j \in marked
             /\ heavy'[j] = heavy[j]
  <2>1. buckets'[BucketOf[j]] = buckets[BucketOf[j]]
    BY <1>1, <1>2
  <2> QED
    BY <2>1 DEF kept, marked, heavy, HasSlot, RawValue
<1>3. ASSUME NEW j \in Keys, BucketOf[j] = p
      PROVE  /\ j \in kept <=> j \in KeysOf(b)
             /\ j \in kept' <=> j \in KeysOf(res.bucket)
             /\ j \in marked <=> Flagged(OScan(b, j))
             /\ j \in marked' <=> Flagged(OScan(res.bucket, j))
             /\ heavy[j] = ValOf(OScan(b, j))
             /\ heavy'[j] = ValOf(OScan(res.bucket, j))
  <2>1. buckets'[BucketOf[j]] = res.bucket /\ buckets[BucketOf[j]] = b
    BY <1>1, <1>3
  <2> QED
    BY <2>1 DEF kept, marked, heavy, HasSlot, RawValue, KeysOf
<1>4. neg' = [neg EXCEPT ![p] = res.bucket.neg] /\ neg[p] = b.neg
  BY <1>1 DEF neg
<1> QED
  BY <1>2, <1>3, <1>4

LEMMA TakesIdeal ==
  ASSUME IInv, NEW k \in Keys, NEW c \in Counts, NEW p, NEW b, NEW h, NEW res,
         Inserted(k, c, p, b, h, res), Takes(b, k, c, h, res)
  PROVE  Ideal!AddToSlot(k, c)
<1>1. /\ p = BucketOf[k] /\ p \in Positions /\ b = buckets[p] /\ b \in Bucket /\ GoodBucket(b, p)
      /\ b.key \in [Slots -> Keys \cup {NoKey}] /\ b.val \in [Slots -> Values]
      /\ c \in Nat /\ truth[k] + c < Flag
      /\ truth' = [truth EXCEPT ![k] = @ + c]
      /\ light' = [light EXCEPT ![res.swapKey] = @ + res.swapVal]
  BY DEF Inserted, Bucket
<1>2. PICK v \in Values : v = b.val[h] /\ Accounted(v, truth[k], light[k]) /\ h \in Slots
  BY TakingSlot
<1>3. /\ (v + c) % ValMod = v + c /\ v + c \in Values /\ ValOf(v + c) = ValOf(v) + c
      /\ Flagged(v) => Flagged(v + c)
      /\ Flagged(v + c) => Flagged(v)
  <2>1. ValOf(v) \in Nat /\ truth[k] \in Nat /\ ValOf(v) <= truth[k]
    BY <1>2, ValueOf DEF Accounted, IInv, TypeOK
  <2>2. ValOf(v) + c < Flag
    BY <1>1, <2>1, SlotFacts
  <2> QED
    BY <1>1, <2>2, AddToValue
<1>4. PICK w : w = v + c
  OBVIOUS
<1>5. /\ res.bucket = [key |-> [b.key EXCEPT ![h] = k], val |-> [b.val EXCEPT ![h] = w],
                       neg |-> b.neg]
      /\ res.swapKey = k /\ res.swapVal = c /\ b.key[h] \in {k, NoKey}
      /\ \A j \in Slots : j # h => b.key[j] # k
  BY <1>2, <1>3, <1>4 DEF Takes
<1>6. res.bucket \in Bucket /\ GoodBucket(res.bucket, p)
  BY InsertedChanges DEF IInv
<1>7. /\ \A i \in Slots : res.bucket.key[i] = IF i = h THEN k ELSE b.key[i]
      /\ \A i \in Slots : res.bucket.val[i] = IF i = h THEN w ELSE b.val[i]
  BY <1>1, <1>5
<1>8. KeysOf(res.bucket) = KeysOf(b) \cup {k}
  <2>1. \A j \in Keys : j \in KeysOf(res.bucket) => j \in KeysOf(b) \cup {k}
    BY <1>7 DEF KeysOf
  <2>2. \A j \in Keys : j \in KeysOf(b) \cup {k} => j \in KeysOf(res.bucket)
    BY <1>2, <1>5, <1>7, SlotFacts DEF KeysOf
  <2> QED
    BY <2>1, <2>2 DEF KeysOf
<1>9. OScan(res.bucket, k) = w /\ OScan(b, k) = v
  <2>1. OScan(res.bucket, k) = w
    BY <1>2, <1>6, <1>7, KeysRead
  <2>2. CASE b.key[h] = k
    BY <1>1, <1>2, <2>1, <2>2, KeysRead
  <2>3. CASE b.key[h] = NoKey
    <3>1. k \notin KeysOf(b)
      BY <1>5, <2>3, SlotFacts DEF KeysOf
    <3>2. v = 0
      BY <1>1, <1>2, <2>3 DEF GoodBucket
    <3> QED
      BY <1>1, <2>1, <3>1, <3>2, KeysRead
  <2> QED
    BY <1>5, <2>2, <2>3
<1>10. ASSUME NEW j \in Keys, j # k PROVE OScan(res.bucket, j) = OScan(b, j)
  <2>1. CASE j \in KeysOf(b)
    <3>1. PICK i \in Slots : b.key[i] = j
      BY <2>1 DEF KeysOf
    <3>2. i # h
      BY <1>5, <1>10, <3>1, SlotFacts
    <3>3. res.bucket.key[i] = j /\ res.bucket.val[i] = b.val[i]
      BY <1>7, <3>1, <3>2
    <3> QED
      BY <1>1, <1>6, <3>1, <3>3, KeysRead
  <2>2. CASE j \notin KeysOf(b)
    BY <1>1, <1>6, <1>8, <1>10, <2>2, KeysRead
  <2> QED
    BY <2>1, <2>2
<1>11. k \in kept \/ Cardinality(Ideal!KeptIn(p)) < NumSlots
  <2>1. CASE b.key[h] = k
    BY <1>1, <1>2, <2>1 DEF kept, HasSlot
  <2>2. CASE b.key[h] = NoKey
    BY <1>1, <1>2, <2>2, PartCount, KeptIs
  <2> QED
    BY <1>5, <2>1, <2>2
<1>12. kept' = kept \cup {k}
  <2>1. \A j \in Keys : j \in kept' <=> j \in kept \cup {k}
    BY <1>1, <1>8, ViewAfter
  <2> QED
    BY <2>1 DEF kept
<1>13. marked' = marked
  <2>1. \A j \in Keys : j \in marked' <=> j \in marked
    <3>1. \A j \in Keys : BucketOf[j] = p => (Flagged(OScan(res.bucket, j)) <=> Flagged(OScan(b, j)))
      BY <1>3, <1>4, <1>9, <1>10
    <3> QED
      BY <3>1, ViewAfter
  <2> QED
    BY <2>1 DEF marked
<1>14. heavy' = [heavy EXCEPT ![k] = heavy[k] + c]
  <2>1. heavy'[k] = heavy[k] + c
    BY <1>1, <1>3, <1>4, <1>9, ViewAfter
  <2>2. \A j \in Keys : j # k => heavy'[j] = heavy[j]
    BY <1>10, ViewAfter
  <2> QED
    BY <2>1, <2>2 DEF heavy
<1>15. neg' = neg
  <2>1. neg' = [neg EXCEPT ![p] = neg[p]]
    BY <1>5, ViewAfter
  <2> QED
    BY <1>1, <2>1 DEF neg
<1>16. light' = [light EXCEPT ![k] = light[k] + c] /\ truth' = [truth EXCEPT ![k] = truth[k] + c]
  BY <1>1, <1>5
<1>17. k \in kept \/ Cardinality(Ideal!KeptIn(BucketOf[k])) < NumSlots
  BY <1>1, <1>11
<1> QED
  BY <1>12, <1>13, <1>14, <1>15, <1>16, <1>17, SameCardinality, Zenon DEF Ideal!AddToSlot, Ideal!Count

\* In a full bucket the least value and the counts turned away stay where 8 times the one
\* and the other fit in a word.
LEMMA FullIdeal ==
  ASSUME IInv, 8 * MaxPackets < ValMod, NEW k \in Keys, NEW c, NEW p, NEW b, NEW h, NEW res,
         Inserted(k, c, p, b, h, res), Full(b, k), h \in Slots,
         \A j \in Slots : ValOf(b.val[h]) <= ValOf(b.val[j])
  PROVE  /\ k \notin kept /\ k \notin KeysOf(b) /\ Ideal!Full(BucketOf[k])
         /\ (b.neg + c) % ValMod = neg[p] + c
         /\ Exceeds((b.neg + c) % ValMod, ValOf(b.val[h])) => neg[p] + c > 8 * ValOf(b.val[h])
         /\ ~Exceeds((b.neg + c) % ValMod, ValOf(b.val[h])) => neg[p] + c <= 8 * ValOf(b.val[h])
         /\ \A u \in Ideal!KeptIn(BucketOf[k]) : heavy[u] \in Nat /\ ValOf(b.val[h]) <= heavy[u]
<1>1. /\ p = BucketOf[k] /\ p \in Positions /\ b = buckets[p] /\ b \in Bucket /\ GoodBucket(b, p)
      /\ b.key \in [Slots -> Keys \cup {NoKey}] /\ b.val \in [Slots -> Values] /\ b.neg \in Nat
      /\ c \in Nat /\ SumOf(truth, Keys) + c <= MaxPackets
      /\ \A j \in Slots : b.key[j] # k /\ b.key[j] # NoKey
  BY SlotFacts DEF Inserted, Bucket, Full
<1>2. neg[p] = b.neg /\ Ideal!KeptIn(p) = KeysOf(b)
  BY <1>1, ViewAfter, KeptIs
<1>3. PICK m \in Nat : m = ValOf(b.val[h])
  <2>1. b.val[h] \in Values
    BY <1>1
  <2> QED
    BY <2>1, ValueOf
<1>4. m <= MaxPackets /\ b.neg + c <= MaxPackets /\ MaxPackets \in Nat
  <2>1. PICK j \in Keys : j = b.key[h] /\ m <= truth[j]
    BY <1>1, <1>3 DEF IInv, SlotsAccounted, Accounted
  <2>2. truth[j] <= SumOf(truth, Keys) /\ truth[j] \in Nat /\ SumOf(truth, Keys) \in Nat
    <3>1. IsFiniteSet(Keys) /\ \A i \in Keys : truth[i] \in Nat
      BY CMSketchAssumption DEF IInv, TypeOK
    <3> QED
      BY <3>1, SumElement, SumNat
  <2>3. b.neg <= SumOf(truth, Keys)
    BY <1>1 DEF IInv, WithinBounds
  <2> QED
    BY <1>1, <2>1, <2>2, <2>3, FlowStatsAssumption
<1>5. (b.neg + c) % ValMod = b.neg + c
  <2>1. ValMod \in Nat \ {0} /\ MaxPackets < ValMod
    <3>1. ValMod \in Nat \ {0}
      BY SlotFacts
    <3>2. MaxPackets \in Nat /\ 8 * MaxPackets < ValMod
      BY FlowStatsAssumption
    <3> QED
      BY <3>1, <3>2
  <2>2. b.neg + c \in Nat
    BY <1>1
  <2>3. b.neg + c < ValMod
    BY <1>4, <2>1, <2>2
  <2> QED
    BY <2>1, <2>2, <2>3, Remainder
<1>6. (m * 8) % ValMod = m * 8
  <2>1. m * 8 \in Nat /\ m * 8 < ValMod /\ ValMod \in Nat \ {0}
    BY <1>4, SlotFacts
  <2> QED
    BY <2>1, Remainder
<1>7. /\ Exceeds(b.neg + c, m) => b.neg + c > 8 * m
      /\ ~Exceeds(b.neg + c, m) => b.neg + c <= 8 * m
  BY <1>1, <1>6 DEF Exceeds
<1>8. k \notin kept /\ k \notin KeysOf(b)
  BY <1>1 DEF kept, HasSlot, KeysOf
<1>9. Ideal!Full(p)
  BY <1>1, <1>2, FullCount, SameCardinality DEF Ideal!Full
<1>10. ASSUME NEW u \in KeysOf(b) PROVE heavy[u] \in Nat /\ m <= heavy[u]
  <2>1. PICK i \in Slots : b.key[i] = u /\ u \in Keys
    BY DEF KeysOf
  <2>2. BucketOf[u] = p /\ OScan(b, u) = b.val[i]
    BY <1>1, <2>1, KeysRead DEF GoodBucket
  <2>3. heavy[u] = ValOf(b.val[i])
    BY <2>1, <2>2, ViewAfter
  <2>4. b.val[i] \in Values
    BY <1>1, <2>1
  <2> QED
    BY <1>3, <2>1, <2>3, <2>4, ValueOf
<1> QED
  BY <1>1, <1>2, <1>3, <1>5, <1>7, <1>8, <1>9, <1>10

LEMMA TurnsAwayIdeal ==
  ASSUME IInv, 8 * MaxPackets < ValMod,
         NEW k \in Keys, NEW c \in Counts, NEW p, NEW b, NEW h, NEW res,
         Inserted(k, c, p, b, h, res), TurnsAway(b, k, c, h, res)
  PROVE  Ideal!TurnAway(k, c)
<1>1. /\ p = BucketOf[k] /\ p \in Positions /\ b \in Bucket
      /\ truth' = [truth EXCEPT ![k] = truth[k] + c]
      /\ light' = [light EXCEPT ![res.swapKey] = light[res.swapKey] + res.swapVal]
  BY DEF Inserted
<1>2. /\ Full(b, k) /\ h \in Slots /\ \A j \in Slots : ValOf(b.val[h]) <= ValOf(b.val[j])
      /\ ~Exceeds((b.neg + c) % ValMod, ValOf(b.val[h]))
      /\ res.bucket = [key |-> b.key, val |-> b.val, neg |-> (b.neg + c) % ValMod]
      /\ res.swapKey = k /\ res.swapVal = c
  BY DEF TurnsAway
<1>3. /\ k \notin kept /\ Ideal!Full(BucketOf[k])
      /\ (b.neg + c) % ValMod = neg[p] + c
      /\ neg[p] + c <= 8 * ValOf(b.val[h])
      /\ \A u \in Ideal!KeptIn(BucketOf[k]) : heavy[u] \in Nat /\ ValOf(b.val[h]) <= heavy[u]
  BY <1>2, FullIdeal
<1>4. \A u \in Ideal!KeptIn(BucketOf[k]) : neg[BucketOf[k]] + c <= 8 * heavy[u]
  <2> TAKE u \in Ideal!KeptIn(BucketOf[k])
  <2>1. heavy[u] \in Nat /\ ValOf(b.val[h]) <= heavy[u]
    BY <1>3
  <2>2. PICK m \in Nat : m = ValOf(b.val[h])
    <3>1. b.val[h] \in Values
      BY <1>1, <1>2 DEF Bucket
    <3> QED
      BY <3>1, ValueOf
  <2>3. neg[p] + c \in Nat
    <3>1. neg[p] = b.neg
      BY ViewAfter
    <3> QED
      BY <1>1, <3>1, SlotFacts DEF Bucket, Inserted
  <2> QED
    BY <1>1, <1>3, <2>1, <2>2, <2>3
<1>5. KeysOf(res.bucket) = KeysOf(b) /\ \A j \in Keys : OScan(res.bucket, j) = OScan(b, j)
  <2>1. res.bucket.key = b.key /\ res.bucket.val = b.val
    BY <1>2
  <2>2. KeysOf(res.bucket) = KeysOf(b)
    BY <2>1, Zenon DEF KeysOf
  <2>3. b \in Bucket /\ GoodBucket(b, p) /\ res.bucket \in Bucket /\ GoodBucket(res.bucket, p)
    BY <1>1, InsertedChanges DEF IInv, Inserted
  <2>4. ASSUME NEW j \in KeysOf(b) PROVE OScan(res.bucket, j) = OScan(b, j)
    <3>1. PICK i \in Slots : b.key[i] = j /\ j \in Keys
      BY DEF KeysOf
    <3>2. OScan(b, j) = b.val[i]
      BY <2>3, <3>1, KeysRead
    <3>3. OScan(res.bucket, j) = res.bucket.val[i]
      BY <2>1, <2>3, <3>1, KeysRead
    <3> QED
      BY <2>1, <3>2, <3>3
  <2>5. ASSUME NEW j \in Keys \ KeysOf(b) PROVE OScan(res.bucket, j) = OScan(b, j)
    <3>1. OScan(b, j) = 0
      BY <2>3, KeysRead
    <3>2. OScan(res.bucket, j) = 0
      BY <2>2, <2>3, KeysRead
    <3> QED
      BY <3>1, <3>2
  <2> QED
    BY <2>2, <2>4, <2>5
<1>6. kept' = kept
  <2>1. \A j \in Keys : j \in kept' <=> j \in kept
    BY <1>5, ViewAfter
  <2> QED
    BY <2>1 DEF kept
<1>7. marked' = marked
  <2>1. \A j \in Keys : j \in marked' <=> j \in marked
    BY <1>5, ViewAfter
  <2> QED
    BY <2>1 DEF marked
<1>8. heavy' = heavy
  <2>1. \A j \in Keys : heavy'[j] = heavy[j]
    BY <1>5, ViewAfter
  <2> QED
    BY <2>1 DEF heavy
<1>9. neg' = [neg EXCEPT ![BucketOf[k]] = neg[BucketOf[k]] + c]
  <2>1. res.bucket.neg = neg[p] + c
    BY <1>2, <1>3
  <2> QED
    BY <1>1, <2>1, ViewAfter
<1>10. light' = [light EXCEPT ![k] = light[k] + c]
  BY <1>1, <1>2
<1> QED
  BY <1>1, <1>3, <1>4, <1>6, <1>7, <1>8, <1>9, <1>10, Zenon DEF Ideal!TurnAway, Ideal!Count

LEMMA EvictsIdeal ==
  ASSUME IInv, 8 * MaxPackets < ValMod,
         NEW k \in Keys, NEW c \in Counts, NEW p, NEW b, NEW h, NEW res,
         Inserted(k, c, p, b, h, res), Evicts(b, k, c, h, res)
  PROVE  \E v \in Keys : Ideal!Evict(k, c, v)
<1>1. /\ p = BucketOf[k] /\ p \in Positions /\ b = buckets[p] /\ b \in Bucket /\ GoodBucket(b, p)
      /\ b.key \in [Slots -> Keys \cup {NoKey}] /\ b.val \in [Slots -> Values]
      /\ truth' = [truth EXCEPT ![k] = truth[k] + c]
      /\ light' = [light EXCEPT ![res.swapKey] = light[res.swapKey] + res.swapVal]
  BY DEF Inserted, Bucket
<1>2. /\ Full(b, k) /\ h \in Slots /\ \A j \in Slots : ValOf(b.val[h]) <= ValOf(b.val[j])
      /\ Exceeds((b.neg + c) % ValMod, ValOf(b.val[h]))
      /\ res.bucket = [key |-> [b.key EXCEPT ![h] = k],
                       val |-> [b.val EXCEPT ![h] = WithFlag(c)], neg |-> 0]
      /\ res.swapKey = b.key[h] /\ res.swapVal = ValOf(b.val[h])
  BY DEF Evicts
<1>3. PICK w : w = WithFlag(c) /\ w \in Values /\ ValOf(w) = c /\ Flagged(w)
  <2>1. c \in Nat /\ c < Flag
    <3>1. c \in Nat /\ truth[k] \in Nat /\ truth[k] + c < Flag
      BY DEF IInv, TypeOK, Inserted
    <3> QED
      BY <3>1, SlotFacts
  <2> QED
    BY <2>1, FlaggedCount
<1>4. PICK v \in Keys : v = b.key[h]
  BY <1>1, <1>2 DEF Full
<1>5. /\ k \notin kept /\ k \notin KeysOf(b) /\ Ideal!Full(BucketOf[k])
      /\ neg[p] + c > 8 * ValOf(b.val[h])
      /\ \A u \in Ideal!KeptIn(BucketOf[k]) : heavy[u] \in Nat /\ ValOf(b.val[h]) <= heavy[u]
  BY <1>2, FullIdeal
<1>6. /\ v \in KeysOf(b) /\ v # k /\ BucketOf[v] = p /\ v \in Ideal!KeptIn(BucketOf[k])
      /\ OScan(b, v) = b.val[h] /\ heavy[v] = ValOf(b.val[h])
  <2>1. v \in KeysOf(b) /\ v # k
    BY <1>2, <1>4, <1>5 DEF KeysOf
  <2>2. BucketOf[v] = p
    <3>1. v # NoKey
      BY <1>4, FlowStatsAssumption
    <3> QED
      BY <1>1, <1>2, <1>4, <3>1 DEF GoodBucket
  <2>3. OScan(b, v) = b.val[h]
    BY <1>1, <1>2, <1>4, KeysRead
  <2> QED
    BY <1>1, <2>1, <2>2, <2>3, ViewAfter, KeptIs
<1>7. res.bucket \in Bucket /\ GoodBucket(res.bucket, p)
  BY InsertedChanges DEF IInv
<1>8. /\ \A i \in Slots : res.bucket.key[i] = IF i = h THEN k ELSE b.key[i]
      /\ \A i \in Slots : res.bucket.val[i] = IF i = h THEN w ELSE b.val[i]
      /\ res.bucket.neg = 0
  BY <1>1, <1>2, <1>3
<1>9. \A i \in Slots : b.key[i] = v => i = h
  BY <1>1, <1>2, <1>4, SlotFacts DEF GoodBucket
<1>10. KeysOf(res.bucket) = (KeysOf(b) \ {v}) \cup {k}
  <2>1. \A j \in Keys : j \in KeysOf(res.bucket) => j \in (KeysOf(b) \ {v}) \cup {k}
    BY <1>4, <1>8, <1>9 DEF KeysOf
  <2>2. \A j \in Keys : j \in (KeysOf(b) \ {v}) \cup {k} => j \in KeysOf(res.bucket)
    BY <1>2, <1>4, <1>8 DEF KeysOf
  <2> QED
    BY <2>1, <2>2 DEF KeysOf
<1>11. OScan(res.bucket, k) = w /\ OScan(res.bucket, v) = 0 /\ OScan(b, k) = 0
  <2>1. OScan(res.bucket, k) = w
    BY <1>2, <1>7, <1>8, KeysRead
  <2>2. OScan(res.bucket, v) = 0
    BY <1>6, <1>7, <1>10, KeysRead
  <2>3. OScan(b, k) = 0
    BY <1>1, <1>5, KeysRead
  <2> QED
    BY <2>1, <2>2, <2>3
<1>12. ASSUME NEW j \in Keys, j # k, j # v PROVE OScan(res.bucket, j) = OScan(b, j)
  <2>1. CASE j \in KeysOf(b)
    <3>1. PICK i \in Slots : b.key[i] = j
      BY <2>1 DEF KeysOf
    <3>2. i # h
      BY <1>4, <1>12, <3>1
    <3>3. res.bucket.key[i] = j /\ res.bucket.val[i] = b.val[i]
      BY <1>8, <3>1, <3>2
    <3> QED
      BY <1>1, <1>7, <3>1, <3>3, KeysRead
  <2>2. CASE j \notin KeysOf(b)
    BY <1>1, <1>7, <1>10, <1>12, <2>2, KeysRead
  <2> QED
    BY <2>1, <2>2
<1>13. kept' = (kept \ {v}) \cup {k}
  <2>1. \A j \in Keys : j \in kept' <=> j \in (kept \ {v}) \cup {k}
    BY <1>1, <1>6, <1>10, ViewAfter
  <2> QED
    BY <2>1 DEF kept
<1>14. marked' = (marked \ {v}) \cup {k}
  <2>1. \A j \in Keys : j # k /\ j # v => (j \in marked' <=> j \in marked)
    BY <1>12, ViewAfter
  <2>2. k \in marked' /\ v \notin marked'
    BY <1>1, <1>3, <1>6, <1>11, ViewAfter, ZeroValue
  <2> QED
    BY <1>6, <2>1, <2>2 DEF marked
<1>15. heavy' = [heavy EXCEPT ![v] = 0, ![k] = c]
  <2>1. heavy'[k] = c /\ heavy'[v] = 0
    BY <1>1, <1>3, <1>6, <1>11, ViewAfter, ZeroValue
  <2>2. \A j \in Keys : j # k /\ j # v => heavy'[j] = heavy[j]
    BY <1>12, ViewAfter
  <2> QED
    BY <1>6, <2>1, <2>2 DEF heavy
<1>16. neg' = [neg EXCEPT ![BucketOf[k]] = 0]
  BY <1>1, <1>8, ViewAfter
<1>17. light' = [light EXCEPT ![v] = light[v] + heavy[v]]
  BY <1>1, <1>2, <1>4, <1>6
<1>18. \A u \in Ideal!KeptIn(BucketOf[k]) : heavy[v] <= heavy[u]
  BY <1>5, <1>6
<1>19. neg[BucketOf[k]] + c > 8 * heavy[v]
  BY <1>1, <1>5, <1>6
<1>20. Ideal!Evict(k, c, v)
  BY <1>1, <1>5, <1>6, <1>13, <1>14, <1>15, <1>16, <1>17, <1>18, <1>19, Zenon
     DEF Ideal!Evict, Ideal!Count
<1> QED
  BY <1>20

\* Every step of the masked code is a step of HeavyLight, as long as 8 times the packets of
\* a trace fit in a word (2^32): the threshold is computed there.
THEOREM ImplementsHeavyLightHolds ==
  ASSUME 8 * MaxPackets < ValMod
  PROVE  Spec => ImplementsHeavyLight
<1>0. MaxPackets < Flag
  BY FlowStatsAssumption DEF ValMod
<1>1. ASSUME Init PROVE Ideal!Init
  <2>1. kept = {} /\ marked = {} /\ heavy = [k \in Keys |-> 0] /\ neg = [p \in Positions |-> 0]
    <3>1. IInv /\ \A k \in Keys : ~HasSlot(k)
      BY <1>1, EmptyInv, SlotFacts, FlowStatsAssumption DEF Init, HasSlot, EmptyBucket
    <3>2. \A k \in Keys : RawValue(k) = 0
      BY <3>1, RawValueIs
    <3>3. \A p \in Positions : buckets[p].neg = 0
      BY <1>1 DEF Init, EmptyBucket
    <3> QED
      BY <3>1, <3>2, <3>3, ZeroValue DEF kept, marked, heavy, neg
  <2> QED
    BY <1>1, <2>1 DEF Init, Ideal!Init
<1>2. ASSUME IInv, IInv', [Next]_vars PROVE [Ideal!Next]_Ideal!vars
  <2>1. CASE NewTrace
    <3>1. EmptyBucket \in Bucket /\ \A q : GoodBucket(EmptyBucket, q)
      BY SlotFacts, ZeroValue DEF EmptyBucket, Bucket, GoodBucket
    <3>2. \A j \in Keys : j \notin KeysOf(EmptyBucket)
      BY SlotFacts DEF EmptyBucket, KeysOf
    <3>3. \A j \in Keys : OScan(EmptyBucket, j) = 0
      BY <3>1, <3>2, KeysRead
    <3>4. \A p \in Positions : buckets'[p] = EmptyBucket /\ EmptyBucket.neg = 0
      BY <2>1 DEF NewTrace, EmptyBucket
    <3>5. /\ kept' = {} /\ marked' = {} /\ heavy' = [k \in Keys |-> 0]
          /\ neg' = [p \in Positions |-> 0]
      BY <3>2, <3>3, <3>4, ZeroValue, FlowStatsAssumption
         DEF kept, marked, heavy, neg, HasSlot, RawValue, KeysOf
    <3>6. Ideal!NewTrace
      BY <2>1, <3>5 DEF NewTrace, Ideal!NewTrace
    <3> QED
      BY <3>6 DEF Ideal!Next
  <2>2. ASSUME NEW k \in Keys, NEW c \in Counts, AddRecord(k, c) PROVE Ideal!Next
    <3>1. PICK p, b, h, res : Inserted(k, c, p, b, h, res)
      BY <1>0, <1>2, <2>2, RecordInserted
    <3>2. Takes(b, k, c, h, res) \/ TurnsAway(b, k, c, h, res) \/ Evicts(b, k, c, h, res)
      BY <3>1 DEF Inserted
    <3>3. Ideal!AddToSlot(k, c) \/ Ideal!TurnAway(k, c) \/ \E v \in Keys : Ideal!Evict(k, c, v)
      BY <1>2, <3>1, <3>2, TakesIdeal, TurnsAwayIdeal, EvictsIdeal
    <3> QED
      BY <3>3 DEF Ideal!Next, Ideal!Add
  <2>3. CASE UNCHANGED vars
    BY <2>3 DEF vars, Ideal!vars, kept, marked, heavy, neg, HasSlot, RawValue
  <2> QED
    BY <1>2, <2>1, <2>2, <2>3 DEF Next
<1> QED
  BY <1>0, <1>1, <1>2, IInvHolds, PTL DEF Spec, Ideal!Spec, ImplementsHeavyLight
=============================================================================
