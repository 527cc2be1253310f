----------------------------- MODULE FlowStats -----------------------------
(***************************************************************************)
(* The statistics of the oblivious enclave: the bucket array and the       *)
(* sketch as add_trace fills them and as the FLOW_SIZE query reads them.   *)
(* One action inserts one record (flow key, packet count) of a trace file; *)
(* a prefix of a file is a file, so every state here is one a query sees.  *)
(*                                                                         *)
(* The sketch's counters are an array (PathORAM is shown to be one).       *)
(***************************************************************************)
EXTENDS ObliviousBucket, CMSketch

CONSTANTS Positions,   \* bucket numbers
          BucketOf,    \* BucketOf[k]: SpookyHash of k modulo bucket_num
          Counts,      \* the packet counts of records
          MaxPackets   \* bound on the packets of a trace

\* Flow keys are source addresses: 0.0.0.0, the mark of an empty slot, is none of them.
ASSUME FlowStatsAssumption ==
  /\ Keys \subseteq Nat \ {NoKey}
  /\ BucketOf \in [Keys -> Positions]
  /\ NumSlots \in Nat \ {0}
  /\ Flag \in Nat \ {0}
  /\ Counts \subseteq Nat
  /\ MaxPackets \in Nat

VARIABLES buckets,   \* cur_bucket
          counters,  \* the counters of the sketch
          used,      \* the counters that have a block in the PathORAM: ever written
          light,     \* history: counts inserted into the sketch under each key
          truth      \* history: packets of each key in the trace

vars == <<buckets, counters, used, light, truth>>

Init ==
  /\ buckets = [p \in Positions |-> EmptyBucket]
  /\ counters = ZeroCounters
  /\ used = {}
  /\ light = [k \in Keys |-> 0]
  /\ truth = [k \in Keys |-> 0]

\* One round of the loop of add_trace: insert into the bucket, then insert what
\* it left into the sketch.
AddRecord(k, c) ==
  LET res == OInsert(buckets[BucketOf[k]], k, c)
  IN  /\ SumOf(truth, Keys) + c <= MaxPackets
      /\ buckets' = [buckets EXCEPT ![BucketOf[k]] = res.bucket]
      /\ counters' = SketchInsert(counters, res.swapKey, res.swapVal)
      /\ used' = used \cup {Hash[r][res.swapKey] : r \in Rows}
      /\ light' = [light EXCEPT ![res.swapKey] = @ + res.swapVal]
      /\ truth' = [truth EXCEPT ![k] = @ + c]

\* Mutant: the sketch is not reset.
NewTraceNoReset ==
  /\ buckets' = [p \in Positions |-> EmptyBucket]
  /\ light' = [k \in Keys |-> 0]
  /\ truth' = [k \in Keys |-> 0]
  /\ UNCHANGED <<counters, used>>

\* STAT: cur_bucket is a new array, add_trace resets the sketch.
NewTrace ==
  /\ buckets' = [p \in Positions |-> EmptyBucket]
  /\ counters' = ZeroCounters
  /\ used' = {}
  /\ light' = [k \in Keys |-> 0]
  /\ truth' = [k \in Keys |-> 0]

Next == NewTrace \/ \E k \in Keys, c \in Counts : AddRecord(k, c)

Spec == Init /\ [][Next]_vars

\* The slot's raw value, 0 if the flow has none.
RawValue(k) == OScan(buckets[BucketOf[k]], k)

\* FLOW_SIZE: the slot's value, and the sketch's when there is no slot or it has
\* the flag.
FlowSize(k) ==
  LET v == RawValue(k)
  IN  ValOf(v) + (IF v = 0 \/ Flagged(v) THEN SketchQuery(counters, k) ELSE 0)

---------------------------------------------------------------------------
\* The keys that share a counter with k in row r, in some row.
Sharing(k, r) == {j \in Keys : Hash[r][j] = Hash[r][k]}
Colliding(k)  == UNION {Sharing(k, r) : r \in Rows}

\* The packets that a counter loses of a load: its range, each time it wraps around.
WrappedAway(load) == CountMod * (load \div CountMod)

\* The answer to FLOW_SIZE is below the packets of a flow by no more than what a counter
\* of the flow lost in wrapping around, and never below them if none has: evictions,
\* turned-away counts and collisions lose no packet.
NoUnderestimate ==
  \A k \in Keys : \E r \in Rows :
    FlowSize(k) + WrappedAway(SumOf(light, Sharing(k, r))) >= truth[k]

\* It is never above twice the packets of the flows that share a counter with
\* it: a packet is counted at most twice.
AtMostTwice == \A k \in Keys : FlowSize(k) <= 2 * SumOf(truth, Colliding(k))

\* A flow whose slot has no flag is answered exactly, whatever its counter in the
\* sketch has been through, overflow included.
UnflaggedExact ==
  \A k \in Keys :
    RawValue(k) # 0 /\ ~Flagged(RawValue(k)) => FlowSize(k) = truth[k]

\* A flow occupies one slot: the masked loop of oinsert never claims an empty
\* slot for a key that another slot has ("... and the flow id has not been
\* inserted", ObliviousBucket.h:39).
OneSlotPerFlow ==
  \A p \in Positions : \A i, j \in Slots :
    /\ buckets[p].key[i] # NoKey
    /\ buckets[p].key[i] = buckets[p].key[j]
    => i = j

HasSlot(k) == \E i \in Slots : buckets[BucketOf[k]].key[i] = k

\* The bucket has evicted a flow since STAT: the slot it gave away has the flag, which
\* only an eviction from that slot replaces, by another one.
HasEvicted(p) == \E i \in Slots : Flagged(buckets[p].val[i])

\* The state of HeavyLight: the flows with a slot, the slots' values and flags, the counts
\* turned away.
kept   == {k \in Keys : HasSlot(k)}
heavy  == [k \in Keys |-> ValOf(RawValue(k))]
marked == {k \in Keys : Flagged(RawValue(k))}
neg    == [p \in Positions |-> buckets[p].neg]

Ideal == INSTANCE HeavyLight

\* The masked loops of oinsert and the insertion of what they leave follow the
\* branching rule of HeavyLight: same flow kept, turned away or evicted, same
\* shares, in every bucket, whatever order the slots are scanned in.
ImplementsHeavyLight == Ideal!Spec

---------------------------------------------------------------------------
\* The parts of the inductive invariant.

Values == 0..(ValMod - 1)

TypeOK ==
  /\ buckets \in [Positions -> [key : [Slots -> Keys \cup {NoKey}], val : [Slots -> Values],
                                neg : Values]]
  /\ counters \in [Rows -> [Cells -> 0..(CountMod - 1)]]
  /\ used \subseteq Cells
  /\ light \in [Keys -> Nat]
  /\ truth \in [Keys -> Nat]

\* A bucket: one slot for a flow of this bucket, the empty slots at the end, and zero.
GoodBucket(b, p) ==
  /\ \A i, j \in Slots : b.key[i] # NoKey /\ b.key[i] = b.key[j] => i = j
  /\ \A i \in Slots : b.key[i] # NoKey => BucketOf[b.key[i]] = p
  /\ \A i \in Slots : b.key[i] = NoKey => b.val[i] = 0
  /\ \A i, j \in Slots : i < j /\ b.key[i] = NoKey => b.key[j] = NoKey

GoodBuckets == \A p \in Positions : GoodBucket(buckets[p], p)

\* The slot's value v and the sketch share l of a flow are together at least its packets
\* t and at most twice them; without the flag the slot has them all.
Accounted(v, t, l) ==
  /\ ValOf(v) <= t
  /\ ~Flagged(v) => v = t
  /\ t <= ValOf(v) + l
  /\ ValOf(v) + l <= 2 * t

SlotsAccounted ==
  \A p \in Positions, i \in Slots :
    LET k == buckets[p].key[i]
    IN  k # NoKey => Accounted(buckets[p].val[i], truth[k], light[k])

\* A flow without a slot is in the sketch; a bucket with an empty slot has one for every
\* flow it saw.
OthersAccounted ==
  \A k \in Keys :
    ~HasSlot(k) =>
      /\ truth[k] <= light[k]
      /\ light[k] <= 2 * truth[k]
      /\ (\E i \in Slots : buckets[BucketOf[k]].key[i] = NoKey) => truth[k] = 0

\* A counter is the sum, modulo its range, of the shares of the flows it stands for.
CountersSum ==
  \A r \in Rows, i \in Cells :
    counters[r][i] = SumOf(light, {k \in Keys : Hash[r][k] = i}) % CountMod

\* The bound on a trace; what a bucket has turned away since its last eviction is part of
\* the trace.
WithinBounds ==
  /\ SumOf(truth, Keys) <= MaxPackets
  /\ \A p \in Positions : buckets[p].neg <= SumOf(truth, Keys)

\* What a bucket has turned away since its last eviction is at most eight times the count
\* of any of its slots; as long as it has evicted nothing, it is all there is of the flows
\* without a slot.
TurnedAway ==
  \A p \in Positions :
    /\ \A i \in Slots : buckets[p].neg <= 8 * ValOf(buckets[p].val[i])
    /\ \/ HasEvicted(p)
       \/ buckets[p].neg = SumOf(truth, {k \in Keys : BucketOf[k] = p /\ ~HasSlot(k)})

IInv ==
  /\ TypeOK
  /\ GoodBuckets
  /\ SlotsAccounted
  /\ OthersAccounted
  /\ TurnedAway
  /\ CountersSum
  /\ WithinBounds
=============================================================================
