---------------------------- MODULE FlowQueries ----------------------------
(***************************************************************************)
(* The queries that the oblivious enclave answers from bucket array and    *)
(* sketch: HEAVY_HITTER, DIST (ENTROPY is a formula over its answer) and   *)
(* CARDINALITY.  A query leaves the statistics as they are, so each is an  *)
(* operator on the state of FlowStats.                                     *)
(*                                                                         *)
(* DIST and CARDINALITY read the tree of the PathORAM and not its stash:   *)
(* `hidden' are the counters that are in the stash at that moment.         *)
(***************************************************************************)
EXTENDS FlowStats

CONSTANT HitterSize   \* HEAVY_HITTER_SIZE, the number of flows asked for

\* The oblivious sketch has one row, SKETCH_HASH = 1.
ASSUME FlowQueriesAssumption ==
  /\ NumRows = 1
  /\ RowSize \in Nat
  /\ IsFiniteSet(Positions)

AllSlots == Positions \X Slots
KeyAt(s) == buckets[s[1]].key[s[2]]
ValAt(s) == buckets[s[1]].val[s[2]]

Counter(k) == Hash[0][k]

---------------------------------------------------------------------------
\* Mutant: the values are compared with their flags.
CountMapRaw ==
  [k \in {KeyAt(s) : s \in AllSlots} |-> ValAt(CHOOSE s \in AllSlots : KeyAt(s) = k)]

\* get_count_map: the count of each key of the array; the empty slots make one entry,
\* under key 0.
CountMap ==
  [k \in {KeyAt(s) : s \in AllSlots} |-> ValOf(ValAt(CHOOSE s \in AllSlots : KeyAt(s) = k))]

\* query_heavy_hitter: the entries with the largest counts.  Of equal ones the order
\* of the hash table decides.  (With fewer entries than asked for, key 0 fills up.)
HeavyHitters ==
  LET map == CountMap
  IN  {top \in SUBSET DOMAIN map :
         /\ Cardinality(top) = Min({HitterSize, Cardinality(DOMAIN map)})
         /\ \A k \in top, j \in DOMAIN map \ top : map[k] >= map[j]}

---------------------------------------------------------------------------
\* The value that get_distribution adds to a flagged slot: the answer of the sketch.
\* An empty slot asks for key 0, and has no flag.
ExVal(s) == IF KeyAt(s) = NoKey THEN 0 ELSE SketchQuery(counters, KeyAt(s))

\* Mutant: the flag is not tested.
TakesExAlways(s) == ExVal(s) # 0

TakesEx(s) == ExVal(s) # 0 /\ Flagged(ValAt(s))

\* get_dist: the counters of the tree with value v
TreeDist(v, hidden) == Cardinality({i \in used \ hidden : counters[0][i] = v})

\* query_dist and get_distribution: each flagged slot takes one from the value of its
\* counter, each slot adds one to its own.  This is the sum before it is taken modulo
\* 2^32.
Dist(v, hidden) ==
  TreeDist(v, hidden)
  - Cardinality({s \in AllSlots : TakesEx(s) /\ ExVal(s) = v})
  + Cardinality({s \in AllSlots : ValOf(ValAt(s)) + (IF TakesEx(s) THEN ExVal(s) ELSE 0) = v})

---------------------------------------------------------------------------
\* ObliviousBucket::get_cardinality: the slots it counts.
CountedSlots == {s \in AllSlots : KeyAt(s) # NoKey /\ ~Flagged(ValAt(s))}

\* Mutant: the loop over the histogram starts at value 1.
CountedCountersNonZero(hidden) == {i \in used \ hidden : counters[0][i] # 0}

\* CMSketch::get_cardinality: the counters in the tree, of which linear counting makes
\* its estimate.
CountedCounters(hidden) == used \ hidden

CountedInBucket(k) == \E s \in CountedSlots : KeyAt(s) = k
CountedInSketch(k, hidden) == Counter(k) \in CountedCounters(hidden)

---------------------------------------------------------------------------
Kept == {k \in Keys : \E s \in AllSlots : KeyAt(s) = k}
FlaggedKeys == {KeyAt(s) : s \in {r \in AllSlots : Flagged(ValAt(r))}}

\* The flows of j's bucket that have a slot.
Rivals(j) == {m \in Kept : BucketOf[m] = BucketOf[j]}

\* HEAVY_HITTER lists k and leaves out j.  If j has a slot, it has no more packets than k,
\* or was let in by an eviction and the sketch took the difference.  If j has none, it has
\* at most eight times the packets of k, unless every slot of its bucket, another one than
\* k's, is listed too.  Of a flow whose bucket has evicted one nothing is claimed: the
\* evicted flow may have any number of packets, the one let in a single one.
HeavyHitterRanksTruly ==
  \A top \in HeavyHitters : \A k \in top \ {NoKey} :
    /\ \A j \in Kept \ top :
         truth[j] <= truth[k] + (IF j \in FlaggedKeys THEN light[j] ELSE 0)
    /\ \A j \in Keys \ Kept :
         \/ HasEvicted(BucketOf[j])
         \/ k \notin Rivals(j) /\ Rivals(j) \subseteq top
         \/ truth[j] <= 8 * truth[k]

\* DIST subtracts from an entry that is 0, which wraps to 2^32 - 1, only if two flagged
\* flows share a counter, or the counter of a flagged flow is in the stash, whichever
\* counters are there.
DistWrapNeedsSharedCounter ==
  \A hidden \in SUBSET used : \A v \in 0..(CountMod - 1) :
    Dist(v, hidden) < 0 =>
      \E k \in FlaggedKeys :
        Counter(k) \in hidden \/ \E j \in FlaggedKeys \ {k} : Counter(j) = Counter(k)

\* A flow of the trace that CARDINALITY counts in neither part has its counter in the
\* stash, or was let in by an eviction with its first record and never turned away: all
\* its packets are in its slot.
UncountedFlowsAreExact ==
  \A hidden \in SUBSET used : \A k \in Keys :
    truth[k] > 0 /\ ~CountedInBucket(k) /\ ~CountedInSketch(k, hidden) =>
      \/ Counter(k) \in hidden
      \/ k \in FlaggedKeys /\ CountMap[k] = truth[k]

\* "exclude the bucket that counted in the light part" (ObliviousBucket.h:120): of the
\* flows with a slot, CARDINALITY counts each in one of the two parts, at the least when
\* no counter is in the stash.
CountedOnce == \A k \in Kept : CountedInBucket(k) # CountedInSketch(k, {})

---------------------------------------------------------------------------
\* What the sketch took of a flow left a block for its counter: the part of the inductive
\* invariant that the queries over the tree need.
SharesUsed == \A k \in Keys : light[k] > 0 => \A r \in Rows : Hash[r][k] \in used
=============================================================================
