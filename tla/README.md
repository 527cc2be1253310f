# OblivSketch in TLA+

A model of OblivSketch, a network measurement service in an SGX enclave, written from
the C and C++ source under `src/`, model-checked with TLC and, but for liveness, proved with TLAPS.

## The system

An application thread packs trace files and queries into messages. An enclave thread
takes them from a mailbox, updates or reads its statistics, and puts replies into a
second mailbox. Messages travel in containers that come from a global pool. There are
two variants: the *oblivious* one, whose memory accesses do not depend on the flows, and
the *strawman*, a plain sketch with a hash table. Both use the same message layer.

### Inventory

| Component (source) | State | Operations | Correct when |
|---|---|---|---|
| Spin lock (`Common/Spinlock.h`) | one lock byte | `spin_lock` (xchg until 0), `spin_unlock`; `spin_trylock` has no caller | at most one thread inside; the lock is given back |
| Queue (`Common/Queue.c`) | `top`, `bottom`, `lock`; `next`/`prev` in each container | `push_back`, `push_front`, `pop_front`, `pop_back`, `is_empty_queue`; `push_front` and `pop_back` have no caller | behaves as an atomic deque; unlocked reads are still true when used |
| Messages (`Common/Message.c`, `CommonUtil.c`) | type, `payload_size`, payload, MAC per container; a counter IV on each side | pack, pack a file, unpack, free | a payload opens with the IV and MAC beside it; a container in the pool is blank |
| PathORAM (`ORAM/PathORAM.h`) | `store` (tree of buckets), `position` | read, write (`access`), `clear`, `get_dist` | behaves as an array; each block in one place, on its path; the histogram misses the stash only |
| Stash (`ORAM/Stash.h`) | linked list, `current_size` | insert, erase, search, clear | links agree in both directions; behaves as a map; list and count agree |
| Oblivious bucket (`Sketch/ObliviousBucket.h`) | slots (key, flag and count), one count of packets turned away | `oinsert`, `oscan`, clear, traversals | one slot per flow; an unflagged count is exact |
| Count-min sketch (`Sketch/CMSketch.h`, oblivious) | a row of 8-bit counters in a PathORAM | insert, query, reset | no underestimate but for what a counter loses in wrapping around |
| Trace insertion, FLOW_SIZE (`EnclaveFunction.cpp`, `Enclave.cpp`) | current buckets and sketch | `add_trace`, the answer to FLOW_SIZE | counts are neither lost between bucket and sketch nor counted a third time |
| Enclave loop (`Enclave.cpp`) | the three queues, current and previous statistics | one handler per message type | requests in order, one reply per query, ends at STOP |
| Application (`App.cpp`) | the three queues, its place in the script | send traces, queries, STOP; join; print replies | the pool suffices, all replies printed once, it ends |
| Other queries (heavy hitter, heavy change, distribution, cardinality, entropy) | read only (the strawman's HEAVY_CHANGE writes to the old table) | one function each | ranks truly, counts each flow once, no entry wraps, a query changes no later answer |
| Strawman sketch and table | three rows of 32-bit counters, `statistics` | insert, query, reset, `add_trace` | a new trace starts from zero |

How they interact: the application and the enclave share three queues (`global_pool`,
`mbox[0]` for requests, `mbox[1]` for replies) and the containers in them, and nothing
else; the ocalls `ocall_alloc_message` and `ocall_free_message` run on the enclave's
thread. The enclave loop calls `add_trace` and the queries; these call the bucket array,
then the sketch; the sketch's counters are PathORAM blocks; PathORAM moves blocks
through its stash.

What is hard here: two threads edit the pool at once through a hand-written list, and
both test queues without the lock; each access of the ORAM moves a whole path through the
stash, so one misplaced block corrupts a counter many accesses later; `oinsert` has no
branches, so its flags have to combine rightly for every fill of a bucket; a flow's
packets are split between slot, flag and sketch, and each eviction moves them; counters
are 8 or 31 bits wide; the program has no error handling, so a NULL container, a null
payload or an empty text is used as it comes. `PROJECT.json` lists these as hazards, each
with its line and with the properties that would notice it.

## Modules

| Module | Models | Notes |
|---|---|---|
| `SpinQueue` | `Queue.c` on `Spinlock.h` | one action per access to shared memory |
| `Deque` | what `Queue.h` promises | abstract specification |
| `SpinQueueDeque` | | the list read as a sequence, what each store leaves of it (`ListInv`), refinement of `Deque` |
| `HeapTree` | index arithmetic of the ORAM tree | constant operators; `IsTree` is what `PathORAM` asks of it |
| `StashMap` | what `PathORAM.h` expects of `Stash.h` | a map with a count: state and operations that `PathORAM` extends |
| `StashList` | `Stash.h` itself, node by node | one action per call; `MCStashList` has the refinement of `StashMap` |
| `PathORAM` | `PathORAM.h` on `StashMap` | one action per slot of the loops of `access` |
| `ArrayMemory` | what the sketch expects of the ORAM | abstract specification |
| `ObliviousBucket` | `ObliviousBucket.h`, macros of `CommonUtil.h` | each masked loop as a recursive function of the round |
| `CMSketch` | `CMSketch.h`, both variants | operators on an array of counters |
| `FlowStats` | `add_trace`, STAT, FLOW_SIZE | composes `ObliviousBucket` and `CMSketch`; one action per record; refinement of `HeavyLight` |
| `FlowQueries` | HEAVY_HITTER, DIST, CARDINALITY of the oblivious variant | operators on the state of `FlowStats` |
| `StrawmanStats` | the strawman's `CMSketch.h`, `add_trace` and queries | on `CMSketch`; one action per STAT message, one per HEAVY_CHANGE |
| `HeavyLight` | the rule that `FlowStats` follows | abstract specification: sets of flows, no slots, masks or widths |
| `Requests` | what the application asks, in order | shared by the next two |
| `Measurement` | the service as one sequential program | abstract specification; both variants promise it, its definitions are mapped to the strawman's sources |
| `Service` | `main` of `App.cpp`, `ecall_run` of `Enclave.cpp`, `Message.c`, `incr_ctr` | two threads, one action per queue operation or piece of work between two |
| `MC*` | | instances for TLC |
| `Sums` | | the sum of a function over a finite set |
| `SpinQueueProofs`, `PathORAMProofs`, `StashListProofs`, `FlowStatsProofs`, `HeavyLightProofs`, `StrawmanProofs`, `ServiceProofs` | | theorems |
| `SumProofs` | | what those share: sums, remainders, loops, induction |

The layers fit together by refinement: `SpinQueue` implements `Deque`, so `Service` takes
queue operations as atomic; `StashList` implements `StashMap`, on which `PathORAM` works; `PathORAM` implements `ArrayMemory`, so `CMSketch` takes its
counters as an array; `FlowStats` implements `HeavyLight`; `Service` implements
`Measurement`.

Definitions whose comment begins with "Mutant:" are changed copies of the definition that
follows, each with one slip a programmer could make (a missing unlock, a lost store, an
off-by-one). No specification uses them. `PROJECT.json` names for each property the mutant
under which it fails, so every property is known to be able to fail.

### Queue: state and actions

`top`, `bottom`, `lock`, `next`, `prev` are the fields of the same names. `at[t]` is the
place of thread `t` in its operation and `op[t]` the operation; `msg[t]` is the local
variable. An action `PushBackLink(t)` is one store of `push_back`. Local work and reads
of the thread's own data are joined to the shared access before or after it. `own` (where
each container is) and `got` (what the last pop returned) are history. `Poll` is the unlocked
`is_empty_queue` that says no; it obliges the thread to go on to `pop_front`, as both callers
do. `HandOver` is a container travelling to the other thread through another queue.

`push_front` and `pop_back` belong to the interface of `Queue.h`, but nothing in the repository calls them; what the runs and theorems say of
them is what a caller could rely on.

Memory is taken as sequentially consistent. The lock is an `xchg`, a full barrier on x86;
the unlock is a plain store after a compiler barrier, and x86 keeps stores in order; the two
reads outside the lock are single aligned words.

### ORAM: state and actions

`store`, `position` and `currentSize` are the fields. The stash is a partial map from
ids to values; the list's order decides only which of several eligible blocks is taken first,
which is left open (`\E i`). `phase`, `level` and
`slot` are the place in `fetch_path`, `read_stash`/`write_stash` and `write_path`. A null
pointer followed by `erase` is `phase = "crashed"`. Random leaves are arbitrary leaves. Values
are a small set: the ORAM only moves them.

`Stale` is the heart of the invariants: the slots of the current path that `fetch_path`
has copied and `write_path` has not refilled still hold the old blocks, which no longer count.

In `StashList`, `top`, `bottom`, `prev`, `next` are the pointers, `block` the content of each node and
`allocated` what `malloc` has given out; a node allocated for a full stash is never freed and stays in it. What a loop from `top` along `prev` visits is the least set that
contains `top` and is closed under `prev`, so the model needs no recursion. `nodes` and `place` are history:
the nodes of the list and their index in it. `crashed` is a store through a null `top`.

### Statistics: state and actions

A bucket is a record of keys, raw values (flag in the top bit) and the count turned away.
`OInsert` is a recursive function for each loop, with the early masks as conditions; widths are parameters
(`Flag`, `CountMod`) and arithmetic is modulo. A `NewTrace` empties all, as STAT does. `light`
and `truth` are history: what went into the sketch under each key, and what the trace holds.
Hash functions are arbitrary functions of keys. `used` are the counters that have a block in the ORAM, which
is what DIST and CARDINALITY see. A query leaves the oblivious statistics as they are, so it is an operator, and the
invariants over it hold for a query at any moment. DIST and CARDINALITY read the tree and not the stash: the counters they
miss are their parameter `hidden`, which the properties let be any set of used counters; `DistIsHistogram` of the ORAM says that these are all that is missed.

The masked loops rest on `bool_extend`, which shifts a 32-bit integer by 32. C leaves that undefined;
on x86 it leaves the value as it is, and the masks come out right only because of that. The model has the masks
as conditions, which is what they then are.

In the strawman a share is an exact fraction where the code has a `float`.

### Service: state and actions

`pool`, `inbox`, `outbox` are the three queues; `content` is the header and payload of each
container. `app` and `enclave` are the threads' places. A text is a member of a small set; its length
is 0 or not. A payload is the IV it was packed with and a ciphertext; `appIV` and `enclaveIV` are the counters
of the two sides, modulo `CtrMod`. Decryption gives the text back if the IV beside the ciphertext and the MAC in the
header are those of the ciphertext, and nothing of use otherwise. `files[i]` says whether trace file `i` has records (files are whole records).
`cur` and `prep` are the numbers of the traces the two statistics are of. What the code leaves
undefined is a choice or a failure: a NULL container ends the thread that
uses it (in the enclave: the ecall returns with an error and the thread ends; in the
application: the process), and so do old statistics that are null; an array of negative length either goes unnoticed or kills
the process. `Init` covers both variants: without old statistics (oblivious, a null
pointer) or with empty ones (strawman).

A FLOW_SIZE for an empty first trace carries no payload but a `payload_size`. `gcm_decrypt` then reads near address 0, or returns 0 before it does, and
`ecall_run` ignores the result: either the enclave fails, or it answers for a parameter that nothing has set (`asked` of the reply is `None`) and goes on. If all traces
are empty it then comes to HEAVY_CHANGE, where the oblivious variant has no old statistics and fails; the strawman answers, with a distribution
of empty maps that has neither text nor size.

## Runs

| Run | Instance | What it shows |
|---|---|---|
| `queue_all` | 2 threads, 3 containers, all operations from both | `MutualExclusion`; `WellLinked`: with the lock free, `next` and `prev` are inverse and the list is exactly the queued containers; `EmptyReadIsTrue`; `ImplementsDeque` |
| `queue_one` | the same, one thread consumes | the inductive invariant `ListInv`, which contains `IInv`; `PolledPopGetsMessage`; `CrashNeedsSecondConsumer`; `LockReleased` (liveness) |
| `oram` | depth 2 (7 buckets), Z = 2, 3 ids, 2 values, stash of 3, one clear | `OneCopy`, `OnItsPath`, `FetchedWhenServed`, `SizeCoversStash`, `CrashNeedsDrift`, `DistIsHistogram`, `OnlyClearDrifts`, `ImplementsMemory` |
| `size` | the same | finding 1 |
| `stash` | 4 nodes, 3 ids, 2 values, stash of 3 | the inductive invariant `IInv` of the links, `WalkVisitsNodes`, `ImplementsMap` |
| `flowstats` | 4 keys in 2 buckets of 2 slots, counts 0, 1, 2, 9, up to 13 packets, 2 counters modulo 8, the two largest flows asked for | `OneSlotPerFlow`, `NoUnderestimate`, `AtMostTwice`, `UnflaggedExact`, `ImplementsHeavyLight`; of the queries `HeavyHitterRanksTruly`, `DistWrapNeedsSharedCounter`, `UncountedFlowsAreExact` |
| `cardinality` | the same | finding 2 |
| `heavylight` | the same keys and counts | the inductive invariant, `UnmarkedExact`, `BoundedEstimate` |
| `service` | 2 trace files, each empty or not, 9 containers, 3 IVs, both variants | `OnePlace`, `PoolSuffices`, `PooledBlank`, `PayloadsOpen`, `FailuresExplained`, `ImplementsMeasurement`, `Terminates` |
| `payload` | the same | finding 3 |
| `strawman` | 3 flows, 2 rows of 4 counters modulo 8, three traces, HEAVY_CHANGE at any moment | `NoUnderestimate`, `AnswerWithinLoad`, `QueriesKeepAnswers` |
| `reset` | the same | finding 4 |

Why the bounds are enough for the cases that matter:

- *Queue.* Three containers give an empty queue, a single element (both ends equal), two
  (neighbours at an end) and three (an inner element), which are all the cases the stores
  distinguish. Containers are interchangeable (symmetry); threads are not, their operations differ.
- *ORAM.* Depth 2 has leaves whose paths part at the root and leaves whose paths share two
  buckets. Seven buckets with Z = 2 leave both full and empty slots. Three ids and a stash of
  three make the stash fill up exactly; after a clear with blocks in it, `currentSize` drifts
  and the full-stash and crash cases occur. `MaxClears` bounds the number of clears only.
- *Stash.* A list of three has a head, a middle and a bottom, which are the cases of `erase`; a fourth node lets a freed
  address be different from the next one given out. Clears are not bounded: `currentSize` drifts up to the size of the stash.
- *Statistics.* A count of 9 is more than 8 times 1, so evictions happen; a bucket can be
  filled, turn flows away, evict, and evict again what it let in. `CountMod` 8 makes counters
  wrap; the keys share two counters in pairs, keys of one bucket among them. A `Flag` of 128 is more than a slot counts in these traces; wrapping of the slot
  count and of the shifted threshold takes 2^29 packets of one flow and is left out of the runs. `MaxPackets` bounds the trace.
- *Strawman.* A row of four counters has exactly one that reset reaches. Flows 1 and 2 have such a counter in one row, flow 3 in none,
  and flows 2 and 3 share a counter. Three traces are enough to wrap one and to tell the last trace from the one before it.
- *Service.* Nine containers are exactly as many as requests, the smallest number for which
  `PoolSuffices` makes a claim (the program has 16384); every reply then depends on a returned container.
  Each side packs more than `CtrMod` = 3 messages, so its IV wraps and IVs repeat.
  The number of trace files is the program's.

Deadlock is not checked where the system may stop: a queue whose threads have crashed or have
nothing to call, an ORAM or a stash that has crashed, a program that has ended.

Fairness. `FairSpec` of the queue is weak fairness of each thread's steps *inside* an operation: the
scheduler does not suspend a running thread for ever, and no fairness is asked of starting an operation.
`SpinLock` is only weakly fair, so `LockReleased` says that a lock is given back and nothing about
who gets it next. `Service` assumes weak fairness of each of the two threads: each is a pthread that
is ready unless it waits in `pthread_join` or polls an empty mailbox.

## Proofs

All are for every value of the constants, under the assumptions named in the modules and
the hypotheses named here. Every invariant and action property that a passing run checks, and every
refinement, is a theorem.

Where an argument is by induction over data (a sum over flows, a loop over slots, the levels
of a tree) it is made over sets: `SumProofs` derives from well-foundedness that a non-empty set of naturals has a least
member (`LeastNatural`), hence `UpTo` and `FiniteInduction`, which take a set where the
library's theorems take an operator. `SummingExists` and `Iterated` show with them that the recursive
functions in question exist, so that what their recursion says may be used.

**Queue** (`SpinQueueProofs`), for any threads, any finite set of containers and any choice of operations.

- `MutualExclusion`, `PolledPopGetsMessage` and `CrashNeedsSecondConsumer` follow from
  `IInv`, that is `TypeOK /\ MutualExclusion /\ CallsAgree /\ UnlockedReadsHold`. `UnlockedReadsHold` is needed because
  the two consequences speak of a moment after the lock was taken, while the reads were made before it: a queue a
  sole consumer saw non-empty stays non-empty, since the stores of other threads to `top` and
  `bottom` are of containers they push. `CallsAgree` says that those are not NULL.
- `WellLinked` and `EmptyReadIsTrue` need `ListInv`: some sequence of exactly the queued containers
  agrees with `prev`, `next`, `top` and `bottom`, except for the stores that the one thread in the lock has not made
  yet. `ListShape` spells out that exception for each operation and step, with the cases of an empty and a
  one-element queue; `Holding` says that a thread alone has the container it pushes or took, so the stores
  outside the lock hit no queued container (`ShapeFrame`). One lemma per operation takes its steps over `ListShape`.
- `ImplementsDeque`: the deque is `QueueSeq`, the order of the queued containers along `prev`, and there is only
  one such order (`OrderUnique`). A push takes effect in the step that makes the container count as queued, a pop
  in the step that takes one out of the queue or that finds there is none; all other steps are stutters
  (`Moves`).

**ORAM** (`PathORAMProofs`): `OneCopy`, `OnItsPath`, `FetchedWhenServed`, `SizeCoversStash`,
`CrashNeedsDrift`, `OnlyClearDrifts`, for any tree in which a bucket is at one level of every path,
any bucket and stash size, ids, values and number of clears. `OneCopy` is not inductive: while a path is fetched, what keeps
a block from being inserted over a newer value is that the tree's copy is the only one, and after the
request is served `write_stash` may add the requested block to the stash, which is safe only because the
fetch has taken it out of the tree. That is `RequestedNotInTree`; it follows from `OnItsPath`, since the
block could only have been on the path just fetched. `SizeCoversStash` needs the stash to be finite, so that
its cardinality changes by one. Lemmas `InsertSize` and `EraseSize` count; `LiveSame` and `EvictLive` say how the set of
live slots changes.

`DistIsHistogram` and `ImplementsMemory` follow from the same invariant. The array that the ORAM implements is `BlockAt`
of the live copy of each id; every step of an access leaves it alone, but for the one that serves the request and
for an insertion into a full stash, which makes the array forget that id.

The invariants assume an abstract tree (`PathORAMAssumption`). `HeapIsTree` shows that the code's arithmetic is such a tree at
every depth: after k rounds `get_bucket_on_path` is in the range of level `depth - k`, and the ranges of the levels
are disjoint. `HeapTree` has `pow(2, n)` as a recursive function, since the provers have no rules for a power with
a variable exponent. TLC evaluates the same statement at depths 1 to 6 (`HeapPathsAreTree`).

**Stash** (`StashListProofs`): `WalkVisitsNodes`, `ImplementsMap`, for any set of addresses, ids, values and size. `IInv` gives each node of
the list its index (`place`): `prev` leads to the node with the next index, `next` back, `top` has index 1, and the ids are distinct.
With indices the walk needs no induction over paths: `WalkIsList` shows that what the loop visits is `nodes`, by taking the least index
that it would miss.

**Statistics** (`HeavyLightProofs`): `UnmarkedExact` and `BoundedEstimate` for any flows, buckets, slots
and counts. `UnmarkedExact` is not inductive: a flow that is given an empty slot is counted from then on, which is exact
only if it is new. `BucketsFillFirst` says so: a bucket with an empty slot has kept every flow it saw.

`FlowStatsProofs` proves the same of the code's loops, for any hash, array and width of the counters, and counters that wrap:
`OneSlotPerFlow`, `UnflaggedExact`, `NoUnderestimate` and `AtMostTwice`. The hypothesis
`MaxPackets < Flag` says that a trace has fewer packets (2^31) than a slot can count below its flag. `NoUnderestimate` has no exception for counters that wrap: it says what they
cost, the counter's range each time, which follows from `CountersSum` by division with remainder.
`AccumulateLoop`, `EvictLoop` and `ScanLoop` carry an invariant through the rounds; `OInsertOutcome` concludes that
a slot takes the count, or the bucket turns it away, or the first slot with the least value is evicted. The inductive
invariant says, besides types: a flow has one slot, in its own bucket, and the empty slots come last (`GoodBuckets`);
slot and sketch share of a flow are together at least its packets and at most twice them, and without a flag the slot has them all (`SlotsAccounted`);
the share of a flow without a slot is between its packets and twice them, and nothing if its bucket has room (`OthersAccounted`); what a bucket has turned away is at most eight times the count of any of its slots, and
until its first eviction all the packets of its flows without a slot (`TurnedAway`); a counter is the
sum of its flows' shares modulo its range (`CountersSum`); a trace keeps to its bound (`WithinBounds`), which with the others is why
no addition carries into the flag.

`ImplementsHeavyLight` has the stronger hypothesis `8 * MaxPackets < ValMod` (2^29 packets), so that the shift of `swap_threshold` loses no bit.
The slots of a bucket map to the set of its flows, and evicting the first slot with the least value is one of the
evictions that the rule allows.

Of the queries, `HeavyHitterRanksTruly`, `UncountedFlowsAreExact` and `DistWrapNeedsSharedCounter` are proved from the
same invariant. `HeavyHitterRanksTruly` compares a listed flow with every other one. With a flow that has a slot it compares counts. A flow without a slot, whose bucket has
evicted nothing, has by `TurnedAway` at most eight times the count of each slot there (`LeftOutBound`): at most eight times the packets of a listed flow, unless all slots of its bucket are
listed themselves. Once a bucket has evicted a flow nothing can be said: the evicted flow may have had any number of packets and the one let in a single one. The last two properties also need `SharesUsed`, that a flow of which the sketch took packets has a block for its counter. They assume the
one row that the oblivious sketch has, and hold for every set `hidden` of used counters in the stash. A flow whose counter is there may be missing from CARDINALITY whatever
its slot says, and `UncountedFlowsAreExact` says so. `DistWrapNeedsSharedCounter` is a counting argument: if no two flagged flows share a counter
and none of these is in the stash, their slots map injectively to the tree's counters with the same value.

**Strawman** (`StrawmanProofs`): `NoUnderestimate`, `AnswerWithinLoad` and `QueriesKeepAnswers`, for any hashes, rows, widths, flows
and number of traces. The heart of the invariant is `CountersLoaded`: a counter is, modulo its range, the sum of what all traces since reset last reached it put there.
The trace is inserted by a fold over its flows; `FillingIs` and `InsertAllIs` show that it adds to each counter the sum over the flows hashed to it,
in whatever order the table is walked.

**Service** (`ServiceProofs`): `OnePlace`, `PoolSuffices`, `PooledBlank`, `PayloadsOpen`, `FailuresExplained`, for any number of
trace files and containers and IVs of any width. `PoolSuffices` is a counting argument. `AllCounted` adds up the containers in the queues and hands
(which `OnePlace` alone does not bound); `InScript` ties the length of the inbox to the requests sent and taken; `FewReplies` says that replies
waiting are fewer than the requests served, since requests about traces have none. So when a thread takes a container, fewer than
`Len(Script)` are elsewhere. `RequestsInOrder` says which request each container in the inbox holds, which is why the enclave finds old statistics when it
comes to HEAVY_CHANGE if any trace has records (`OldStatistics`: as soon as a trace with records is served there are current and old statistics) and why what it unpacks is intact; `HeldBlank` carries blankness between pool and packing.

It also shows that `Service` implements `Measurement` when there are at least `Len(Script)` containers (with fewer, `pop_front` may give NULL).
The requests served are those sent, less the inbox and the one at hand; the replies are those printed, the one in main's hands, those in the outbox and the one
being made. A step maps to serving a request, to showing a reply, or to a stutter: moving a reply from one of these places to the next
leaves their concatenation alone (`ConcatFirst`, `ConcatAppend`, `AppendInside`), and so does blanking a container in neither.
`Orderly` is what has to be added to the invariant: a stopped enclave has served everything, and a packed reply opens as the answer it was made from.
`AtHand` says which request of the script the enclave has before it, `QueryAnswered` that the answer is about its parameter and the present statistics.

Only model-checked are the liveness properties, `LockReleased` and `Terminates`: a proof would need fairness and `ENABLED`, which
the prover does not handle. The four findings are counterexamples and need no proof.

## Findings

1. `Stash::clear` leaves `current_size` as it was (`Stash.h:36`), while `erase` takes `current_size == 1` for
   "only one node" (`Stash.h:89`). STAT clears the ORAM; if blocks were in the stash then, the count is too high
   from then on: the stash is full too early, and erasing the only node stores through a null pointer. Run `size`.
   `CrashNeedsDrift` and `OnlyClearDrifts` show that nothing else leads there.
2. `get_cardinality` of the bucket array is to "exclude the bucket that counted in the light part" (`ObliviousBucket.h:120`) and leaves out flagged
   slots. But `add_trace` inserts every record into the sketch ("insert into sketch if failed in bucket", `EnclaveFunction.cpp:17`, tests nothing), so an
   unflagged flow has a counter too and CARDINALITY counts it twice, and a flow that an eviction lets in with its first record is counted in neither part.
   Run `cardinality`. `UncountedFlowsAreExact` shows which flows can be missing, those included whose counter is in the stash; the insertion is harmless for FLOW_SIZE of unflagged flows (`UnflaggedExact`) and
   makes flagged ones count up to twice (`AtMostTwice`).
3. A reply with an empty text has a payload and `payload_size` 0 (`Message.c:29`); printing it declares an array of -12 bytes
   (`App.cpp:109`). Run `payload`. `FailuresExplained` shows that a reply of size 0 is the only way the application dies: such a list, or in the strawman
the distribution of traces that are all empty.
4. The strawman's `reset` clears `w` bytes of rows of `w` four-byte counters (`Strawman/Enclave/Sketch/CMSketch.h:54`): "remove
   the last statistics" (`EnclaveFunction.cpp:8`) is true of the first quarter of a row only. Run `reset`.
   `AnswerWithinLoad` says how far the damage goes.

## Not modelled

- The cipher (OpenSSL's AES-GCM): different IVs or texts give different ciphertexts and MACs, and only the right ones open.
- SpookyHash: third-party; hash values are arbitrary.
- SGX set-up, build files, printing, reading of files beyond whether they have records.
- `spin_trylock`: no caller. The inner read-only loop of `spin_lock`: changes nothing.
- Flows with key 0, which a slot takes as empty: the rule of `oinsert` is modelled for them too, the properties speak of the others.
- The ORAM's geometry (`CMSketch::initial`): one evaluation of an expression. At a power of two it gives a tree with too few blocks; the shipped
  size is none.
- Logarithms and floating point: the estimate of linear counting, ENTROPY, and the oblivious HEAVY_CHANGE, whose shares are not numbers after a single
  STAT (`prep_total` is 0). The strawman's HEAVY_CHANGE divides by one total only and is modelled with fractions.

## What is left

1. The oblivious HEAVY_CHANGE over fractions, once there is a faithful reading of shares that are not numbers.
2. A run in which `Flag` is small enough for the shifted threshold to wrap, with `HeavyLight` restricted to smaller counts.
3. One theorem that puts the layers together: a sketch whose counters are read and written through `ArrayMemory`, with the
   answers of `FlowStats` as long as no block is lost.
