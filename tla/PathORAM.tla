------------------------------ MODULE PathORAM ------------------------------
(***************************************************************************)
(* Oblivious/Enclave/ORAM: a tree of buckets of Z blocks, a position map   *)
(* that sends every block id to a leaf, and a stash of blocks that are not *)
(* in the tree.  access() moves the whole path of a block into the stash,  *)
(* reads or writes the block there, and refills the path from the stash.   *)
(*                                                                         *)
(* The enclave has one thread, so an access is never interleaved with      *)
(* another; it is taken here one slot at a time, as its loops are.         *)
(*                                                                         *)
(* The stash is the map of StashMap.  Which of several blocks that fit a   *)
(* bucket is written first depends on the order of its list only, so the   *)
(* choice is free.                                                         *)
(***************************************************************************)
EXTENDS StashMap

CONSTANTS Leaves, Buckets,
          Depth,      \* depth of the tree
          Path,       \* Path[x][d]: the bucket at level d on the path to leaf x
          Z,          \* blocks per bucket, bucket_size
          Zero,       \* the value of a block never written
          Dummy,      \* the id 0xFFFFFFFF
          MaxClears   \* bound on the number of clears taken

Levels == 0..Depth
Slots  == 0..(Z - 1)
TreeSlots == Buckets \X Slots

\* Of the shape of the tree only this is used: it is finite, and a bucket is at one level.
ASSUME PathORAMAssumption ==
  /\ Leaves # {}
  /\ IsFiniteSet(Buckets)
  /\ Depth \in Nat \ {0}
  /\ Path \in [Leaves -> [Levels -> Buckets]]
  /\ \A x, y \in Leaves : \A d, e \in Levels : Path[x][d] = Path[y][e] => d = e
  /\ Z \in Nat \ {0}
  /\ MaxClears \in Nat
  /\ Zero \in Data
  /\ Dummy \notin Ids

VARIABLES store,        \* store[b][z]: the block in slot z of bucket b
          position,     \* the position map
          phase,        \* idle, or the loop of access() being run
          req,          \* the access being run: op, block id, value, old leaf
          level, slot,  \* the loop counters d and z
          out,          \* what the last read returned
          clears        \* clears so far

vars == <<store, position, stash, currentSize, phase, req, level, slot, out, clears>>

Requests == [op : {"read", "write"}, id : Ids, data : Data, leaf : Leaves]
Blocks   == [id : Ids \cup {Dummy}, data : Data]
Empty    == [id |-> Dummy, data |-> Zero]

\* The constructor.
Init ==
  /\ store = [b \in Buckets |-> [z \in Slots |-> Empty]]
  /\ position \in [Ids -> Leaves]
  /\ StashInit
  /\ phase = "idle"
  /\ req \in [op : {"read"}, id : Ids, data : {Zero}, leaf : {CHOOSE x \in Leaves : TRUE}]
  /\ level = 0
  /\ slot = 0
  /\ out = Zero
  /\ clears = 0

---------------------------------------------------------------------------
(* PathORAM.h                                                               *)

\* access(): note the old leaf, draw a new one, start to fetch the old path.
Access(op, i, v) ==
  /\ phase = "idle"
  /\ req' = [op |-> op, id |-> i, data |-> v, leaf |-> position[i]]
  /\ \E leaf \in Leaves : position' = [position EXCEPT ![i] = leaf]
  /\ phase' = "fetch"
  /\ level' = 0
  /\ slot' = 0
  /\ UNCHANGED <<store, stash, currentSize, out, clears>>

BlockAt(s) == store[s[1]][s[2]]

Current == store[Path[req.leaf][level]][slot]

\* Mutant: the loop over levels stops above the leaf.
FetchSlotShort ==
  /\ phase = "fetch"
  /\ IF Current.id # Dummy
     THEN StashInsert(Current.id, Current.data)
     ELSE UNCHANGED <<stash, currentSize>>
  /\ IF slot < Z - 1
     THEN slot' = slot + 1 /\ UNCHANGED <<level, phase>>
     ELSE /\ slot' = 0
          /\ IF level < Depth - 1
             THEN level' = level + 1 /\ UNCHANGED phase
             ELSE phase' = "serve" /\ level' = Depth
  /\ UNCHANGED <<store, position, req, out, clears>>

\* fetch_path, one slot: a block that is not a dummy is put into the stash.
FetchSlot ==
  /\ phase = "fetch"
  /\ IF Current.id # Dummy
     THEN StashInsert(Current.id, Current.data)
     ELSE UNCHANGED <<stash, currentSize>>
  /\ IF slot < Z - 1
     THEN slot' = slot + 1 /\ UNCHANGED <<level, phase>>
     ELSE /\ slot' = 0
          /\ IF level < Depth
             THEN level' = level + 1 /\ UNCHANGED phase
             ELSE phase' = "serve" /\ UNCHANGED level
  /\ UNCHANGED <<store, position, req, out, clears>>

\* read_stash: a block that is nowhere reads as zero.
ServeRead ==
  /\ phase = "serve"
  /\ req.op = "read"
  /\ out' = IF stash[req.id] = Absent THEN Zero ELSE stash[req.id]
  /\ phase' = "evict"
  /\ UNCHANGED <<store, position, stash, currentSize, req, level, slot, clears>>

\* write_stash
ServeWrite ==
  /\ phase = "serve"
  /\ req.op = "write"
  /\ StashInsert(req.id, req.data)
  /\ phase' = "evict"
  /\ UNCHANGED <<store, position, req, level, slot, out, clears>>

\* Mutant: the path of the block is not compared.
EligibleAnywhere == Stashed

\* get_intersect_blocks: the blocks of the stash whose own path passes here.
Eligible == {i \in Stashed : Path[position[i]][level] = Path[req.leaf][level]}

\* The z loops of write_path run up at each level, the levels from the leaf up.
EvictAdvance ==
  IF slot < Z - 1
  THEN slot' = slot + 1 /\ UNCHANGED <<level, phase>>
  ELSE /\ slot' = 0
       /\ IF level > 0
          THEN level' = level - 1 /\ UNCHANGED phase
          ELSE phase' = "idle" /\ UNCHANGED level

Fill(block) ==
  store' = [store EXCEPT ![Path[req.leaf][level]] = [@ EXCEPT ![slot] = block]]

\* Mutant: the id is written to the slot, the data is not.
EvictBlockNoData(i) ==
  /\ phase = "evict"
  /\ i \in Eligible
  /\ Fill([id |-> i, data |-> Zero])
  /\ IF EraseCrashes(i)
     THEN phase' = "crashed" /\ UNCHANGED <<stash, currentSize, level, slot>>
     ELSE StashErase(i) /\ EvictAdvance
  /\ UNCHANGED <<position, req, out, clears>>

\* write_path, one slot: a block that fits moves from the stash to the slot.
EvictBlock(i) ==
  /\ phase = "evict"
  /\ i \in Eligible
  /\ Fill([id |-> i, data |-> stash[i]])
  /\ IF EraseCrashes(i)
     THEN phase' = "crashed" /\ UNCHANGED <<stash, currentSize, level, slot>>
     ELSE StashErase(i) /\ EvictAdvance
  /\ UNCHANGED <<position, req, out, clears>>

\* Mutant: a slot that no block is left for keeps its old block.
EvictNothing ==
  /\ phase = "evict"
  /\ Eligible = {}
  /\ EvictAdvance
  /\ UNCHANGED <<store, position, stash, currentSize, req, out, clears>>

\* write_path, one slot that no block is left for: it becomes a dummy.
EvictDummy ==
  /\ phase = "evict"
  /\ Eligible = {}
  /\ Fill(Empty)
  /\ EvictAdvance
  /\ UNCHANGED <<position, stash, currentSize, req, out, clears>>

\* clear(): the stash is cleared, every position is drawn again, every slot becomes
\* a dummy.
Clear ==
  /\ phase = "idle"
  /\ clears < MaxClears
  /\ StashClear
  /\ position' \in [Ids -> Leaves]
  /\ store' = [b \in Buckets |-> [z \in Slots |-> Empty]]
  /\ clears' = clears + 1
  /\ UNCHANGED <<phase, req, level, slot, out>>

\* Mutant: the loop starts after the root.
GetDistNoRoot(v) ==
  Cardinality({s \in TreeSlots : /\ BlockAt(s).id # Dummy /\ BlockAt(s).data = v
                                 /\ \A x \in Leaves : s[1] # Path[x][0]})

\* get_dist: how many blocks of the tree have value v.  The stash is not looked at.
GetDist(v) ==
  Cardinality({s \in TreeSlots : BlockAt(s).id # Dummy /\ BlockAt(s).data = v})

Next ==
  \/ \E i \in Ids : Access("read", i, Zero)
  \/ \E i \in Ids, v \in Data : Access("write", i, v)
  \/ FetchSlot
  \/ ServeRead \/ ServeWrite
  \/ \E i \in Ids : EvictBlock(i)
  \/ EvictDummy
  \/ Clear

Spec == Init /\ [][Next]_vars

---------------------------------------------------------------------------
\* Tree, position map and stash hold blocks of known ids, and the walk along the path
\* stays on its levels and slots (PathORAM.h).
TypeOK ==
  /\ store \in [Buckets -> [Slots -> Blocks]]
  /\ position \in [Ids -> Leaves]
  /\ stash \in [Ids -> Data \cup {Absent}]
  /\ currentSize \in 0..StashSize
  /\ phase \in {"idle", "fetch", "serve", "evict", "crashed"}
  /\ req \in Requests
  /\ level \in Levels
  /\ slot \in Slots
  /\ out \in Data
  /\ clears \in 0..MaxClears

\* The loops over the current path are past, or not yet at, slot z of level d: it
\* holds an outdated copy, fetched already or (from serving on) not yet refilled.
Outdated(d, z) ==
  \/ phase = "fetch" /\ (d < level \/ (d = level /\ z < slot))
  \/ phase = "serve"
  \/ phase = "evict" /\ (d < level \/ (d = level /\ z >= slot))

Stale ==
  {<<Path[req.leaf][turn[1]], turn[2]>> :
     turn \in {t \in Levels \X Slots : Outdated(t[1], t[2])}}

\* The slots that hold a block, outdated copies aside.
Live == {s \in TreeSlots : BlockAt(s).id # Dummy} \ Stale

\* Running: the program has not crashed.
Running == phase # "crashed"

\* No block is in two places: not in two slots of the tree, nor in the tree and
\* the stash.  fetch_path relies on it: insert would overwrite the newer copy.
OneCopy ==
  Running =>
    LET live == Live
    IN  \A s \in live :
          /\ stash[BlockAt(s).id] = Absent
          /\ \A r \in live : BlockAt(r).id = BlockAt(s).id => r = s

\* The leaf whose path holds block i, if it is in the tree: the one drawn at its
\* last access, or the one before that while it is being fetched.
HomeLeaf(i) == IF phase = "fetch" /\ i = req.id THEN req.leaf ELSE position[i]

\* A block in the tree is on the path of the leaf the position map gives it:
\* the next access to it will find it.
OnItsPath ==
  Running => \A s \in Live : \E d \in Levels : s[1] = Path[HomeLeaf(BlockAt(s).id)][d]

\* What fetch_path has passed is in the stash, so an access serves its request
\* from the whole path: only a full stash can have dropped a block.
FetchedWhenServed ==
  phase \in {"fetch", "serve"} =>
    \A s \in Stale :
      \/ BlockAt(s).id = Dummy
      \/ stash[BlockAt(s).id] = BlockAt(s).data
      \/ currentSize = StashSize

\* When an access serves its request, the tree has no other copy of the block that
\* read_stash or write_stash looks for.
RequestedNotInTree ==
  phase = "serve" =>
    /\ level = Depth /\ slot = 0
    /\ \A s \in Live : BlockAt(s).id # req.id

\* The value of every block, wherever it is.
Contents ==
  LET live == Live
  IN  [i \in Ids |->
         IF stash[i] # Absent THEN stash[i]
         ELSE IF \E s \in live : BlockAt(s).id = i
              THEN BlockAt(CHOOSE s \in live : BlockAt(s).id = i).data
              ELSE Zero]

\* current_size less the blocks in the list.
Drift == currentSize - Cardinality(Stashed)

\* current_size never counts fewer blocks than the list has, so insert never
\* exceeds the stash, and erase never empties a list of several blocks.
SizeCoversStash == Drift >= 0

\* get_dist between two accesses: each counter in use that is not in the stash is
\* counted once, under the value last written, however often its block was moved;
\* what it misses is exactly what is in the stash.
DistIsHistogram ==
  phase = "idle" =>
    \A v \in Data \ {Zero} :
      GetDist(v) = Cardinality({i \in Ids \ Stashed : Contents[i] = v})

\* Only clear() makes current_size and the list disagree.
OnlyClearDrifts == [][clears' = clears => Drift' = Drift]_vars

\* erase reads through a null pointer only after a clear() that found blocks
\* in the stash.
CrashNeedsDrift == ~Running => Drift > 0

\* The inductive invariant.
IInv ==
  /\ TypeOK
  /\ IsFiniteSet(Stashed) /\ SizeCoversStash /\ CrashNeedsDrift
  /\ OneCopy /\ OnItsPath /\ FetchedWhenServed /\ RequestedNotInTree

\* Stash.h:89 takes current_size = 1 for "only one node": current_size is the
\* number of blocks in the list.
SizeIsNumberOfNodes == Drift = 0

---------------------------------------------------------------------------
(* The refinement of ArrayMemory                                            *)

Memory == INSTANCE ArrayMemory WITH mem <- Contents

Full == currentSize = StashSize

Serves ==
  IF req.op = "read"
  THEN Memory!Read(req.id)
  ELSE Memory!Write(req.id, req.data) \/ (Full /\ Memory!Forget(req.id))

\* PathORAM::read and write behave as on an array that starts at zero and is
\* cleared by clear(): an access has its effect, once, when it serves its request,
\* and however blocks wander between tree and stash a read returns what was last
\* written.  A value is lost, to zero, only when a block meets a full stash
\* ("stash is full, ignore this block", Stash.h:73); after a crash there is
\* nothing to read any more.
ImplementsMemory ==
  /\ Memory!Init
  /\ [][Running' =>
         \/ phase = "serve" /\ Serves
         \/ phase # "serve" /\ clears' = clears /\ UNCHANGED Memory!vars
         \/ clears' # clears /\ Memory!Clear
         \/ phase = "fetch" /\ Full /\ \E i \in Ids : Memory!Forget(i)]_vars
=============================================================================
