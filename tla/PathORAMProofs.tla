--------------------------- MODULE PathORAMProofs ---------------------------
(***************************************************************************)
(* Proofs about PathORAM, for any tree shape, block count and stash size,  *)
(* and that the code's index arithmetic has the shape that they ask for.   *)
(***************************************************************************)
EXTENDS PathORAM, HeapTree, SumProofs

\* The slot the loops of fetch_path and write_path are at.
Here == <<Path[req.leaf][level], slot>>

\* The request being served names a leaf, a block and a value.
LEMMA ReqTypes ==
  ASSUME TypeOK
  PROVE  req.leaf \in Leaves /\ req.id \in Ids /\ req.data \in Data
BY DEF TypeOK, Requests

\* The walk along the path is at a slot of the tree.
LEMMA HereType == TypeOK => Here \in TreeSlots
BY PathORAMAssumption, StashAssumption, ReqTypes DEF TypeOK, Here, TreeSlots

---------------------------------------------------------------------------
(* Live slots.                                                              *)

\* Paths cross a bucket at one level only.
LEMMA OneLevel ==
  ASSUME NEW x \in Leaves, NEW y \in Leaves, NEW d \in Levels, NEW e \in Levels,
         Path[x][d] = Path[y][e]
  PROVE  d = e
BY PathORAMAssumption, StashAssumption

\* A slot is live when it holds a block and is not a slot of the fetched path that
\* is yet to be rewritten.
LEMMA LiveIff ==
  ASSUME NEW s \in TreeSlots
  PROVE  s \in Live <=> /\ BlockAt(s).id # Dummy
                        /\ \A d \in Levels : s[1] = Path[req.leaf][d] => ~Outdated(d, s[2])
<1>1. s = <<s[1], s[2]>> /\ s[2] \in Slots
  BY DEF TreeSlots
<1>2. s \in Stale <=> \E d \in Levels : s[1] = Path[req.leaf][d] /\ Outdated(d, s[2])
  <2>1. ASSUME NEW d \in Levels, s[1] = Path[req.leaf][d], Outdated(d, s[2]) PROVE s \in Stale
    <3>1. <<d, s[2]>> \in {t \in Levels \X Slots : Outdated(t[1], t[2])}
      BY <1>1, <2>1
    <3> QED
      BY <1>1, <2>1, <3>1 DEF Stale
  <2>2. ASSUME s \in Stale
        PROVE  \E d \in Levels : s[1] = Path[req.leaf][d] /\ Outdated(d, s[2])
    <3>1. PICK t \in {t \in Levels \X Slots : Outdated(t[1], t[2])} :
            s = <<Path[req.leaf][t[1]], t[2]>>
      BY <2>2 DEF Stale
    <3>2. t[1] \in Levels /\ s[1] = Path[req.leaf][t[1]] /\ s[2] = t[2]
      BY <3>1
    <3> QED
      BY <3>1, <3>2
  <2> QED
    BY <2>1, <2>2
<1> QED
  BY <1>2 DEF Live

\* The same of the next state.
LEMMA LiveIffNext ==
  ASSUME NEW s \in TreeSlots
  PROVE  s \in Live' <=> /\ BlockAt(s)'.id # Dummy
                        /\ \A d \in Levels : s[1] = Path[req'.leaf][d] => ~Outdated(d, s[2])'
<1>1. s = <<s[1], s[2]>> /\ s[2] \in Slots
  BY DEF TreeSlots
<1>2. s \in Stale' <=> \E d \in Levels : s[1] = Path[req'.leaf][d] /\ Outdated(d, s[2])'
  <2>1. ASSUME NEW d \in Levels, s[1] = Path[req'.leaf][d], Outdated(d, s[2])' PROVE s \in Stale'
    <3>1. <<d, s[2]>> \in {t \in Levels \X Slots : Outdated(t[1], t[2])'}
      BY <1>1, <2>1
    <3> QED
      BY <1>1, <2>1, <3>1 DEF Stale
  <2>2. ASSUME s \in Stale'
        PROVE  \E d \in Levels : s[1] = Path[req'.leaf][d] /\ Outdated(d, s[2])'
    <3>1. PICK t \in {t \in Levels \X Slots : Outdated(t[1], t[2])'} :
            s = <<Path[req'.leaf][t[1]], t[2]>>
      BY <2>2 DEF Stale
    <3>2. t[1] \in Levels /\ s[1] = Path[req'.leaf][t[1]] /\ s[2] = t[2]
      BY <3>1
    <3> QED
      BY <3>1, <3>2
  <2> QED
    BY <2>1, <2>2
<1> QED
  BY <1>2 DEF Live

\* A live slot holds a real block.
LEMMA LiveBlock ==
  ASSUME TypeOK, NEW s \in Live
  PROVE  s \in TreeSlots /\ BlockAt(s) \in Blocks /\ BlockAt(s).id \in Ids
BY DEF Live, TreeSlots, TypeOK, BlockAt, Blocks

\* A step that changes neither blocks nor what is outdated.
LEMMA LiveSame ==
  ASSUME TypeOK, UNCHANGED store,
         \A d \in Levels : \A z \in Slots : \A b \in Buckets :
           (b = Path[req.leaf][d] /\ Outdated(d, z)) <=>
             (b = Path[req'.leaf][d] /\ Outdated(d, z)')
  PROVE  Live' = Live
<1>1. ASSUME NEW s \in TreeSlots PROVE s \in Live' <=> s \in Live
  BY LiveIff, LiveIffNext DEF TreeSlots, BlockAt
<1> QED
  BY <1>1 DEF Live

\* One turn of the loop of fetch_path makes the slot outdated.
LEMMA FetchOutdates ==
  ASSUME TypeOK, FetchSlot, NEW d \in Levels, NEW z \in Slots
  PROVE  Outdated(d, z)' <=> Outdated(d, z) \/ (d = level /\ z = slot)
BY PathORAMAssumption, StashAssumption DEF TypeOK, FetchSlot, Outdated, Levels, Slots

\* One turn of the loop of fetch_path takes the slot it reads out of the live ones.
LEMMA FetchLive ==
  ASSUME TypeOK, FetchSlot
  PROVE  Live' = Live \ {Here} /\ UNCHANGED <<store, req>>
<1>1. UNCHANGED <<store, req>>
  BY DEF FetchSlot
<1>2. ASSUME NEW s \in TreeSlots PROVE s \in Live' <=> s \in Live /\ s # Here
  <2>0. level \in Levels
    BY DEF TypeOK
  <2>1. s = Here <=> s[1] = Path[req.leaf][level] /\ s[2] = slot
    BY DEF TreeSlots, Here
  <2>2. \A d \in Levels : s[1] = Path[req.leaf][d] /\ s[1] = Path[req.leaf][level] => d = level
    BY <2>0, OneLevel, ReqTypes
  <2>3. \A d \in Levels : Outdated(d, s[2])' <=> Outdated(d, s[2]) \/ (d = level /\ s[2] = slot)
    BY FetchOutdates DEF TreeSlots
  <2> QED
    BY <1>1, <2>0, <2>1, <2>2, <2>3, LiveIff, LiveIffNext DEF BlockAt
<1> QED
  BY <1>1, <1>2 DEF Live

\* One turn of the loop of write_path makes the slot current.
LEMMA EvictRefreshes ==
  ASSUME TypeOK, phase = "evict", EvictAdvance, NEW d \in Levels, NEW z \in Slots
  PROVE  Outdated(d, z)' <=> Outdated(d, z) /\ ~(d = level /\ z = slot)
BY PathORAMAssumption, StashAssumption DEF TypeOK, EvictAdvance, Outdated, Levels, Slots

\* One turn of the loop of write_path makes the slot it fills live, unless with a dummy.
LEMMA EvictLive ==
  ASSUME TypeOK, phase = "evict", EvictAdvance, UNCHANGED req,
         NEW block \in Blocks, Fill(block)
  PROVE  /\ Live' = IF block.id = Dummy THEN Live ELSE Live \cup {Here}
         /\ Here \notin Live
         /\ \A s \in TreeSlots : BlockAt(s)' = IF s = Here THEN block ELSE BlockAt(s)
<1>1. Here \in TreeSlots /\ level \in Levels /\ slot \in Slots
  BY HereType DEF TypeOK
<1>2. ASSUME NEW s \in TreeSlots
      PROVE  BlockAt(s)' = IF s = Here THEN block ELSE BlockAt(s)
  BY <1>1 DEF Fill, BlockAt, TypeOK, TreeSlots, Here
<1>3. Here \notin Live
  <2>1. Outdated(level, slot)
    BY <1>1 DEF Outdated, TypeOK, Levels, Slots
  <2> QED
    BY <1>1, <2>1, LiveIff DEF Here
<1>4. ASSUME NEW s \in TreeSlots
      PROVE  s \in Live' <=> s \in Live \/ (s = Here /\ block.id # Dummy)
  <2>0. level \in Levels
    BY DEF TypeOK
  <2>1. s = Here <=> s[1] = Path[req.leaf][level] /\ s[2] = slot
    BY DEF TreeSlots, Here
  <2>2. \A d \in Levels : s[1] = Path[req.leaf][d] /\ s[1] = Path[req.leaf][level] => d = level
    BY <2>0, OneLevel, ReqTypes
  <2>3. \A d \in Levels : Outdated(d, s[2])' <=> Outdated(d, s[2]) /\ ~(d = level /\ s[2] = slot)
    BY EvictRefreshes DEF TreeSlots
  <2>4. CASE s = Here
    BY <1>2, <1>3, <2>1, <2>2, <2>3, <2>4, LiveIff, LiveIffNext
  <2>5. CASE s # Here
    BY <1>1, <1>2, <2>1, <2>3, <2>5, LiveIff, LiveIffNext
  <2> QED
    BY <2>4, <2>5
<1>5. Live \subseteq TreeSlots /\ Live' \subseteq TreeSlots
  BY DEF Live
<1>6. Live' = IF block.id = Dummy THEN Live ELSE Live \cup {Here}
  BY <1>1, <1>4, <1>5
<1> QED
  BY <1>2, <1>3, <1>6
---------------------------------------------------------------------------
(* The stash and its current_size.                                          *)

\* Stash::insert adds its block or overwrites it, and counts it once.
LEMMA InsertSize ==
  ASSUME TypeOK, IsFiniteSet(Stashed), SizeCoversStash,
         NEW i \in Ids, NEW v \in Data, StashInsert(i, v)
  PROVE  /\ stash' \in [Ids -> Data \cup {Absent}]
         /\ currentSize' \in 0..StashSize
         /\ IsFiniteSet(Stashed')
         /\ Drift' = Drift
         /\ \A j \in Ids \ {i} : stash'[j] = stash[j]
<1> USE PathORAMAssumption, StashAssumption
<1>1. Cardinality(Stashed) \in Nat
  BY FS_CardinalityType
<1>2. CASE stash[i] = Absent /\ currentSize = StashSize
  BY <1>2 DEF StashInsert, TypeOK, Stashed, Drift
<1>3. CASE stash[i] = Absent /\ currentSize # StashSize
  <2>1. /\ stash' = [stash EXCEPT ![i] = v]
        /\ currentSize' = currentSize + 1
    BY <1>3 DEF StashInsert
  <2>2. Stashed' = Stashed \cup {i} /\ i \notin Stashed
    BY <1>3, <2>1 DEF Stashed, TypeOK
  <2>3. IsFiniteSet(Stashed') /\ Cardinality(Stashed') = Cardinality(Stashed) + 1
    BY <2>2, FS_AddElement
  <2>4. stash' \in [Ids -> Data \cup {Absent}] /\ \A j \in Ids \ {i} : stash'[j] = stash[j]
    BY <2>1 DEF TypeOK
  <2>5. currentSize \in 0..StashSize /\ currentSize' \in 0..StashSize
    BY <1>3, <2>1 DEF TypeOK
  <2>6. Drift' = Drift
    BY <1>1, <2>1, <2>3, <2>5 DEF Drift
  <2> QED
    BY <2>3, <2>4, <2>5, <2>6
<1>4. CASE stash[i] # Absent
  <2>1. /\ stash' = [stash EXCEPT ![i] = v]
        /\ currentSize' = currentSize
    BY <1>4 DEF StashInsert
  <2>2. Stashed' = Stashed
    BY <1>4, <2>1 DEF Stashed, TypeOK
  <2> QED
    BY <2>1, <2>2 DEF TypeOK, Drift
<1> QED
  BY <1>2, <1>3, <1>4

\* erase takes out its own block only: when current_size is 1, the list has no
\* other.
LEMMA EraseSize ==
  ASSUME TypeOK, IsFiniteSet(Stashed), SizeCoversStash,
         NEW i \in Stashed, StashErase(i)
  PROVE  /\ stash' = [stash EXCEPT ![i] = Absent]
         /\ currentSize' \in 0..StashSize
         /\ IsFiniteSet(Stashed')
         /\ Drift' = Drift
<1> USE PathORAMAssumption, StashAssumption
<1>1. /\ IsFiniteSet(Stashed \ {i})
      /\ Cardinality(Stashed \ {i}) = Cardinality(Stashed) - 1
      /\ Cardinality(Stashed) \in Nat
      /\ Cardinality(Stashed \ {i}) \in Nat
  BY FS_RemoveElement, FS_CardinalityType
<1>2. currentSize \in Nat /\ currentSize <= StashSize /\ currentSize >= Cardinality(Stashed)
  BY <1>1 DEF TypeOK, SizeCoversStash, Drift
<1>3. stash' = [stash EXCEPT ![i] = Absent]
  <2>1. CASE currentSize # 1
    BY <2>1 DEF StashErase
  <2>2. CASE currentSize = 1
    <3>1. Cardinality(Stashed \ {i}) = 0
      BY <1>1, <1>2, <2>2
    <3>2. Stashed \ {i} = {}
      BY <1>1, <3>1, FS_EmptySet
    <3>3. stash' = [j \in Ids |-> Absent]
      BY <2>2 DEF StashErase
    <3>4. \A j \in Ids : j # i => stash[j] = Absent
      BY <3>2 DEF Stashed
    <3>5. stash = [j \in Ids |-> stash[j]] /\ i \in Ids
      BY DEF Stashed, TypeOK
    <3> QED
      BY <3>3, <3>4, <3>5
  <2> QED
    BY <2>1, <2>2
<1>4. Stashed' = Stashed \ {i}
  BY <1>3 DEF Stashed, TypeOK
<1>5. currentSize' = currentSize - 1
  BY DEF StashErase
<1> QED
  BY <1>1, <1>2, <1>3, <1>4, <1>5 DEF Drift

\* erase stores through a null pointer only when current_size is above the list's length.
LEMMA CrashDrift ==
  ASSUME TypeOK, SizeCoversStash, NEW i \in Ids, EraseCrashes(i)
  PROVE  Drift > 0
<1>1. Cardinality(Stashed) = 1
  BY FS_Singleton DEF EraseCrashes
<1> QED
  BY <1>1, PathORAMAssumption, StashAssumption DEF EraseCrashes, TypeOK, SizeCoversStash, Drift

---------------------------------------------------------------------------
(* The inductive invariant.                                                 *)

\* The tree of dummies and the empty stash satisfy the invariant.
LEMMA InitIInv == Init => IInv
<1> SUFFICES ASSUME Init PROVE IInv
  OBVIOUS
<1> USE PathORAMAssumption, StashAssumption
<1>1. TypeOK
  BY DEF Init, StashInit, TypeOK, Requests, Blocks, Empty, Levels, Slots
<1>2. Stashed = {}
  BY DEF Init, StashInit, Stashed
<1>3. Live = {}
  BY DEF Init, StashInit, Live, BlockAt, TreeSlots, Empty
<1>4. IsFiniteSet(Stashed) /\ SizeCoversStash /\ CrashNeedsDrift
  BY <1>2, FS_EmptySet DEF Init, StashInit, SizeCoversStash, CrashNeedsDrift, Drift, Running
<1> QED
  BY <1>1, <1>3, <1>4 DEF Init, StashInit, IInv, OneCopy, OnItsPath, FetchedWhenServed, RequestedNotInTree

\* Remapping the block at the start of an access keeps the invariant.
LEMMA AccessIInv ==
  ASSUME IInv, NEW op \in {"read", "write"}, NEW i \in Ids, NEW v \in Data, Access(op, i, v)
  PROVE  IInv'
<1> USE PathORAMAssumption, StashAssumption
<1>0. TypeOK /\ phase = "idle" /\ phase' = "fetch" /\ Running /\ Running'
  BY DEF IInv, Access, Running
<1>1. TypeOK'
  BY <1>0 DEF Access, TypeOK, Requests, Levels, Slots
<1>2. Live' = Live
  BY <1>0, LiveSame DEF Access, Outdated, Levels, Slots
<1>3. \A j \in Ids : HomeLeaf(j)' = HomeLeaf(j)
  BY <1>0 DEF Access, HomeLeaf, TypeOK
<1>4. \A s \in Live : BlockAt(s)' = BlockAt(s) /\ BlockAt(s).id \in Ids
  BY <1>0 DEF Access, BlockAt, Live, TreeSlots, TypeOK, Blocks
<1>5. (IsFiniteSet(Stashed) /\ SizeCoversStash /\ CrashNeedsDrift)'
  BY <1>0 DEF IInv, Access, Stashed, SizeCoversStash, CrashNeedsDrift, Drift
<1>6. OneCopy' /\ OnItsPath'
  BY <1>0, <1>2, <1>3, <1>4 DEF IInv, OneCopy, OnItsPath, Access
<1>7. FetchedWhenServed'
  <2>1. \A d \in Levels, z \in Slots : ~Outdated(d, z)'
    BY <1>0 DEF Access, Outdated, Levels, Slots
  <2>2. Stale' = {}
    BY <2>1 DEF Stale
  <2> QED
    BY <2>2 DEF FetchedWhenServed
<1> QED
  BY <1>0, <1>1, <1>5, <1>6, <1>7 DEF IInv, RequestedNotInTree

\* Reading a slot of the path into the stash keeps the invariant.
LEMMA FetchSlotIInv ==
  ASSUME IInv, FetchSlot
  PROVE  IInv'
<1> USE PathORAMAssumption, StashAssumption
<1>0. /\ TypeOK /\ phase = "fetch" /\ Running /\ Running'
      /\ IsFiniteSet(Stashed) /\ SizeCoversStash
  BY DEF IInv, FetchSlot, Running
<1>1. Here \in TreeSlots /\ Current = BlockAt(Here) /\ Current \in Blocks
  BY <1>0, HereType DEF Current, BlockAt, Here, TreeSlots, TypeOK
<1>2. Live' = Live \ {Here} /\ UNCHANGED <<store, req>>
  BY <1>0, FetchLive
<1>3. \A s \in Live : s \in TreeSlots /\ BlockAt(s)' = BlockAt(s) /\ BlockAt(s).id \in Ids
  BY <1>0, <1>2 DEF BlockAt, Live, TreeSlots, TypeOK, Blocks
<1>4. Current.id # Dummy => Here \in Live
  <2>1. ~Outdated(level, slot)
    BY <1>0 DEF Outdated, TypeOK, Levels, Slots
  <2>2. \A d \in Levels : Here[1] = Path[req.leaf][d] => d = level
    BY <1>0, OneLevel, ReqTypes DEF Here, TypeOK
  <2> QED
    BY <1>1, <2>1, <2>2, LiveIff DEF Here
<1>5. /\ stash' \in [Ids -> Data \cup {Absent}]
      /\ currentSize' \in 0..StashSize
      /\ IsFiniteSet(Stashed')
      /\ Drift' = Drift
      /\ \A j \in Ids : j # Current.id => stash'[j] = stash[j]
  <2>1. CASE Current.id # Dummy
    <3>1. Current.id \in Ids /\ Current.data \in Data
      BY <1>1, <2>1 DEF Blocks
    <3>2. StashInsert(Current.id, Current.data)
      BY <2>1 DEF FetchSlot
    <3> QED
      BY <1>0, <3>1, <3>2, InsertSize
  <2>2. CASE Current.id = Dummy
    BY <1>0, <2>2 DEF FetchSlot, TypeOK, Stashed, Drift
  <2> QED
    BY <2>1, <2>2
<1>6. TypeOK'
  BY <1>0, <1>5 DEF FetchSlot, TypeOK, Levels, Slots
<1>7. SizeCoversStash' /\ CrashNeedsDrift'
  BY <1>0, <1>5 DEF SizeCoversStash, CrashNeedsDrift
<1>8. OneCopy'
  <2>1. \A s \in Live \ {Here} : BlockAt(s).id # Current.id
    BY <1>0, <1>1, <1>3, <1>4 DEF IInv, OneCopy
  <2> QED
    BY <1>0, <1>2, <1>3, <1>5, <2>1 DEF IInv, OneCopy
\* No slot off the path holds the block being accessed, and the whole path is
\* outdated once the loop has ended.
<1>9. ASSUME phase' = "serve", NEW s \in Live' PROVE BlockAt(s).id # req.id
  <2>1. s \in Live /\ s \in TreeSlots
    BY <1>2, <1>3
  <2>2. \A d \in Levels : s[1] # Path[req.leaf][d]
    BY <1>2, <1>9, <2>1, LiveIffNext DEF Outdated
  <2> QED
    BY <1>0, <2>1, <2>2 DEF IInv, OnItsPath, HomeLeaf
<1>10. OnItsPath'
  <2> SUFFICES ASSUME NEW s \in Live'
               PROVE  \E d \in Levels : s[1] = Path[HomeLeaf(BlockAt(s).id)'][d]
    BY <1>2, <1>3 DEF OnItsPath, HomeLeaf
  <2>1. s \in Live /\ \E d \in Levels : s[1] = Path[HomeLeaf(BlockAt(s).id)][d]
    BY <1>0, <1>2 DEF IInv, OnItsPath
  <2>2. position' = position /\ phase' \in {"fetch", "serve"}
    BY <1>0 DEF FetchSlot
  <2>3. BlockAt(s)' = BlockAt(s)
    BY <1>3, <2>1
  <2>4. HomeLeaf(BlockAt(s).id)' = HomeLeaf(BlockAt(s).id)
    BY <1>0, <1>2, <1>9, <2>2, <2>3 DEF HomeLeaf
  <2> QED
    BY <2>1, <2>4
<1>11. RequestedNotInTree'
  <2>1. phase' = "serve" => level' = Depth /\ slot' = 0
    BY <1>0 DEF FetchSlot, TypeOK, Levels
  <2> QED
    BY <1>2, <1>3, <1>9, <2>1 DEF RequestedNotInTree
\* The slot just passed is the only one to become outdated.
<1>12. FetchedWhenServed'
  <2> SUFFICES ASSUME NEW s \in Stale', BlockAt(s)'.id # Dummy, currentSize' # StashSize
               PROVE  stash'[BlockAt(s)'.id] = BlockAt(s)'.data
    BY DEF FetchedWhenServed
  <2>1. BlockAt(s)' = BlockAt(s)
    BY <1>2 DEF BlockAt
  <2>2. currentSize # StashSize
    BY <1>0 DEF FetchSlot, StashInsert, TypeOK
  <2>3. s \in Stale \/ s = Here
    <3>1. PICK d \in Levels, z \in Slots : s = <<Path[req'.leaf][d], z>> /\ Outdated(d, z)'
      <4>1. PICK t \in {t \in Levels \X Slots : Outdated(t[1], t[2])'} :
              s = <<Path[req'.leaf][t[1]], t[2]>>
        BY DEF Stale
      <4> QED
        BY <4>1
    <3>2. Outdated(d, z) \/ (d = level /\ z = slot)
      BY <1>0, <3>1 DEF FetchSlot, Outdated, TypeOK, Levels, Slots
    <3>3. CASE Outdated(d, z)
      <4>1. <<d, z>> \in {t \in Levels \X Slots : Outdated(t[1], t[2])}
        BY <3>3
      <4> QED
        BY <1>2, <3>1, <4>1 DEF Stale
    <3>4. CASE d = level /\ z = slot
      BY <1>2, <3>1, <3>4 DEF Here
    <3> QED
      BY <3>2, <3>3, <3>4
  <2>4. CASE s = Here
    <3>1. Current.id # Dummy /\ BlockAt(s) = Current /\ Current.id \in Ids
      BY <1>1, <2>1, <2>4 DEF Blocks
    <3> QED
      BY <1>0, <2>1, <2>2, <3>1 DEF FetchSlot, StashInsert, TypeOK
  <2>5. CASE s \in Stale
    <3>1. stash[BlockAt(s).id] = BlockAt(s).data /\ BlockAt(s).id # Dummy
      BY <1>0, <2>1, <2>2, <2>5 DEF IInv, FetchedWhenServed
    <3>2. s \in TreeSlots
      <4>1. PICK t \in Levels \X Slots : s = <<Path[req.leaf][t[1]], t[2]>>
        BY <2>5 DEF Stale
      <4> QED
        BY <1>0, <4>1, ReqTypes DEF TreeSlots
    <3>3. BlockAt(s).data \in Data /\ BlockAt(s).id \in Ids
      BY <1>0, <3>1, <3>2 DEF BlockAt, TreeSlots, TypeOK, Blocks
    <3>4. CASE BlockAt(s).id # Current.id
      BY <1>5, <2>1, <3>1, <3>3, <3>4
    <3>5. CASE BlockAt(s).id = Current.id
      <4>1. stash[Current.id] = Absent
        BY <1>0, <1>1, <1>4, <3>1, <3>5 DEF IInv, OneCopy
      <4> QED
        BY <3>1, <3>3, <3>5, <4>1
    <3> QED
      BY <3>4, <3>5
  <2> QED
    BY <2>3, <2>4, <2>5
<1> QED
  BY <1>5, <1>6, <1>7, <1>8, <1>10, <1>11, <1>12 DEF IInv

\* Serving changes the stash, at the block being accessed only.
LEMMA ServeIInv ==
  ASSUME IInv, ServeRead \/ ServeWrite
  PROVE  IInv'
<1> USE PathORAMAssumption, StashAssumption
<1>0. /\ TypeOK /\ phase = "serve" /\ phase' = "evict" /\ Running /\ Running'
      /\ UNCHANGED <<store, position, req, level, slot>>
      /\ IsFiniteSet(Stashed) /\ SizeCoversStash
      /\ level = Depth /\ slot = 0
  BY DEF IInv, ServeRead, ServeWrite, Running, RequestedNotInTree
<1>1. Live' = Live
  BY <1>0, LiveSame DEF Outdated, TypeOK, Levels, Slots
<1>2. \A s \in Live : BlockAt(s)' = BlockAt(s) /\ BlockAt(s).id \in Ids /\ BlockAt(s).id # req.id
  <2>1. \A s \in Live : BlockAt(s).id # req.id
    BY <1>0 DEF IInv, RequestedNotInTree
  <2>2. \A s \in Live : BlockAt(s)' = BlockAt(s)
    BY <1>0 DEF BlockAt
  <2> QED
    BY <1>0, <2>1, <2>2, LiveBlock
<1>3. /\ stash' \in [Ids -> Data \cup {Absent}]
      /\ currentSize' \in 0..StashSize
      /\ IsFiniteSet(Stashed')
      /\ Drift' = Drift
      /\ \A j \in Ids \ {req.id} : stash'[j] = stash[j]
      /\ out' \in Data /\ clears' = clears
  <2>1. CASE ServeRead
    BY <1>0, <2>1, ReqTypes DEF ServeRead, TypeOK, Stashed, Drift
  <2>2. CASE ServeWrite
    <3>1. StashInsert(req.id, req.data) /\ out' = out /\ clears' = clears
      BY <2>2 DEF ServeWrite
    <3> QED
      BY <1>0, <3>1, ReqTypes, InsertSize DEF TypeOK
  <2> QED
    BY <2>1, <2>2
<1>4. TypeOK'
  BY <1>0, <1>3 DEF TypeOK
<1>5. SizeCoversStash' /\ CrashNeedsDrift'
  BY <1>0, <1>3 DEF SizeCoversStash, CrashNeedsDrift
<1>6. OneCopy' /\ OnItsPath'
  BY <1>0, <1>1, <1>2, <1>3 DEF IInv, OneCopy, OnItsPath, HomeLeaf
<1> QED
  BY <1>0, <1>3, <1>4, <1>5, <1>6 DEF IInv, FetchedWhenServed, RequestedNotInTree

\* Writing a block of the stash back to the path keeps the invariant.
LEMMA EvictBlockIInv ==
  ASSUME IInv, NEW i \in Ids, EvictBlock(i)
  PROVE  IInv'
<1> USE PathORAMAssumption, StashAssumption
<1>0. /\ TypeOK /\ phase = "evict" /\ Running
      /\ UNCHANGED <<position, req, out, clears>>
      /\ IsFiniteSet(Stashed) /\ SizeCoversStash
      /\ i \in Stashed /\ stash[i] \in Data
      /\ Path[position[i]][level] = Path[req.leaf][level]
  BY DEF IInv, EvictBlock, Running, Eligible, Stashed, TypeOK
<1> DEFINE block == [id |-> i, data |-> stash[i]]
<1>1. block \in Blocks /\ block.id # Dummy /\ block.id = i /\ Fill(block)
  BY <1>0 DEF EvictBlock, Blocks
<1>2. store' \in [Buckets -> [Slots -> Blocks]]
  BY <1>0, <1>1 DEF Fill, TypeOK
<1>3. CASE EraseCrashes(i)
  <2>1. phase' = "crashed" /\ UNCHANGED <<stash, currentSize, level, slot>>
    BY <1>3 DEF EvictBlock
  <2>2. TypeOK'
    BY <1>0, <1>2, <2>1 DEF TypeOK
  <2>3. Drift' > 0 /\ Stashed' = Stashed /\ Drift' = Drift
    BY <1>0, <1>3, <2>1, CrashDrift DEF Drift, Stashed
  <2>4. SizeCoversStash' /\ CrashNeedsDrift'
    BY <1>0, <2>3 DEF SizeCoversStash, CrashNeedsDrift
  <2> QED
    BY <1>0, <2>1, <2>2, <2>3, <2>4
    DEF IInv, OneCopy, OnItsPath, FetchedWhenServed, RequestedNotInTree, Running
<1>4. CASE ~EraseCrashes(i)
  <2>1. StashErase(i) /\ EvictAdvance
    BY <1>4 DEF EvictBlock
  <2>2. /\ stash' = [stash EXCEPT ![i] = Absent]
        /\ currentSize' \in 0..StashSize
        /\ IsFiniteSet(Stashed')
        /\ Drift' = Drift
    BY <1>0, <2>1, EraseSize
  <2>3. /\ phase' \in {"evict", "idle"} /\ Running'
        /\ level' \in Levels /\ slot' \in Slots
    BY <1>0, <2>1 DEF EvictAdvance, TypeOK, Running, Levels, Slots
  <2>4. TypeOK'
    BY <1>0, <1>2, <2>2, <2>3 DEF TypeOK
  <2>5. SizeCoversStash' /\ CrashNeedsDrift'
    BY <1>0, <2>2, <2>3 DEF SizeCoversStash, CrashNeedsDrift
  <2>6. /\ Live' = Live \cup {Here} /\ Here \notin Live /\ Here \in TreeSlots
        /\ \A s \in TreeSlots : BlockAt(s)' = IF s = Here THEN block ELSE BlockAt(s)
    BY <1>0, <1>1, <2>1, EvictLive, HereType
  <2>7. \A s \in Live : /\ BlockAt(s)' = BlockAt(s) /\ BlockAt(s).id \in Ids
                        /\ BlockAt(s).id # i
                        /\ stash'[BlockAt(s).id] = Absent
    <3>1. \A s \in Live : BlockAt(s)' = BlockAt(s) /\ BlockAt(s).id \in Ids
      BY <1>0, <2>6, LiveBlock
    <3>2. \A s \in Live : stash[BlockAt(s).id] = Absent
      BY <1>0 DEF IInv, OneCopy
    <3> QED
      BY <1>0, <2>2, <3>1, <3>2 DEF Stashed, TypeOK
  <2>8. \A s \in Live' : s \in Live \/ (s = Here /\ BlockAt(s)' = block)
    BY <2>6
  <2>9. OneCopy'
    <3> SUFFICES ASSUME NEW s \in Live', NEW r \in Live'
                 PROVE  /\ stash'[BlockAt(s)'.id] = Absent
                        /\ BlockAt(r)'.id = BlockAt(s)'.id => r = s
      BY DEF OneCopy
    <3>1. stash'[i] = Absent
      BY <1>0, <2>2 DEF TypeOK
    <3>2. \A x \in Live' : \/ x = Here /\ BlockAt(x)'.id = i
                           \/ /\ x \in Live /\ BlockAt(x)'.id # i
                              /\ stash'[BlockAt(x)'.id] = Absent
      BY <1>1, <2>7, <2>8
    <3>3. CASE s \in Live /\ r \in Live
      BY <1>0, <2>7, <3>3 DEF IInv, OneCopy
    <3>4. CASE s = Here \/ r = Here
      BY <2>6, <3>1, <3>2, <3>4
    <3> QED
      BY <3>2, <3>3, <3>4
  <2>10. OnItsPath'
    <3> SUFFICES ASSUME NEW s \in Live'
                 PROVE  \E d \in Levels : s[1] = Path[position[BlockAt(s)'.id]][d]
      BY <1>0, <2>3 DEF OnItsPath, HomeLeaf
    <3>1. CASE s \in Live
      BY <1>0, <2>7, <3>1 DEF IInv, OnItsPath, HomeLeaf
    <3>2. CASE s = Here
      BY <1>0, <1>1, <2>6, <3>2 DEF Here, TypeOK
    <3> QED
      BY <2>8, <3>1, <3>2
  <2> QED
    BY <2>2, <2>3, <2>4, <2>5, <2>9, <2>10 DEF IInv, FetchedWhenServed, RequestedNotInTree
<1> QED
  BY <1>3, <1>4

\* Filling a slot of the path with a dummy keeps the invariant.
LEMMA EvictDummyIInv ==
  ASSUME IInv, EvictDummy
  PROVE  IInv'
<1> USE PathORAMAssumption, StashAssumption
<1>0. /\ TypeOK /\ phase = "evict" /\ Running /\ EvictAdvance
      /\ UNCHANGED <<position, stash, currentSize, req, out, clears>>
      /\ Fill(Empty) /\ Empty \in Blocks /\ Empty.id = Dummy
  BY DEF IInv, EvictDummy, Running, Empty, Blocks
<1>1. /\ phase' \in {"evict", "idle"} /\ Running'
      /\ level' \in Levels /\ slot' \in Slots
  BY <1>0 DEF EvictAdvance, TypeOK, Running, Levels, Slots
<1>2. TypeOK'
  BY <1>0, <1>1 DEF TypeOK, Fill
<1>3. Live' = Live /\ \A s \in Live : BlockAt(s)' = BlockAt(s)
  BY <1>0, EvictLive, LiveBlock
<1>4. (IsFiniteSet(Stashed) /\ SizeCoversStash)' /\ CrashNeedsDrift'
  BY <1>0, <1>1 DEF IInv, Stashed, SizeCoversStash, CrashNeedsDrift, Drift
<1>5. OneCopy'
  BY <1>0, <1>3 DEF IInv, OneCopy
<1>6. OnItsPath'
  BY <1>0, <1>1, <1>3 DEF IInv, OnItsPath, HomeLeaf
<1> QED
  BY <1>1, <1>2, <1>4, <1>5, <1>6 DEF IInv, FetchedWhenServed, RequestedNotInTree

\* STAT's clear() of tree, stash and position map keeps the invariant.
LEMMA ClearIInv ==
  ASSUME IInv, Clear
  PROVE  IInv'
<1>0. TypeOK /\ phase = "idle" /\ phase' = "idle" /\ Running'
  BY DEF IInv, Clear, StashClear, Running
<1>1. TypeOK'
  BY <1>0, PathORAMAssumption, StashAssumption DEF Clear, StashClear, TypeOK, Blocks, Empty
<1>2. Stashed' = {}
  BY DEF Clear, StashClear, Stashed
<1>3. Live' = {}
  BY DEF Clear, StashClear, Live, BlockAt, TreeSlots, Empty
<1>4. (IsFiniteSet(Stashed) /\ SizeCoversStash)' /\ CrashNeedsDrift'
  <2>1. currentSize' \in Nat
    BY <1>1, PathORAMAssumption, StashAssumption DEF TypeOK
  <2>2. IsFiniteSet(Stashed') /\ Cardinality(Stashed') = 0
    BY <1>2, FS_EmptySet
  <2>3. Cardinality(Stashed') \in Int /\ currentSize' >= Cardinality(Stashed')
    BY <2>1, <2>2
  <2>4. SizeCoversStash'
    BY <2>1, <2>3 DEF SizeCoversStash, Drift
  <2> QED
    BY <1>0, <2>2, <2>4 DEF CrashNeedsDrift
<1> QED
  BY <1>0, <1>1, <1>3, <1>4
  DEF IInv, OneCopy, OnItsPath, FetchedWhenServed, RequestedNotInTree

\* Every step keeps the invariant.
LEMMA NextIInv == IInv /\ [Next]_vars => IInv'
<1> SUFFICES ASSUME IInv, [Next]_vars PROVE IInv'
  OBVIOUS
<1>1. ASSUME NEW i \in Ids, Access("read", i, Zero) PROVE IInv'
  BY <1>1, AccessIInv, PathORAMAssumption, StashAssumption
<1>2. ASSUME NEW i \in Ids, NEW v \in Data, Access("write", i, v) PROVE IInv'
  BY <1>2, AccessIInv
<1>3. CASE FetchSlot
  BY <1>3, FetchSlotIInv
<1>4. CASE ServeRead \/ ServeWrite
  BY <1>4, ServeIInv
<1>5. ASSUME NEW i \in Ids, EvictBlock(i) PROVE IInv'
  BY <1>5, EvictBlockIInv
<1>6. CASE EvictDummy
  BY <1>6, EvictDummyIInv
<1>7. CASE Clear
  BY <1>7, ClearIInv
<1>8. CASE UNCHANGED vars
  <2> USE <1>8 DEF vars
  <2>1. TypeOK' /\ Running' = Running /\ Stashed' = Stashed /\ Drift' = Drift
    BY DEF IInv, TypeOK, Running, Stashed, Drift
  <2>2. Live' = Live
    BY DEF Live, Stale, Outdated, BlockAt
  <2>3. \A s : BlockAt(s)' = BlockAt(s)
    BY DEF BlockAt
  <2>4. \A i : HomeLeaf(i)' = HomeLeaf(i)
    BY DEF HomeLeaf
  <2>5. Stale' = Stale
    BY DEF Stale, Outdated
  <2>6. FetchedWhenServed'
    BY <2>3, <2>5 DEF IInv, FetchedWhenServed
  <2> QED
    BY <2>1, <2>2, <2>3, <2>4, <2>6
    DEF IInv, SizeCoversStash, CrashNeedsDrift, OneCopy, OnItsPath, RequestedNotInTree
<1> QED
  BY <1>1, <1>2, <1>3, <1>4, <1>5, <1>6, <1>7, <1>8 DEF Next

\* Every reachable state satisfies the inductive invariant.
THEOREM IInvHolds == Spec => []IInv
BY InitIInv, NextIInv, PTL DEF Spec

\* Tree, stash and position map stay well formed, and the walk on its path.
THEOREM TypeOKHolds == Spec => []TypeOK
<1>1. IInv => TypeOK
  BY DEF IInv
<1> QED
  BY <1>1, IInvHolds, PTL

\* A block is never in two slots of the tree, nor in the tree and the stash.
THEOREM OneCopyHolds == Spec => []OneCopy
<1>1. IInv => OneCopy
  BY DEF IInv
<1> QED
  BY <1>1, IInvHolds, PTL

\* A block in the tree is on the path that the next access to it fetches.
THEOREM OnItsPathHolds == Spec => []OnItsPath
<1>1. IInv => OnItsPath
  BY DEF IInv
<1> QED
  BY <1>1, IInvHolds, PTL

\* An access serves its request with every block of the path in the stash, unless
\* the stash is full.
THEOREM FetchedWhenServedHolds == Spec => []FetchedWhenServed
<1>1. IInv => FetchedWhenServed
  BY DEF IInv
<1> QED
  BY <1>1, IInvHolds, PTL

\* current_size never falls below the length of the list.
THEOREM SizeCoversStashHolds == Spec => []SizeCoversStash
<1>1. IInv => SizeCoversStash
  BY DEF IInv
<1> QED
  BY <1>1, IInvHolds, PTL

\* erase reads through a null pointer only when a clear() has left current_size
\* above the length of the list.
THEOREM CrashNeedsDriftHolds == Spec => []CrashNeedsDrift
<1>1. IInv => CrashNeedsDrift
  BY DEF IInv
<1> QED
  BY <1>1, IInvHolds, PTL

---------------------------------------------------------------------------
\* Every step but a clear keeps current_size as far from the list's length as it was.
LEMMA NextDrift == IInv /\ [Next]_vars => (clears' = clears => Drift' = Drift)
<1> SUFFICES ASSUME IInv, [Next]_vars, clears' = clears PROVE Drift' = Drift
  OBVIOUS
<1>0. TypeOK /\ IsFiniteSet(Stashed) /\ SizeCoversStash
  BY DEF IInv
<1>1. CASE UNCHANGED <<stash, currentSize>>
  BY <1>1 DEF Drift, Stashed
<1>2. CASE FetchSlot /\ Current.id # Dummy
  <2>1. Current \in Blocks
    BY <1>0, HereType DEF Current, TypeOK, Here, TreeSlots
  <2>2. Current.id \in Ids /\ Current.data \in Data
    BY <1>2, <2>1 DEF Blocks
  <2>3. StashInsert(Current.id, Current.data)
    BY <1>2 DEF FetchSlot
  <2> QED
    BY <1>0, <2>2, <2>3, InsertSize
<1>3. CASE ServeWrite
  BY <1>0, <1>3, InsertSize, ReqTypes DEF ServeWrite
<1>4. ASSUME NEW i \in Ids, EvictBlock(i), ~EraseCrashes(i) PROVE Drift' = Drift
  <2>1. i \in Stashed /\ StashErase(i)
    BY <1>4 DEF EvictBlock, Eligible
  <2> QED
    BY <1>0, <2>1, EraseSize
<1>5. CASE Clear
  <2>1. clears' = clears + 1 /\ clears \in Nat
    BY <1>0, <1>5, PathORAMAssumption, StashAssumption DEF Clear, StashClear, TypeOK
  <2> QED
    BY <2>1
<1> QED
  BY <1>1, <1>2, <1>3, <1>4, <1>5
  DEF Next, vars, Access, FetchSlot, ServeRead, EvictBlock, EvictDummy

\* No read or write makes current_size and the length of the list drift apart.
THEOREM OnlyClearDriftsHolds == Spec => OnlyClearDrifts
<1>1. IInv /\ [Next]_vars => [clears' = clears => Drift' = Drift]_vars
  BY NextDrift
<1> QED
  BY <1>1, IInvHolds, PTL DEF Spec, OnlyClearDrifts
---------------------------------------------------------------------------
(* The refinement of ArrayMemory                                            *)

\* Where the value of a block is read, when the block is in one place.
ContentsFacts ==
  /\ Contents = [i \in Ids |-> Contents[i]]
  /\ \A i \in Stashed : Contents[i] = stash[i]
  /\ \A s \in Live : Contents[BlockAt(s).id] = BlockAt(s).data
  /\ \A i \in Ids \ Stashed : (\A s \in Live : BlockAt(s).id # i) => Contents[i] = Zero

LEMMA IInvContents == IInv /\ Running => ContentsFacts
<1> SUFFICES ASSUME IInv, Running PROVE ContentsFacts
  OBVIOUS
<1>1. Contents = [i \in Ids |-> Contents[i]]
  BY DEF Contents
<1>2. \A i \in Stashed : Contents[i] = stash[i]
  BY DEF Contents, Stashed
<1>3. ASSUME NEW s \in Live PROVE Contents[BlockAt(s).id] = BlockAt(s).data
  <2>1. BlockAt(s).id \in Ids /\ stash[BlockAt(s).id] = Absent
    BY LiveBlock DEF IInv, OneCopy
  <2>2. (CHOOSE r \in Live : BlockAt(r).id = BlockAt(s).id) = s
    BY DEF IInv, OneCopy
  <2> QED
    BY <2>1, <2>2 DEF Contents
<1>4. ASSUME NEW i \in Ids \ Stashed, \A s \in Live : BlockAt(s).id # i
      PROVE  Contents[i] = Zero
  BY <1>4 DEF Contents, Stashed
<1> QED
  BY <1>1, <1>2, <1>3, <1>4 DEF ContentsFacts

LEMMA IInvContentsNext == IInv' /\ Running' => ContentsFacts'
BY IInvContents, PTL

\* A step that leaves every live slot alone keeps the contents but for the blocks
\* whose place in the stash it changes.
LEMMA ContentsSame ==
  ASSUME ContentsFacts, ContentsFacts', TypeOK, Live' = Live,
         \A s \in Live : BlockAt(s)' = BlockAt(s),
         NEW i \in Ids, stash'[i] = stash[i]
  PROVE  Contents'[i] = Contents[i]
<1>1. CASE i \in Stashed
  <2>1. i \in Stashed'
    BY <1>1 DEF Stashed
  <2> QED
    BY <1>1, <2>1 DEF ContentsFacts
<1>2. CASE i \notin Stashed
  <2>1. i \notin Stashed'
    BY <1>2 DEF Stashed
  <2>2. CASE \E s \in Live : BlockAt(s).id = i
    BY <2>2 DEF ContentsFacts
  <2>3. CASE \A s \in Live : BlockAt(s).id # i
    BY <1>2, <2>1, <2>3 DEF ContentsFacts
  <2> QED
    BY <2>2, <2>3
<1> QED
  BY <1>1, <1>2

\* Two arrays over the ids that agree everywhere are equal.
LEMMA ContentsEqual ==
  ASSUME ContentsFacts, ContentsFacts', \A i \in Ids : Contents'[i] = Contents[i]
  PROVE  Contents' = Contents
BY DEF ContentsFacts

\* An access begins without touching the contents.
LEMMA AccessMemory ==
  ASSUME IInv, IInv', NEW op, NEW i \in Ids, NEW v \in Data, Access(op, i, v)
  PROVE  Contents' = Contents
<1>1. /\ TypeOK /\ ContentsFacts /\ ContentsFacts' /\ UNCHANGED <<store, stash>>
      /\ phase = "idle" /\ phase' = "fetch"
  BY IInvContents, IInvContentsNext DEF IInv, Access, Running
<1>2. Live' = Live
  BY <1>1, LiveSame, PathORAMAssumption DEF Access, Outdated, Levels, Slots
<1>3. \A s \in Live : BlockAt(s)' = BlockAt(s)
  BY <1>1 DEF BlockAt
<1> QED
  BY <1>1, <1>2, <1>3, ContentsSame, ContentsEqual

\* Fetching a block moves it, or loses it to a full stash.
LEMMA FetchMemory ==
  ASSUME IInv, IInv', FetchSlot
  PROVE  Contents' = Contents \/ (Full /\ \E i \in Ids : Contents' = [Contents EXCEPT ![i] = Zero])
<1> USE PathORAMAssumption, StashAssumption
<1>0. TypeOK /\ phase = "fetch" /\ Running /\ ContentsFacts /\ ContentsFacts'
  BY IInvContents, IInvContentsNext DEF IInv, FetchSlot, Running
<1>1. Live' = Live \ {Here} /\ UNCHANGED <<store, req>>
  BY <1>0, FetchLive
<1>2. Here \in TreeSlots /\ Current = BlockAt(Here) /\ Current \in Blocks
  BY <1>0, HereType DEF Current, BlockAt, Here, TreeSlots, TypeOK
<1>3. \A s : BlockAt(s)' = BlockAt(s)
  BY <1>1 DEF BlockAt
<1>4. CASE Current.id = Dummy
  <2>1. Live' = Live
    BY <1>1, <1>2, <1>4 DEF Live
  <2>2. stash' = stash
    BY <1>4 DEF FetchSlot
  <2> QED
    BY <1>0, <1>3, <2>1, <2>2, ContentsSame, ContentsEqual
<1>5. CASE Current.id # Dummy
  <2>1. Current.id \in Ids /\ Current.data \in Data /\ StashInsert(Current.id, Current.data)
    BY <1>2, <1>5 DEF Blocks, FetchSlot
  <2>2. Here \in Live
    <3>1. ~Outdated(level, slot)
      BY <1>0 DEF Outdated, TypeOK, Levels, Slots
    <3>2. \A d \in Levels : Here[1] = Path[req.leaf][d] => d = level
      BY <1>0, OneLevel, ReqTypes DEF Here, TypeOK
    <3> QED
      BY <1>2, <1>5, <3>1, <3>2, LiveIff DEF Here
  <2>3. stash[Current.id] = Absent /\ Current.id \notin Stashed
    BY <1>0, <1>2, <2>2 DEF IInv, OneCopy, Stashed
  <2>4. \A s \in Live' : s \in Live /\ BlockAt(s).id # Current.id
    BY <1>0, <1>1, <1>2, <2>2 DEF IInv, OneCopy
  <2>5. \A j \in Ids : j # Current.id => stash'[j] = stash[j]
    BY <1>0, <2>1 DEF StashInsert, TypeOK
  <2>6. ASSUME NEW j \in Ids, j # Current.id PROVE Contents'[j] = Contents[j]
    <3>1. CASE j \in Stashed
      BY <1>0, <2>5, <2>6, <3>1 DEF ContentsFacts, Stashed
    <3>2. CASE j \notin Stashed /\ \E s \in Live : BlockAt(s).id = j
      <4>1. PICK s \in Live : BlockAt(s).id = j
        BY <3>2
      <4>2. s \in Live'
        BY <1>1, <1>2, <2>6, <4>1
      <4> QED
        BY <1>0, <1>3, <4>1, <4>2 DEF ContentsFacts
    <3>3. CASE j \notin Stashed /\ \A s \in Live : BlockAt(s).id # j
      <4>1. j \notin Stashed' /\ \A s \in Live' : BlockAt(s)'.id # j
        BY <1>3, <2>4, <2>5, <2>6, <3>3 DEF Stashed
      <4> QED
        BY <1>0, <3>3, <4>1 DEF ContentsFacts
    <3> QED
      BY <3>1, <3>2, <3>3
  <2>7. CASE currentSize # StashSize
    <3>1. stash'[Current.id] = Current.data /\ Current.id \in Stashed'
      BY <1>0, <2>1, <2>7 DEF StashInsert, TypeOK, Stashed
    <3>2. Contents'[Current.id] = Contents[Current.id]
      BY <1>0, <1>2, <2>2, <3>1 DEF ContentsFacts
    <3> QED
      BY <1>0, <2>6, <3>2, ContentsEqual
  <2>8. CASE currentSize = StashSize
    <3>1. Current.id \notin Stashed'
      BY <2>1, <2>3, <2>8 DEF StashInsert, Stashed
    <3>2. Contents'[Current.id] = Zero
      BY <1>0, <1>3, <2>1, <2>4, <3>1 DEF ContentsFacts
    <3>3. Contents' = [Contents EXCEPT ![Current.id] = Zero]
      BY <1>0, <2>1, <2>6, <3>2 DEF ContentsFacts
    <3> QED
      BY <2>1, <2>8, <3>3 DEF Full
  <2> QED
    BY <2>7, <2>8
<1> QED
  BY <1>4, <1>5

\* Serving a request reads or writes its block, unless a full stash has no room.
LEMMA ServeMemory ==
  ASSUME IInv, IInv', ServeRead \/ ServeWrite
  PROVE  Serves
<1> USE PathORAMAssumption, StashAssumption
<1>0. /\ TypeOK /\ phase = "serve" /\ phase' = "evict" /\ UNCHANGED <<store, req, level, slot>>
      /\ ContentsFacts /\ ContentsFacts' /\ level = Depth /\ slot = 0
      /\ \A s \in Live : BlockAt(s).id # req.id
      /\ req.id \in Ids /\ req.data \in Data
  BY IInvContents, IInvContentsNext, ReqTypes
     DEF IInv, ServeRead, ServeWrite, Running, RequestedNotInTree
<1>1. Live' = Live
  BY <1>0, LiveSame DEF Outdated, TypeOK, Levels, Slots
<1>2. \A s : BlockAt(s)' = BlockAt(s)
  BY <1>0 DEF BlockAt
<1>3. req.id \notin Stashed => Contents[req.id] = Zero
  BY <1>0 DEF ContentsFacts
<1>4. CASE ServeRead
  <2>1. out' = Contents[req.id]
    BY <1>0, <1>3, <1>4 DEF ServeRead, ContentsFacts, Stashed
  <2>2. Contents' = Contents
    BY <1>0, <1>1, <1>2, <1>4, ContentsSame, ContentsEqual DEF ServeRead
  <2> QED
    BY <1>4, <2>1, <2>2 DEF ServeRead, Serves, Memory!Read
<1>5. CASE ServeWrite
  <2>1. StashInsert(req.id, req.data) /\ out' = out /\ req.op = "write"
    BY <1>5 DEF ServeWrite
  <2>2. \A j \in Ids : j # req.id => stash'[j] = stash[j]
    BY <1>0, <2>1 DEF StashInsert, TypeOK
  <2>3. \A j \in Ids : j # req.id => Contents'[j] = Contents[j]
    BY <1>0, <1>1, <1>2, <2>2, ContentsSame
  <2>4. CASE stash[req.id] = Absent /\ currentSize = StashSize
    <3>1. req.id \notin Stashed'
      BY <2>1, <2>4 DEF StashInsert, Stashed
    <3>2. Contents'[req.id] = Zero
      BY <1>0, <1>1, <1>2, <3>1 DEF ContentsFacts
    <3>3. Contents' = [Contents EXCEPT ![req.id] = Zero]
      BY <1>0, <2>3, <3>2 DEF ContentsFacts
    <3> QED
      BY <2>1, <2>4, <3>3 DEF Serves, Full, Memory!Forget
  <2>5. CASE ~(stash[req.id] = Absent /\ currentSize = StashSize)
    <3>1. stash'[req.id] = req.data /\ req.id \in Stashed'
      BY <1>0, <2>1, <2>5 DEF StashInsert, Stashed, TypeOK
    <3>2. Contents'[req.id] = req.data
      BY <1>0, <3>1 DEF ContentsFacts
    <3>3. Contents' = [Contents EXCEPT ![req.id] = req.data]
      BY <1>0, <2>3, <3>2 DEF ContentsFacts
    <3> QED
      BY <2>1, <3>3 DEF Serves, Memory!Write
  <2> QED
    BY <2>4, <2>5
<1> QED
  BY <1>4, <1>5

\* Moving a block back to the tree, or clearing a slot there, keeps the contents.
LEMMA EvictMemory ==
  ASSUME IInv, IInv', Running', EvictDummy \/ \E i \in Ids : EvictBlock(i)
  PROVE  Contents' = Contents
<1> USE PathORAMAssumption, StashAssumption
<1>0. TypeOK /\ phase = "evict" /\ UNCHANGED req /\ ContentsFacts /\ ContentsFacts'
  BY IInvContents, IInvContentsNext DEF IInv, EvictDummy, EvictBlock, Running
<1>1. CASE EvictDummy
  <2>1. EvictAdvance /\ Fill(Empty) /\ Empty \in Blocks /\ Empty.id = Dummy /\ stash' = stash
    BY <1>1 DEF EvictDummy, Empty, Blocks
  <2>2. Live' = Live /\ \A s \in Live : BlockAt(s)' = BlockAt(s)
    BY <1>0, <2>1, EvictLive, LiveBlock
  <2> QED
    BY <1>0, <2>1, <2>2, ContentsSame, ContentsEqual
<1>2. ASSUME NEW i \in Ids, EvictBlock(i) PROVE Contents' = Contents
  <2> DEFINE block == [id |-> i, data |-> stash[i]]
  <2>1. /\ i \in Stashed /\ stash[i] \in Data
        /\ block \in Blocks /\ block.id # Dummy /\ block.id = i /\ Fill(block)
    BY <1>0, <1>2 DEF EvictBlock, Eligible, Stashed, TypeOK, Blocks
  <2>2. StashErase(i) /\ EvictAdvance
    BY <1>2 DEF EvictBlock, Running
  <2>3. stash' = [stash EXCEPT ![i] = Absent]
    BY <2>1, <2>2, EraseSize DEF IInv
  <2>4. /\ Live' = Live \cup {Here} /\ Here \notin Live /\ Here \in TreeSlots
        /\ \A s \in TreeSlots : BlockAt(s)' = IF s = Here THEN block ELSE BlockAt(s)
    BY <1>0, <2>1, <2>2, EvictLive, HereType
  <2>5. \A s \in Live : BlockAt(s)' = BlockAt(s) /\ BlockAt(s).id # i
    <3>1. \A s \in Live : BlockAt(s)' = BlockAt(s)
      BY <1>0, <2>4, LiveBlock
    <3>2. \A s \in Live : BlockAt(s).id # i
      BY <1>0, <2>1 DEF IInv, OneCopy, Running, Stashed
    <3> QED
      BY <3>1, <3>2
  <2>6. ASSUME NEW j \in Ids PROVE Contents'[j] = Contents[j]
    <3>1. CASE j = i
      <4>1. PICK s \in Live' : BlockAt(s)' = block
        BY <2>4
      <4>2. Contents'[BlockAt(s)'.id] = BlockAt(s)'.data
        BY <1>0 DEF ContentsFacts
      <4>3. Contents[i] = stash[i]
        BY <1>0, <2>1 DEF ContentsFacts
      <4> QED
        BY <3>1, <4>1, <4>2, <4>3
    <3>2. CASE j # i /\ j \in Stashed
      BY <1>0, <2>3, <3>2 DEF ContentsFacts, Stashed, TypeOK
    <3>3. CASE j # i /\ j \notin Stashed /\ \E s \in Live : BlockAt(s).id = j
      <4>1. PICK s \in Live : BlockAt(s).id = j
        BY <3>3
      <4> QED
        BY <1>0, <2>4, <2>5, <4>1 DEF ContentsFacts
    <3>4. CASE j # i /\ j \notin Stashed /\ \A s \in Live : BlockAt(s).id # j
      <4>1. j \notin Stashed' /\ \A s \in Live' : BlockAt(s)'.id # j
        BY <1>0, <2>1, <2>3, <2>4, <2>5, <3>4 DEF Stashed, TypeOK
      <4> QED
        BY <1>0, <3>4, <4>1 DEF ContentsFacts
    <3> QED
      BY <3>1, <3>2, <3>3, <3>4
  <2> QED
    BY <1>0, <2>6, ContentsEqual
<1> QED
  BY <1>1, <1>2

LEMMA ClearMemory ==
  ASSUME IInv, IInv', Clear
  PROVE  clears' # clears /\ Contents' = [i \in Ids |-> Zero] /\ out' = out
<1>1. ContentsFacts' /\ out' = out
  BY IInvContentsNext DEF Clear, Running
<1>2. Stashed' = {} /\ Live' = {}
  BY DEF Clear, StashClear, Stashed, Live, BlockAt, TreeSlots, Empty
<1>3. clears' # clears
  BY PathORAMAssumption DEF IInv, TypeOK, Clear
<1> QED
  BY <1>1, <1>2, <1>3 DEF ContentsFacts

\* read() and write() are those of an array that clear() empties: an access has its
\* effect once, when it serves its request, and only a full stash loses a value.
THEOREM ImplementsMemoryHolds == Spec => ImplementsMemory
<1> DEFINE MemoryStep ==
      Running' =>
         \/ phase = "serve" /\ Serves
         \/ phase # "serve" /\ clears' = clears /\ UNCHANGED Memory!vars
         \/ clears' # clears /\ Memory!Clear
         \/ phase = "fetch" /\ Full /\ \E i \in Ids : Memory!Forget(i)
<1>1. Init => Memory!Init
  <2> SUFFICES ASSUME Init PROVE Memory!Init
    OBVIOUS
  <2>1. ContentsFacts
    BY InitIInv, IInvContents DEF Init, Running
  <2>2. Stashed = {} /\ Live = {}
    BY DEF Init, StashInit, Stashed, Live, BlockAt, TreeSlots, Empty
  <2> QED
    BY <2>1, <2>2 DEF ContentsFacts, Init, Memory!Init
<1>2. IInv /\ IInv' /\ [Next]_vars => [MemoryStep]_vars
  <2> SUFFICES ASSUME IInv, IInv', Next, Running'
               PROVE  \/ phase = "serve" /\ Serves
                      \/ phase # "serve" /\ clears' = clears /\ UNCHANGED Memory!vars
                      \/ clears' # clears /\ Memory!Clear
                      \/ phase = "fetch" /\ Full /\ \E i \in Ids : Memory!Forget(i)
    OBVIOUS
  <2>1. ASSUME NEW op, NEW i \in Ids, NEW v \in Data, Access(op, i, v)
        PROVE  phase # "serve" /\ clears' = clears /\ UNCHANGED Memory!vars
    BY <2>1, AccessMemory DEF Access, Memory!vars
  <2>2. ASSUME FetchSlot
        PROVE  \/ phase # "serve" /\ clears' = clears /\ UNCHANGED Memory!vars
               \/ phase = "fetch" /\ Full /\ \E i \in Ids : Memory!Forget(i)
    BY <2>2, FetchMemory DEF FetchSlot, Memory!vars, Memory!Forget
  <2>3. ASSUME ServeRead \/ ServeWrite
        PROVE  phase = "serve" /\ Serves
    BY <2>3, ServeMemory DEF ServeRead, ServeWrite
  <2>4. ASSUME EvictDummy \/ \E i \in Ids : EvictBlock(i)
        PROVE  phase # "serve" /\ clears' = clears /\ UNCHANGED Memory!vars
    BY <2>4, EvictMemory DEF EvictDummy, EvictBlock, Memory!vars
  <2>5. ASSUME Clear
        PROVE  clears' # clears /\ Memory!Clear
    BY <2>5, ClearMemory DEF Memory!Clear
  <2> QED
    BY <2>1, <2>2, <2>3, <2>4, <2>5, PathORAMAssumption DEF Next
<1> QED
  BY <1>1, <1>2, IInvHolds, PTL DEF Spec, ImplementsMemory
---------------------------------------------------------------------------
(* get_dist                                                                 *)

\* Between two accesses, sending a block of the tree to its id is a bijection from the
\* blocks with value v to the counters outside the stash that hold v.
LEMMA DistBijection ==
  ASSUME IInv, phase = "idle", NEW v \in Data \ {Zero}
  PROVE  GetDist(v) = Cardinality({i \in Ids \ Stashed : Contents[i] = v})
<1> DEFINE S == {s \in TreeSlots : BlockAt(s).id # Dummy /\ BlockAt(s).data = v}
           T == {i \in Ids \ Stashed : Contents[i] = v}
           f == [s \in S |-> BlockAt(s).id]
<1>1. Running /\ ContentsFacts /\ TypeOK
  BY IInvContents DEF Running, IInv
<1>2. Live = {s \in TreeSlots : BlockAt(s).id # Dummy}
  <2>1. Stale = {}
    BY <1>1 DEF Stale, Outdated
  <2> QED
    BY <2>1 DEF Live
<1>3. IsFiniteSet(S)
  <2>1. IsFiniteSet(Slots) /\ IsFiniteSet(Buckets)
    BY FS_Interval, PathORAMAssumption DEF Slots
  <2>2. IsFiniteSet(TreeSlots)
    BY <2>1, FS_Product DEF TreeSlots
  <2> QED
    BY <2>2, FS_Subset
<1>4. \A s \in S : s \in Live /\ BlockAt(s).data = v
  BY <1>2
<1>5. f \in Injection(S, T)
  <2>1. \A s \in S : BlockAt(s).id \in Ids \ Stashed /\ Contents[BlockAt(s).id] = v
    BY <1>1, <1>4, LiveBlock DEF IInv, OneCopy, Stashed, ContentsFacts
  <2>2. \A r, s \in S : BlockAt(r).id = BlockAt(s).id => r = s
    BY <1>1, <1>4 DEF IInv, OneCopy
  <2>3. f \in [S -> T]
    BY <2>1
  <2> QED
    BY <2>2, <2>3 DEF Injection, IsInjective
<1>6. ASSUME NEW i \in T PROVE \E s \in S : f[s] = i
  <2>1. PICK s \in Live : BlockAt(s).id = i
    BY <1>1 DEF ContentsFacts
  <2>2. BlockAt(s).data = v
    BY <1>1, <2>1 DEF ContentsFacts
  <2> QED
    BY <1>2, <2>1, <2>2
<1>7. ExistsBijection(S, T)
  BY <1>5, <1>6 DEF ExistsBijection, Bijection, Surjection, Injection
<1> HIDE DEF S, T
<1>8. Cardinality(T) = Cardinality(S)
  BY <1>3, <1>7, FS_Bijection
<1> QED
  BY <1>8 DEF GetDist, S, T

\* get_dist counts every counter outside the stash once, under the value last written.
THEOREM DistIsHistogramHolds == Spec => []DistIsHistogram
<1>1. IInv => DistIsHistogram
  BY DistBijection DEF DistIsHistogram
<1> QED
  BY <1>1, IInvHolds, PTL
---------------------------------------------------------------------------
(* The tree of the code                                                     *)

\* What the loop of pow(2, n) leaves round by round.
Powers(f, n) ==
  /\ f \in [0..n -> Nat]
  /\ f[0] = 1
  /\ \A i \in 1..n : f[i] = 2 * f[i - 1]

LEMMA PowersExist == ASSUME NEW n \in Nat PROVE \E f : Powers(f, n)
<1> DEFINE step == [i \in 1..n |-> [p \in Nat |-> 2 * p]]
<1>1. step \in [1..n -> [Nat -> Nat]]
  OBVIOUS
<1>2. PICK f : Loop(f, n, Nat, 1, step)
  <2> HIDE DEF step
  <2> QED
    BY <1>1, Iterated
<1>3. f \in [0..n -> Nat] /\ f[0] = 1 /\ \A i \in 1..n : f[i] = step[i][f[i - 1]]
  <2> HIDE DEF step
  <2> QED
    BY <1>2 DEF Loop
<1>4. ASSUME NEW i \in 1..n PROVE f[i] = 2 * f[i - 1]
  <2>1. f[i - 1] \in Nat
    <3>1. i - 1 \in 0..n
      OBVIOUS
    <3> QED
      BY <1>3, <3>1
  <2>2. step[i][f[i - 1]] = 2 * f[i - 1]
    BY <2>1
  <2> QED
    BY <1>3, <2>2
<1> QED
  BY <1>3, <1>4 DEF Powers

\* pow(2, m) is what m rounds leave, of as many as one likes.
LEMMA TwoToIs ==
  ASSUME NEW n \in Nat, NEW f, Powers(f, n), NEW m \in 0..n
  PROVE  TwoTo(m) = f[m]
<1> DEFINE Is(p) == p = [k \in 0..m |-> IF k = 0 THEN 1 ELSE 2 * p[k - 1]]
           q == [k \in 0..m |-> f[k]]
<1>1. Is(q)
  <2>1. ASSUME NEW k \in 0..m PROVE q[k] = IF k = 0 THEN 1 ELSE 2 * q[k - 1]
    BY DEF Powers
  <2>2. q = [k \in 0..m |-> q[k]]
    OBVIOUS
  <2> HIDE DEF q
  <2> QED
    BY <2>1, <2>2
<1>2. PICK p : p = CHOOSE h : Is(h)
  OBVIOUS
<1>3. Is(p)
  <2> HIDE DEF Is, q
  <2> QED
    BY <1>1, <1>2
<1>4. TwoTo(m) = p[m]
  BY <1>2, Zenon DEF TwoTo
<1>5. \A k \in 0..m : p[k] = f[k]
  <2> DEFINE A == {k \in 0..m : p[k] = f[k]}
  <2>1. \A k \in 0..m : p[k] = IF k = 0 THEN 1 ELSE 2 * p[k - 1]
    BY <1>3
  <2>2. 0 \in A
    BY <2>1 DEF Powers
  <2>3. ASSUME NEW k \in 0..(m - 1), k \in A PROVE k + 1 \in A
    <3>1. k + 1 \in 0..m /\ k + 1 \in 1..n /\ k + 1 # 0 /\ k + 1 - 1 = k
      OBVIOUS
    <3>2. p[k + 1] = 2 * p[k]
      BY <2>1, <3>1
    <3>3. f[k + 1] = 2 * f[k]
      BY <3>1 DEF Powers
    <3> QED
      BY <2>3, <3>1, <3>2, <3>3
  <2> HIDE DEF A
  <2>4. 0..m \subseteq A
    BY <2>2, <2>3, UpTo
  <2> QED
    BY <2>4 DEF A
<1>6. m \in 0..m
  OBVIOUS
<1> QED
  BY <1>4, <1>5, <1>6

LEMMA TwoToStep ==
  ASSUME NEW n \in Nat
  PROVE  /\ TwoTo(0) = 1 /\ TwoTo(n) \in Nat \ {0}
         /\ TwoTo(n + 1) = 2 * TwoTo(n)
<1> DEFINE A == {m \in 0..n : TwoTo(m) # 0}
<1>1. PICK f : Powers(f, n + 1)
  BY PowersExist
<1>2. \A m \in 0..(n + 1) : TwoTo(m) = f[m] /\ f[m] \in Nat
  <2>1. n + 1 \in Nat /\ f \in [0..(n + 1) -> Nat]
    BY <1>1 DEF Powers
  <2> QED
    BY <1>1, <2>1, TwoToIs
<1>3. f[0] = 1 /\ \A m \in 0..n : f[m + 1] = 2 * f[m]
  BY <1>1 DEF Powers
<1>4. \A m \in 0..n : m \in 0..(n + 1) /\ m + 1 \in 0..(n + 1)
  OBVIOUS
<1>5. TwoTo(0) = 1 /\ \A m \in 0..n : TwoTo(m) \in Nat /\ TwoTo(m + 1) = 2 * TwoTo(m)
  BY <1>2, <1>3, <1>4
<1>6. 0..n \subseteq A
  <2>1. 0 \in A
    BY <1>5
  <2>2. ASSUME NEW m \in 0..(n - 1), m \in A PROVE m + 1 \in A
    BY <1>5, <2>2
  <2> HIDE DEF A
  <2> QED
    BY <2>1, <2>2, UpTo
<1> QED
  BY <1>5, <1>6

\* The buckets of level d.
LevelBuckets(d) == (TwoTo(d) - 1)..(2 * TwoTo(d) - 2)

LEMMA ParentLevel ==
  ASSUME NEW d \in Nat, NEW b \in LevelBuckets(d + 1)
  PROVE  b \in Nat /\ Parent(b) \in LevelBuckets(d)
<1>1. TwoTo(d) \in Nat \ {0} /\ TwoTo(d + 1) = 2 * TwoTo(d)
  BY TwoToStep
<1>2. b \in (2 * TwoTo(d) - 1)..(4 * TwoTo(d) - 2)
  BY <1>1 DEF LevelBuckets
<1>3. (b + 1) \div 2 \in TwoTo(d)..(2 * TwoTo(d) - 1)
  BY <1>1, <1>2
<1> QED
  BY <1>1, <1>2, <1>3 DEF LevelBuckets, Parent

\* Levels do not overlap, and lie within the tree.
LEMMA LevelsApart ==
  ASSUME NEW m \in Nat, NEW d \in 0..m
  PROVE  /\ TwoTo(d) <= TwoTo(m)
         /\ d < m => 2 * TwoTo(d) <= TwoTo(m)
         /\ LevelBuckets(d) \subseteq HeapBuckets(m)
         /\ d < m => LevelBuckets(d) \cap LevelBuckets(m) = {}
<1> DEFINE A == {i \in 0..(m - d) : TwoTo(d) <= TwoTo(d + i) /\ (i > 0 => 2 * TwoTo(d) <= TwoTo(d + i))}
<1>1. \A i \in Nat : TwoTo(i) \in Nat \ {0} /\ TwoTo(i + 1) = 2 * TwoTo(i)
  BY TwoToStep
<1>2. 0 \in A
  BY <1>1
<1>3. ASSUME NEW i \in 0..(m - d - 1), i \in A PROVE i + 1 \in A
  <2>1. d + i \in Nat /\ d + (i + 1) = (d + i) + 1 /\ i + 1 \in 0..(m - d)
    OBVIOUS
  <2>2. TwoTo(d + (i + 1)) = 2 * TwoTo(d + i) /\ TwoTo(d + i) \in Nat /\ TwoTo(d) \in Nat
    BY <1>1, <2>1
  <2> QED
    BY <1>3, <2>1, <2>2
<1>4. m - d \in A
  <2>1. 0..(m - d) \subseteq A
    <3>1. m - d \in Nat
      OBVIOUS
    <3> HIDE DEF A
    <3> QED
      BY <1>2, <1>3, <3>1, UpTo
  <2>2. m - d \in 0..(m - d)
    OBVIOUS
  <2> QED
    BY <2>1, <2>2
<1>5. TwoTo(d) <= TwoTo(m) /\ (d < m => 2 * TwoTo(d) <= TwoTo(m))
  <2>1. d + (m - d) = m
    OBVIOUS
  <2> QED
    BY <1>4, <2>1
<1>6. TwoTo(d) \in Nat \ {0} /\ TwoTo(m) \in Nat \ {0} /\ TwoTo(m + 1) = 2 * TwoTo(m)
  BY <1>1
<1> QED
  BY <1>5, <1>6 DEF LevelBuckets, HeapBuckets, BucketCount

\* The buckets of a path, from the leaf up.
Climb(f, leaf, depth) ==
  /\ f \in [0..depth -> Int]
  /\ f[0] = leaf + BucketCount(depth) \div 2
  /\ \A k \in 1..depth : f[k] = Parent(f[k - 1])

LEMMA ClimbExists ==
  ASSUME NEW depth \in Nat, NEW leaf \in Nat
  PROVE  \E f : Climb(f, leaf, depth)
<1> DEFINE step == [i \in 1..depth |-> [b \in Int |-> Parent(b)]]
           s == leaf + BucketCount(depth) \div 2
<1>1. step \in [1..depth -> [Int -> Int]]
  BY DEF Parent
<1>2. s \in Int
  BY TwoToStep DEF BucketCount
<1>3. PICK f : Loop(f, depth, Int, s, step)
  <2> HIDE DEF step, s
  <2> QED
    BY <1>1, <1>2, Iterated
<1>4. f \in [0..depth -> Int] /\ f[0] = s /\ \A i \in 1..depth : f[i] = step[i][f[i - 1]]
  <2> HIDE DEF step, s
  <2> QED
    BY <1>3 DEF Loop
<1>5. ASSUME NEW i \in 1..depth PROVE f[i] = Parent(f[i - 1])
  <2>1. f[i - 1] \in Int
    <3>1. i - 1 \in 0..depth
      OBVIOUS
    <3> QED
      BY <1>4, <3>1
  <2>2. step[i][f[i - 1]] = Parent(f[i - 1])
    BY <2>1
  <2> QED
    BY <1>4, <2>2
<1> QED
  BY <1>4, <1>5 DEF Climb

\* get_bucket_on_path takes the bucket of the level from the climb.
LEMMA BucketOnPathIs ==
  ASSUME NEW depth \in Nat, NEW leaf \in Nat
  PROVE  \E f : Climb(f, leaf, depth) /\ \A d \in 0..depth : BucketOnPath(leaf, d, depth) = f[depth - d]
<1> DEFINE Is(p) == p = [k \in 0..depth |-> IF k = 0 THEN leaf + BucketCount(depth) \div 2
                                                     ELSE Parent(p[k - 1])]
<1>1. PICK f : Climb(f, leaf, depth)
  BY ClimbExists
<1>2. Is(f)
  <2>1. ASSUME NEW k \in 0..depth
        PROVE  f[k] = IF k = 0 THEN leaf + BucketCount(depth) \div 2 ELSE Parent(f[k - 1])
    BY <1>1 DEF Climb
  <2> QED
    BY <1>1, <2>1 DEF Climb
<1>3. PICK p : p = CHOOSE h : Is(h)
  OBVIOUS
<1>4. Is(p)
  <2> HIDE DEF Is
  <2> QED
    BY <1>2, <1>3
<1>5. \A d \in 0..depth : BucketOnPath(leaf, d, depth) = p[depth - d]
  BY <1>3, Zenon DEF BucketOnPath
<1>6. \A k \in 0..depth : p[k] = IF k = 0 THEN leaf + BucketCount(depth) \div 2 ELSE Parent(p[k - 1])
  BY <1>4
<1> DEFINE A == {k \in 0..depth : p[k] = f[k]}
<1>7. 0..depth \subseteq A
  <2>1. 0 \in A
    BY <1>1, <1>6 DEF Climb
  <2>2. ASSUME NEW k \in 0..(depth - 1), k \in A PROVE k + 1 \in A
    <3>1. k + 1 \in 0..depth /\ k + 1 \in 1..depth /\ k + 1 # 0 /\ k + 1 - 1 = k
      OBVIOUS
    <3>2. p[k + 1] = Parent(p[k])
      BY <1>6, <3>1
    <3>3. f[k + 1] = Parent(f[k])
      BY <1>1, <3>1 DEF Climb
    <3> QED
      BY <2>2, <3>1, <3>2, <3>3
  <2> HIDE DEF A
  <2> QED
    BY <2>1, <2>2, UpTo
<1>8. \A d \in 0..depth : depth - d \in 0..depth
  OBVIOUS
<1> QED
  BY <1>1, <1>5, <1>7, <1>8

\* The bucket of a path at level d is one of that level, and its parent is the one before.
LEMMA PathByLevels ==
  ASSUME NEW depth \in Nat, NEW leaf \in HeapLeaves(depth)
  PROVE  /\ \A d \in 0..depth : BucketOnPath(leaf, d, depth) \in LevelBuckets(d)
         /\ \A d \in 1..depth :
              BucketOnPath(leaf, d - 1, depth) = Parent(BucketOnPath(leaf, d, depth))
<1>0. TwoTo(depth) \in Nat \ {0} /\ BucketCount(depth) \div 2 = TwoTo(depth) - 1
  <2>1. TwoTo(depth) \in Nat \ {0} /\ BucketCount(depth) = 2 * TwoTo(depth) - 1
    BY TwoToStep DEF BucketCount
  <2>2. ASSUME NEW p \in Nat \ {0} PROVE (2 * p - 1) \div 2 = p - 1
    OBVIOUS
  <2> QED
    BY <2>1, <2>2
<1>1. leaf \in 0..(TwoTo(depth) - 2)
  BY <1>0 DEF HeapLeaves
<1>2. PICK f : Climb(f, leaf, depth) /\ \A d \in 0..depth : BucketOnPath(leaf, d, depth) = f[depth - d]
  BY <1>1, BucketOnPathIs
<1> DEFINE A == {k \in 0..depth : f[k] \in LevelBuckets(depth - k)}
<1>3. 0..depth \subseteq A
  <2>1. 0 \in A
    BY <1>0, <1>1, <1>2 DEF Climb, LevelBuckets
  <2>2. ASSUME NEW k \in 0..(depth - 1), k \in A PROVE k + 1 \in A
    <3> DEFINE d == depth - (k + 1)
    <3>1. d \in Nat /\ d + 1 = depth - k /\ k + 1 \in 1..depth /\ k + 1 - 1 = k /\ k + 1 \in 0..depth
      OBVIOUS
    <3>2. f[k + 1] = Parent(f[k]) /\ f[k] \in LevelBuckets(d + 1)
      BY <1>2, <2>2, <3>1 DEF Climb
    <3>3. Parent(f[k]) \in LevelBuckets(d)
      BY <3>1, <3>2, ParentLevel
    <3> QED
      BY <3>1, <3>2, <3>3
  <2> HIDE DEF A
  <2> QED
    BY <2>1, <2>2, UpTo
<1>4. ASSUME NEW d \in 0..depth PROVE BucketOnPath(leaf, d, depth) \in LevelBuckets(d)
  <2>1. depth - d \in 0..depth /\ depth - (depth - d) = d
    OBVIOUS
  <2> QED
    BY <1>2, <1>3, <2>1
<1>5. ASSUME NEW d \in 1..depth
      PROVE  BucketOnPath(leaf, d - 1, depth) = Parent(BucketOnPath(leaf, d, depth))
  <2>1. /\ d \in 0..depth /\ d - 1 \in 0..depth /\ depth - (d - 1) \in 1..depth
        /\ depth - (d - 1) - 1 = depth - d
    OBVIOUS
  <2> QED
    BY <1>2, <2>1 DEF Climb
<1> QED
  BY <1>4, <1>5

\* The array that the code keeps its tree in has the shape that PathORAM asks for, at every
\* depth.
THEOREM HeapIsTree ==
  ASSUME NEW depth \in Nat \ {0}
  PROVE  IsTree(depth)
<1> DEFINE P(x, d) == BucketOnPath(x, d, depth)
           path == HeapPath(depth)
<1>1. HeapLeaves(depth) # {}
  <2>1. depth - 1 \in Nat /\ depth - 1 + 1 = depth
    OBVIOUS
  <2>2. TwoTo(depth - 1) \in Nat \ {0} /\ TwoTo(depth) = 2 * TwoTo(depth - 1)
    BY <2>1, TwoToStep
  <2>3. TwoTo(depth + 1) = 2 * TwoTo(depth)
    BY TwoToStep
  <2>4. BucketCount(depth) \div 2 - 1 >= 0
    BY <2>2, <2>3 DEF BucketCount
  <2> QED
    BY <2>4, <2>2, <2>3 DEF HeapLeaves, BucketCount
<1>2. IsFiniteSet(HeapBuckets(depth))
  <2>1. BucketCount(depth) - 1 \in Int
    BY TwoToStep DEF BucketCount
  <2> QED
    BY <2>1, FS_Interval DEF HeapBuckets
<1>3. \A x \in HeapLeaves(depth), d \in 0..depth : path[x][d] = P(x, d)
  BY DEF HeapPath
<1>4. \A x \in HeapLeaves(depth), d \in 0..depth :
        P(x, d) \in LevelBuckets(d) /\ LevelBuckets(d) \subseteq HeapBuckets(depth)
  BY PathByLevels, LevelsApart
<1>5. path \in [HeapLeaves(depth) -> [0..depth -> HeapBuckets(depth)]]
  <2> HIDE DEF P
  <2>1. path = [x \in HeapLeaves(depth) |-> [d \in 0..depth |-> P(x, d)]]
    BY DEF HeapPath, P
  <2> QED
    BY <1>4, <2>1
<1>6. ASSUME NEW x \in HeapLeaves(depth), NEW y \in HeapLeaves(depth),
             NEW d \in 0..depth, NEW e \in 0..depth, P(x, d) = P(y, e)
      PROVE  d = e
  <2>1. P(x, d) \in LevelBuckets(d) \cap LevelBuckets(e)
    <3> HIDE DEF P
    <3> QED
      BY <1>4, <1>6
  <2>2. CASE d < e
    BY <2>1, <2>2, LevelsApart
  <2>3. CASE e < d
    BY <2>1, <2>3, LevelsApart
  <2> QED
    BY <2>2, <2>3
<1>7. ASSUME NEW x \in HeapLeaves(depth), NEW y \in HeapLeaves(depth),
             NEW d \in 0..depth, P(x, d) = P(y, d), d # 0
      PROVE  P(x, d - 1) = P(y, d - 1)
  BY <1>7, PathByLevels
<1>8. ASSUME NEW x \in HeapLeaves(depth) PROVE P(x, 0) = 0
  <2>1. LevelBuckets(0) = {0}
    BY TwoToStep DEF LevelBuckets
  <2>2. 0 \in 0..depth
    OBVIOUS
  <2> QED
    BY <1>4, <2>1, <2>2
<1>9. \A d \in 0..depth : d # 0 => d - 1 \in 0..depth
  OBVIOUS
<1> HIDE DEF P, path
<1>10. \A x, y \in HeapLeaves(depth) : \A d, e \in 0..depth :
           /\ path[x][d] = path[y][e] => d = e
           /\ path[x][d] = path[y][d] => d = 0 \/ path[x][d - 1] = path[y][d - 1]
           /\ path[x][0] = 0
  BY <1>3, <1>6, <1>7, <1>8, <1>9
<1> QED
  BY <1>1, <1>2, <1>5, <1>10 DEF IsTree, path
=============================================================================
