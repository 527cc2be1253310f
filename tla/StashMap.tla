------------------------------ MODULE StashMap ------------------------------
(***************************************************************************)
(* What PathORAM.h expects of Stash.h: a partial map from block ids to     *)
(* values, with a count current_size that insert and erase go by.  The ids *)
(* of the list are distinct (insert searches it first), so a map it is;    *)
(* StashList shows that the linked list behaves like this.                 *)
(***************************************************************************)
EXTENDS Integers, FiniteSets

CONSTANTS Ids,        \* the block ids in use: the sketch's counter indices
          Data,       \* the values of a block
          Absent,     \* no value: the stash has no such block
          StashSize   \* ORAM_STASH_SIZE

ASSUME StashAssumption ==
  /\ StashSize \in Nat
  /\ Absent \notin Data

VARIABLES stash,        \* the value of each block in the stash
          currentSize   \* current_size

Stashed == {i \in Ids : stash[i] # Absent}

\* The constructor.
StashInit ==
  /\ stash = [i \in Ids |-> Absent]
  /\ currentSize = 0

\* clear: the list is freed, its current_size stays as it was.
StashClear ==
  /\ stash' = [i \in Ids |-> Absent]
  /\ UNCHANGED currentSize

\* Mutant: insert does not count the new block.
StashInsertUncounted(i, v) ==
  IF stash[i] = Absent /\ currentSize = StashSize
  THEN UNCHANGED <<stash, currentSize>>
  ELSE /\ stash' = [stash EXCEPT ![i] = v]
       /\ UNCHANGED currentSize

\* insert: overwrite the block if it is there; drop it if the stash is full.
StashInsert(i, v) ==
  IF stash[i] = Absent /\ currentSize = StashSize
  THEN UNCHANGED <<stash, currentSize>>
  ELSE /\ stash' = [stash EXCEPT ![i] = v]
       /\ currentSize' = IF stash[i] = Absent THEN currentSize + 1 ELSE currentSize

\* Mutant: the case of a single block is not told apart.
EraseHeadUnguarded(i) == Stashed = {i}

\* erase of the head follows del_block->prev, which is null when the block is
\* the only one; the case current_size = 1, tested first, is meant to be that.
EraseCrashes(i) == currentSize # 1 /\ Stashed = {i}

\* Mutant: the erased block stays counted.
StashEraseUncounted(i) ==
  /\ stash' = IF currentSize = 1
              THEN [j \in Ids |-> Absent]
              ELSE [stash EXCEPT ![i] = Absent]
  /\ UNCHANGED currentSize

\* erase: with current_size 1 the whole list goes, otherwise the block.
StashErase(i) ==
  /\ stash' = IF currentSize = 1
              THEN [j \in Ids |-> Absent]
              ELSE [stash EXCEPT ![i] = Absent]
  /\ currentSize' = currentSize - 1
=============================================================================
