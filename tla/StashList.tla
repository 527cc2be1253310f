----------------------------- MODULE StashList -----------------------------
(***************************************************************************)
(* Oblivious/Enclave/ORAM/Stash.h: the stash as the doubly linked list it  *)
(* is.  New nodes go to the bottom; prev leads from the top down, next     *)
(* back up.  The enclave has one thread, so one action is one call.        *)
(***************************************************************************)
EXTENDS Integers

CONSTANTS Nodes,      \* the addresses malloc can return
          NULL,       \* nullptr
          Ids, Data,  \* block ids and values
          Absent,     \* no value: the list has no such block
          Unset,      \* the content of a node that holds no block: nothing reads it
          StashSize   \* ORAM_STASH_SIZE

ASSUME StashListAssumption ==
  /\ NULL \notin Nodes
  /\ Absent \notin Data
  /\ StashSize \in Nat

VARIABLES top, bottom, currentSize,
          prev, next, block,  \* the fields of each node
          allocated,          \* the nodes malloc has given out
          crashed,            \* a store through a null pointer
          nodes, place        \* history: the nodes of the list, their index in it

links == <<top, bottom, prev, next>>
vars  == <<links, currentSize, block, allocated, crashed, nodes, place>>

\* The constructor.
Init ==
  /\ top = NULL /\ bottom = NULL
  /\ currentSize = 0
  /\ prev = [n \in Nodes |-> NULL]
  /\ next = [n \in Nodes |-> NULL]
  /\ block = [n \in Nodes |-> Unset]
  /\ allocated = {}
  /\ crashed = FALSE
  /\ nodes = {}
  /\ place = [n \in Nodes |-> 0]

\* What every loop over the stash visits: from get_start along prev.
Listed ==
  {n \in Nodes :
     \A S \in SUBSET Nodes :
       (top \in S \cup {NULL} /\ \A m \in S : prev[m] \in S \cup {NULL}) => n \in S}

\* insert of a block that is in the list: every node with its id gets the value.
Overwrite(i, v) ==
  /\ \E n \in Listed : block[n].id = i
  /\ block' = [n \in Nodes |-> IF n \in Listed /\ block[n].id = i
                               THEN [id |-> i, data |-> v] ELSE block[n]]
  /\ UNCHANGED <<links, currentSize, allocated, crashed, nodes, place>>

\* Mutant: the node that was the bottom does not learn of the new one.
AttachUnlinked(n) ==
  /\ bottom' = n
  /\ top' = IF bottom = NULL THEN n ELSE top
  /\ prev' = [prev EXCEPT ![n] = NULL]
  /\ next' = [next EXCEPT ![n] = bottom]
  /\ nodes' = nodes \cup {n}
  /\ place' = [place EXCEPT ![n] = IF bottom = NULL THEN 0 ELSE place[bottom] + 1]

\* A new node becomes the bottom.
Attach(n) ==
  /\ bottom' = n
  /\ top' = IF bottom = NULL THEN n ELSE top
  /\ prev' = [m \in Nodes |-> IF m = n THEN NULL ELSE IF m = bottom THEN n ELSE prev[m]]
  /\ next' = [next EXCEPT ![n] = bottom]
  /\ nodes' = nodes \cup {n}
  /\ place' = [place EXCEPT ![n] = IF bottom = NULL THEN 0 ELSE place[bottom] + 1]

\* insert of a block that is not in the list: the node is made before the stash is
\* found full, and then neither used nor freed.
Add(i, v) ==
  /\ \A n \in Listed : block[n].id # i
  /\ \E n \in Nodes \ allocated :
       /\ allocated' = allocated \cup {n}
       /\ IF currentSize = StashSize
          THEN /\ prev' = [prev EXCEPT ![n] = NULL]
               /\ next' = [next EXCEPT ![n] = NULL]
               /\ UNCHANGED <<top, bottom, currentSize, block, nodes, place>>
          ELSE /\ block' = [block EXCEPT ![n] = [id |-> i, data |-> v]]
               /\ Attach(n)
               /\ currentSize' = currentSize + 1
  /\ UNCHANGED crashed

Insert(i, v) == ~crashed /\ (Overwrite(i, v) \/ Add(i, v))

\* The history of a list that loses node n.
Closed(n) ==
  /\ nodes' = nodes \ {n}
  /\ place' = [m \in Nodes |-> IF place[m] > place[n] THEN place[m] - 1
                               ELSE IF m = n THEN 0 ELSE place[m]]

\* "only one node": both ends are reset.
Unlink1(n) ==
  /\ currentSize = 1
  /\ top' = NULL /\ bottom' = NULL
  /\ Closed(n)
  /\ UNCHANGED <<prev, next>>

\* The head node; not for a head that is the bottom as well, see EraseCrash.
UnlinkHead(n) ==
  /\ currentSize # 1
  /\ next[n] = NULL /\ prev[n] # NULL
  /\ top' = prev[n]
  /\ next' = [next EXCEPT ![prev[n]] = NULL]
  /\ Closed(n)
  /\ UNCHANGED <<bottom, prev>>

UnlinkBottom(n) ==
  /\ currentSize # 1
  /\ next[n] # NULL /\ prev[n] = NULL
  /\ bottom' = next[n]
  /\ prev' = [prev EXCEPT ![next[n]] = NULL]
  /\ Closed(n)
  /\ UNCHANGED <<top, next>>

\* Mutant: the link back up still leads to the freed node.
UnlinkMiddleOneWay(n) ==
  /\ currentSize # 1
  /\ next[n] # NULL /\ prev[n] # NULL
  /\ prev' = [prev EXCEPT ![next[n]] = prev[n]]
  /\ Closed(n)
  /\ UNCHANGED <<top, bottom, next>>

UnlinkMiddle(n) ==
  /\ currentSize # 1
  /\ next[n] # NULL /\ prev[n] # NULL
  /\ prev' = [prev EXCEPT ![next[n]] = prev[n]]
  /\ next' = [next EXCEPT ![prev[n]] = next[n]]
  /\ Closed(n)
  /\ UNCHANGED <<top, bottom>>

\* erase, of a node that a loop over the stash came by
Erase(n) ==
  /\ ~crashed
  /\ n \in Listed
  /\ Unlink1(n) \/ UnlinkHead(n) \/ UnlinkBottom(n) \/ UnlinkMiddle(n)
  /\ allocated' = allocated \ {n}
  /\ block' = [block EXCEPT ![n] = Unset]
  /\ currentSize' = currentSize - 1
  /\ UNCHANGED crashed

\* erase of the head when no node is below it and current_size is not 1:
\* top = nullptr, then top->next.
EraseCrash(n) ==
  /\ ~crashed
  /\ n \in Listed
  /\ currentSize # 1
  /\ next[n] = NULL /\ prev[n] = NULL
  /\ crashed' = TRUE
  /\ UNCHANGED <<links, currentSize, block, allocated, nodes, place>>

\* Mutant: the ends are not reset.
ClearKeepsBottom ==
  /\ ~crashed
  /\ allocated' = allocated \ Listed
  /\ block' = [n \in Nodes |-> IF n \in Listed THEN Unset ELSE block[n]]
  /\ top' = NULL
  /\ nodes' = {}
  /\ place' = [n \in Nodes |-> 0]
  /\ UNCHANGED <<bottom, prev, next, currentSize, crashed>>

\* clear: every node of the list is freed; current_size stays as it was.
Clear ==
  /\ ~crashed
  /\ allocated' = allocated \ Listed
  /\ block' = [n \in Nodes |-> IF n \in Listed THEN Unset ELSE block[n]]
  /\ top' = NULL /\ bottom' = NULL
  /\ nodes' = {}
  /\ place' = [n \in Nodes |-> 0]
  /\ UNCHANGED <<prev, next, currentSize, crashed>>

Next ==
  \/ \E i \in Ids, v \in Data : Insert(i, v)
  \/ \E n \in Nodes : Erase(n) \/ EraseCrash(n)
  \/ Clear

Spec == Init /\ [][Next]_vars

---------------------------------------------------------------------------
\* Links lead to nodes or nowhere, and only nodes that malloc gave out are in the
\* list (Stash.h never follows a link into freed memory).
TypeOK ==
  /\ top \in nodes \cup {NULL} /\ bottom \in nodes \cup {NULL}
  /\ prev \in [Nodes -> Nodes \cup {NULL}]
  /\ next \in [Nodes -> Nodes \cup {NULL}]
  /\ \A n \in nodes : block[n] \in [id : Ids, data : Data]
  /\ block \in [Nodes -> [id : Ids, data : Data] \cup {Unset}]
  /\ currentSize \in 0..StashSize
  /\ allocated \subseteq Nodes /\ nodes \subseteq allocated
  /\ place \in [Nodes -> Nat]
  /\ crashed \in BOOLEAN

\* A node is one place below the node that next names, one above the one that
\* prev names; the ends are the top and the bottom.
Linked ==
  /\ top = NULL <=> nodes = {}
  /\ bottom = NULL <=> nodes = {}
  /\ \A n \in nodes :
       /\ next[n] = NULL <=> n = top
       /\ prev[n] = NULL <=> n = bottom
       /\ next[n] # NULL => /\ next[n] \in nodes /\ prev[next[n]] = n
                            /\ place[n] = place[next[n]] + 1
       /\ prev[n] # NULL => /\ prev[n] \in nodes /\ next[prev[n]] = n

\* The places are 0 at the top to, at the bottom, less than current_size.
Placed ==
  /\ nodes # {} => place[top] = 0 /\ place[bottom] < currentSize
  /\ \A n \in nodes : place[n] <= place[bottom]
  /\ \A m, n \in nodes : place[m] = place[n] => m = n

\* No two nodes hold the same block: insert finds the one that does.
OneNodePerId == \A m, n \in nodes : block[m].id = block[n].id => m = n

\* The inductive invariant.
IInv == TypeOK /\ Linked /\ Placed /\ OneNodePerId

\* A loop from get_start along prev visits exactly the nodes that were inserted and
\* not erased since: no call cuts a part of the list off, whatever was erased from it
\* before, and none leaves a freed node in it.
WalkVisitsNodes == Listed = nodes

---------------------------------------------------------------------------
(* The refinement of StashMap                                               *)

\* What search finds.
Found(i) ==
  IF \E n \in Listed : block[n].id = i
  THEN block[CHOOSE n \in Listed : block[n].id = i].data
  ELSE Absent

Map == INSTANCE StashMap WITH stash <- [i \in Ids |-> Found(i)]

\* The list behaves as the map that PathORAM works on: each call changes what search
\* finds, and current_size, as the same call on the map does, and erase crashes
\* exactly where the map says so.
ImplementsMap ==
  /\ Map!StashInit
  /\ [][\/ \E i \in Ids, v \in Data : Insert(i, v) /\ Map!StashInsert(i, v)
        \/ \E n \in Nodes :
             \/ Erase(n) /\ ~Map!EraseCrashes(block[n].id) /\ Map!StashErase(block[n].id)
             \/ EraseCrash(n) /\ Map!EraseCrashes(block[n].id)
        \/ Clear /\ Map!StashClear]_vars
=============================================================================
