--------------------------- MODULE StashListProofs ---------------------------
(***************************************************************************)
(* Proofs about StashList, for any number of nodes and any stash size: the *)
(* list stays well linked, a walk over it visits its nodes, and it is the  *)
(* map of StashMap.                                                        *)
(*                                                                         *)
(* WalkVisitsNodes speaks of reachability, and is not inductive; IInv is,  *)
(* because the history variable place says where in the list a node is.    *)
(***************************************************************************)
EXTENDS StashList, WellFoundedInduction, TLAPS

\* A non-empty set of naturals has a least member.
LEMMA LeastNatural ==
  ASSUME NEW T \in SUBSET Nat, T # {}
  PROVE  \E k \in T : \A j \in T : k <= j
<1> DEFINE Less == {p \in Nat \X Nat : p[1] < p[2]}
<1>1. IsWellFoundedOn(Less, Nat)
  BY NatLessThanWellFounded, Zenon DEF OpToRel
<1>2. \E k \in T : \A j \in T : ~(<<j, k>> \in Less)
  <2> HIDE DEF Less
  <2> QED
    BY <1>1, WFMin, Zenon
<1>3. PICK k \in T : \A j \in T : ~(<<j, k>> \in Less)
  BY <1>2
<1>4. ASSUME NEW j \in T PROVE k <= j
  <2>1. k \in Nat /\ j \in Nat /\ ~(<<j, k>> \in Less)
    BY <1>3
  <2>2. ~(j < k)
    BY <2>1
  <2> QED
    BY <2>1, <2>2
<1> QED
  BY <1>4

\* The walk stays in the list and reaches every node of it, the one nearest to the
\* top that it could miss being the next of one that it does not miss.
LEMMA WalkIsList ==
  ASSUME TypeOK, Linked, Placed
  PROVE  Listed = nodes
<1> USE StashListAssumption
<1>1. nodes \in SUBSET Nodes /\ NULL \notin nodes
  BY DEF TypeOK
<1>2. Listed \subseteq nodes
  <2>1. top \in nodes \cup {NULL} /\ \A m \in nodes : prev[m] \in nodes \cup {NULL}
    BY DEF TypeOK, Linked
  <2> QED
    BY <1>1, <2>1 DEF Listed
<1>3. ASSUME NEW S \in SUBSET Nodes, top \in S \cup {NULL},
             \A m \in S : prev[m] \in S \cup {NULL}, nodes \ S # {}
      PROVE  FALSE
  <2> DEFINE T == {place[n] : n \in nodes \ S}
  <2>1. T \in SUBSET Nat /\ T # {}
    BY <1>1, <1>3 DEF TypeOK
  <2> HIDE DEF T
  <2>2. PICK k \in T : \A j \in T : k <= j
    BY <2>1, LeastNatural
  <2>3. PICK n \in nodes \ S : place[n] = k
    BY <2>2 DEF T
  <2>4. \A m \in nodes \ S : place[n] <= place[m]
    BY <2>2, <2>3 DEF T
  <2>5. n # top
    BY <1>1, <1>3, <2>3
  <2>6. next[n] \in nodes /\ prev[next[n]] = n /\ place[n] = place[next[n]] + 1
    BY <2>3, <2>5 DEF Linked
  <2>7. next[n] \in S
    BY <1>1, <2>3, <2>4, <2>6 DEF TypeOK
  <2> QED
    BY <1>1, <1>3, <2>3, <2>6, <2>7
<1> QED
  BY <1>1, <1>2, <1>3 DEF Listed

\* The first node of a list is its only one if it is the last one as well.
LEMMA OnlyNode ==
  ASSUME IInv, NEW n \in nodes, place[bottom] = 0
  PROVE  nodes = {n} /\ top = n /\ bottom = n
<1>1. \A m \in nodes : place[m] = 0
  BY DEF IInv, TypeOK, Placed
<1>2. \A m \in nodes : m = n
  BY <1>1 DEF IInv, Placed
<1> QED
  BY <1>2 DEF IInv, TypeOK, Linked

---------------------------------------------------------------------------
(* The invariant                                                            *)

LEMMA InitIInv == Init => IInv
<1> SUFFICES ASSUME Init PROVE IInv
  OBVIOUS
<1> USE StashListAssumption DEF Init
<1>1. TypeOK
  <2>2. /\ prev \in [Nodes -> Nodes \cup {NULL}]
        /\ next \in [Nodes -> Nodes \cup {NULL}]
    OBVIOUS
  <2>3. block \in [Nodes -> [id : Ids, data : Data] \cup {Unset}]
    OBVIOUS
  <2>4. place \in [Nodes -> Nat]
    OBVIOUS
  <2>5. crashed \in BOOLEAN
    OBVIOUS
  <2>6. currentSize \in 0..StashSize /\ nodes = {} /\ allocated \subseteq Nodes
    OBVIOUS
  <2> QED
    BY <2>2, <2>3, <2>4, <2>5, <2>6, Zenon DEF TypeOK
<1>2. Linked /\ Placed /\ OneNodePerId
  BY DEF Linked, Placed, OneNodePerId
<1> QED
  BY <1>1, <1>2 DEF IInv

\* Overwriting a block's value leaves the links alone.
LEMMA OverwriteIInv ==
  ASSUME IInv, NEW i \in Ids, NEW v \in Data, Overwrite(i, v)
  PROVE  IInv'
<1> USE StashListAssumption DEF Overwrite, links
<1>0. Listed = nodes
  BY WalkIsList DEF IInv
<1>1. TypeOK'
  BY <1>0 DEF IInv, TypeOK
<1>2. Linked' /\ Placed'
  BY DEF IInv, Linked, Placed
<1>3. \A n \in nodes : block'[n].id = block[n].id
  BY <1>0 DEF IInv, TypeOK
<1>4. OneNodePerId'
  BY <1>3 DEF IInv, OneNodePerId
<1> QED
  BY <1>1, <1>2, <1>4 DEF IInv

\* A new node at the bottom, or one that the full stash does not take.
LEMMA AddIInv ==
  ASSUME IInv, NEW i \in Ids, NEW v \in Data, Add(i, v)
  PROVE  IInv'
<1> USE StashListAssumption
<1>0. Listed = nodes
  BY WalkIsList DEF IInv
<1>1. PICK n \in Nodes \ allocated :
        /\ allocated' = allocated \cup {n}
        /\ IF currentSize = StashSize
           THEN /\ prev' = [prev EXCEPT ![n] = NULL]
                /\ next' = [next EXCEPT ![n] = NULL]
                /\ UNCHANGED <<top, bottom, currentSize, block, nodes, place>>
           ELSE /\ block' = [block EXCEPT ![n] = [id |-> i, data |-> v]]
                /\ Attach(n)
                /\ currentSize' = currentSize + 1
  BY DEF Add
<1>2. n \notin nodes /\ n # NULL /\ crashed' = crashed /\ \A m \in nodes : block[m].id # i
  BY <1>0 DEF IInv, TypeOK, Add
<1>3. CASE currentSize = StashSize
  <2>1. TypeOK'
    BY <1>1, <1>2, <1>3 DEF IInv, TypeOK
  <2>2. \A m \in nodes : prev'[m] = prev[m] /\ next'[m] = next[m]
    BY <1>1, <1>2, <1>3 DEF IInv, TypeOK
  <2>3. Linked'
    BY <1>1, <1>2, <1>3, <2>2 DEF IInv, TypeOK, Linked
  <2> QED
    BY <1>1, <1>3, <2>1, <2>3 DEF IInv, Placed, OneNodePerId
<1>4. CASE currentSize # StashSize
  <2> USE <1>1, <1>2, <1>4 DEF Attach
  <2>1. TypeOK'
    BY DEF IInv, TypeOK
  <2>2. Linked'
    BY DEF IInv, TypeOK, Linked
  <2>3. Placed'
    BY DEF IInv, TypeOK, Linked, Placed
  <2>4. OneNodePerId'
    BY DEF IInv, TypeOK, OneNodePerId
  <2> QED
    BY <2>1, <2>2, <2>3, <2>4 DEF IInv
<1> QED
  BY <1>3, <1>4

\* Each way of unlinking a node leaves a list of the others.
LEMMA EraseIInv ==
  ASSUME IInv, NEW n \in Nodes, Erase(n)
  PROVE  IInv'
<1> USE StashListAssumption
<1>0. n \in nodes
  BY WalkIsList DEF IInv, Erase
<1>1. /\ Closed(n)
      /\ allocated' = allocated \ {n}
      /\ block' = [block EXCEPT ![n] = Unset]
      /\ currentSize' = currentSize - 1
      /\ crashed' = crashed
  BY DEF Erase, Unlink1, UnlinkHead, UnlinkBottom, UnlinkMiddle
<1>2. /\ place[bottom] \in Nat /\ place[bottom] < currentSize
      /\ currentSize \in 1..StashSize
  BY <1>0 DEF IInv, TypeOK, Linked, Placed
<1>3. OneNodePerId'
  BY <1>1 DEF IInv, TypeOK, OneNodePerId, Closed
<1>4. /\ \A m \in nodes' : block'[m] \in [id : Ids, data : Data]
      /\ block' \in [Nodes -> [id : Ids, data : Data] \cup {Unset}]
      /\ currentSize' \in 0..StashSize
      /\ allocated' \subseteq Nodes /\ nodes' \subseteq allocated'
      /\ place' \in [Nodes -> Nat]
      /\ crashed' \in BOOLEAN
  BY <1>0, <1>1, <1>2 DEF IInv, TypeOK, Closed
<1>5. \A j, m \in nodes' : place'[j] = place'[m] => j = m
  <2> SUFFICES ASSUME NEW j \in nodes \ {n}, NEW m \in nodes \ {n},
                      place'[j] = place'[m]
               PROVE  place[j] = place[m]
    BY <1>1 DEF IInv, Placed, Closed
  <2>1. /\ place[j] \in Nat /\ place[m] \in Nat /\ place[n] \in Nat
        /\ place[j] # place[n] /\ place[m] # place[n]
    BY <1>0 DEF IInv, TypeOK, Placed
  <2>2. \A k \in {j, m} :
          place'[k] = IF place[k] > place[n] THEN place[k] - 1 ELSE place[k]
    BY <1>1 DEF IInv, TypeOK, Closed
  <2> QED
    BY <2>1, <2>2
<1>6. CASE Unlink1(n)
  <2>1. nodes = {n}
    BY <1>0, <1>2, <1>6, OnlyNode DEF Unlink1
  <2>2. nodes' = {} /\ top' = NULL /\ bottom' = NULL /\ prev' = prev /\ next' = next
    BY <1>6, <2>1 DEF Unlink1, Closed
  <2> QED
    BY <1>3, <1>4, <2>2 DEF IInv, TypeOK, Linked, Placed
<1>7. CASE UnlinkHead(n)
  <2> USE <1>0, <1>1, <1>7 DEF UnlinkHead, Closed
  <2>1. TypeOK'
    BY <1>4 DEF IInv, TypeOK, Linked
  <2>2. Linked'
    BY DEF IInv, TypeOK, Linked, Placed
  <2>3. Placed'
    BY <1>2, <1>5 DEF IInv, TypeOK, Linked, Placed
  <2> QED
    BY <1>3, <2>1, <2>2, <2>3 DEF IInv
<1>8. CASE UnlinkBottom(n)
  <2> USE <1>0, <1>1, <1>8 DEF UnlinkBottom, Closed
  <2>1. TypeOK'
    BY <1>4 DEF IInv, TypeOK, Linked
  <2>2. Linked'
    BY DEF IInv, TypeOK, Linked, Placed
  <2>3. Placed'
    BY <1>2, <1>5 DEF IInv, TypeOK, Linked, Placed
  <2> QED
    BY <1>3, <2>1, <2>2, <2>3 DEF IInv
<1>9. CASE UnlinkMiddle(n)
  <2> USE <1>0, <1>1, <1>9 DEF UnlinkMiddle, Closed
  <2>1. TypeOK'
    BY <1>4 DEF IInv, TypeOK, Linked
  <2>2. Linked'
    BY DEF IInv, TypeOK, Linked, Placed
  <2>3. Placed'
    BY <1>2, <1>5 DEF IInv, TypeOK, Linked, Placed
  <2> QED
    BY <1>3, <2>1, <2>2, <2>3 DEF IInv
<1> QED
  BY <1>6, <1>7, <1>8, <1>9 DEF Erase

LEMMA ClearIInv ==
  ASSUME IInv, Clear
  PROVE  IInv'
<1>1. Listed = nodes
  BY WalkIsList DEF IInv
<1> QED
  BY <1>1, StashListAssumption
     DEF IInv, TypeOK, Linked, Placed, OneNodePerId, Clear

\* IInv is inductive.
LEMMA NextIInv == IInv /\ [Next]_vars => IInv'
<1> SUFFICES ASSUME IInv, [Next]_vars PROVE IInv'
  OBVIOUS
<1>1. ASSUME NEW i \in Ids, NEW v \in Data, Insert(i, v) PROVE IInv'
  BY <1>1, OverwriteIInv, AddIInv DEF Insert
<1>2. ASSUME NEW n \in Nodes, Erase(n) PROVE IInv'
  BY <1>2, EraseIInv
<1>3. ASSUME NEW n \in Nodes, EraseCrash(n) PROVE IInv'
  BY <1>3 DEF EraseCrash, links, IInv, TypeOK, Linked, Placed, OneNodePerId
<1>4. CASE Clear
  BY <1>4, ClearIInv
<1>5. CASE UNCHANGED vars
  BY <1>5 DEF vars, links, IInv, TypeOK, Linked, Placed, OneNodePerId
<1> QED
  BY <1>1, <1>2, <1>3, <1>4, <1>5 DEF Next

\* The list is well linked in every reachable state (every call of Stash.h).
THEOREM IInvHolds == Spec => []IInv
BY InitIInv, NextIInv, PTL DEF Spec

\* The loops of PathORAM over the stash (read_stash, write_stash, get_intersect_blocks)
\* and those of insert and clear visit every node of the list and no other.
THEOREM WalkVisitsNodesHolds == Spec => []WalkVisitsNodes
<1>1. IInv => WalkVisitsNodes
  BY WalkIsList DEF IInv, WalkVisitsNodes
<1> QED
  BY <1>1, IInvHolds, PTL

---------------------------------------------------------------------------
(* The refinement of StashMap                                               *)

\* What search finds is the block of the one node that has the id.
FindsNodes ==
  /\ \A n \in nodes : Found(block[n].id) = block[n].data
  /\ \A i \in Ids : (\A n \in nodes : block[n].id # i) => Found(i) = Absent

LEMMA IInvFinds == IInv => FindsNodes
<1> SUFFICES ASSUME IInv PROVE FindsNodes
  OBVIOUS
<1>1. Listed = nodes
  BY WalkIsList DEF IInv
<1>2. ASSUME NEW n \in nodes PROVE Found(block[n].id) = block[n].data
  <2>1. (CHOOSE m \in nodes : block[m].id = block[n].id) = n
    BY DEF IInv, OneNodePerId
  <2> QED
    BY <1>1, <2>1 DEF Found
<1>3. ASSUME NEW i \in Ids, \A n \in nodes : block[n].id # i PROVE Found(i) = Absent
  BY <1>1, <1>3 DEF Found
<1> QED
  BY <1>2, <1>3 DEF FindsNodes

LEMMA IInvFindsNext == IInv' => FindsNodes'
BY IInvFinds, PTL

\* The nodes hold blocks.
LEMMA NodesData ==
  ASSUME IInv
  PROVE  \A n \in nodes : block[n].id \in Ids /\ block[n].data \in Data
                          /\ block[n].data # Absent
BY StashListAssumption DEF IInv, TypeOK

LEMMA InsertMap ==
  ASSUME IInv, IInv', NEW i \in Ids, NEW v \in Data, Insert(i, v)
  PROVE  Map!StashInsert(i, v)
<1>1. Listed = nodes
  BY WalkIsList DEF IInv
<1>2. FindsNodes /\ FindsNodes'
  BY IInvFinds, IInvFindsNext
<1>3. CASE Overwrite(i, v)
  <2>1. PICK n \in nodes : block[n].id = i
    BY <1>1, <1>3 DEF Overwrite
  <2>2. Found(i) # Absent
    BY <1>2, <2>1, NodesData DEF FindsNodes
  <2>3. \A m \in nodes : block'[m] = IF block[m].id = i THEN [id |-> i, data |-> v]
                                     ELSE block[m]
    BY <1>1, <1>3 DEF Overwrite, IInv, TypeOK
  <2>4. nodes' = nodes /\ currentSize' = currentSize
    BY <1>3 DEF Overwrite
  <2>5. ASSUME NEW j \in Ids PROVE Found(j)' = IF j = i THEN v ELSE Found(j)
    <3>1. CASE j = i
      BY <1>2, <2>1, <2>3, <2>4, <3>1 DEF FindsNodes
    <3>2. CASE j # i /\ \E m \in nodes : block[m].id = j
      BY <1>2, <2>3, <2>4, <3>2 DEF FindsNodes
    <3>3. CASE j # i /\ \A m \in nodes : block[m].id # j
      BY <1>2, <2>3, <2>4, <3>3 DEF FindsNodes
    <3> QED
      BY <3>1, <3>2, <3>3
  <2> QED
    BY <2>2, <2>4, <2>5 DEF Map!StashInsert
<1>4. CASE Add(i, v)
  <2>1. Found(i) = Absent
    BY <1>1, <1>2, <1>4 DEF Add, FindsNodes
  <2>2. CASE currentSize = StashSize
    <3>1. nodes' = nodes /\ block' = block /\ currentSize' = currentSize
      BY <1>4, <2>2 DEF Add
    <3>2. \A j \in Ids : Found(j)' = Found(j)
      BY <1>2, <3>1 DEF FindsNodes
    <3> QED
      BY <2>1, <2>2, <3>1, <3>2 DEF Map!StashInsert
  <2>3. CASE currentSize # StashSize
    <3>1. PICK n \in Nodes \ allocated :
            /\ block' = [block EXCEPT ![n] = [id |-> i, data |-> v]]
            /\ nodes' = nodes \cup {n}
            /\ currentSize' = currentSize + 1
      BY <1>4, <2>3 DEF Add, Attach
    <3>2. n \notin nodes /\ nodes \subseteq Nodes
      BY DEF IInv, TypeOK
    <3>3. \A m \in nodes : block'[m] = block[m] /\ m \in nodes'
      BY <3>1, <3>2 DEF IInv, TypeOK
    <3>4. n \in nodes' /\ block'[n] = [id |-> i, data |-> v]
      BY <3>1 DEF IInv, TypeOK
    <3>5. ASSUME NEW j \in Ids PROVE Found(j)' = IF j = i THEN v ELSE Found(j)
      <4>1. CASE j = i
        BY <1>2, <3>4, <4>1 DEF FindsNodes
      <4>2. CASE j # i /\ \E m \in nodes : block[m].id = j
        BY <1>2, <3>3, <4>2 DEF FindsNodes
      <4>3. CASE j # i /\ \A m \in nodes : block[m].id # j
        <5>1. \A m \in nodes' : block'[m].id # j
          BY <3>1, <3>3, <3>4, <4>3
        <5> QED
          BY <1>2, <4>3, <5>1 DEF FindsNodes
      <4> QED
        BY <4>1, <4>2, <4>3
    <3> QED
      BY <2>1, <2>3, <3>1, <3>5 DEF Map!StashInsert
  <2> QED
    BY <2>2, <2>3
<1> QED
  BY <1>3, <1>4 DEF Insert

\* The ids that search finds.
LEMMA StashedIds ==
  ASSUME IInv
  PROVE  Map!Stashed = {block[n].id : n \in nodes}
<1>1. FindsNodes
  BY IInvFinds
<1> QED
  BY <1>1, NodesData DEF Map!Stashed, FindsNodes

LEMMA EraseMap ==
  ASSUME IInv, IInv', NEW n \in Nodes, Erase(n)
  PROVE  ~Map!EraseCrashes(block[n].id) /\ Map!StashErase(block[n].id)
<1> USE StashListAssumption
<1>1. n \in nodes
  BY WalkIsList DEF IInv, Erase
<1>2. FindsNodes /\ FindsNodes'
  BY IInvFinds, IInvFindsNext
<1>3. /\ nodes' = nodes \ {n} /\ block' = [block EXCEPT ![n] = Unset]
      /\ currentSize' = currentSize - 1
  BY DEF Erase, Unlink1, UnlinkHead, UnlinkBottom, UnlinkMiddle, Closed
<1>4. \A m \in nodes' : m \in nodes /\ m # n /\ block'[m] = block[m]
  BY <1>3 DEF IInv, TypeOK
<1>5. ASSUME NEW j \in Ids PROVE Found(j)' = IF j = block[n].id THEN Absent ELSE Found(j)
  <2>1. CASE \E m \in nodes : block[m].id = j /\ j # block[n].id
    <3>1. PICK m \in nodes : block[m].id = j /\ j # block[n].id
      BY <2>1
    <3>2. m \in nodes' /\ block'[m] = block[m]
      BY <1>3, <1>4, <3>1
    <3> QED
      BY <1>2, <3>1, <3>2 DEF FindsNodes
  <2>2. CASE j = block[n].id
    <3>1. \A m \in nodes' : block'[m].id # j
      BY <1>1, <1>4, <2>2 DEF IInv, OneNodePerId
    <3> QED
      BY <1>2, <2>2, <3>1 DEF FindsNodes
  <2>3. CASE j # block[n].id /\ \A m \in nodes : block[m].id # j
    <3>1. \A m \in nodes' : block'[m].id # j
      BY <1>4, <2>3
    <3> QED
      BY <1>2, <2>3, <3>1 DEF FindsNodes
  <2> QED
    BY <2>1, <2>2, <2>3
<1>6. ASSUME currentSize = 1 PROVE nodes = {n}
  <2>1. place[bottom] \in Nat /\ place[bottom] < currentSize
    BY <1>1 DEF IInv, TypeOK, Linked, Placed
  <2> QED
    BY <1>1, <1>6, <2>1, OnlyNode
<1>7. Map!StashErase(block[n].id)
  <2>1. CASE currentSize = 1
    <3>1. \A j \in Ids : Found(j)' = Absent
      BY <1>2, <1>3, <1>6, <2>1 DEF FindsNodes
    <3> QED
      BY <1>3, <2>1, <3>1 DEF Map!StashErase
  <2>2. CASE currentSize # 1
    BY <1>3, <1>5, <2>2 DEF Map!StashErase
  <2> QED
    BY <2>1, <2>2
<1>8. ASSUME currentSize # 1, Map!Stashed = {block[n].id} PROVE FALSE
  <2>1. \A m \in nodes : m = n
    BY <1>1, <1>8, StashedIds DEF IInv, OneNodePerId
  <2>2. next[n] = NULL /\ prev[n] = NULL
    BY <1>1, <2>1 DEF IInv, TypeOK, Linked
  <2> QED
    BY <1>8, <2>2 DEF Erase, Unlink1, UnlinkHead, UnlinkBottom, UnlinkMiddle
<1> QED
  BY <1>7, <1>8 DEF Map!EraseCrashes

LEMMA EraseCrashMap ==
  ASSUME IInv, NEW n \in Nodes, EraseCrash(n)
  PROVE  Map!EraseCrashes(block[n].id)
<1>1. n \in nodes /\ next[n] = NULL /\ prev[n] = NULL /\ currentSize # 1
  BY WalkIsList DEF IInv, EraseCrash
<1>2. n = top /\ n = bottom /\ place[bottom] = 0
  BY <1>1 DEF IInv, Linked, Placed
<1>3. nodes = {n}
  BY <1>1, <1>2, OnlyNode
<1> QED
  BY <1>1, <1>3, StashedIds DEF Map!EraseCrashes

LEMMA ClearMap ==
  ASSUME IInv, IInv', Clear
  PROVE  Map!StashClear
<1>1. FindsNodes' /\ nodes' = {} /\ currentSize' = currentSize
  BY IInvFindsNext DEF Clear
<1>2. \A j \in Ids : Found(j)' = Absent
  BY <1>1 DEF FindsNodes
<1> QED
  BY <1>1, <1>2 DEF Map!StashClear

\* The stash is the map that PathORAM is modelled with: insert, erase and clear change
\* what search finds, and current_size, as on the map, and erase stores through null
\* exactly where the map says.
THEOREM ImplementsMapHolds == Spec => ImplementsMap
<1> DEFINE MapStep ==
      \/ \E i \in Ids, v \in Data : Insert(i, v) /\ Map!StashInsert(i, v)
      \/ \E n \in Nodes :
           \/ Erase(n) /\ ~Map!EraseCrashes(block[n].id) /\ Map!StashErase(block[n].id)
           \/ EraseCrash(n) /\ Map!EraseCrashes(block[n].id)
      \/ Clear /\ Map!StashClear
<1>1. Init => Map!StashInit
  <2> SUFFICES ASSUME Init PROVE Map!StashInit
    OBVIOUS
  <2>1. FindsNodes /\ nodes = {} /\ currentSize = 0
    BY InitIInv, IInvFinds DEF Init
  <2>2. \A i \in Ids : Found(i) = Absent
    BY <2>1 DEF FindsNodes
  <2> QED
    BY <2>1, <2>2 DEF Map!StashInit
<1>2. IInv /\ IInv' /\ [Next]_vars => [MapStep]_vars
  <2> SUFFICES ASSUME IInv, IInv', Next PROVE MapStep
    OBVIOUS
  <2>1. ASSUME NEW i \in Ids, NEW v \in Data, Insert(i, v) PROVE MapStep
    BY <2>1, InsertMap
  <2>2. ASSUME NEW n \in Nodes, Erase(n) PROVE MapStep
    BY <2>2, EraseMap
  <2>3. ASSUME NEW n \in Nodes, EraseCrash(n) PROVE MapStep
    BY <2>3, EraseCrashMap
  <2>4. CASE Clear
    BY <2>4, ClearMap
  <2> QED
    BY <2>1, <2>2, <2>3, <2>4 DEF Next
<1> QED
  BY <1>1, <1>2, IInvHolds, PTL DEF Spec, ImplementsMap
=============================================================================
