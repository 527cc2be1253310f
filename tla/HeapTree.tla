------------------------------ MODULE HeapTree ------------------------------
(***************************************************************************)
(* The shape of the PathORAM's tree: a complete binary tree kept in an     *)
(* array, the children of bucket b at 2b + 1 and 2b + 2.                   *)
(***************************************************************************)
EXTENDS Integers, FiniteSets

\* pow(2, n), as a loop: the provers have no rules for ^.
TwoTo(n) == LET pow[k \in 0..n] == IF k = 0 THEN 1 ELSE 2 * pow[k - 1] IN pow[n]

\* The number of buckets of a tree, N
BucketCount(depth) == TwoTo(depth + 1) - 1

HeapBuckets(depth) == 0..(BucketCount(depth) - 1)

\* random_path: rand % (N / 2).  The last leaf of the tree is never drawn.
HeapLeaves(depth) == 0..(BucketCount(depth) \div 2 - 1)

Parent(b) == (b + 1) \div 2 - 1

\* get_bucket_on_path: from the leaf's bucket to the parent, one level at a time.
BucketOnPath(leaf, level, depth) ==
  LET up[k \in 0..depth] ==
        IF k = 0 THEN leaf + BucketCount(depth) \div 2 ELSE Parent(up[k - 1])
  IN  up[depth - level]

HeapPath(depth) ==
  [leaf \in HeapLeaves(depth) |-> [d \in 0..depth |-> BucketOnPath(leaf, d, depth)]]

\* What PathORAM asks of its tree: it is finite, and a bucket is at one level of every path.
\* Besides, paths begin at the root, and two that have parted do not meet again.
IsTree(depth) ==
  LET path == HeapPath(depth)
  IN  /\ HeapLeaves(depth) # {}
      /\ IsFiniteSet(HeapBuckets(depth))
      /\ path \in [HeapLeaves(depth) -> [0..depth -> HeapBuckets(depth)]]
      /\ \A x, y \in HeapLeaves(depth) : \A d, e \in 0..depth :
           /\ path[x][d] = path[y][e] => d = e
           /\ path[x][d] = path[y][d] => d = 0 \/ path[x][d - 1] = path[y][d - 1]
           /\ path[x][0] = 0
=============================================================================
