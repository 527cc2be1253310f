----------------------------- MODULE MCPathORAM -----------------------------
(* Instances of PathORAM for TLC.                                           *)
EXTENDS PathORAM, HeapTree, TLC

MCLeaves  == HeapLeaves(Depth)
MCBuckets == HeapBuckets(Depth)

\* The paths of depth 2, written out so that TLC does not climb them in every step.
MCPath ==
  0 :> (0 :> 0 @@ 1 :> 1 @@ 2 :> 3) @@
  1 :> (0 :> 0 @@ 1 :> 1 @@ 2 :> 4) @@
  2 :> (0 :> 0 @@ 1 :> 2 @@ 2 :> 5)

ASSUME MCPathAssumption == MCPath = HeapPath(Depth)

\* The code's arithmetic makes a tree, here tried at six depths.
ASSUME HeapPathsAreTree == \A depth \in 1..6 : IsTree(depth)

Symmetric == Permutations(Ids)
=============================================================================
