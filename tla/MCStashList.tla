---------------------------- MODULE MCStashList ----------------------------
(* An instance of StashList for TLC.                                        *)
EXTENDS StashList, TLC

Symmetric == Permutations(Nodes) \cup Permutations(Ids)
=============================================================================
