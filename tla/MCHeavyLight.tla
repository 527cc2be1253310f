---------------------------- MODULE MCHeavyLight ----------------------------
(* An instance of HeavyLight for TLC.                                        *)
EXTENDS HeavyLight, FiniteSetsExt

CONSTANT MaxPackets

\* Two buckets, the second with one key.
MCBucketOf == [k \in Keys |-> IF k = 4 THEN 2 ELSE 1]

\* The bound on the packets of a trace.
Bounded == MapThenSumSet(LAMBDA k : truth[k], Keys) <= MaxPackets
=============================================================================
