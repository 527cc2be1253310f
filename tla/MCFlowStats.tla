----------------------------- MODULE MCFlowStats -----------------------------
(* Instances of FlowQueries for TLC.                                         *)
EXTENDS FlowQueries, TLC

\* Two buckets, the second with one key.  Keys 1 and 3, which compete for slots, share
\* a counter; so do keys 2 and 4.
MCBucketOf == [k \in Keys |-> IF k = 4 THEN 2 ELSE 1]
MCHash     == [r \in Rows |-> [k \in Keys |-> (k + r) % RowSize]]
=============================================================================
