----------------------------- MODULE MCStrawman -----------------------------
(* An instance of StrawmanStats for TLC.                                     *)
EXTENDS StrawmanStats, TLC

\* In each row one flow is in the counter that reset clears; flows 1 and 2 have
\* such a counter, flow 3 has none and shares one with flow 2.
MCHash == (0 :> (1 :> 0 @@ 2 :> 1 @@ 3 :> 1)) @@ (1 :> (1 :> 2 @@ 2 :> 0 @@ 3 :> 3))
=============================================================================
