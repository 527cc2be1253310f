-------------------------------- MODULE Sums --------------------------------
(* The sum of a function over a finite set: packets, loads.                  *)
EXTENDS Integers, FiniteSetsExt

SumOf(f, S) == MapThenSumSet(LAMBDA x : f[x], S)
=============================================================================
