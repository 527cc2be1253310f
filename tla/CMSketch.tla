------------------------------ MODULE CMSketch ------------------------------
(***************************************************************************)
(* Sketch/CMSketch.h of both variants: NumRows rows of RowSize counters,   *)
(* each key hashed to one counter of every row.  The oblivious sketch has  *)
(* one row of 8-bit counters, each a block of the PathORAM, and takes the  *)
(* count as 8 bits; the strawman's has three rows of 32-bit counters.      *)
(***************************************************************************)
EXTENDS Sums

CONSTANTS Keys,
          NumRows,   \* d, SKETCH_HASH
          RowSize,   \* w
          Hash,      \* Hash[r][k]: SpookyHash of key k with seed r, modulo w
          CountMod   \* the range of a counter: 2^8, or 2^32

Rows  == 0..(NumRows - 1)
Cells == 0..(RowSize - 1)

ASSUME CMSketchAssumption ==
  /\ IsFiniteSet(Keys)
  /\ NumRows \in Nat \ {0}
  /\ CountMod \in Nat \ {0}
  /\ Hash \in [Rows -> [Keys -> Cells]]

\* All counters zero: a new sketch; in the oblivious one also reset, the clear of
\* the PathORAM.
ZeroCounters == [r \in Rows |-> [i \in Cells |-> 0]]

\* Mutant: the count is stored, not added.
SketchInsertStore(counters, k, c) ==
  [r \in Rows |-> [counters[r] EXCEPT ![Hash[r][k]] = c % CountMod]]

\* insert(key, count): read, add, write, in each row
SketchInsert(counters, k, c) ==
  [r \in Rows |-> [counters[r] EXCEPT ![Hash[r][k]] = (@ + c) % CountMod]]

\* query(key): the least of the key's counters
SketchQuery(counters, k) == Min({counters[r][Hash[r][k]] : r \in Rows})
=============================================================================
