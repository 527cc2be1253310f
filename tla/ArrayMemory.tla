---------------------------- MODULE ArrayMemory ----------------------------
(***************************************************************************)
(* What the sketch expects of its PathORAM: an array of small values, all  *)
(* zero at first, read and written at an index, and cleared as a whole.    *)
(* Forget is what the array must not do: drop a value back to zero.        *)
(***************************************************************************)
CONSTANTS Ids, Data, Zero

VARIABLES mem,  \* the array
          out   \* what the last read returned

vars == <<mem, out>>

Init ==
  /\ mem = [i \in Ids |-> Zero]
  /\ out = Zero

Read(i) ==
  /\ out' = mem[i]
  /\ UNCHANGED mem

Write(i, v) ==
  /\ mem' = [mem EXCEPT ![i] = v]
  /\ UNCHANGED out

Clear ==
  /\ mem' = [i \in Ids |-> Zero]
  /\ UNCHANGED out

Forget(i) ==
  /\ mem' = [mem EXCEPT ![i] = Zero]
  /\ UNCHANGED out

Next == Clear \/ \E i \in Ids : Read(i) \/ \E v \in Data : Write(i, v)

Spec == Init /\ [][Next]_vars
=============================================================================
