-------------------------- MODULE ObliviousBucket --------------------------
(***************************************************************************)
(* Oblivious/Enclave/Sketch/ObliviousBucket.h: the heavy part of the       *)
(* statistics.  A bucket has NumSlots counters, each a flow key and a      *)
(* value, and one more value that counts the packets it turned away.  The  *)
(* code has no branches: every statement is a masked copy over all slots.  *)
(* The operators below keep its loops: f[i] is what i rounds leave.        *)
(***************************************************************************)
EXTENDS Integers

CONSTANTS NumSlots,  \* COUNTER_PER_BUCKET - 1
          Flag       \* 0x80000000: the flow may have packets in the sketch

NoKey  == 0          \* an empty slot has key 0
ValMod == 2 * Flag   \* val has 32 bits, the flag is the highest
Slots  == 1..NumSlots

\* get_val, get_flag, swap_threshold (the shift drops the high bits)
ValOf(v)   == v % Flag
Flagged(v) == v >= Flag
ExceedsOrEqual(neg, v) == neg >= (v * 8) % ValMod  \* mutant: >= for >
ExceedsTwice(neg, v)   == neg > (v * 16) % ValMod  \* mutant: shifted by four bits
Exceeds(neg, v)        == neg > (v * 8) % ValMod

\* 0x80000000 ^ count
WithFlag(c) == IF c >= Flag THEN c - Flag ELSE c + Flag

EmptyBucket == [key |-> [i \in Slots |-> NoKey],
                val |-> [i \in Slots |-> 0],
                neg |-> 0]

\* Mutant: the key is put into every empty slot.
AccumulateEverywhere(s, i, k, c) ==
  LET empty == s.key[i] = NoKey
      key   == IF empty THEN k ELSE s.key[i]
      found == key = k
      val   == IF found THEN (s.val[i] + c) % ValMod ELSE s.val[i]
  IN  [key     |-> [s.key EXCEPT ![i] = key],
       val     |-> [s.val EXCEPT ![i] = val],
       min     |-> IF s.min > ValOf(val) THEN ValOf(val) ELSE s.min,
       success |-> s.success \/ empty \/ found]

\* The first loop of oinsert at slot i: claim the slot if it is the first empty
\* one, add the count if the slot now has the key, keep the running minimum.
AccumulateSlot(s, i, k, c) ==
  LET empty == s.key[i] = NoKey
      key   == IF empty /\ ~s.success THEN k ELSE s.key[i]
      found == key = k
      val   == IF found THEN (s.val[i] + c) % ValMod ELSE s.val[i]
  IN  [key     |-> [s.key EXCEPT ![i] = key],
       val     |-> [s.val EXCEPT ![i] = val],
       min     |-> IF s.min > ValOf(val) THEN ValOf(val) ELSE s.min,
       success |-> s.success \/ empty \/ found]

Accumulate(b, k, c) ==
  LET after[i \in 0..NumSlots] ==
        IF i = 0
        THEN [key |-> b.key, val |-> b.val, min |-> ValOf(b.val[1]), success |-> FALSE]
        ELSE AccumulateSlot(after[i - 1], i, k, c)
  IN  after[NumSlots]

\* Mutant: the new flow does not get the flag.
EvictUnflagged(s, i, k, c, min) ==
  IF s.swapped \/ ValOf(s.val[i]) # min
  THEN s
  ELSE [key |-> [s.key EXCEPT ![i] = k],
        val |-> [s.val EXCEPT ![i] = c],
        swapKey |-> s.key[i], swapVal |-> min, swapped |-> TRUE]

\* The second loop at slot i: the first slot that has the minimum is handed out
\* and given to the new key.
EvictSlot(s, i, k, c, min) ==
  IF s.swapped \/ ValOf(s.val[i]) # min
  THEN s
  ELSE [key |-> [s.key EXCEPT ![i] = k],
        val |-> [s.val EXCEPT ![i] = WithFlag(c)],
        swapKey |-> s.key[i], swapVal |-> min, swapped |-> TRUE]

\* What the second loop leaves if there is a swap, from what the first one left.
Evict(acc, k, c) ==
  LET after[i \in 0..NumSlots] ==
        IF i = 0
        THEN [key |-> acc.key, val |-> acc.val, swapKey |-> k, swapVal |-> c, swapped |-> FALSE]
        ELSE EvictSlot(after[i - 1], i, k, c, acc.min)
  IN  after[NumSlots]

\* oinsert: the new bucket, and the key and count left for the sketch.  When the
\* count was taken by a slot, these are still the ones set on entry.
OInsert(b, k, c) ==
  LET acc  == Accumulate(b, k, c)
      neg  == IF acc.success THEN b.neg ELSE (b.neg + c) % ValMod
      swap == ~acc.success /\ Exceeds(neg, acc.min)
      out  == IF swap
              THEN Evict(acc, k, c)
              ELSE [key |-> acc.key, val |-> acc.val, swapKey |-> k, swapVal |-> c,
                    swapped |-> FALSE]
  IN  [bucket  |-> [key |-> out.key, val |-> out.val,
                    neg |-> IF out.swapped THEN 0 ELSE neg],
       swapKey |-> out.swapKey,
       swapVal |-> out.swapVal,
       success |-> acc.success]

\* oscan: the raw value of the last slot with the key, 0 if there is none.
OScan(b, k) ==
  LET result[i \in 0..NumSlots] ==
        IF i = 0 THEN 0 ELSE IF b.key[i] = k THEN b.val[i] ELSE result[i - 1]
  IN  result[NumSlots]
=============================================================================
