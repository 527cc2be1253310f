--------------------------- MODULE StrawmanProofs ---------------------------
(***************************************************************************)
(* What the strawman's sketch says after any number of traces, for every   *)
(* hash, geometry and counter width.                                       *)
(*                                                                         *)
(* FillingIs takes the fold over the flows of a trace to a sum for each    *)
(* counter; CountersLoaded then relates each counter to all the traces     *)
(* since reset last reached it.                                            *)
(***************************************************************************)
EXTENDS StrawmanStats, SumProofs, SequenceTheorems

---------------------------------------------------------------------------
(* A trace is inserted                                                      *)

\* The sketch rows with the packets of the flows s of a trace added.
Filled(rows, trace, s) ==
  [r \in Rows |-> [i \in Cells |->
     (rows[r][i] + SumOf(trace, {k \in s : Hash[r][k] = i})) % CountMod]]

Filling(g, rows, trace, S) ==
  g = [s \in SUBSET S |->
         IF s = {} THEN rows ELSE SketchInsert(g[s \ {Some(s)}], Some(s), trace[Some(s)])]

Sketches == [Rows -> [Cells -> 0..(CountMod - 1)]]

LEMMA FilledNone ==
  ASSUME NEW rows \in Sketches, NEW trace
  PROVE  Filled(rows, trace, {}) = rows
<1>1. ASSUME NEW r \in Rows, NEW i \in Cells
      PROVE  (rows[r][i] + SumOf(trace, {k \in {} : Hash[r][k] = i})) % CountMod = rows[r][i]
  <2>1. SumOf(trace, {k \in {} : Hash[r][k] = i}) = 0
    <3>1. {k \in {} : Hash[r][k] = i} = {}
      OBVIOUS
    <3>2. SumOf(trace, {}) = 0
      BY SumEmpty
    <3> QED
      BY <3>1, <3>2
  <2>2. PICK a \in Nat : a = rows[r][i] /\ a < CountMod
    BY CMSketchAssumption DEF Sketches
  <2>3. a % CountMod = a
    BY <2>2, CMSketchAssumption, Remainder
  <2>4. a + 0 = a
    OBVIOUS
  <2> QED
    BY <2>1, <2>2, <2>3, <2>4
<1> QED
  BY <1>1 DEF Filled, Sketches

\* The order of the inserts does not matter.
LEMMA FilledOne ==
  ASSUME NEW rows \in Sketches, NEW S \in SUBSET Keys,
         NEW trace, \A k \in S : trace[k] \in Nat, NEW x \in S
  PROVE  SketchInsert(Filled(rows, trace, S \ {x}), x, trace[x]) = Filled(rows, trace, S)
<1>1. x \in Keys /\ trace[x] \in Nat /\ IsFiniteSet(S) /\ CountMod \in Nat \ {0}
  BY CMSketchAssumption, FS_Subset
<1>2. PICK old : old = Filled(rows, trace, S \ {x})
  OBVIOUS
<1>3. ASSUME NEW r \in Rows, NEW i \in Cells
      PROVE  (IF i = Hash[r][x] THEN (old[r][i] + trace[x]) % CountMod ELSE old[r][i])
               = (rows[r][i] + SumOf(trace, {k \in S : Hash[r][k] = i})) % CountMod
  <2>1. PICK T : T = {k \in S \ {x} : Hash[r][k] = i}
    OBVIOUS
  <2>2. /\ IsFiniteSet(T) /\ x \notin T /\ T \in SUBSET S
        /\ \A k \in T \cup {x} : trace[k] \in Nat
    BY <1>1, <2>1, FS_Subset
  <2>3. SumOf(trace, T) \in Nat /\ rows[r][i] \in Nat
    BY <2>2, SumNat DEF Sketches
  <2>4. old[r][i] = (rows[r][i] + SumOf(trace, T)) % CountMod
    BY <1>2, <2>1 DEF Filled
  <2>5. CASE i = Hash[r][x]
    <3>1. {k \in S : Hash[r][k] = i} = T \cup {x}
      BY <2>1, <2>5
    <3>2. SumOf(trace, T \cup {x}) = trace[x] + SumOf(trace, T)
      BY <2>2, SumAdd
    <3>3. PICK p \in Nat, q \in Nat, c \in Nat :
            p = rows[r][i] /\ q = SumOf(trace, T) /\ c = trace[x]
      BY <1>1, <2>3
    <3>4. (((p + q) % CountMod) + c) % CountMod = ((p + q) + c) % CountMod
      <4>1. p + q \in Nat
        OBVIOUS
      <4> QED
        BY <1>1, <4>1, RemainderAdd
    <3>5. (p + q) + c = p + (c + q)
      OBVIOUS
    <3> QED
      BY <2>4, <2>5, <3>1, <3>2, <3>3, <3>4, <3>5
  <2>6. CASE i # Hash[r][x]
    <3>1. {k \in S : Hash[r][k] = i} = T
      BY <2>1, <2>6
    <3> QED
      BY <2>4, <2>6, <3>1
  <2> QED
    BY <2>5, <2>6
<1>4. SketchInsert(old, x, trace[x])
        = [r \in Rows |-> [i \in Cells |->
             IF i = Hash[r][x] THEN (old[r][i] + trace[x]) % CountMod ELSE old[r][i]]]
  <2>1. \A r \in Rows : old[r] = [i \in Cells |-> old[r][i]]
    BY <1>2 DEF Filled
  <2>2. ASSUME NEW r \in Rows
        PROVE  [old[r] EXCEPT ![Hash[r][x]] = (@ + trace[x]) % CountMod]
                 = [i \in Cells |-> IF i = Hash[r][x] THEN (old[r][i] + trace[x]) % CountMod
                                    ELSE old[r][i]]
    BY <2>1
  <2> QED
    BY <2>2 DEF SketchInsert
<1>5. Filled(rows, trace, S)
        = [r \in Rows |-> [i \in Cells |->
             (rows[r][i] + SumOf(trace, {k \in S : Hash[r][k] = i})) % CountMod]]
  BY DEF Filled
<1>6. SketchInsert(old, x, trace[x]) = Filled(rows, trace, S)
  BY <1>3, <1>4, <1>5
<1> QED
  BY <1>2, <1>6

LEMMA FillingIs ==
  ASSUME NEW rows \in Sketches, NEW S \in SUBSET Keys,
         NEW trace, \A k \in S : trace[k] \in Nat,
         NEW g, Filling(g, rows, trace, S)
  PROVE  g[S] = Filled(rows, trace, S)
<1> DEFINE A == {n \in Nat : \A T \in SUBSET S : Cardinality(T) = n => g[T] = Filled(rows, trace, T)}
<1>0. /\ IsFiniteSet(S)
      /\ \A T \in SUBSET S : Cardinality(T) \in Nat /\ (Cardinality(T) = 0 <=> T = {})
  BY CMSketchAssumption, FS_Subset, FS_CardinalityType, FS_EmptySet
<1>1. 0 \in A
  <2>1. g[{}] = rows
    BY DEF Filling
  <2> QED
    BY <1>0, <2>1, FilledNone
<1>2. ASSUME NEW n \in Nat, n \in A PROVE n + 1 \in A
  <2> SUFFICES ASSUME NEW T \in SUBSET S, Cardinality(T) = n + 1 PROVE g[T] = Filled(rows, trace, T)
    OBVIOUS
  <2>1. PICK x : x = Some(T)
    OBVIOUS
  <2>2. T # {} /\ x \in T /\ T \ {x} \in SUBSET S /\ Cardinality(T \ {x}) = n
    <3>1. T # {}
      BY <1>0
    <3>2. Some(T) \in T /\ T \ {Some(T)} \in SUBSET S /\ Cardinality(T \ {Some(T)}) = Cardinality(T) - 1
      BY <1>0, <3>1, SomeSmaller
    <3>3. (n + 1) - 1 = n
      OBVIOUS
    <3> QED
      BY <2>1, <3>1, <3>2, <3>3
  <2>3. g[T] = SketchInsert(g[T \ {x}], x, trace[x])
    BY <2>1, <2>2 DEF Filling
  <2>4. g[T \ {x}] = Filled(rows, trace, T \ {x})
    BY <1>2, <2>2
  <2>5. T \in SUBSET Keys /\ \A k \in T : trace[k] \in Nat
    OBVIOUS
  <2> QED
    BY <2>2, <2>3, <2>4, <2>5, FilledOne
<1>3. 0..Cardinality(S) \subseteq A /\ Cardinality(S) \in Nat
  <2> HIDE DEF A
  <2> QED
    BY <1>0, <1>1, <1>2, UpTo
<1> QED
  BY <1>3

LEMMA FillingExists ==
  ASSUME NEW rows \in Sketches, NEW S \in SUBSET Keys,
         NEW trace, \A k \in S : trace[k] \in Nat
  PROVE  \E g : Filling(g, rows, trace, S)
<1>1. PICK g : g = [s \in SUBSET S |-> Filled(rows, trace, s)]
  OBVIOUS
<1>2. IsFiniteSet(S)
  BY CMSketchAssumption, FS_Subset
<1>3. ASSUME NEW s \in SUBSET S
      PROVE  Filled(rows, trace, s)
               = IF s = {} THEN rows
                 ELSE SketchInsert(g[s \ {Some(s)}], Some(s), trace[Some(s)])
  <2>1. CASE s = {}
    BY <2>1, FilledNone
  <2>2. CASE s # {}
    <3>1. PICK x : x = Some(s)
      OBVIOUS
    <3>2. x \in s /\ s \ {x} \in SUBSET S
      BY <1>2, <2>2, <3>1, SomeSmaller
    <3>3. g[s \ {x}] = Filled(rows, trace, s \ {x})
      BY <1>1, <3>2
    <3>4. s \in SUBSET Keys /\ \A k \in s : trace[k] \in Nat
      OBVIOUS
    <3>5. SketchInsert(Filled(rows, trace, s \ {x}), x, trace[x]) = Filled(rows, trace, s)
      BY <3>2, <3>4, FilledOne
    <3> QED
      BY <2>2, <3>1, <3>3, <3>5
  <2> QED
    BY <2>1, <2>2
<1> QED
  BY <1>1, <1>3 DEF Filling

\* The fold over the flows of a trace adds to each counter what the trace has for it.
LEMMA InsertAllIs ==
  ASSUME NEW rows \in Sketches, NEW trace, DOMAIN trace \in SUBSET Keys,
         \A k \in DOMAIN trace : trace[k] \in Nat
  PROVE  InsertAll(rows, trace) = Filled(rows, trace, DOMAIN trace)
<1>1. PICK S : S = DOMAIN trace
  OBVIOUS
<1>2. PICK g : g = CHOOSE h : Filling(h, rows, trace, S)
  OBVIOUS
<1>3. Filling(g, rows, trace, S)
  BY <1>1, <1>2, FillingExists
<1>4. InsertAll(rows, trace) = g[S]
  BY <1>1, <1>2 DEF InsertAll, FoldSet, MapThenFoldSet, Filling, Some
<1> QED
  BY <1>1, <1>3, <1>4, FillingIs

---------------------------------------------------------------------------
(* The loads                                                                *)

LEMMA TraceFacts ==
  ASSUME NEW trace \in Traces
  PROVE  /\ DOMAIN trace \in SUBSET Keys /\ IsFiniteSet(DOMAIN trace)
         /\ \A k \in DOMAIN trace : trace[k] \in Nat
<1>1. PICK flows \in SUBSET Keys \ {{}} : trace \in [flows -> Counts]
  BY DEF Traces
<1>2. DOMAIN trace = flows /\ flows \in SUBSET Keys
  BY <1>1
<1>3. IsFiniteSet(flows)
  BY <1>2, CMSketchAssumption, FS_Subset
<1>4. \A k \in flows : trace[k] \in Nat
  BY <1>1, StrawmanAssumption
<1> QED
  BY <1>2, <1>3, <1>4

\* What a trace puts into a counter, at least the packets of each of its flows there.
LEMMA TraceLoad ==
  ASSUME NEW trace \in Traces, NEW r \in Rows, NEW i \in Cells
  PROVE  /\ SumOf(trace, {k \in DOMAIN trace : Hash[r][k] = i}) \in Nat
         /\ \A j \in DOMAIN trace :
              Hash[r][j] = i => trace[j] <= SumOf(trace, {k \in DOMAIN trace : Hash[r][k] = i})
<1>1. PICK S : S = {k \in DOMAIN trace : Hash[r][k] = i}
  OBVIOUS
<1>2. IsFiniteSet(S) /\ \A k \in S : trace[k] \in Nat
  <2>1. S \in SUBSET DOMAIN trace /\ IsFiniteSet(DOMAIN trace)
    BY <1>1, TraceFacts
  <2> QED
    BY <2>1, FS_Subset, TraceFacts
<1>3. SumOf(trace, S) \in Nat
  BY <1>2, SumNat
<1>4. \A j \in S : trace[j] <= SumOf(trace, S)
  BY <1>2, SumElement
<1> QED
  BY <1>1, <1>3, <1>4

\* The load of a counter covers that of the last trace.
LEMMA LoadBounds ==
  ASSUME TypeOK, history # <<>>, NEW r \in Rows, NEW i \in Cells
  PROVE  /\ Load(r, i) \in Nat /\ LoadOf(Len(history), r, i) \in Nat
         /\ LoadOf(Len(history), r, i) <= Load(r, i)
<1>1. PICK n \in Nat : n = Len(history) /\ n \in 1..n /\ DOMAIN history = 1..n
  BY DEF TypeOK
<1>2. PICK f : f = [m \in DOMAIN history |-> LoadOf(m, r, i)]
  OBVIOUS
<1>3. ASSUME NEW m \in 1..n PROVE f[m] \in Nat
  <2>1. history[m] \in Traces
    BY <1>1 DEF TypeOK
  <2> QED
    BY <1>1, <1>2, <2>1, TraceLoad DEF LoadOf
<1>4. IsFiniteSet(1..n) /\ IsFiniteSet({n})
  <2>1. IsFiniteSet(1..n)
    BY FS_Interval
  <2>2. IsFiniteSet({n})
    BY FS_Singleton
  <2> QED
    BY <2>1, <2>2
<1>5. ASSUME NEW S \in {{n}, 1..n}
      PROVE  SumOf(f, S) \in Nat /\ f[n] <= SumOf(f, S)
  <2>1. IsFiniteSet(S) /\ n \in S /\ \A m \in S : f[m] \in Nat
    BY <1>1, <1>3, <1>4
  <2> QED
    BY <2>1, SumNat, SumElement
<1>6. \E S \in {{n}, 1..n} : Load(r, i) = SumOf(f, S)
  BY <1>1, <1>2 DEF Load
<1> QED
  BY <1>1, <1>2, <1>3, <1>5, <1>6

\* A trace served: what history has then.
LEMMA Appended ==
  ASSUME history \in Seq(Traces), NEW trace \in Traces, history' = Append(history, trace)
  PROVE  \E n \in Nat :
           /\ DOMAIN history = 1..n /\ DOMAIN history' = 1..(n + 1)
           /\ Len(history') = n + 1 /\ history' \in Seq(Traces) /\ history' # <<>>
           /\ history' # history /\ (history = <<>> <=> n = 0)
           /\ history'[n + 1] = trace
           /\ \A m \in 1..n : history'[m] = history[m] /\ history[m] \in Traces
OBVIOUS

---------------------------------------------------------------------------
(* The inductive invariant                                                  *)

LEMMA InitInv == Init => IInv
<1> SUFFICES ASSUME Init PROVE IInv
  OBVIOUS
<1>1. TypeOK
  BY CMSketchAssumption DEF Init, TypeOK, ZeroCounters
<1>2. TableIsSketch /\ CountersLoaded
  BY DEF Init, TableIsSketch, CountersLoaded, ZeroCounters
<1> QED
  BY <1>1, <1>2 DEF IInv

\* The packets of the new trace are added to what reset left.
LEMMA CountersAfterStat ==
  ASSUME IInv, NEW trace \in Traces, Stat(trace)
  PROVE  /\ counters' \in Sketches
         /\ \A r \in Rows, i \in Cells :
              counters'[r][i] =
                ((IF i < RowSize \div WordSize THEN 0 ELSE counters[r][i])
                 + SumOf(trace, {k \in DOMAIN trace : Hash[r][k] = i})) % CountMod
<1>1. PICK rows : rows = Reset(counters)
  OBVIOUS
<1>2. rows \in Sketches
  <2>1. 0 \in 0..(CountMod - 1) /\ counters \in Sketches
    BY CMSketchAssumption DEF IInv, TypeOK, Sketches
  <2> QED
    BY <1>1, <2>1 DEF Reset, Sketches
<1>3. counters' = InsertAll(rows, trace)
  BY <1>1 DEF Stat
<1>4. counters' = Filled(rows, trace, DOMAIN trace)
  BY <1>2, <1>3, TraceFacts, InsertAllIs
<1>5. ASSUME NEW r \in Rows, NEW i \in Cells
      PROVE  /\ counters'[r][i]
                  = (rows[r][i] + SumOf(trace, {k \in DOMAIN trace : Hash[r][k] = i})) % CountMod
             /\ (rows[r][i] + SumOf(trace, {k \in DOMAIN trace : Hash[r][k] = i})) % CountMod
                  \in 0..(CountMod - 1)
             /\ rows[r][i] = IF i < RowSize \div WordSize THEN 0 ELSE counters[r][i]
  <2>1. PICK a \in Nat, c \in Nat :
          a = rows[r][i] /\ c = SumOf(trace, {k \in DOMAIN trace : Hash[r][k] = i})
    <3>1. rows[r][i] \in Nat
      BY <1>2, CMSketchAssumption DEF Sketches
    <3>2. SumOf(trace, {k \in DOMAIN trace : Hash[r][k] = i}) \in Nat
      BY TraceLoad
    <3> QED
      BY <3>1, <3>2
  <2>2. (a + c) % CountMod \in 0..(CountMod - 1)
    <3>1. a + c \in Nat
      OBVIOUS
    <3> QED
      BY <3>1, CMSketchAssumption, Remainder
  <2>3. rows[r][i] = IF i < RowSize \div WordSize THEN 0 ELSE counters[r][i]
    BY <1>1 DEF Reset
  <2>4. counters'[r][i]
          = (rows[r][i] + SumOf(trace, {k \in DOMAIN trace : Hash[r][k] = i})) % CountMod
    BY <1>4 DEF Filled
  <2> QED
    BY <2>1, <2>2, <2>3, <2>4
<1>6. counters' \in Sketches
  BY <1>4, <1>5 DEF Filled, Sketches
<1> QED
  BY <1>5, <1>6

LEMMA LoadedAfterStat ==
  ASSUME IInv, NEW trace \in Traces, Stat(trace), NEW r \in Rows, NEW i \in Cells
  PROVE  counters'[r][i] = Load(r, i)' % CountMod
<1>1. PICK n \in Nat :
        /\ DOMAIN history = 1..n /\ DOMAIN history' = 1..(n + 1)
        /\ Len(history') = n + 1 /\ history' \in Seq(Traces) /\ history' # <<>>
        /\ history' # history /\ (history = <<>> <=> n = 0)
        /\ history'[n + 1] = trace
        /\ \A m \in 1..n : history'[m] = history[m] /\ history[m] \in Traces
  <2>1. history \in Seq(Traces) /\ history' = Append(history, trace)
    BY DEF IInv, TypeOK, Stat
  <2> QED
    BY <2>1, Appended
<1>2. PICK c \in Nat : c = SumOf(trace, {k \in DOMAIN trace : Hash[r][k] = i})
  BY TraceLoad
<1>3. PICK f, g :
        /\ f = [m \in DOMAIN history' |-> SumOf(history'[m], {k \in DOMAIN history'[m] : Hash[r][k] = i})]
        /\ g = [m \in DOMAIN history |-> SumOf(history[m], {k \in DOMAIN history[m] : Hash[r][k] = i})]
  OBVIOUS
<1>4. f[n + 1] = c
  BY <1>1, <1>2, <1>3
<1>5. ASSUME NEW m \in 1..n PROVE f[m] = g[m] /\ g[m] \in Nat
  <2>1. history[m] \in Traces /\ history'[m] = history[m] /\ m \in 1..(n + 1)
    BY <1>1
  <2>2. SumOf(history[m], {k \in DOMAIN history[m] : Hash[r][k] = i}) \in Nat
    BY <2>1, TraceLoad
  <2> QED
    BY <1>1, <1>3, <2>1, <2>2
<1>6. Load(r, i)' = SumOf(f, IF i < RowSize \div WordSize THEN {n + 1} ELSE 1..(n + 1))
  BY <1>1, <1>3 DEF Load, LoadOf
<1>7. counters'[r][i] = ((IF i < RowSize \div WordSize THEN 0 ELSE counters[r][i]) + c) % CountMod
  BY <1>2, CountersAfterStat
<1>8. IsFiniteSet(1..n) /\ n + 1 \notin 1..n /\ (1..n) \cup {n + 1} = 1..(n + 1)
  <2>1. IsFiniteSet(1..n)
    BY FS_Interval
  <2> QED
    BY <2>1
<1>9. CASE i < RowSize \div WordSize
  <2>1. SumOf(f, {} \cup {n + 1}) = f[n + 1] + SumOf(f, {})
    BY <1>4, FS_EmptySet, SumAdd
  <2>2. SumOf(f, {n + 1}) = c + 0
    <3>1. {} \cup {n + 1} = {n + 1} /\ SumOf(f, {}) = 0
      BY SumEmpty
    <3> QED
      BY <1>4, <2>1, <3>1
  <2>3. c + 0 = 0 + c
    OBVIOUS
  <2> QED
    BY <1>6, <1>7, <1>9, <2>2, <2>3
<1>10. CASE ~(i < RowSize \div WordSize)
  <2>1. PICK a \in Nat : a = SumOf(g, 1..n)
    BY <1>5, <1>8, SumNat
  <2>2. SumOf(f, 1..n) = a
    BY <1>5, <1>8, <2>1, SumMonotonic
  <2>3. Load(r, i)' = c + a
    <3>1. \A y \in (1..n) \cup {n + 1} : f[y] \in Nat
      BY <1>4, <1>5
    <3>2. SumOf(f, (1..n) \cup {n + 1}) = f[n + 1] + SumOf(f, 1..n)
      BY <1>8, <3>1, SumAdd
    <3> QED
      BY <1>4, <1>6, <1>8, <1>10, <2>2, <3>2
  <2>4. counters[r][i] = a % CountMod
    <3>1. CASE history = <<>>
      <4>1. counters[r][i] = 0
        BY <3>1 DEF IInv, CountersLoaded
      <4>2. a = 0
        <5>1. 1..n = {} /\ SumOf(g, {}) = 0
          BY <1>1, <3>1, SumEmpty
        <5> QED
          BY <2>1, <5>1
      <4>3. 0 % CountMod = 0
        BY CMSketchAssumption, Remainder
      <4> QED
        BY <4>1, <4>2, <4>3
    <3>2. CASE history # <<>>
      <4>1. counters[r][i] = Load(r, i) % CountMod
        BY <3>2 DEF IInv, CountersLoaded
      <4>2. Load(r, i) = SumOf(g, 1..n)
        BY <1>1, <1>3, <1>10 DEF Load, LoadOf
      <4> QED
        BY <2>1, <4>1, <4>2
    <3> QED
      BY <3>1, <3>2
  <2>5. ((a % CountMod) + c) % CountMod = (a + c) % CountMod /\ a + c = c + a
    <3>1. ((a % CountMod) + c) % CountMod = (a + c) % CountMod
      BY CMSketchAssumption, RemainderAdd
    <3> QED
      BY <3>1
  <2> QED
    BY <1>7, <1>10, <2>3, <2>4, <2>5
<1> QED
  BY <1>9, <1>10

LEMMA StatInv ==
  ASSUME IInv, NEW trace \in Traces, Stat(trace)
  PROVE  IInv'
<1>1. history' \in Seq(Traces) /\ history' # <<>> /\ LastTrace' = trace
  <2>1. history \in Seq(Traces) /\ history' = Append(history, trace)
    BY DEF IInv, TypeOK, Stat
  <2> QED
    BY <2>1, Appended DEF LastTrace
<1>2. TypeOK'
  BY <1>1, CountersAfterStat DEF TypeOK, Sketches
<1>3. TableIsSketch'
  BY <1>1 DEF Stat, TableIsSketch
<1>4. CountersLoaded'
  BY <1>1, LoadedAfterStat DEF CountersLoaded
<1> QED
  BY <1>2, <1>3, <1>4 DEF IInv

LEMMA SameInv == IInv /\ counters' = counters /\ cur' = cur /\ history' = history => IInv'
BY DEF IInv, TypeOK, TableIsSketch, CountersLoaded, Load, LoadOf, LastTrace

\* After every trace each counter holds, modulo its range, all that was put into it since
\* reset last reached it, and the table what the sketch says of the flows of the trace.
THEOREM IInvHolds == Spec => []IInv
<1>1. IInv /\ [Next]_vars => IInv'
  <2> SUFFICES ASSUME IInv, [Next]_vars PROVE IInv'
    OBVIOUS
  <2>1. ASSUME NEW trace \in Traces, Stat(trace) PROVE IInv'
    BY <2>1, StatInv
  <2>2. CASE QueryHeavyChange
    BY <2>2, SameInv DEF QueryHeavyChange
  <2>3. CASE UNCHANGED vars
    BY <2>3, SameInv DEF vars
  <2> QED
    BY <2>1, <2>2, <2>3 DEF Next
<1> QED
  BY InitInv, <1>1, PTL DEF Spec

---------------------------------------------------------------------------
(* The answers                                                              *)

\* The table's answer for a flow is the least of the flow's counters.
LEMMA TableAnswer ==
  ASSUME IInv, NEW k \in DOMAIN cur
  PROVE  /\ history # <<>> /\ LastTrace \in Traces /\ k \in DOMAIN LastTrace /\ k \in Keys
         /\ \A r \in Rows : Hash[r][k] \in Cells
         /\ \E r \in Rows : cur[k].num = counters[r][Hash[r][k]]
         /\ \A r \in Rows : cur[k].num <= counters[r][Hash[r][k]]
<1>1. history # <<>>
  BY DEF IInv, TableIsSketch, NoFlows
<1>2. LastTrace \in Traces
  BY <1>1 DEF IInv, TypeOK, LastTrace
<1>3. k \in DOMAIN LastTrace /\ cur[k].num = SketchQuery(counters, k)
  BY <1>1 DEF IInv, TableIsSketch, Share
<1>4. k \in Keys
  BY <1>2, <1>3, TraceFacts
<1>5. \A r \in Rows : Hash[r][k] \in Cells /\ counters[r][Hash[r][k]] \in Nat
  BY <1>4, CMSketchAssumption DEF IInv, TypeOK
<1>6. PICK S : S = {counters[r][Hash[r][k]] : r \in Rows}
  OBVIOUS
<1>7. S \in SUBSET Nat /\ S # {}
  <2>1. 0 \in Rows
    BY CMSketchAssumption DEF Rows
  <2> QED
    BY <1>5, <1>6, <2>1
<1>8. PICK x \in S : \A y \in S : x <= y
  BY <1>7, LeastNatural
<1>9. SketchQuery(counters, k) \in S /\ \A y \in S : SketchQuery(counters, k) <= y
  BY <1>6, <1>8 DEF SketchQuery, Min
<1> QED
  BY <1>1, <1>2, <1>3, <1>4, <1>5, <1>6, <1>9

\* Whatever earlier traces left in the part that reset does not reach, and however the
\* flows collide, the table gives a flow all its packets but for what one of its counters
\* lost in wrapping around.
THEOREM NoUnderestimateHolds == Spec => []NoUnderestimate
<1>1. IInv => NoUnderestimate
  <2> SUFFICES ASSUME IInv, NEW k \in DOMAIN cur
               PROVE  \E r \in Rows :
                        cur[k].num + WrappedAway(Load(r, Hash[r][k])) >= history[Len(history)][k]
    BY DEF NoUnderestimate
  <2>1. PICK r \in Rows : cur[k].num = counters[r][Hash[r][k]]
    BY TableAnswer
  <2>2. PICK i \in Cells : i = Hash[r][k]
    BY TableAnswer
  <2>3. history # <<>> /\ LastTrace \in Traces /\ k \in DOMAIN LastTrace
    BY TableAnswer
  <2>4. TypeOK /\ counters[r][i] = Load(r, i) % CountMod
    BY <2>3 DEF IInv, CountersLoaded
  <2>5. /\ Load(r, i) \in Nat /\ LoadOf(Len(history), r, i) \in Nat
        /\ LoadOf(Len(history), r, i) <= Load(r, i)
    BY <2>3, <2>4, LoadBounds
  <2>6. Load(r, i) = WrappedAway(Load(r, i)) + counters[r][i]
    <3>1. PICK load \in Nat : load = Load(r, i)
      BY <2>5
    <3>2. CountMod \in Nat \ {0}
      BY CMSketchAssumption
    <3>3. load = CountMod * (load \div CountMod) + (load % CountMod)
      BY <3>1, <3>2, Remainder
    <3> QED
      BY <2>4, <3>1, <3>3 DEF WrappedAway
  <2>7. LastTrace[k] \in Nat /\ LastTrace[k] <= LoadOf(Len(history), r, i)
    BY <2>2, <2>3, TraceFacts, TraceLoad DEF LoadOf, LastTrace
  <2>8. WrappedAway(Load(r, i)) + counters[r][i] >= LastTrace[k]
    BY <2>5, <2>6, <2>7
  <2>9. WrappedAway(Load(r, i)) \in Int /\ counters[r][i] \in Int
    BY <2>2, <2>4, <2>5, CMSketchAssumption DEF WrappedAway, TypeOK
  <2>10. cur[k].num + WrappedAway(Load(r, Hash[r][k])) >= LastTrace[k]
    BY <2>1, <2>2, <2>8, <2>9
  <2> QED
    BY <2>10 DEF LastTrace
<1> QED
  BY <1>1, IInvHolds, PTL

\* A counter in the part that reset clears keeps the answer within the last trace.
THEOREM AnswerWithinLoadHolds == Spec => []AnswerWithinLoad
<1>1. IInv => AnswerWithinLoad
  <2> SUFFICES ASSUME IInv, NEW k \in DOMAIN cur, NEW r \in Rows
               PROVE  cur[k].num <= Load(r, Hash[r][k])
    BY DEF AnswerWithinLoad
  <2>1. PICK i \in Cells : i = Hash[r][k]
    BY TableAnswer
  <2>2. history # <<>> /\ cur[k].num <= counters[r][i]
    BY <2>1, TableAnswer
  <2>3. TypeOK /\ counters[r][i] = Load(r, i) % CountMod
    BY <2>2 DEF IInv, CountersLoaded
  <2>4. Load(r, i) \in Nat
    BY <2>2, <2>3, LoadBounds
  <2>5. counters[r][i] <= Load(r, i)
    BY <2>3, <2>4, CMSketchAssumption, Remainder
  <2>6. cur[k].num \in Nat /\ counters[r][i] \in Nat
    BY <2>3, TableAnswer, CMSketchAssumption DEF TypeOK
  <2> QED
    BY <2>1, <2>2, <2>4, <2>5, <2>6
<1> QED
  BY <1>1, IInvHolds, PTL

\* HEAVY_CHANGE writes to the old table, and changes no answer.
THEOREM QueriesKeepAnswersHolds == Spec => QueriesKeepAnswers
<1>1. IInv /\ [Next]_vars => [history' = history => Answers' = Answers]_vars
  <2> SUFFICES ASSUME IInv, [Next]_vars, history' = history PROVE Answers' = Answers
    OBVIOUS
  <2>1. ASSUME NEW trace \in Traces, Stat(trace) PROVE FALSE
    <3>1. history \in Seq(Traces) /\ history' = Append(history, trace)
      BY <2>1 DEF IInv, TypeOK, Stat
    <3> QED
      BY <3>1, Appended
  <2>2. CASE QueryHeavyChange
    <3>1. counters' = counters /\ cur' = cur
      BY <2>2 DEF QueryHeavyChange
    <3>2. ASSUME NEW k \in DOMAIN cur PROVE Prep(k)' = Prep(k)
      BY <2>2 DEF QueryHeavyChange, Prep
    <3>3. HeavyChanges' = HeavyChanges
      BY <3>1, <3>2 DEF HeavyChanges
    <3> QED
      BY <3>1, <3>3 DEF Answers, FlowSize, HeavyHitters, Dist
  <2>3. CASE UNCHANGED vars
    BY <2>3 DEF vars, Answers, FlowSize, HeavyHitters, HeavyChanges, Prep, Dist
  <2> QED
    BY <2>1, <2>2, <2>3 DEF Next
<1> QED
  BY <1>1, IInvHolds, PTL DEF Spec, QueriesKeepAnswers
=============================================================================
