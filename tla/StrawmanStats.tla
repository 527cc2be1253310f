--------------------------- MODULE StrawmanStats ---------------------------
(***************************************************************************)
(* The statistics of the strawman enclave: a sketch of NumRows rows of     *)
(* 32-bit counters and, for the flows of the current and of the last       *)
(* trace, a table of what the sketch says of them.  One action serves one  *)
(* STAT message: reset, one insert per record, and the table.              *)
(*                                                                         *)
(* Inserts commute, so a trace is taken as the packets of its flows, each  *)
(* in one record.  A share in the tables is a fraction, the sketch's       *)
(* answer over the total that add_trace takes.                             *)
(***************************************************************************)
EXTENDS CMSketch, Sequences

CONSTANTS WordSize,   \* sizeof(uint32_t), the bytes of a counter
          Counts,     \* the packets of a flow in one trace
          HitterSize, \* HEAVY_HITTER_SIZE
          Threshold,  \* HEAVY_CHANGE_THRESHOLD, in percent
          MaxTraces   \* bound on the number of traces

ASSUME StrawmanAssumption ==
  /\ WordSize \in Nat \ {0}
  /\ RowSize % WordSize = 0
  /\ Counts \subseteq Nat
  /\ MaxTraces \in Nat

VARIABLES counters,  \* the rows of the sketch
          cur, prep, \* cur_statistics, prep_statistics
          history    \* history: the traces so far

vars == <<counters, cur, prep, history>>

NoFlows == [k \in {} |-> 0]

Init ==
  /\ counters = ZeroCounters
  /\ cur = NoFlows
  /\ prep = NoFlows
  /\ history = <<>>

\* Mutant: no row is cleared.
ResetNothing(rows) == rows

\* reset: memset of w bytes of each row, which has w counters.
Reset(rows) ==
  [r \in Rows |-> [i \in Cells |-> IF i < RowSize \div WordSize THEN 0 ELSE rows[r][i]]]

\* insert(key, count) of every flow
InsertAll(rows, trace) ==
  FoldSet(LAMBDA k, acc : SketchInsert(acc, k, trace[k]), rows, DOMAIN trace)

\* size / FLOW_ID_SIZE: a record has 17 bytes, of which the flow id has 13.
Total(trace) == (17 * Cardinality(DOMAIN trace)) \div 13

Share(answer, total) == [num |-> answer, den |-> total]

\* STAT: the table becomes the old one, add_trace fills sketch and table.
Stat(trace) ==
  /\ Len(history) < MaxTraces
  /\ counters' = InsertAll(Reset(counters), trace)
  /\ prep' = cur
  /\ cur' = [k \in DOMAIN trace |-> Share(SketchQuery(counters', k), Total(trace))]
  /\ history' = Append(history, trace)

\* prev_statistics[key]: a flow that is not in the table gets an entry, of 0.
Prep(k) == IF k \in DOMAIN prep THEN prep[k] ELSE Share(0, 1)

\* query_heavy_change: the flows of the last trace whose share is another one in the
\* trace before.
HeavyChanges ==
  {k \in DOMAIN cur :
     LET p == Prep(k)  c == cur[k]
     IN  100 * Max({p.num * c.den - c.num * p.den, c.num * p.den - p.num * c.den})
           >= Threshold * p.den * c.den}

\* Mutant: the entry made for a flow is its present one.
QueryHeavyChangeCopies ==
  /\ prep' = [k \in DOMAIN cur \cup DOMAIN prep |->
                IF k \in DOMAIN prep THEN prep[k] ELSE cur[k]]
  /\ UNCHANGED <<counters, cur, history>>

\* HEAVY_CHANGE: the answer is HeavyChanges; the entries that the lookup makes stay.
QueryHeavyChange ==
  /\ prep' = [k \in DOMAIN cur \cup DOMAIN prep |-> Prep(k)]
  /\ UNCHANGED <<counters, cur, history>>

\* query_heavy_hitter: flows with the largest shares; the order of the hash table
\* decides between equal ones.
HeavyHitters ==
  {top \in SUBSET DOMAIN cur :
     /\ Cardinality(top) = Min({HitterSize, Cardinality(DOMAIN cur)})
     /\ \A k \in top, j \in DOMAIN cur \ top : cur[k].num >= cur[j].num}

\* query_dist: how many flows of the table the sketch gives v packets.
Dist(v) == Cardinality({k \in DOMAIN cur : SketchQuery(counters, k) = v})

\* FLOW_SIZE
FlowSize(k) == SketchQuery(counters, k)

Traces == UNION {[flows -> Counts] : flows \in SUBSET Keys \ {{}}}

Next ==
  \/ \E trace \in Traces : Stat(trace)
  \/ QueryHeavyChange

Spec == Init /\ [][Next]_vars
---------------------------------------------------------------------------
\* The packets that trace n puts into counter i of row r.
LoadOf(n, r, i) == SumOf(history[n], {k \in DOMAIN history[n] : Hash[r][k] = i})

\* The packets that are in it: those of the last trace, and of the earlier ones
\* as well if reset does not reach it.
Load(r, i) ==
  LET reached == i < RowSize \div WordSize
  IN  SumOf([n \in DOMAIN history |-> LoadOf(n, r, i)],
            IF reached THEN {Len(history)} ELSE DOMAIN history)

\* The packets that a counter loses of a load: its range, each time it wraps around.
WrappedAway(load) == CountMod * (load \div CountMod)

\* A flow of the trace is given fewer packets than it has by no more than what one of its
\* counters lost in wrapping around, and never fewer if none has, whatever earlier traces
\* left behind.
NoUnderestimate ==
  \A k \in DOMAIN cur : \E r \in Rows :
    cur[k].num + WrappedAway(Load(r, Hash[r][k])) >= history[Len(history)][k]

\* The answer for a flow is bounded by each of its counters: one in the part that
\* reset clears keeps it within the last trace, however many came before.
AnswerWithinLoad == \A k \in DOMAIN cur, r \in Rows : cur[k].num <= Load(r, Hash[r][k])

\* "remove the last statistics" (EnclaveFunction.cpp:8): the answer for a flow is
\* made of packets of the last trace only.
LastTraceOnly ==
  \A k \in DOMAIN cur : \E r \in Rows : cur[k].num <= LoadOf(Len(history), r, Hash[r][k])

\* The answers to FLOW_SIZE, HEAVY_HITTER, HEAVY_CHANGE, DIST and CARDINALITY.
Answers ==
  <<[k \in Keys |-> FlowSize(k)], HeavyHitters, HeavyChanges,
    [v \in 0..(CountMod - 1) |-> Dist(v)], Cardinality(DOMAIN cur)>>

\* Between two STAT messages every query is answered the same, however often and in
\* whatever order they come, although HEAVY_CHANGE writes to the table it reads
\* (operator[] of unordered_map, the strawman's EnclaveFunction.cpp:44).
QueriesKeepAnswers == [][history' = history => Answers' = Answers]_vars

---------------------------------------------------------------------------
\* The parts of the inductive invariant.

LastTrace == history[Len(history)]

TypeOK ==
  /\ counters \in [Rows -> [Cells -> 0..(CountMod - 1)]]
  /\ history \in Seq(Traces)

\* The table holds what the sketch says, now, of each flow of the last trace.
TableIsSketch ==
  cur = IF history = <<>> THEN NoFlows
        ELSE [k \in DOMAIN LastTrace |-> Share(SketchQuery(counters, k), Total(LastTrace))]

\* A counter is what the traces put into it since reset last reached it, modulo its range.
CountersLoaded ==
  \A r \in Rows, i \in Cells :
    counters[r][i] = IF history = <<>> THEN 0 ELSE Load(r, i) % CountMod

IInv == TypeOK /\ TableIsSketch /\ CountersLoaded
=============================================================================
