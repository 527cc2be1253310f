---------------------------- MODULE Measurement ----------------------------
(***************************************************************************)
(* What the two threads together promise: the requests are served one      *)
(* after the other, a query about the traces served before it, and the     *)
(* replies are shown in order once serving is over.                        *)
(***************************************************************************)
EXTENDS Requests

VARIABLES files,    \* files[i]: has trace file i any records
          served,   \* requests served
          cur,      \* the trace the statistics are of, 0 for none
          prep,     \* the trace before it, or None
          replies,  \* the replies so far
          shown,    \* how many of them have been shown
          up        \* the enclave has not failed

vars == <<files, served, cur, prep, replies, shown, up>>

Init ==
  /\ files \in [Traces -> BOOLEAN]
  /\ served = 0
  /\ cur = 0
  /\ prep \in {None, 0}
  /\ replies = <<>>
  /\ shown = 0
  /\ up = TRUE

\* A file without records leaves the statistics as they are.
Stat ==
  /\ up
  /\ served \in 0..(NumTraces - 1)
  /\ served' = served + 1
  /\ IF files[served + 1]
     THEN prep' = cur /\ cur' = served + 1
     ELSE UNCHANGED <<prep, cur>>
  /\ UNCHANGED <<files, replies, shown, up>>

\* A query without a parameter to unpack, FLOW_SIZE of an empty first trace, is
\* answered for a parameter that nothing has set.
Query ==
  /\ up
  /\ served \in NumTraces..(Len(Script) - 2)
  /\ Script[served + 1] = "HEAVY_CHANGE" => prep # None
  /\ served' = served + 1
  /\ replies' = Append(replies, ReplyText(Script[served + 1], RequestText(served + 1, files),
                                         cur, prep))
  /\ UNCHANGED <<files, cur, prep, shown, up>>

Stop ==
  /\ up
  /\ served = Len(Script) - 1
  /\ served' = served + 1
  /\ UNCHANGED <<files, cur, prep, replies, shown, up>>

\* The enclave may fail over the parameter that FLOW_SIZE lacks when the first file is
\* empty, and does fail over old statistics that are null.
Fail ==
  /\ up
  /\ served \in NumTraces..(Len(Script) - 2)
  /\ \/ Script[served + 1] = "FLOW_SIZE" /\ ~files[1]
     \/ Script[served + 1] = "HEAVY_CHANGE" /\ prep = None
  /\ served' = served + 1
  /\ up' = FALSE
  /\ UNCHANGED <<files, cur, prep, replies, shown>>

Show ==
  /\ served = Len(Script) \/ ~up
  /\ shown < Len(replies)
  /\ shown' = shown + 1
  /\ UNCHANGED <<files, served, cur, prep, replies, up>>

Next == Stat \/ Query \/ Stop \/ Fail \/ Show

Spec == Init /\ [][Next]_vars
=============================================================================
