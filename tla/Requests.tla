------------------------------ MODULE Requests ------------------------------
(***************************************************************************)
(* What main asks of the enclave: one STAT per trace file, then every      *)
(* query in the order of enum message_type, then STOP.                     *)
(***************************************************************************)
EXTENDS Naturals, Sequences

CONSTANTS NumTraces,  \* trace files, START_FILE_NO to END_FILE_NO
          None        \* nullptr: no container, no payload, no text, no statistics

ASSUME RequestsAssumption == NumTraces \in Nat \ {0}

Traces  == 1..NumTraces
Queries == <<"FLOW_SIZE", "HEAVY_HITTER", "HEAVY_CHANGE", "CARDINALITY", "DIST", "ENTROPY">>
Types   == {"STAT", "STOP"} \cup {Queries[i] : i \in DOMAIN Queries}

Script == [i \in Traces |-> "STAT"] \o Queries \o <<"STOP">>

\* The queries with a parameter.
WithText == {"FLOW_SIZE", "HEAVY_HITTER", "HEAVY_CHANGE"}

\* The text of request i, when the trace files f have records.  FLOW_SIZE takes the
\* first flow of the first trace, a null pointer when that trace is empty.
RequestText(i, f) ==
  LET type == Script[i]
  IN  IF type = "STAT" THEN <<"trace", i>>
      ELSE IF type = "FLOW_SIZE" THEN IF f[1] THEN <<"flow">> ELSE None
      ELSE IF type \in WithText THEN <<"parameter">> ELSE None

\* The statistics of the strawman before any record: its maps are empty.
EmptyMaps(cur, prep) == cur = 0 /\ prep # None

\* The text of the reply: to which query, with which parameter, about which statistics.
\* The distribution of empty maps is an empty vector, whose data is a null pointer.
ReplyText(type, asked, cur, prep) ==
  IF type = "DIST" /\ EmptyMaps(cur, prep) THEN None ELSE <<type, asked, cur, prep>>
=============================================================================
