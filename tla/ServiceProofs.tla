--------------------------- MODULE ServiceProofs ---------------------------
(***************************************************************************)
(* What holds of Service for any number of traces and containers, and that *)
(* with a container for each request the two threads do what Measurement   *)
(* says.                                                                   *)
(***************************************************************************)
EXTENDS Service, SequenceTheorems, TLAPS

---------------------------------------------------------------------------
(* The inductive invariant                                                  *)

\* The requests that the enclave has received.
Taken == sent - Len(inbox)

InService == enclave \in {"dispatch", "take", "pack", "send"}

\* Those that it is done with.
Past == Taken - (IF InService THEN 1 ELSE 0)

\* Which thread holds what at which step.
HandsMatchSteps ==
  /\ app \in {"take", "join", "drain", "done"} => appMsg = None
  /\ app \in {"send", "print", "free", "return"} => appMsg # None
  /\ enclave = "poll" <=> in = None
  /\ enclave \in {"pack", "send"} \/ out = None
  /\ enclave = "send" => out # None
  /\ enclave \in {"take", "pack", "send"} => answer # None

\* How far main and the enclave have got in the script.
InScript ==
  /\ Len(inbox) <= sent
  /\ app \in {"take", "pack", "send"} => sent < Len(Script)
  /\ app \in {"join", "drain", "print", "free", "return", "done"} => sent = Len(Script)
  /\ enclave # "poll" => Taken > 0
  /\ enclave \in {"take", "pack", "send"} => Taken > NumTraces
  /\ app \in {"drain", "print", "free", "return", "done"} => enclave \in {"stopped", "failed"}

\* Every container is counted.
Held(m) == IF m = None THEN 0 ELSE 1
AllCounted ==
  Len(pool) + Len(inbox) + Len(outbox) + Held(appMsg) + Held(in) + Held(out) = PoolSize

\* The requests about traces have no reply, a query has one.
FewReplies ==
  \/ Len(outbox) = 0
  \/ Len(outbox) + NumTraces <= Past

Intact(m) == m.payload # None /\ Opens(m)

\* Container m has been packed with a text of this type and size.
IsPacked(m, type, text, size) ==
  /\ m.type = type
  /\ m.size = IF size # 0 THEN IVSize + size ELSE 0
  /\ IF text = None THEN m.payload = None ELSE Intact(m) /\ m.payload.data.text = text

IsRequest(m, i) == IsPacked(m, Script[i], RequestText(i, files), RequestSize(i, files))

RequestsInOrder ==
  /\ \A i \in DOMAIN inbox : IsRequest(content[inbox[i]], Taken + i)
  /\ app = "send" => IsRequest(content[appMsg], sent + 1)
  /\ enclave = "dispatch" => IsRequest(content[in], Taken)

\* A reply whose text may be empty: a list of heavy changes, and of no records a distribution.
MayBeEmpty(type) ==
  \/ type = "HEAVY_CHANGE"
  \/ type = "DIST" /\ \A i \in Traces : ~files[i]

IsReply(m) ==
  /\ m.payload # None => Opens(m)
  /\ m.size < IVSize => m.size = 0 /\ MayBeEmpty(m.type)

Replied ==
  /\ \A i \in DOMAIN outbox : IsReply(content[outbox[i]])
  /\ app = "print" => IsReply(content[appMsg])
  /\ enclave = "send" => IsReply(content[out])
  /\ answer # None /\ answer.size = 0 => MayBeEmpty(answer.query)

\* Containers that come from the pool or go back to it.
HeldBlank ==
  /\ app \in {"pack", "return"} /\ appMsg # None => content[appMsg] = Blank
  /\ enclave = "return" => content[in] = Blank
  /\ enclave = "pack" /\ out # None => content[out] = Blank

\* Once a trace with records has been served there are statistics, and old ones.
OldStatistics ==
  \A i \in Traces : i <= Past /\ files[i] => prep # None /\ cur > 0

IInv ==
  /\ TypeOK /\ OnePlace /\ PooledBlank
  /\ HandsMatchSteps /\ InScript /\ AllCounted /\ FewReplies
  /\ RequestsInOrder /\ Replied /\ HeldBlank /\ OldStatistics
  /\ PoolSuffices /\ FailuresExplained

---------------------------------------------------------------------------
(* The script, texts and containers                                         *)

\* What main sends: the traces, six queries, STOP.
LEMMA ScriptShape ==
  /\ Script \in Seq(Types)
  /\ Len(Script) = NumTraces + 7
  /\ \A i \in 1..Len(Script) : Script[i] = "STAT" <=> i <= NumTraces
  /\ \A i \in 1..Len(Script) : Script[i] = "STOP" <=> i = NumTraces + 7
<1> DEFINE stats == [i \in Traces |-> "STAT"]
           front == stats \o Queries
           stop  == <<"STOP">>
<1> USE RequestsAssumption
<1>1. stats \in Seq(Types) /\ Len(stats) = NumTraces /\ \A i \in 1..NumTraces : stats[i] = "STAT"
  BY DEF Traces, Types
<1>2. /\ Queries \in Seq(Types) /\ Len(Queries) = 6
      /\ \A i \in 1..6 : Queries[i] \notin {"STAT", "STOP"}
  BY DEF Types, Queries
<1>3. stop \in Seq(Types) /\ Len(stop) = 1 /\ stop[1] = "STOP"
  BY DEF Types
<1>4. Script = front \o stop
  BY DEF Script
<1> HIDE DEF stats, stop
<1>C. \A s, t \in Seq(Types) :
        /\ s \o t \in Seq(Types) /\ Len(s \o t) = Len(s) + Len(t)
        /\ \A i \in 1..(Len(s) + Len(t)) :
             (s \o t)[i] = IF i <= Len(s) THEN s[i] ELSE t[i - Len(s)]
  BY ConcatProperties
<1>5. /\ front \in Seq(Types)
      /\ Len(front) = Len(stats) + Len(Queries)
      /\ \A i \in 1..(Len(stats) + Len(Queries)) :
           front[i] = IF i <= Len(stats) THEN stats[i] ELSE Queries[i - Len(stats)]
  BY <1>1, <1>2, <1>C
<1> HIDE DEF front
<1>6. /\ Script \in Seq(Types)
      /\ Len(Script) = Len(front) + Len(stop)
      /\ \A i \in 1..(Len(front) + Len(stop)) :
           Script[i] = IF i <= Len(front) THEN front[i] ELSE stop[i - Len(front)]
  BY <1>3, <1>4, <1>5, <1>C
<1>7. Len(front) = NumTraces + 6 /\ Len(Script) = NumTraces + 7
  BY <1>1, <1>2, <1>3, <1>5, <1>6
<1>8. ASSUME NEW i \in 1..Len(Script)
      PROVE  /\ i <= NumTraces => Script[i] = "STAT"
             /\ NumTraces < i /\ i <= NumTraces + 6 => Script[i] \notin {"STAT", "STOP"}
             /\ i = NumTraces + 7 => Script[i] = "STOP"
  <2>1. i <= NumTraces => Script[i] = "STAT"
    BY <1>1, <1>2, <1>3, <1>5, <1>6, <1>7
  <2>2. NumTraces < i /\ i <= NumTraces + 6 => Script[i] = Queries[i - NumTraces]
    BY <1>1, <1>2, <1>3, <1>5, <1>6, <1>7
  <2>3. i = NumTraces + 7 => Script[i] = "STOP"
    BY <1>1, <1>2, <1>3, <1>5, <1>6, <1>7
  <2> QED
    BY <1>2, <2>1, <2>2, <2>3
<1> QED
  BY <1>6, <1>7, <1>8

\* Taking the head of a queue without repetitions takes one container out.
LEMMA TailQueue ==
  ASSUME NEW q \in Seq(Containers), q # <<>>, NoRepeat(q)
  PROVE  /\ NoRepeat(Tail(q)) /\ InQueue(Head(q), q)
         /\ \A c : InQueue(c, Tail(q)) <=> InQueue(c, q) /\ c # Head(q)
<1> USE DEF NoRepeat, InQueue
<1>1. /\ Len(q) \in Nat \ {0} /\ DOMAIN q = 1..Len(q) /\ Head(q) = q[1]
      /\ DOMAIN Tail(q) = 1..(Len(q) - 1)
      /\ \A i \in 1..(Len(q) - 1) : Tail(q)[i] = q[i + 1]
  OBVIOUS
<1>2. NoRepeat(Tail(q)) /\ InQueue(Head(q), q)
  BY <1>1
<1>3. ASSUME NEW c PROVE InQueue(c, Tail(q)) <=> InQueue(c, q) /\ c # Head(q)
  <2>1. ASSUME InQueue(c, Tail(q)) PROVE InQueue(c, q) /\ c # Head(q)
    BY <1>1, <2>1
  <2>2. ASSUME InQueue(c, q), c # Head(q) PROVE InQueue(c, Tail(q))
    <3>1. PICK i \in 1..Len(q) : q[i] = c
      BY <1>1, <2>2
    <3>2. i - 1 \in 1..(Len(q) - 1) /\ Tail(q)[i - 1] = c
      BY <1>1, <2>2, <3>1
    <3> QED
      BY <1>1, <3>2
  <2> QED
    BY <2>1, <2>2
<1> QED
  BY <1>2, <1>3

\* Appending a new container puts one container in.
LEMMA AppendQueue ==
  ASSUME NEW q \in Seq(Containers), NEW m \in Containers, NoRepeat(q), ~InQueue(m, q)
  PROVE  /\ NoRepeat(Append(q, m))
         /\ \A c : InQueue(c, Append(q, m)) <=> InQueue(c, q) \/ c = m
<1> USE DEF NoRepeat, InQueue
<1>1. /\ Len(q) \in Nat /\ DOMAIN q = 1..Len(q)
      /\ DOMAIN Append(q, m) = 1..(Len(q) + 1)
      /\ \A i \in 1..Len(q) : Append(q, m)[i] = q[i]
      /\ Append(q, m)[Len(q) + 1] = m
  OBVIOUS
<1>2. NoRepeat(Append(q, m))
  BY <1>1
<1>3. ASSUME NEW c PROVE InQueue(c, Append(q, m)) <=> InQueue(c, q) \/ c = m
  <2>1. InQueue(c, Append(q, m)) => InQueue(c, q) \/ c = m
    BY <1>1
  <2>2. InQueue(c, q) => InQueue(c, Append(q, m))
    BY <1>1
  <2>3. InQueue(m, Append(q, m))
    BY <1>1
  <2> QED
    BY <2>1, <2>2, <2>3
<1> QED
  BY <1>2, <1>3

---------------------------------------------------------------------------
(* Texts and contents                                                       *)

\* pack_message fills a container with what it is given.
LEMMA PackedFacts ==
  ASSUME NEW m \in Contents, NEW type \in Types, NEW text \in Texts, NEW size \in {0, TextSize},
         NEW iv \in IVs
  PROVE  /\ Packed(m, type, text, size, iv) \in Contents
         /\ m.payload = None => IsPacked(Packed(m, type, text, size, iv), type, text, size)
<1> DEFINE p == Packed(m, type, text, size, iv)
<1>1. Sealed(iv, text) \in SealedTexts
  BY DEF Sealed, SealedTexts
<1>2. (IF size # 0 THEN IVSize + size ELSE 0) \in {0, IVSize + TextSize}
  BY DEF TextSize, IVSize
<1>3. CASE text = None
  <2>1. p = [m EXCEPT !.type = type, !.size = IF size # 0 THEN IVSize + size ELSE 0]
    BY <1>3 DEF Packed
  <2> QED
    BY <1>2, <1>3, <2>1 DEF Contents, IsPacked
<1>4. CASE text # None
  <2>1. /\ p.type = type /\ p.size = IF size # 0 THEN IVSize + size ELSE 0
        /\ p.mac = Sealed(iv, text) /\ p.payload = [iv |-> iv, data |-> Sealed(iv, text)]
        /\ p = [type |-> p.type, size |-> p.size, mac |-> p.mac, payload |-> p.payload]
    BY <1>4 DEF Packed, Contents
  <2>2. p.payload \in Payloads /\ p.payload # None
    BY <1>1, <2>1, NoneAssumption DEF Payloads
  <2>3. p \in Contents
    BY <1>1, <1>2, <2>1, <2>2 DEF Contents
  <2>4. IsPacked(p, type, text, size)
    BY <1>4, <2>1, <2>2 DEF IsPacked, Intact, Opens, Sealed
  <2> QED
    BY <2>3, <2>4
<1> QED
  BY <1>3, <1>4

\* free_message leaves a container without payload.
LEMMA BlankFacts == Blank \in Contents /\ Blank.payload = None
BY DEF Blank, Contents, Types

\* Every request has a type, a text and a size; that of a trace is named by its file.
LEMMA RequestFacts ==
  ASSUME TypeOK, NEW i \in 1..Len(Script)
  PROVE  /\ Script[i] \in Types /\ RequestText(i, files) \in Texts /\ RequestSize(i, files) \in {0, TextSize}
         /\ Script[i] = "STAT" => i \in Traces /\ RequestText(i, files) = <<"trace", i>>
         /\ Script[i] = "STAT" => RequestText(i, files) # None /\ (RequestSize(i, files) # 0 <=> files[i])
         /\ Script[i] # "STAT" => RequestText(i, files) \in Questions
         /\ Script[i] \in WithText => RequestSize(i, files) # 0
         /\ Script[i] \notin WithText \cup {"STAT"} => RequestText(i, files) = None
         /\ Script[i] \in WithText /\ RequestText(i, files) = None =>
              Script[i] = "FLOW_SIZE" /\ ~files[1]
<1>1. Script[i] \in Types /\ (Script[i] = "STAT" => i \in Traces)
  BY ScriptShape, RequestsAssumption DEF Traces
<1>2. /\ <<"flow">> \in Texts /\ <<"parameter">> \in Texts /\ None \in Texts
      /\ <<"flow">> # None /\ <<"parameter">> # None
      /\ Script[i] = "STAT" => <<"trace", i>> \in Texts /\ <<"trace", i>> # None
  BY <1>1, NoneAssumption DEF Texts, RequestTexts
<1>3. Script[i] = "STAT" => files[i] \in BOOLEAN
  BY <1>1 DEF TypeOK
<1>4. RequestSize(i, files) \in {0, TextSize} /\ (Script[i] = "STAT" => (RequestSize(i, files) # 0 <=> files[i]))
  BY <1>3 DEF RequestSize, TextSize
<1>5. /\ RequestText(i, files) \in Texts
      /\ Script[i] = "STAT" => RequestText(i, files) = <<"trace", i>>
      /\ Script[i] # "STAT" => RequestText(i, files) \in Questions
      /\ Script[i] \notin WithText \cup {"STAT"} => RequestText(i, files) = None
      /\ Script[i] \in WithText /\ RequestText(i, files) = None =>
           Script[i] = "FLOW_SIZE" /\ ~files[1]
  BY <1>1, <1>2 DEF RequestText, WithText, Questions
<1>6. Script[i] \in WithText => RequestSize(i, files) # 0
  BY DEF RequestSize, WithText, TextSize
<1> QED
  BY <1>1, <1>2, <1>4, <1>5, <1>6

\* A container holds a text, or nothing of use.
LEMMA OpenedText == \A m \in Contents : Opened(m) \in Texts
BY DEF Contents, Opened, Payloads, SealedTexts, Texts

\* A reply is a text, or none.
LEMMA ReplyFacts ==
  ASSUME TypeOK, answer # None
  PROVE  /\ Reply \in Texts
         /\ answer.query \in Types /\ answer.size \in {0, TextSize}
<1>1. answer \in Answers
  BY DEF TypeOK
<1>2. <<answer.query, answer.asked, answer.cur, answer.prep>> \in ReplyTexts
  BY <1>1 DEF Answers, ReplyTexts
<1> QED
  BY <1>1, <1>2 DEF Answers, Reply, ReplyText, Texts

\* incr_ctr gives an IV.
LEMMA IVFacts == \A iv \in IVs : IncrCtr(iv) \in IVs
BY ServiceAssumption DEF IVs, IncrCtr

---------------------------------------------------------------------------
(* The request at hand                                                      *)

\* What the enclave serves is the request of the script whose turn it is: only FLOW_SIZE of
\* an empty first trace lacks its text.
LEMMA ServedFacts ==
  ASSUME IInv, enclave = "dispatch"
  PROVE  /\ Taken \in 1..Len(Script) /\ IsRequest(Received, Taken)
         /\ Received.type = Script[Taken]
         /\ Received.type = "STAT" <=> Taken <= NumTraces
         /\ Received.type = "STAT" => (Received.size > 0 <=> files[Taken]) /\ Taken \in Traces
         /\ Opened(Received) = RequestText(Taken, files)
         /\ Received.type # "STAT" => Asked = RequestText(Taken, files) /\ Asked \in Questions
         /\ Received.type \in WithText => Received.size > 0
         /\ NothingToUnpack => Received.type = "FLOW_SIZE" /\ ~files[1]
<1>1. Taken \in 1..Len(Script) /\ IsRequest(Received, Taken)
  BY ScriptShape, RequestsAssumption
     DEF IInv, TypeOK, InScript, RequestsInOrder, Received, Taken
<1>2. /\ Received.type = Script[Taken]
      /\ IF RequestText(Taken, files) = None THEN Received.payload = None
         ELSE Intact(Received) /\ Received.payload.data.text = RequestText(Taken, files)
      /\ Received.size = IF RequestSize(Taken, files) # 0 THEN IVSize + RequestSize(Taken, files) ELSE 0
  BY <1>1 DEF IsRequest, IsPacked
<1>3. TypeOK
  BY DEF IInv
<1>4. Received.size > 0 <=> RequestSize(Taken, files) # 0
  BY <1>1, <1>2, <1>3, RequestFacts DEF IVSize, TextSize
<1>5. Opened(Received) = RequestText(Taken, files)
  BY <1>2 DEF Opened, Intact
<1>6. Received.type # "STAT" => Asked = RequestText(Taken, files) /\ Asked \in Questions
  BY <1>1, <1>2, <1>3, <1>5, RequestFacts DEF Asked
<1>7. NothingToUnpack => Received.type = "FLOW_SIZE" /\ ~files[1]
  BY <1>1, <1>2, <1>3, RequestFacts DEF NothingToUnpack, Intact
<1> QED
  BY <1>1, <1>2, <1>3, <1>4, <1>5, <1>6, <1>7, ScriptShape, RequestFacts

\* A query is answered from the statistics, unless there is nothing to unpack or no old
\* statistics.
LEMMA QueryAnswered ==
  ASSUME IInv, ServeQuery
  PROVE  /\ Taken > NumTraces /\ Taken < Len(Script)
         /\ enclave' \in {"failed", "take"}
         /\ enclave' = "failed" => answer' = answer /\ (NothingToUnpack \/ NoOldStatistics)
         /\ enclave' = "take" =>
              /\ ~NoOldStatistics
              /\ answer' \in Answers
              /\ \E size \in ReplySizes(Received.type) :
                   answer' = [query |-> Received.type, asked |-> Asked, cur |-> cur, prep |-> prep,
                              size |-> size]
<1>1. /\ enclave = "dispatch" /\ Received.type \notin {"STAT", "STOP"} /\ ~Ignored
  BY ServedFacts DEF ServeQuery, Ignored
<1>2. Taken > NumTraces /\ Taken < Len(Script)
  BY <1>1, ServedFacts, ScriptShape, RequestsAssumption
<1>3. /\ Received.type \in Types /\ Asked \in Questions /\ cur \in 0..NumTraces
      /\ prep \in {None} \cup 0..NumTraces
  BY <1>1, ServedFacts, ScriptShape DEF IInv, TypeOK
<1>4. ReplySizes(Received.type) \subseteq {0, TextSize}
  BY DEF ReplySizes
<1>5. \A size \in ReplySizes(Received.type) :
        [query |-> Received.type, asked |-> Asked, cur |-> cur, prep |-> prep, size |-> size]
          \in Answers
  BY <1>3, <1>4 DEF Answers
<1>6. \/ /\ NothingToUnpack \/ NoOldStatistics
         /\ enclave' = "failed" /\ answer' = answer
      \/ /\ ~NoOldStatistics
         /\ enclave' = "take"
         /\ \E size \in ReplySizes(Received.type) :
              answer' = [query |-> Received.type, asked |-> Asked, cur |-> cur, prep |-> prep,
                         size |-> size]
  BY <1>1 DEF ServeQuery
<1> QED
  BY <1>2, <1>5, <1>6

---------------------------------------------------------------------------
(* The invariant is kept                                                    *)

\* A step of either thread keeps the types; the statistics are of a trace because the
\* text of a STAT request names one.
LEMMA TypeStep ==
  ASSUME IInv, Next
  PROVE  TypeOK'
<1> USE DEF IInv, TypeOK, HandsMatchSteps, InScript
<1>1. ASSUME AppTake PROVE TypeOK'
  BY <1>1 DEF AppTake, Front, Rest, enclaveVars
<1>2. ASSUME AppPack PROVE TypeOK'
  <2>1. CASE appMsg = None
    BY <1>2, <2>1 DEF AppPack, enclaveVars
  <2>2. CASE appMsg # None
    <3>1. sent + 1 \in 1..Len(Script)
      BY <1>2, ScriptShape, RequestsAssumption DEF AppPack
    <3> DEFINE p == Packed(content[appMsg], Script[sent + 1], RequestText(sent + 1, files),
                           RequestSize(sent + 1, files), appIV)
    <3>2. p \in Contents
      BY <2>2, <3>1, RequestFacts, PackedFacts
    <3>3. content' = [content EXCEPT ![appMsg] = p] /\ appIV' \in {appIV, IncrCtr(appIV)}
          /\ app' = "send"
      BY <1>2, <2>2 DEF AppPack
    <3> HIDE DEF p
    <3> QED
      BY <1>2, <3>2, <3>3, IVFacts DEF AppPack, enclaveVars
  <2> QED
    BY <2>1, <2>2
<1>3. ASSUME AppSend PROVE TypeOK'
  BY <1>3, ScriptShape, RequestsAssumption DEF AppSend, enclaveVars
<1>4. ASSUME AppJoin PROVE TypeOK'
  BY <1>4 DEF AppJoin, enclaveVars
<1>5. ASSUME AppDrain PROVE TypeOK'
  BY <1>5 DEF AppDrain, Front, Rest, enclaveVars
<1>6. ASSUME AppPrint PROVE TypeOK'
  <2>1. content[appMsg] \in Contents
    BY <1>6 DEF AppPrint
  <2>2. Opened(content[appMsg]) \in Texts
    BY <2>1, OpenedText
  <2>3. /\ printed' = Append(printed, Opened(content[appMsg])) \/ printed' = printed
        /\ app' \in {"free", "crashed"}
    BY <1>6 DEF AppPrint
  <2>4. printed' \in Seq(Texts)
    <3>1. printed \in Seq(Texts)
      OBVIOUS
    <3>2. \A t \in Texts : Append(printed, t) \in Seq(Texts)
      BY <3>1
    <3> QED
      BY <2>2, <2>3, <3>1, <3>2
  <2> QED
    BY <1>6, <2>3, <2>4 DEF AppPrint, enclaveVars
<1>7. ASSUME AppFree PROVE TypeOK'
  BY <1>7, BlankFacts DEF AppFree, enclaveVars
<1>8. ASSUME AppReturn PROVE TypeOK'
  BY <1>8 DEF AppReturn, enclaveVars
<1>9. ASSUME EnclaveReceive PROVE TypeOK'
  BY <1>9 DEF EnclaveReceive, appVars
<1>10. ASSUME ServeStat PROVE TypeOK'
  <2>1. cur' \in 0..NumTraces /\ prep' \in {None} \cup 0..NumTraces
    <3>1. CASE Received.size > 0
      <4>1. Taken \in 1..Len(Script) /\ IsRequest(Received, Taken) /\ Script[Taken] = "STAT"
        BY <1>10, ScriptShape, RequestsAssumption
           DEF ServeStat, Taken, RequestsInOrder, IsRequest, IsPacked, Received
      <4>2. Opened(Received) = <<"trace", Taken>> /\ Taken \in Traces
        BY <1>10, <4>1, ServedFacts, RequestFacts DEF ServeStat
      <4> QED
        BY <1>10, <3>1, <4>2 DEF ServeStat, Traces
    <3> QED
      BY <1>10, <3>1 DEF ServeStat
  <2> QED
    BY <1>10, <2>1 DEF ServeStat, appVars
<1>11. ASSUME ServeQuery PROVE TypeOK'
  <2>2. answer' \in Answers \cup {None} /\ enclave' \in {"free", "failed", "take"}
    BY <1>11, QueryAnswered DEF ServeQuery
  <2> QED
    BY <1>11, <2>2 DEF ServeQuery, appVars
<1>12. ASSUME ServeStop PROVE TypeOK'
  BY <1>12 DEF ServeStop, appVars
<1>13. ASSUME EnclaveTake PROVE TypeOK'
  BY <1>13 DEF EnclaveTake, Front, Rest, appVars
<1>14. ASSUME EnclavePack PROVE TypeOK'
  <2>1. CASE out = None
    BY <1>14, <2>1 DEF EnclavePack, appVars
  <2>2. CASE out # None
    <3> DEFINE p == Packed(content[out], answer.query, Reply, answer.size, enclaveIV)
    <3>1. p \in Contents
      BY <1>14, <2>2, ReplyFacts, PackedFacts DEF EnclavePack
    <3>2. content' = [content EXCEPT ![out] = p] /\ enclaveIV' \in {enclaveIV, IncrCtr(enclaveIV)}
          /\ enclave' = "send"
      BY <1>14, <2>2 DEF EnclavePack
    <3> HIDE DEF p
    <3> QED
      BY <1>14, <3>1, <3>2, IVFacts DEF EnclavePack, appVars
  <2> QED
    BY <2>1, <2>2
<1>15. ASSUME EnclaveSend PROVE TypeOK'
  BY <1>15 DEF EnclaveSend, appVars
<1>16. ASSUME EnclaveFree PROVE TypeOK'
  BY <1>16, BlankFacts DEF EnclaveFree, appVars
<1>17. ASSUME EnclaveReturn PROVE TypeOK'
  BY <1>17 DEF EnclaveReturn, appVars
<1> QED
  BY <1>1, <1>2, <1>3, <1>4, <1>5, <1>6, <1>7, <1>8, <1>9, <1>10, <1>11, <1>12, <1>13, <1>14,
     <1>15, <1>16, <1>17 DEF Next, AppStep, EnclaveStep

\* The places of all containers stay as they are.
LEMMA NothingMoves ==
  ASSUME OnePlace, UNCHANGED <<pool, inbox, outbox, appMsg, in, out>>
  PROVE  OnePlace'
BY DEF OnePlace, NoRepeat, At, InQueue

\* One container moves to a place of its own.
LEMMA OneMoves ==
  ASSUME OnePlace, NEW m \in Containers, NEW p \in Places,
         NoRepeat(pool)', NoRepeat(inbox)', NoRepeat(outbox)',
         \A c \in Containers :
           /\ InQueue(c, pool)'   <=> IF c = m THEN p = "pool"   ELSE InQueue(c, pool)
           /\ InQueue(c, inbox)'  <=> IF c = m THEN p = "inbox"  ELSE InQueue(c, inbox)
           /\ InQueue(c, outbox)' <=> IF c = m THEN p = "outbox" ELSE InQueue(c, outbox)
           /\ c = appMsg'         <=> IF c = m THEN p = "appMsg" ELSE c = appMsg
           /\ c = in'             <=> IF c = m THEN p = "in"     ELSE c = in
           /\ c = out'            <=> IF c = m THEN p = "out"    ELSE c = out
  PROVE  OnePlace'
<1>1. ASSUME NEW c \in Containers, NEW q \in Places
      PROVE  At(c, q)' <=> IF c = m THEN q = p ELSE At(c, q)
  <2>1. CASE c = m
    BY <2>1 DEF At, Places
  <2>2. CASE c # m
    BY <2>2 DEF At
  <2> QED
    BY <2>1, <2>2
<1>2. ASSUME NEW c \in Containers PROVE \E r \in Places : \A q \in Places : At(c, q)' <=> q = r
  <2>1. CASE c = m
    BY <1>1, <2>1
  <2>2. CASE c # m
    BY <1>1, <2>2 DEF OnePlace
  <2> QED
    BY <2>1, <2>2
<1> QED
  BY <1>2 DEF OnePlace

\* Whatever is in one place is in no other.
LEMMA Elsewhere ==
  ASSUME OnePlace, NEW m \in Containers, NEW p \in Places, At(m, p), NEW q \in Places, q # p
  PROVE  ~At(m, q)
BY DEF OnePlace

\* A step moves one container from one place to another, or none.
LEMMA PlaceStep ==
  ASSUME IInv, Next
  PROVE  OnePlace'
<1>1. /\ OnePlace /\ NoRepeat(pool) /\ NoRepeat(inbox) /\ NoRepeat(outbox)
      /\ pool \in Seq(Containers) /\ inbox \in Seq(Containers) /\ outbox \in Seq(Containers)
      /\ appMsg \in Containers \cup {None} /\ in \in Containers \cup {None}
      /\ out \in Containers \cup {None}
  BY DEF IInv, OnePlace, TypeOK
<1>2. HandsMatchSteps /\ None \notin Containers
  BY NoneAssumption DEF IInv, Containers
<1> USE <1>1
<1>3. ASSUME AppTake PROVE OnePlace'
  <2>1. CASE pool = <<>>
    <3>1. UNCHANGED <<pool, inbox, outbox, appMsg, in, out>>
      BY <1>2, <1>3, <2>1 DEF AppTake, Front, Rest, HandsMatchSteps, enclaveVars, appVars
    <3> QED
      BY <3>1, NothingMoves
  <2>2. CASE pool # <<>>
    <3>1. /\ pool' = Tail(pool) /\ appMsg' = Head(pool) /\ appMsg = None
          /\ UNCHANGED <<inbox, outbox, in, out>>
      BY <1>2, <1>3, <2>2 DEF AppTake, Front, Rest, HandsMatchSteps, enclaveVars, appVars
    <3>2. /\ NoRepeat(pool)' /\ NoRepeat(inbox)' /\ NoRepeat(outbox)'
          /\ Head(pool) \in Containers /\ At(Head(pool), "pool")
          /\ \A c : InQueue(c, pool)' <=> InQueue(c, pool) /\ c # Head(pool)
      BY <2>2, <3>1, TailQueue DEF NoRepeat, At
    <3>3. \A r \in Places \ {"pool"} : ~At(Head(pool), r)
      BY <3>2, Elsewhere DEF Places
    <3>4. \A c \in Containers :
          /\ InQueue(c, pool)'   <=> IF c = Head(pool) THEN "appMsg" = "pool"   ELSE InQueue(c, pool)
          /\ InQueue(c, inbox)'  <=> IF c = Head(pool) THEN "appMsg" = "inbox"  ELSE InQueue(c, inbox)
          /\ InQueue(c, outbox)' <=> IF c = Head(pool) THEN "appMsg" = "outbox" ELSE InQueue(c, outbox)
          /\ c = appMsg'         <=> IF c = Head(pool) THEN "appMsg" = "appMsg" ELSE c = appMsg
          /\ c = in'             <=> IF c = Head(pool) THEN "appMsg" = "in"     ELSE c = in
          /\ c = out'            <=> IF c = Head(pool) THEN "appMsg" = "out"    ELSE c = out
      BY <1>2, <3>1, <3>2, <3>3 DEF At, Places
    <3> QED
      BY <3>2, <3>4, OneMoves DEF Places
  <2> QED
    BY <2>1, <2>2
<1>4. ASSUME AppSend PROVE OnePlace'
  <2>1. /\ inbox' = Append(inbox, appMsg) /\ appMsg' = None /\ appMsg \in Containers
        /\ UNCHANGED <<pool, outbox, in, out>>
    BY <1>2, <1>4 DEF AppSend, HandsMatchSteps, enclaveVars, appVars
  <2>2. \A r \in Places \ {"appMsg"} : ~At(appMsg, r)
    BY <2>1, Elsewhere DEF Places, At
  <2>3. /\ NoRepeat(pool)' /\ NoRepeat(inbox)' /\ NoRepeat(outbox)'
        /\ \A c : InQueue(c, inbox)' <=> InQueue(c, inbox) \/ c = appMsg
    <3>1. ~InQueue(appMsg, inbox)
      BY <2>2 DEF At, Places
    <3> QED
      BY <2>1, <3>1, AppendQueue DEF NoRepeat
  <2>4. \A c \in Containers :
        /\ InQueue(c, pool)'   <=> IF c = appMsg THEN "inbox" = "pool"   ELSE InQueue(c, pool)
        /\ InQueue(c, inbox)'  <=> IF c = appMsg THEN "inbox" = "inbox"  ELSE InQueue(c, inbox)
        /\ InQueue(c, outbox)' <=> IF c = appMsg THEN "inbox" = "outbox" ELSE InQueue(c, outbox)
        /\ c = appMsg'         <=> IF c = appMsg THEN "inbox" = "appMsg" ELSE c = appMsg
        /\ c = in'             <=> IF c = appMsg THEN "inbox" = "in"     ELSE c = in
        /\ c = out'            <=> IF c = appMsg THEN "inbox" = "out"    ELSE c = out
    BY <1>2, <2>1, <2>2, <2>3 DEF At, Places
  <2> QED
    BY <2>1, <2>3, <2>4, OneMoves DEF Places
<1>5. ASSUME AppDrain PROVE OnePlace'
  <2>1. CASE outbox = <<>>
    <3>1. UNCHANGED <<pool, inbox, outbox, appMsg, in, out>>
      BY <1>2, <1>5, <2>1 DEF AppDrain, Front, Rest, HandsMatchSteps, enclaveVars, appVars
    <3> QED
      BY <3>1, NothingMoves
  <2>2. CASE outbox # <<>>
    <3>1. /\ outbox' = Tail(outbox) /\ appMsg' = Head(outbox) /\ appMsg = None
          /\ UNCHANGED <<pool, inbox, in, out>>
      BY <1>2, <1>5, <2>2 DEF AppDrain, Front, Rest, HandsMatchSteps, enclaveVars, appVars
    <3>2. /\ NoRepeat(pool)' /\ NoRepeat(inbox)' /\ NoRepeat(outbox)'
          /\ Head(outbox) \in Containers /\ At(Head(outbox), "outbox")
          /\ \A c : InQueue(c, outbox)' <=> InQueue(c, outbox) /\ c # Head(outbox)
      BY <2>2, <3>1, TailQueue DEF NoRepeat, At
    <3>3. \A r \in Places \ {"outbox"} : ~At(Head(outbox), r)
      BY <3>2, Elsewhere DEF Places
    <3>4. \A c \in Containers :
          /\ InQueue(c, pool)'   <=> IF c = Head(outbox) THEN "appMsg" = "pool"   ELSE InQueue(c, pool)
          /\ InQueue(c, inbox)'  <=> IF c = Head(outbox) THEN "appMsg" = "inbox"  ELSE InQueue(c, inbox)
          /\ InQueue(c, outbox)' <=> IF c = Head(outbox) THEN "appMsg" = "outbox" ELSE InQueue(c, outbox)
          /\ c = appMsg'         <=> IF c = Head(outbox) THEN "appMsg" = "appMsg" ELSE c = appMsg
          /\ c = in'             <=> IF c = Head(outbox) THEN "appMsg" = "in"     ELSE c = in
          /\ c = out'            <=> IF c = Head(outbox) THEN "appMsg" = "out"    ELSE c = out
      BY <1>2, <3>1, <3>2, <3>3 DEF At, Places
    <3> QED
      BY <3>2, <3>4, OneMoves DEF Places
  <2> QED
    BY <2>1, <2>2
<1>6. ASSUME AppReturn PROVE OnePlace'
  <2>1. /\ pool' = Append(pool, appMsg) /\ appMsg' = None /\ appMsg \in Containers
        /\ UNCHANGED <<inbox, outbox, in, out>>
    BY <1>2, <1>6 DEF AppReturn, HandsMatchSteps, enclaveVars, appVars
  <2>2. \A r \in Places \ {"appMsg"} : ~At(appMsg, r)
    BY <2>1, Elsewhere DEF Places, At
  <2>3. /\ NoRepeat(pool)' /\ NoRepeat(inbox)' /\ NoRepeat(outbox)'
        /\ \A c : InQueue(c, pool)' <=> InQueue(c, pool) \/ c = appMsg
    <3>1. ~InQueue(appMsg, pool)
      BY <2>2 DEF At, Places
    <3> QED
      BY <2>1, <3>1, AppendQueue DEF NoRepeat
  <2>4. \A c \in Containers :
        /\ InQueue(c, pool)'   <=> IF c = appMsg THEN "pool" = "pool"   ELSE InQueue(c, pool)
        /\ InQueue(c, inbox)'  <=> IF c = appMsg THEN "pool" = "inbox"  ELSE InQueue(c, inbox)
        /\ InQueue(c, outbox)' <=> IF c = appMsg THEN "pool" = "outbox" ELSE InQueue(c, outbox)
        /\ c = appMsg'         <=> IF c = appMsg THEN "pool" = "appMsg" ELSE c = appMsg
        /\ c = in'             <=> IF c = appMsg THEN "pool" = "in"     ELSE c = in
        /\ c = out'            <=> IF c = appMsg THEN "pool" = "out"    ELSE c = out
    BY <1>2, <2>1, <2>2, <2>3 DEF At, Places
  <2> QED
    BY <2>1, <2>3, <2>4, OneMoves DEF Places
<1>7. ASSUME EnclaveReceive PROVE OnePlace'
  <2>2. inbox # <<>>
    BY <1>7 DEF EnclaveReceive
  <2> QED
    <3>1. /\ inbox' = Tail(inbox) /\ in' = Head(inbox) /\ in = None
          /\ UNCHANGED <<pool, outbox, appMsg, out>>
      BY <1>2, <1>7, <2>2 DEF EnclaveReceive, Front, Rest, HandsMatchSteps, enclaveVars, appVars
    <3>2. /\ NoRepeat(pool)' /\ NoRepeat(inbox)' /\ NoRepeat(outbox)'
          /\ Head(inbox) \in Containers /\ At(Head(inbox), "inbox")
          /\ \A c : InQueue(c, inbox)' <=> InQueue(c, inbox) /\ c # Head(inbox)
      BY <2>2, <3>1, TailQueue DEF NoRepeat, At
    <3>3. \A r \in Places \ {"inbox"} : ~At(Head(inbox), r)
      BY <3>2, Elsewhere DEF Places
    <3>4. \A c \in Containers :
          /\ InQueue(c, pool)'   <=> IF c = Head(inbox) THEN "in" = "pool"   ELSE InQueue(c, pool)
          /\ InQueue(c, inbox)'  <=> IF c = Head(inbox) THEN "in" = "inbox"  ELSE InQueue(c, inbox)
          /\ InQueue(c, outbox)' <=> IF c = Head(inbox) THEN "in" = "outbox" ELSE InQueue(c, outbox)
          /\ c = appMsg'         <=> IF c = Head(inbox) THEN "in" = "appMsg" ELSE c = appMsg
          /\ c = in'             <=> IF c = Head(inbox) THEN "in" = "in"     ELSE c = in
          /\ c = out'            <=> IF c = Head(inbox) THEN "in" = "out"    ELSE c = out
      BY <1>2, <3>1, <3>2, <3>3 DEF At, Places
    <3> QED
      BY <3>2, <3>4, OneMoves DEF Places
<1>8. ASSUME EnclaveTake PROVE OnePlace'
  <2>1. CASE pool = <<>>
    <3>1. UNCHANGED <<pool, inbox, outbox, appMsg, in, out>>
      BY <1>2, <1>8, <2>1 DEF EnclaveTake, Front, Rest, HandsMatchSteps, enclaveVars, appVars
    <3> QED
      BY <3>1, NothingMoves
  <2>2. CASE pool # <<>>
    <3>1. /\ pool' = Tail(pool) /\ out' = Head(pool) /\ out = None
          /\ UNCHANGED <<inbox, outbox, appMsg, in>>
      BY <1>2, <1>8, <2>2 DEF EnclaveTake, Front, Rest, HandsMatchSteps, enclaveVars, appVars
    <3>2. /\ NoRepeat(pool)' /\ NoRepeat(inbox)' /\ NoRepeat(outbox)'
          /\ Head(pool) \in Containers /\ At(Head(pool), "pool")
          /\ \A c : InQueue(c, pool)' <=> InQueue(c, pool) /\ c # Head(pool)
      BY <2>2, <3>1, TailQueue DEF NoRepeat, At
    <3>3. \A r \in Places \ {"pool"} : ~At(Head(pool), r)
      BY <3>2, Elsewhere DEF Places
    <3>4. \A c \in Containers :
          /\ InQueue(c, pool)'   <=> IF c = Head(pool) THEN "out" = "pool"   ELSE InQueue(c, pool)
          /\ InQueue(c, inbox)'  <=> IF c = Head(pool) THEN "out" = "inbox"  ELSE InQueue(c, inbox)
          /\ InQueue(c, outbox)' <=> IF c = Head(pool) THEN "out" = "outbox" ELSE InQueue(c, outbox)
          /\ c = appMsg'         <=> IF c = Head(pool) THEN "out" = "appMsg" ELSE c = appMsg
          /\ c = in'             <=> IF c = Head(pool) THEN "out" = "in"     ELSE c = in
          /\ c = out'            <=> IF c = Head(pool) THEN "out" = "out"    ELSE c = out
      BY <1>2, <3>1, <3>2, <3>3 DEF At, Places
    <3> QED
      BY <3>2, <3>4, OneMoves DEF Places
  <2> QED
    BY <2>1, <2>2
<1>9. ASSUME EnclaveSend PROVE OnePlace'
  <2>1. /\ outbox' = Append(outbox, out) /\ out' = None /\ out \in Containers
        /\ UNCHANGED <<pool, inbox, appMsg, in>>
    BY <1>2, <1>9 DEF EnclaveSend, HandsMatchSteps, enclaveVars, appVars
  <2>2. \A r \in Places \ {"out"} : ~At(out, r)
    BY <2>1, Elsewhere DEF Places, At
  <2>3. /\ NoRepeat(pool)' /\ NoRepeat(inbox)' /\ NoRepeat(outbox)'
        /\ \A c : InQueue(c, outbox)' <=> InQueue(c, outbox) \/ c = out
    <3>1. ~InQueue(out, outbox)
      BY <2>2 DEF At, Places
    <3> QED
      BY <2>1, <3>1, AppendQueue DEF NoRepeat
  <2>4. \A c \in Containers :
        /\ InQueue(c, pool)'   <=> IF c = out THEN "outbox" = "pool"   ELSE InQueue(c, pool)
        /\ InQueue(c, inbox)'  <=> IF c = out THEN "outbox" = "inbox"  ELSE InQueue(c, inbox)
        /\ InQueue(c, outbox)' <=> IF c = out THEN "outbox" = "outbox" ELSE InQueue(c, outbox)
        /\ c = appMsg'         <=> IF c = out THEN "outbox" = "appMsg" ELSE c = appMsg
        /\ c = in'             <=> IF c = out THEN "outbox" = "in"     ELSE c = in
        /\ c = out'            <=> IF c = out THEN "outbox" = "out"    ELSE c = out
    BY <1>2, <2>1, <2>2, <2>3 DEF At, Places
  <2> QED
    BY <2>1, <2>3, <2>4, OneMoves DEF Places
<1>10. ASSUME EnclaveReturn PROVE OnePlace'
  <2>1. /\ pool' = Append(pool, in) /\ in' = None /\ in \in Containers
        /\ UNCHANGED <<inbox, outbox, appMsg, out>>
    BY <1>2, <1>10 DEF EnclaveReturn, HandsMatchSteps, enclaveVars, appVars
  <2>2. \A r \in Places \ {"in"} : ~At(in, r)
    BY <2>1, Elsewhere DEF Places, At
  <2>3. /\ NoRepeat(pool)' /\ NoRepeat(inbox)' /\ NoRepeat(outbox)'
        /\ \A c : InQueue(c, pool)' <=> InQueue(c, pool) \/ c = in
    <3>1. ~InQueue(in, pool)
      BY <2>2 DEF At, Places
    <3> QED
      BY <2>1, <3>1, AppendQueue DEF NoRepeat
  <2>4. \A c \in Containers :
        /\ InQueue(c, pool)'   <=> IF c = in THEN "pool" = "pool"   ELSE InQueue(c, pool)
        /\ InQueue(c, inbox)'  <=> IF c = in THEN "pool" = "inbox"  ELSE InQueue(c, inbox)
        /\ InQueue(c, outbox)' <=> IF c = in THEN "pool" = "outbox" ELSE InQueue(c, outbox)
        /\ c = appMsg'         <=> IF c = in THEN "pool" = "appMsg" ELSE c = appMsg
        /\ c = in'             <=> IF c = in THEN "pool" = "in"     ELSE c = in
        /\ c = out'            <=> IF c = in THEN "pool" = "out"    ELSE c = out
    BY <1>2, <2>1, <2>2, <2>3 DEF At, Places
  <2> QED
    BY <2>1, <2>3, <2>4, OneMoves DEF Places
<1>11. ASSUME AppPack \/ AppJoin \/ AppPrint \/ AppFree \/ ServeStat \/ ServeQuery \/ ServeStop
                \/ EnclavePack \/ EnclaveFree
       PROVE  OnePlace'
  <2>1. UNCHANGED <<pool, inbox, outbox, appMsg, in, out>>
    BY <1>11 DEF AppPack, AppJoin, AppPrint, AppFree, ServeStat, ServeQuery, ServeStop,
                 EnclavePack, EnclaveFree, appVars, enclaveVars
  <2> QED
    BY <2>1, NothingMoves
<1> QED
  BY <1>3, <1>4, <1>5, <1>6, <1>7, <1>8, <1>9, <1>10, <1>11 DEF Next, AppStep, EnclaveStep

---------------------------------------------------------------------------
\* What the threads hold, and how far they are in the script, stays in step.
LEMMA ControlStep ==
  ASSUME IInv, Next
  PROVE  HandsMatchSteps' /\ InScript'
<1> USE RequestsAssumption, ScriptShape, NoneAssumption
    DEF HandsMatchSteps, InScript, Taken
<1> DEFINE Goal == HandsMatchSteps' /\ InScript'
<1>1. /\ HandsMatchSteps /\ InScript /\ None \notin Containers /\ None \notin Answers
      /\ pool \in Seq(Containers) /\ inbox \in Seq(Containers) /\ outbox \in Seq(Containers)
      /\ appMsg \in Containers \cup {None} /\ sent \in 0..Len(Script)
  BY DEF IInv, TypeOK, Containers
<1> USE <1>1
<1>2. ASSUME AppTake PROVE Goal
  BY <1>2 DEF AppTake, enclaveVars
<1>3. ASSUME AppPack PROVE Goal
  BY <1>3 DEF AppPack, enclaveVars
<1>4. ASSUME AppSend PROVE Goal
  BY <1>4 DEF AppSend, enclaveVars
<1>5. ASSUME AppJoin PROVE Goal
  BY <1>5 DEF AppJoin, enclaveVars
<1>6. ASSUME AppDrain PROVE Goal
  BY <1>6 DEF AppDrain, Front, Rest, enclaveVars
<1>7. ASSUME AppPrint PROVE Goal
  BY <1>7 DEF AppPrint, enclaveVars
<1>8. ASSUME AppFree PROVE Goal
  BY <1>8 DEF AppFree, enclaveVars
<1>9. ASSUME AppReturn PROVE Goal
  BY <1>9 DEF AppReturn, enclaveVars
<1>10. ASSUME EnclaveReceive PROVE Goal
  BY <1>10 DEF EnclaveReceive, appVars
<1>11. ASSUME ServeStat PROVE Goal
  BY <1>11 DEF ServeStat, appVars
<1>12. ASSUME ServeQuery PROVE Goal
  <2>1. Taken > NumTraces /\ enclave' \in {"failed", "take"} /\ (enclave' = "take" => answer' # None)
    BY <1>12, QueryAnswered
  <2> QED
    BY <1>12, <2>1 DEF ServeQuery, appVars
<1>13. ASSUME ServeStop PROVE Goal
  BY <1>13 DEF ServeStop, appVars
<1>14. ASSUME EnclaveTake PROVE Goal
  BY <1>14 DEF EnclaveTake, Front, Rest, appVars
<1>15. ASSUME EnclavePack PROVE Goal
  BY <1>15 DEF EnclavePack, appVars
<1>16. ASSUME EnclaveSend PROVE Goal
  BY <1>16 DEF EnclaveSend, appVars
<1>17. ASSUME EnclaveFree PROVE Goal
  BY <1>17 DEF EnclaveFree, appVars
<1>18. ASSUME EnclaveReturn PROVE Goal
  BY <1>18 DEF EnclaveReturn, appVars
<1> QED
  BY <1>2, <1>3, <1>4, <1>5, <1>6, <1>7, <1>8, <1>9, <1>10, <1>11, <1>12, <1>13, <1>14,
     <1>15, <1>16, <1>17, <1>18 DEF Next, AppStep, EnclaveStep

\* Counting containers: each step moves one, or none.
LEMMA CountedStep ==
  ASSUME IInv, Next
  PROVE  AllCounted'
<1>1. /\ HandsMatchSteps /\ InScript /\ AllCounted /\ None \notin Containers
      /\ pool \in Seq(Containers) /\ inbox \in Seq(Containers) /\ outbox \in Seq(Containers)
      /\ appMsg \in Containers \cup {None} /\ in \in Containers \cup {None}
      /\ out \in Containers \cup {None}
  BY NoneAssumption DEF IInv, TypeOK, Containers
<1>2. \A m : Held(m) \in {0, 1} /\ (Held(m) = 0 <=> m = None)
  BY DEF Held
<1>3. AllCounted' <=>
        Len(pool') + Len(inbox') + Len(outbox') + Held(appMsg') + Held(in') + Held(out') = PoolSize
  BY DEF AllCounted
<1>4. Len(pool) \in Nat /\ Len(inbox) \in Nat /\ Len(outbox) \in Nat
  BY <1>1
<1> USE <1>1, <1>2, <1>3, <1>4 DEF AllCounted
<1>5. ASSUME AppTake PROVE AllCounted'
  <2>1. CASE pool = <<>>
    <3>1. UNCHANGED <<pool, inbox, outbox, appMsg, in, out>>
      BY <1>5, <2>1 DEF AppTake, Front, Rest, HandsMatchSteps, enclaveVars, appVars
    <3> QED
      BY <3>1
  <2>2. CASE pool # <<>>
    <3>1. /\ Len(pool') = Len(pool) - 1 /\ appMsg = None /\ appMsg' # None
          /\ UNCHANGED <<inbox, outbox, in, out>>
      BY <1>5, <2>2 DEF AppTake, Front, Rest, HandsMatchSteps, enclaveVars, appVars
    <3>2. Held(appMsg) = 0 /\ Held(appMsg') = 1
      BY <3>1
    <3> QED
      BY <3>1, <3>2
  <2> QED
    BY <2>1, <2>2
<1>6. ASSUME AppSend PROVE AllCounted'
  <2>1. /\ Len(inbox') = Len(inbox) + 1 /\ appMsg # None /\ appMsg' = None
        /\ UNCHANGED <<outbox, pool, in, out>>
    BY <1>6 DEF AppSend, HandsMatchSteps, enclaveVars, appVars
  <2>2. Held(appMsg) = 1 /\ Held(appMsg') = 0
    BY <2>1
  <2> QED
    BY <2>1, <2>2
<1>7. ASSUME AppDrain PROVE AllCounted'
  <2>1. CASE outbox = <<>>
    <3>1. UNCHANGED <<pool, inbox, outbox, appMsg, in, out>>
      BY <1>7, <2>1 DEF AppDrain, Front, Rest, HandsMatchSteps, enclaveVars, appVars
    <3> QED
      BY <3>1
  <2>2. CASE outbox # <<>>
    <3>1. /\ Len(outbox') = Len(outbox) - 1 /\ appMsg = None /\ appMsg' # None
          /\ UNCHANGED <<inbox, pool, in, out>>
      BY <1>7, <2>2 DEF AppDrain, Front, Rest, HandsMatchSteps, enclaveVars, appVars
    <3>2. Held(appMsg) = 0 /\ Held(appMsg') = 1
      BY <3>1
    <3> QED
      BY <3>1, <3>2
  <2> QED
    BY <2>1, <2>2
<1>8. ASSUME AppReturn PROVE AllCounted'
  <2>1. /\ Len(pool') = Len(pool) + 1 /\ appMsg # None /\ appMsg' = None
        /\ UNCHANGED <<inbox, outbox, in, out>>
    BY <1>8 DEF AppReturn, HandsMatchSteps, enclaveVars, appVars
  <2>2. Held(appMsg) = 1 /\ Held(appMsg') = 0
    BY <2>1
  <2> QED
    BY <2>1, <2>2
<1>9. ASSUME EnclaveReceive PROVE AllCounted'
  <2>1. /\ Len(inbox') = Len(inbox) - 1 /\ in = None /\ in' # None
        /\ UNCHANGED <<pool, outbox, appMsg, out>>
    BY <1>9 DEF EnclaveReceive, HandsMatchSteps, appVars
  <2>2. Held(in) = 0 /\ Held(in') = 1
    BY <2>1
  <2> QED
    BY <2>1, <2>2
<1>10. ASSUME EnclaveTake PROVE AllCounted'
  <2>1. CASE pool = <<>>
    <3>1. UNCHANGED <<pool, inbox, outbox, appMsg, in, out>>
      BY <1>10, <2>1 DEF EnclaveTake, Front, Rest, HandsMatchSteps, enclaveVars, appVars
    <3> QED
      BY <3>1
  <2>2. CASE pool # <<>>
    <3>1. /\ Len(pool') = Len(pool) - 1 /\ out = None /\ out' # None
          /\ UNCHANGED <<inbox, outbox, appMsg, in>>
      BY <1>10, <2>2 DEF EnclaveTake, Front, Rest, HandsMatchSteps, enclaveVars, appVars
    <3>2. Held(out) = 0 /\ Held(out') = 1
      BY <3>1
    <3> QED
      BY <3>1, <3>2
  <2> QED
    BY <2>1, <2>2
<1>11. ASSUME EnclaveSend PROVE AllCounted'
  <2>1. /\ Len(outbox') = Len(outbox) + 1 /\ out # None /\ out' = None
        /\ UNCHANGED <<inbox, pool, appMsg, in>>
    BY <1>11 DEF EnclaveSend, HandsMatchSteps, enclaveVars, appVars
  <2>2. Held(out) = 1 /\ Held(out') = 0
    BY <2>1
  <2> QED
    BY <2>1, <2>2
<1>12. ASSUME EnclaveReturn PROVE AllCounted'
  <2>1. /\ Len(pool') = Len(pool) + 1 /\ in # None /\ in' = None
        /\ UNCHANGED <<inbox, outbox, appMsg, out>>
    BY <1>12 DEF EnclaveReturn, HandsMatchSteps, enclaveVars, appVars
  <2>2. Held(in) = 1 /\ Held(in') = 0
    BY <2>1
  <2> QED
    BY <2>1, <2>2
<1>13. ASSUME AppPack \/ AppJoin \/ AppPrint \/ AppFree \/ ServeStat \/ ServeQuery \/ ServeStop
                \/ EnclavePack \/ EnclaveFree
       PROVE  AllCounted'
  <2>1. UNCHANGED <<pool, inbox, outbox, appMsg, in, out>>
    BY <1>13 DEF AppPack, AppJoin, AppPrint, AppFree, ServeStat, ServeQuery, ServeStop,
                 EnclavePack, EnclaveFree, appVars, enclaveVars
  <2> QED
    BY <2>1
<1> QED
  BY <1>5, <1>6, <1>7, <1>8, <1>9, <1>10, <1>11, <1>12, <1>13 DEF Next, AppStep, EnclaveStep

\* The pool suffices, because replies are fewer than the requests served.
LEMMA SufficeStep ==
  ASSUME IInv, Next
  PROVE  FewReplies' /\ PoolSuffices'
<1> USE RequestsAssumption, ServiceAssumption, ScriptShape, NoneAssumption
    DEF HandsMatchSteps, InScript, Taken, InService, Past, Held
<1> DEFINE Goal == FewReplies' /\ PoolSuffices'
<1>1. /\ HandsMatchSteps /\ InScript /\ None \notin Containers
      /\ AllCounted /\ FewReplies /\ PoolSuffices
      /\ pool \in Seq(Containers) /\ inbox \in Seq(Containers) /\ outbox \in Seq(Containers)
      /\ appMsg \in Containers \cup {None} /\ in \in Containers \cup {None}
      /\ out \in Containers \cup {None} /\ sent \in 0..Len(Script)
  BY DEF IInv, TypeOK, Containers
<1> USE <1>1 DEF AllCounted, FewReplies, PoolSuffices
<1>2. ASSUME AppTake PROVE Goal
  <2>1. CASE pool = <<>>
    BY <1>2, <2>1 DEF AppTake, Front, Rest, enclaveVars
  <2>2. CASE pool # <<>>
    <3>1. /\ Len(pool') = Len(pool) - 1 /\ Len(pool) > 0 /\ appMsg = None /\ appMsg' # None
      BY <1>2, <2>2 DEF AppTake, Front, Rest
    <3>3. FewReplies'
      BY <1>2, <3>1 DEF AppTake, enclaveVars
    <3>4. PoolSuffices'
      BY <1>2, <3>1 DEF AppTake, enclaveVars
    <3> QED
      BY <3>3, <3>4
  <2> QED
    BY <2>1, <2>2
<1>3. ASSUME AppPack PROVE Goal
  BY <1>3 DEF AppPack, enclaveVars
<1>4. ASSUME AppSend PROVE Goal
  BY <1>4 DEF AppSend, enclaveVars
<1>5. ASSUME AppJoin PROVE Goal
  BY <1>5 DEF AppJoin, enclaveVars
<1>6. ASSUME AppDrain PROVE Goal
  <2>1. CASE outbox = <<>>
    BY <1>6, <2>1 DEF AppDrain, Front, Rest, enclaveVars
  <2>2. CASE outbox # <<>>
    <3>1. /\ Len(outbox') = Len(outbox) - 1 /\ Len(outbox) > 0 /\ appMsg = None /\ appMsg' # None
      BY <1>6, <2>2 DEF AppDrain, Front, Rest
    <3>3. FewReplies'
      BY <1>6, <3>1 DEF AppDrain, enclaveVars
    <3>4. PoolSuffices'
      BY <1>6, <3>1 DEF AppDrain, enclaveVars
    <3> QED
      BY <3>3, <3>4
  <2> QED
    BY <2>1, <2>2
<1>7. ASSUME AppPrint PROVE Goal
  BY <1>7 DEF AppPrint, enclaveVars
<1>8. ASSUME AppFree PROVE Goal
  BY <1>8 DEF AppFree, enclaveVars
<1>9. ASSUME AppReturn PROVE Goal
  BY <1>9 DEF AppReturn, enclaveVars
<1>10. ASSUME EnclaveReceive PROVE Goal
  <2>1. Len(inbox') = Len(inbox) - 1 /\ Len(inbox) > 0 /\ in = None /\ in' # None
    BY <1>10 DEF EnclaveReceive
  <2>3. FewReplies'
    BY <1>10, <2>1 DEF EnclaveReceive, appVars
  <2>4. PoolSuffices'
    BY <1>10, <2>1 DEF EnclaveReceive, appVars
  <2> QED
    BY <2>3, <2>4
<1>11. ASSUME ServeStat PROVE Goal
  BY <1>11 DEF ServeStat, appVars
<1>12. ASSUME ServeQuery PROVE Goal
  <2>1. Taken > NumTraces /\ enclave' \in {"failed", "take"}
    BY <1>12, QueryAnswered
  <2> QED
    BY <1>12, <2>1 DEF ServeQuery, appVars
<1>13. ASSUME ServeStop PROVE Goal
  BY <1>13 DEF ServeStop, appVars
<1>14. ASSUME EnclaveTake, app # "crashed" PROVE Goal
  <2>1. CASE pool = <<>>
    <3>1. UNCHANGED <<pool, inbox, outbox, appMsg, in, out, sent, app, prep, cur, files>>
      BY <1>14, <2>1 DEF EnclaveTake, Front, Rest, appVars
    <3>2. Len(pool) = 0 /\ Len(inbox) \in Nat /\ Len(outbox) \in Nat
      BY <2>1
    <3>3. appMsg = None \/ sent < Len(Script)
      BY <1>14 DEF EnclaveTake, TypeOK, IInv
    <3>4. PoolSize < Len(Script)
      <4>1. Held(in) = 1 /\ Held(out) = 0
        BY <1>14 DEF EnclaveTake
      <4>2. Held(appMsg) = 0 \/ (Held(appMsg) = 1 /\ sent < Len(Script))
        BY <3>3
      <4>3. Taken > NumTraces /\ (Len(outbox) = 0 \/ Len(outbox) + NumTraces <= Taken - 1)
        BY <1>14 DEF EnclaveTake
      <4> HIDE DEF Held
      <4> QED
        BY <3>2, <4>1, <4>2, <4>3
    <3> QED
      BY <1>14, <3>1, <3>4 DEF EnclaveTake
  <2>2. CASE pool # <<>>
    <3>1. /\ Len(pool') = Len(pool) - 1 /\ Len(pool) > 0 /\ out = None /\ out' # None
      <4>1. pool' = Tail(pool) /\ out' = Head(pool) /\ out = None
        BY <1>14, <2>2 DEF EnclaveTake, Front, Rest
      <4>2. Head(pool) \in Containers /\ Len(Tail(pool)) = Len(pool) - 1 /\ Len(pool) > 0
        BY <2>2, HeadTailProperties
      <4> QED
        BY <4>1, <4>2
    <3>3. FewReplies'
      BY <1>14, <3>1 DEF EnclaveTake, appVars
    <3>4. PoolSuffices'
      BY <1>14, <3>1 DEF EnclaveTake, appVars
    <3> QED
      BY <3>3, <3>4
  <2> QED
    BY <2>1, <2>2
<1>15. ASSUME EnclavePack PROVE Goal
  BY <1>15 DEF EnclavePack, appVars
<1>16. ASSUME EnclaveSend PROVE Goal
  BY <1>16 DEF EnclaveSend, appVars
<1>17. ASSUME EnclaveFree PROVE Goal
  BY <1>17 DEF EnclaveFree, appVars
<1>18. ASSUME EnclaveReturn PROVE Goal
  BY <1>18 DEF EnclaveReturn, appVars
<1> QED
  BY <1>2, <1>3, <1>4, <1>5, <1>6, <1>7, <1>8, <1>9, <1>10, <1>11, <1>12, <1>13, <1>14,
     <1>15, <1>16, <1>17, <1>18 DEF Next, AppStep, EnclaveStep

\* There are statistics of what has been served: a step that serves no trace is done with
\* no trace that the enclave was not done with before.
LEMMA StatisticsStep ==
  ASSUME IInv, Next
  PROVE  OldStatistics'
<1>1. /\ HandsMatchSteps /\ InScript /\ OldStatistics
      /\ inbox \in Seq(Containers) /\ sent \in 0..Len(Script)
  BY DEF IInv, TypeOK
<1> USE <1>1, ScriptShape, RequestsAssumption DEF Past, Taken, InService, InScript, Traces
<1>A. Past \in Int /\ Past' \in Int
  <2>1. sent' \in 0..Len(Script) /\ inbox' \in Seq(Containers)
    BY TypeStep DEF TypeOK
  <2>2. Len(inbox) \in Nat /\ Len(inbox') \in Nat
    BY <2>1
  <2> QED
    BY <2>1, <2>2
<1>2. ASSUME UNCHANGED <<files, cur, prep>>, Past' <= Past \/ Past >= NumTraces
      PROVE  OldStatistics'
  <2> HIDE DEF Past
  <2> QED
    BY <1>A, <1>2 DEF OldStatistics
<1>3. ASSUME AppStep PROVE OldStatistics'
  <2>1. UNCHANGED <<files, cur, prep, enclave>>
    BY <1>3 DEF AppStep, AppTake, AppPack, AppSend, AppJoin, AppDrain, AppPrint, AppFree, AppReturn,
                enclaveVars
  <2>2. Taken' = Taken
    <3>1. CASE AppSend
      BY <3>1 DEF AppSend
    <3>2. CASE ~AppSend
      BY <1>3, <3>2 DEF AppStep, AppTake, AppPack, AppJoin, AppDrain, AppPrint, AppFree, AppReturn
    <3> QED
      BY <3>1, <3>2
  <2>3. Past' = Past
    BY <2>1, <2>2
  <2> HIDE DEF Past
  <2> QED
    BY <1>A, <1>2, <2>1, <2>3
<1>4. ASSUME EnclaveReceive PROVE OldStatistics'
  <2>1. Past' = Past /\ UNCHANGED <<files, cur, prep>>
    BY <1>4 DEF EnclaveReceive, appVars
  <2> HIDE DEF Past
  <2> QED
    BY <1>A, <1>2, <2>1
<1>5. ASSUME EnclaveTake \/ EnclavePack \/ EnclaveSend \/ EnclaveFree \/ EnclaveReturn
      PROVE  OldStatistics'
  <2>1. UNCHANGED <<files, cur, prep, sent, inbox>>
    BY <1>5 DEF EnclaveTake, EnclavePack, EnclaveSend, EnclaveFree, EnclaveReturn, appVars
  <2>2. CASE InService
    <3>1. Taken > NumTraces
      BY <1>5, <2>2 DEF EnclaveTake, EnclavePack, EnclaveSend, EnclaveFree, EnclaveReturn
    <3> QED
      BY <1>2, <2>1, <2>2, <3>1
  <2>3. CASE ~InService
    <3>1. ~InService'
      BY <1>5, <2>3 DEF EnclaveTake, EnclavePack, EnclaveSend, EnclaveFree, EnclaveReturn
    <3> QED
      BY <1>2, <2>1, <2>3, <3>1
  <2> QED
    BY <2>2, <2>3
<1>6. ASSUME ServeQuery \/ ServeStop PROVE OldStatistics'
  <2>1. UNCHANGED <<files, cur, prep, sent, inbox>> /\ enclave = "dispatch"
    BY <1>6 DEF ServeQuery, ServeStop, appVars
  <2>2. Taken > NumTraces
    BY <1>6, <2>1, ServedFacts DEF ServeQuery, ServeStop
  <2> QED
    BY <1>2, <2>1, <2>2
<1>7. ASSUME ServeStat PROVE OldStatistics'
  <2>1. /\ Taken \in Traces /\ Past = Taken - 1 /\ Past' = Taken
        /\ UNCHANGED files
    BY <1>7, ServedFacts DEF ServeStat, appVars
  <2>2. CASE Received.size > 0
    <3>1. cur' = Taken
      BY <1>7, <2>2, ServedFacts, RequestFacts DEF ServeStat, IInv
    <3>2. prep' # None
      BY <1>7, <2>2, NoneAssumption DEF ServeStat, IInv, TypeOK
    <3> QED
      BY <2>1, <3>1, <3>2 DEF OldStatistics
  <2>3. CASE ~(Received.size > 0)
    <3>1. ~files[Taken] /\ UNCHANGED <<prep, cur>>
      BY <1>7, <2>3, ServedFacts DEF ServeStat
    <3> QED
      BY <2>1, <3>1 DEF OldStatistics
  <2> QED
    BY <2>2, <2>3
<1> QED
  BY <1>3, <1>4, <1>5, <1>6, <1>7 DEF Next, EnclaveStep

\* A container that a thread holds is in no queue, and the other thread's hand is another.
LEMMA HeldApart ==
  ASSUME IInv
  PROVE  /\ appMsg # None => /\ \A i \in DOMAIN pool : pool[i] # appMsg
                             /\ \A i \in DOMAIN inbox : inbox[i] # appMsg
                             /\ \A i \in DOMAIN outbox : outbox[i] # appMsg
                             /\ in # appMsg /\ out # appMsg
         /\ in # None => /\ \A i \in DOMAIN pool : pool[i] # in
                         /\ \A i \in DOMAIN inbox : inbox[i] # in
                         /\ \A i \in DOMAIN outbox : outbox[i] # in
                         /\ out # in
         /\ out # None => /\ \A i \in DOMAIN pool : pool[i] # out
                          /\ \A i \in DOMAIN inbox : inbox[i] # out
                          /\ \A i \in DOMAIN outbox : outbox[i] # out
<1>1. /\ OnePlace /\ appMsg \in Containers \cup {None} /\ in \in Containers \cup {None}
      /\ out \in Containers \cup {None}
  BY DEF IInv, TypeOK
<1>2. appMsg # None => \A q \in Places \ {"appMsg"} : ~At(appMsg, q)
  BY <1>1, Elsewhere DEF Places, At
<1>3. in # None => \A q \in Places \ {"in"} : ~At(in, q)
  BY <1>1, Elsewhere DEF Places, At
<1>4. out # None => \A q \in Places \ {"out"} : ~At(out, q)
  BY <1>1, Elsewhere DEF Places, At
<1> QED
  BY <1>2, <1>3, <1>4 DEF Places, At, InQueue

\* Containers are blank in the pool, and on the way out of it and into it.
LEMMA BlankStep ==
  ASSUME IInv, Next
  PROVE  PooledBlank' /\ HeldBlank'
<1> DEFINE Goal == PooledBlank' /\ HeldBlank'
<1>1. /\ PooledBlank /\ HeldBlank /\ HandsMatchSteps /\ None \notin Containers
      /\ content \in [Containers -> Contents]
      /\ pool \in Seq(Containers) /\ inbox \in Seq(Containers) /\ outbox \in Seq(Containers)
      /\ appMsg \in Containers \cup {None} /\ in \in Containers \cup {None}
      /\ out \in Containers \cup {None}
  BY NoneAssumption DEF IInv, TypeOK, Containers
<1> USE <1>1, HeldApart DEF PooledBlank, HeldBlank, HandsMatchSteps
<1>2. ASSUME AppTake PROVE Goal
  BY <1>2 DEF AppTake, Front, Rest, enclaveVars
<1>3. ASSUME AppPack PROVE Goal
  <2>1. CASE appMsg = None
    BY <1>3, <2>1 DEF AppPack, enclaveVars
  <2>2. CASE appMsg # None
    <3>1. \A c \in Containers : c # appMsg => content'[c] = content[c]
      BY <1>3, <2>2 DEF AppPack
    <3> QED
      BY <1>3, <2>2, <3>1 DEF AppPack, enclaveVars
  <2> QED
    BY <2>1, <2>2
<1>4. ASSUME AppSend PROVE Goal
  BY <1>4 DEF AppSend, enclaveVars
<1>5. ASSUME AppJoin PROVE Goal
  BY <1>5 DEF AppJoin, enclaveVars
<1>6. ASSUME AppDrain PROVE Goal
  BY <1>6 DEF AppDrain, Front, Rest, enclaveVars
<1>7. ASSUME AppPrint PROVE Goal
  BY <1>7 DEF AppPrint, enclaveVars
<1>8. ASSUME AppFree PROVE Goal
  BY <1>8 DEF AppFree, enclaveVars
<1>9. ASSUME AppReturn PROVE Goal
  BY <1>9 DEF AppReturn, enclaveVars
<1>10. ASSUME EnclaveReceive PROVE Goal
  BY <1>10 DEF EnclaveReceive, appVars
<1>11. ASSUME ServeStat PROVE Goal
  BY <1>11 DEF ServeStat, appVars
<1>12. ASSUME ServeQuery PROVE Goal
  BY <1>12 DEF ServeQuery, appVars
<1>13. ASSUME ServeStop PROVE Goal
  BY <1>13 DEF ServeStop, appVars
<1>14. ASSUME EnclaveTake PROVE Goal
  BY <1>14 DEF EnclaveTake, Front, Rest, appVars
<1>15. ASSUME EnclavePack PROVE Goal
  <2>1. CASE out = None
    BY <1>15, <2>1 DEF EnclavePack, appVars
  <2>2. CASE out # None
    <3>1. \A c \in Containers : c # out => content'[c] = content[c]
      BY <1>15, <2>2 DEF EnclavePack
    <3> QED
      BY <1>15, <2>2, <3>1 DEF EnclavePack, appVars
  <2> QED
    BY <2>1, <2>2
<1>16. ASSUME EnclaveSend PROVE Goal
  BY <1>16 DEF EnclaveSend, appVars
<1>17. ASSUME EnclaveFree PROVE Goal
  BY <1>17 DEF EnclaveFree, appVars
<1>18. ASSUME EnclaveReturn PROVE Goal
  BY <1>18 DEF EnclaveReturn, appVars
<1> QED
  BY <1>2, <1>3, <1>4, <1>5, <1>6, <1>7, <1>8, <1>9, <1>10, <1>11, <1>12, <1>13, <1>14,
     <1>15, <1>16, <1>17, <1>18 DEF Next, AppStep, EnclaveStep

\* The requests in the mailbox, and the one about to go there, are those of the script.
LEMMA RequestStep ==
  ASSUME IInv, Next
  PROVE  RequestsInOrder'
<1>1. /\ RequestsInOrder /\ HandsMatchSteps /\ InScript /\ None \notin Containers
      /\ content \in [Containers -> Contents]
      /\ pool \in Seq(Containers) /\ inbox \in Seq(Containers)
      /\ appMsg \in Containers \cup {None} /\ in \in Containers \cup {None}
      /\ out \in Containers \cup {None} /\ sent \in 0..Len(Script)
  BY NoneAssumption DEF IInv, TypeOK, Containers
<1> USE <1>1, HeldApart, ScriptShape DEF RequestsInOrder, IsRequest, HandsMatchSteps, InScript, Taken
<1>2. ASSUME AppTake PROVE RequestsInOrder'
  BY <1>2 DEF AppTake, enclaveVars
<1>3. ASSUME AppPack PROVE RequestsInOrder'
  <2>1. CASE appMsg = None
    BY <1>3, <2>1 DEF AppPack, enclaveVars
  <2>2. CASE appMsg # None
    <3> DEFINE p == Packed(content[appMsg], Script[sent + 1], RequestText(sent + 1, files),
                           RequestSize(sent + 1, files), appIV)
    <3>1. content[appMsg] = Blank /\ sent + 1 \in 1..Len(Script) /\ appIV \in IVs
      BY <1>3, <2>2 DEF AppPack, IInv, HeldBlank, TypeOK
    <3>2. /\ Script[sent + 1] \in Types /\ RequestText(sent + 1, files) \in Texts
          /\ RequestSize(sent + 1, files) \in {0, TextSize}
      BY <3>1, RequestFacts DEF IInv
    <3>4. IsPacked(p, Script[sent + 1], RequestText(sent + 1, files), RequestSize(sent + 1, files))
      BY <3>1, <3>2, BlankFacts, PackedFacts
    <3>3. content' = [content EXCEPT ![appMsg] = p]
      BY <1>3, <2>2 DEF AppPack
    <3> HIDE DEF p
    <3> QED
      BY <1>3, <2>2, <3>4, <3>3 DEF AppPack, enclaveVars
  <2> QED
    BY <2>1, <2>2
<1>4. ASSUME AppSend PROVE RequestsInOrder'
  <2>1. /\ inbox' = Append(inbox, appMsg) /\ Len(inbox') = Len(inbox) + 1 /\ sent' = sent + 1
        /\ DOMAIN inbox' = 1..(Len(inbox) + 1) /\ app = "send" /\ app' # "send"
        /\ UNCHANGED <<content, files, in, enclave>>
    BY <1>4 DEF AppSend, enclaveVars
  <2>2. Taken' = Taken
    BY <2>1
  <2>3. ASSUME NEW i \in DOMAIN inbox' PROVE IsRequest(content[inbox'[i]], Taken + i)
    <3>1. CASE i = Len(inbox) + 1
      <4>1. inbox'[i] = appMsg
        BY <2>1, <3>1
      <4>2. Taken + i = sent + 1
        BY <3>1
      <4> QED
        BY <2>1, <4>1, <4>2
    <3>2. CASE i # Len(inbox) + 1
      <4>1. i \in DOMAIN inbox /\ inbox'[i] = inbox[i]
        BY <2>1, <3>2
      <4> QED
        BY <4>1
    <3> QED
      BY <3>1, <3>2
  <2> HIDE DEF Taken
  <2> QED
    BY <2>1, <2>2, <2>3
<1>5. ASSUME AppJoin \/ AppDrain \/ AppPrint \/ AppReturn PROVE RequestsInOrder'
  BY <1>5 DEF AppJoin, AppDrain, AppPrint, AppReturn, enclaveVars
<1>6. ASSUME AppFree PROVE RequestsInOrder'
  BY <1>6 DEF AppFree, enclaveVars
<1>7. ASSUME EnclaveReceive PROVE RequestsInOrder'
  <2>1. /\ in' = inbox[1] /\ Len(inbox') = Len(inbox) - 1 /\ Len(inbox) > 0
        /\ DOMAIN inbox' = 1..(Len(inbox) - 1)
        /\ \A i \in DOMAIN inbox' : inbox'[i] = inbox[i + 1]
    BY <1>7 DEF EnclaveReceive
  <2>2. \A i \in DOMAIN inbox' : IsRequest(content[inbox'[i]], Taken + 1 + i)
    <3>1. ASSUME NEW i \in DOMAIN inbox' PROVE i + 1 \in DOMAIN inbox /\ Taken + (i + 1) = Taken + 1 + i
      BY <2>1
    <3> QED
      BY <2>1, <3>1
  <2>3. IsRequest(content[in'], Taken + 1)
    <3>1. 1 \in DOMAIN inbox
      BY <2>1
    <3> QED
      BY <2>1, <3>1
  <2>4. Taken' = Taken + 1 /\ UNCHANGED <<content, files, app, appMsg, sent>> /\ enclave' = "dispatch"
    BY <1>7, <2>1 DEF EnclaveReceive, appVars
  <2> HIDE DEF Taken
  <2> QED
    BY <2>2, <2>3, <2>4
<1>8. ASSUME ServeStat \/ ServeQuery \/ ServeStop PROVE RequestsInOrder'
  BY <1>8 DEF ServeStat, ServeQuery, ServeStop, appVars
<1>9. ASSUME EnclaveTake \/ EnclaveSend \/ EnclaveReturn PROVE RequestsInOrder'
  BY <1>9 DEF EnclaveTake, EnclaveSend, EnclaveReturn, appVars
<1>10. ASSUME EnclavePack PROVE RequestsInOrder'
  BY <1>10 DEF EnclavePack, appVars
<1>11. ASSUME EnclaveFree PROVE RequestsInOrder'
  BY <1>11 DEF EnclaveFree, appVars
<1> QED
  BY <1>2, <1>3, <1>4, <1>5, <1>6, <1>7, <1>8, <1>9, <1>10, <1>11 DEF Next, AppStep, EnclaveStep

\* Replies wait for main as they were packed.
LEMMA ReplyStep ==
  ASSUME IInv, Next
  PROVE  Replied'
<1>1. /\ Replied /\ HandsMatchSteps /\ None \notin Containers
      /\ content \in [Containers -> Contents]
      /\ pool \in Seq(Containers) /\ inbox \in Seq(Containers) /\ outbox \in Seq(Containers)
      /\ appMsg \in Containers \cup {None} /\ in \in Containers \cup {None}
      /\ out \in Containers \cup {None}
  BY NoneAssumption DEF IInv, TypeOK, Containers
<1> USE <1>1, HeldApart DEF Replied, HandsMatchSteps, IsReply, MayBeEmpty
<1>2. ASSUME AppTake \/ AppJoin \/ AppPrint \/ AppReturn \/ AppSend PROVE Replied'
  BY <1>2 DEF AppTake, AppJoin, AppPrint, AppReturn, AppSend, enclaveVars
<1>3. ASSUME AppPack PROVE Replied'
  BY <1>3 DEF AppPack, enclaveVars
<1>4. ASSUME AppDrain PROVE Replied'
  <2>1. CASE outbox = <<>>
    BY <1>4, <2>1 DEF AppDrain, Front, Rest, enclaveVars
  <2>2. CASE outbox # <<>>
    <3>1. /\ appMsg' = outbox[1] /\ DOMAIN outbox' = 1..(Len(outbox) - 1)
          /\ DOMAIN outbox = 1..Len(outbox) /\ Len(outbox) > 0
          /\ \A i \in DOMAIN outbox' : outbox'[i] = outbox[i + 1]
      BY <1>4, <2>2 DEF AppDrain, Front, Rest
    <3> QED
      BY <1>4, <2>2, <3>1 DEF AppDrain, enclaveVars
  <2> QED
    BY <2>1, <2>2
<1>5. ASSUME AppFree PROVE Replied'
  BY <1>5 DEF AppFree, enclaveVars
<1>6. ASSUME EnclaveReceive \/ ServeStat \/ ServeStop \/ EnclaveTake \/ EnclaveReturn PROVE Replied'
  BY <1>6 DEF EnclaveReceive, ServeStat, ServeStop, EnclaveTake, EnclaveReturn, appVars
<1>7. ASSUME ServeQuery PROVE Replied'
  <2>1. answer' # None /\ answer'.size = 0 => MayBeEmpty(answer'.query)
    <3>1. CASE enclave' = "failed"
      BY <3>1, <1>7, QueryAnswered
    <3>2. CASE enclave' = "take"
      <4>1. PICK size \in ReplySizes(Received.type) :
              answer' = [query |-> Received.type, asked |-> Asked, cur |-> cur, prep |-> prep,
                         size |-> size]
        BY <1>7, <3>2, QueryAnswered
      <4>2. cur = 0 => \A i \in Traces : ~files[i]
        <5>1. Taken > NumTraces /\ Taken \in Int /\ enclave = "dispatch"
          BY <1>7, QueryAnswered, ServedFacts DEF ServeQuery
        <5> QED
          BY <5>1, RequestsAssumption DEF IInv, OldStatistics, Past, InService, Traces
      <4>3. size = 0 => MayBeEmpty(Received.type)
        BY <4>2 DEF ReplySizes, EmptyMaps, MayBeEmpty, TextSize
      <4> QED
        BY <4>1, <4>3
    <3> QED
      BY <1>7, <3>1, <3>2, QueryAnswered
  <2>2. enclave' # "send" /\ UNCHANGED <<content, files, outbox, app, appMsg>>
    BY <1>7, QueryAnswered DEF ServeQuery, appVars
  <2> QED
    BY <2>1, <2>2 DEF IsReply, MayBeEmpty
<1>8. ASSUME EnclavePack PROVE Replied'
  <2>1. CASE out = None
    BY <1>8, <2>1 DEF EnclavePack, appVars
  <2>2. CASE out # None
    <3> DEFINE p == Packed(content[out], answer.query, Reply, answer.size, enclaveIV)
    <3>1. content[out] = Blank /\ answer # None /\ enclaveIV \in IVs
      BY <1>8, <2>2 DEF EnclavePack, IInv, HeldBlank, TypeOK
    <3>2. IsPacked(p, answer.query, Reply, answer.size)
      BY <3>1, BlankFacts, ReplyFacts, PackedFacts DEF IInv
    <3>3. IsReply(p)
      BY <3>1, <3>2, ReplyFacts DEF IInv, IsPacked, Intact, IsReply, TextSize, IVSize
    <3>4. content' = [content EXCEPT ![out] = p]
      BY <1>8, <2>2 DEF EnclavePack
    <3> HIDE DEF p
    <3> QED
      BY <1>8, <2>2, <3>3, <3>4 DEF EnclavePack, appVars
  <2> QED
    BY <2>1, <2>2
<1>9. ASSUME EnclaveSend PROVE Replied'
  BY <1>9 DEF EnclaveSend, appVars
<1>10. ASSUME EnclaveFree PROVE Replied'
  BY <1>10 DEF EnclaveFree, appVars
<1> QED
  BY <1>2, <1>3, <1>4, <1>5, <1>6, <1>7, <1>8, <1>9, <1>10 DEF Next, AppStep, EnclaveStep

\* With enough containers only empty traces and an empty list are left to fail on; whatever
\* main does afterwards, the request that the enclave failed on stays as it is.
LEMMA FailureStep ==
  ASSUME IInv, Next
  PROVE  FailuresExplained'
<1>1. /\ FailuresExplained /\ OldStatistics /\ PoolSuffices /\ Replied /\ HandsMatchSteps
      /\ content \in [Containers -> Contents] /\ None \notin Containers
      /\ appMsg \in Containers \cup {None} /\ in \in Containers \cup {None}
  BY NoneAssumption DEF IInv, TypeOK, Containers
<1> USE DEF FailuresExplained, Received
<1>2. ASSUME AppPack PROVE FailuresExplained'
  <2>1. CASE appMsg = None
    BY <1>1, <1>2, <2>1 DEF AppPack, PoolSuffices, enclaveVars
  <2>2. CASE appMsg # None
    <3>1. app' = "send" /\ UNCHANGED <<enclave, in, files>>
      BY <1>2, <2>2 DEF AppPack, enclaveVars
    <3>2. enclave = "failed" => content'[in] = content[in]
      BY <1>1, <1>2, <2>2, HeldApart DEF AppPack, HandsMatchSteps
    <3> QED
      BY <1>1, <3>1, <3>2
  <2> QED
    BY <2>1, <2>2
<1>3. ASSUME AppPrint PROVE FailuresExplained'
  BY <1>1, <1>3 DEF AppPrint, Replied, IsReply, MayBeEmpty, enclaveVars
<1>4. ASSUME AppFree PROVE FailuresExplained'
  <2>1. app' = "return" /\ UNCHANGED <<enclave, in, files>>
    BY <1>4 DEF AppFree, enclaveVars
  <2>2. enclave = "failed" => content'[in] = content[in]
    BY <1>1, <1>4, HeldApart DEF AppFree, HandsMatchSteps
  <2> QED
    BY <1>1, <2>1, <2>2
<1>5. ASSUME app # "crashed", ServeQuery PROVE FailuresExplained'
  <2>1. NothingToUnpack => Received.type = "FLOW_SIZE" /\ ~files[1]
    BY <1>5, ServedFacts DEF ServeQuery
  <2>2. NoOldStatistics => Received.type = "HEAVY_CHANGE" /\ \A i \in Traces : ~files[i]
    <3>1. Taken > NumTraces /\ Taken \in Int /\ enclave = "dispatch"
      BY <1>5, QueryAnswered, ServedFacts DEF ServeQuery
    <3> QED
      BY <1>1, <3>1, RequestsAssumption DEF OldStatistics, Past, InService, Traces, NoOldStatistics
  <2>3. enclave' = "failed" => NothingToUnpack \/ NoOldStatistics
    BY <1>5, QueryAnswered
  <2>4. UNCHANGED <<content, in, files, app>>
    BY <1>5 DEF ServeQuery, appVars
  <2> QED
    BY <1>5, <2>1, <2>2, <2>3, <2>4
<1>6. ASSUME app # "crashed", EnclavePack PROVE FailuresExplained'
  <2>1. CASE out = None
    BY <1>1, <1>6, <2>1 DEF EnclavePack, PoolSuffices, appVars
  <2>2. CASE out # None
    <3>1. enclave' = "send" /\ app' # "crashed"
      BY <1>6, <2>2 DEF EnclavePack, appVars
    <3> QED
      BY <3>1
  <2> QED
    BY <2>1, <2>2
<1>7. ASSUME AppTake \/ AppSend \/ AppJoin \/ AppDrain \/ AppReturn PROVE FailuresExplained'
  BY <1>1, <1>7 DEF AppTake, AppSend, AppJoin, AppDrain, AppReturn, enclaveVars
<1>8. ASSUME app # "crashed", EnclaveReceive \/ ServeStat \/ ServeStop \/ EnclaveTake
                               \/ EnclaveSend \/ EnclaveFree \/ EnclaveReturn
      PROVE  FailuresExplained'
  <2>1. app' # "crashed" /\ enclave' # "failed"
    BY <1>8 DEF EnclaveReceive, ServeStat, ServeStop, EnclaveTake, EnclaveSend, EnclaveFree,
                EnclaveReturn, appVars
  <2> QED
    BY <2>1
<1> QED
  BY <1>2, <1>3, <1>4, <1>5, <1>6, <1>7, <1>8 DEF Next, AppStep, EnclaveStep

---------------------------------------------------------------------------
(* The theorems                                                             *)

\* Before the first request the enclave is done with none.
LEMMA NothingPast ==
  ASSUME sent = 0, inbox = <<>>, enclave = "poll"
  PROVE  Past = 0
<1>1. Len(inbox) = 0 /\ (IF InService THEN 1 ELSE 0) = 0
  BY DEF InService
<1>2. 0 - 0 = 0
  OBVIOUS
<1>3. Taken = 0
  BY <1>1, <1>2, Zenon DEF Taken
<1> QED
  BY <1>1, <1>2, <1>3, Zenon DEF Past

\* Before the first request every container is in the pool, blank.
LEMMA InitIInv == Init => IInv
<1> SUFFICES ASSUME Init PROVE IInv
  OBVIOUS
<1>1. /\ pool = [i \in Containers |-> i] /\ inbox = <<>> /\ outbox = <<>>
      /\ content = [c \in Containers |-> Blank] /\ files \in [Traces -> BOOLEAN]
      /\ app = "take" /\ appMsg = None /\ sent = 0 /\ printed = <<>>
      /\ appIV \in IVs /\ enclaveIV = 0 /\ enclave = "poll" /\ in = None /\ out = None
      /\ cur = 0 /\ prep \in {None, 0} /\ answer = None
  BY DEF Init, IVs
<1> HIDE DEF Init
<1> USE <1>1, RequestsAssumption, ServiceAssumption, ScriptShape, NoneAssumption
<1>2. None \notin Containers /\ Containers = 1..PoolSize
  BY DEF Containers
<1>3. pool \in Seq(Containers) /\ Len(pool) = PoolSize /\ DOMAIN pool = Containers
      /\ \A i \in Containers : pool[i] = i
  BY DEF Containers
<1>4. TypeOK
  <2>1. content \in [Containers -> Contents] /\ enclaveIV \in IVs /\ prep \in {None} \cup 0..NumTraces
        /\ printed \in Seq(Texts)
    BY BlankFacts DEF IVs
  <2> QED
    BY <1>3, <2>1 DEF TypeOK
<1>5. OnePlace
  <2>1. NoRepeat(pool) /\ NoRepeat(inbox) /\ NoRepeat(outbox)
    BY <1>3 DEF NoRepeat
  <2>2. ASSUME NEW c \in Containers, NEW q \in Places PROVE At(c, q) <=> q = "pool"
    BY <1>2, <1>3 DEF Places, At, InQueue
  <2> QED
    BY <2>1, <2>2 DEF OnePlace, Places
<1>6. PooledBlank
  BY <1>3 DEF PooledBlank
<1>7. HandsMatchSteps /\ InScript
  BY DEF HandsMatchSteps, InScript, Taken
<1>8. AllCounted
  BY <1>3 DEF AllCounted, Held
<1>9. FewReplies /\ OldStatistics
  <2>1. sent = 0 /\ inbox = <<>> /\ enclave = "poll"
    OBVIOUS
  <2>2. Past = 0
    BY <2>1, NothingPast
  <2> QED
    BY <2>2 DEF FewReplies, OldStatistics, Traces
<1>10. RequestsInOrder /\ Replied /\ HeldBlank
  BY DEF RequestsInOrder, Replied, HeldBlank
<1>11. PoolSuffices /\ FailuresExplained
  BY DEF PoolSuffices, FailuresExplained
<1> QED
  BY <1>4, <1>5, <1>6, <1>7, <1>8, <1>9, <1>10, <1>11 DEF IInv

\* A step of neither thread changes nothing that the invariant speaks of.
LEMMA StutterIInv == IInv /\ UNCHANGED vars => IInv'
BY DEF IInv, vars, appVars, enclaveVars, TypeOK, OnePlace, NoRepeat, At, InQueue, PooledBlank,
       HandsMatchSteps, InScript, AllCounted, FewReplies, RequestsInOrder, Replied, HeldBlank,
       OldStatistics, PoolSuffices, FailuresExplained, Taken, InService, Past, IsRequest, IsReply,
       MayBeEmpty, Received

\* Every step of either thread keeps the invariant.
LEMMA NextIInv == IInv /\ [Next]_vars => IInv'
<1>1. IInv /\ Next => IInv'
  <2> SUFFICES ASSUME IInv, Next PROVE IInv'
    OBVIOUS
  <2>1. TypeOK' /\ OnePlace' /\ HandsMatchSteps' /\ InScript'
    BY TypeStep, PlaceStep, ControlStep
  <2>2. AllCounted' /\ FewReplies' /\ OldStatistics' /\ PoolSuffices'
    BY CountedStep, SufficeStep, StatisticsStep
  <2>3. PooledBlank' /\ HeldBlank' /\ RequestsInOrder' /\ Replied' /\ FailuresExplained'
    BY BlankStep, RequestStep, ReplyStep, FailureStep
  <2> QED
    BY <2>1, <2>2, <2>3 DEF IInv
<1> QED
  BY <1>1, StutterIInv

\* The inductive invariant holds in every run of the two threads.
THEOREM IInvHolds == Spec => []IInv
BY InitIInv, NextIInv, PTL DEF Spec

\* Every variable keeps its type, whatever the number of traces and of containers.
THEOREM TypeOKHolds == Spec => []TypeOK
<1>1. IInv => TypeOK
  BY DEF IInv
<1> QED
  BY <1>1, IInvHolds, PTL

\* No container is lost, duplicated or in the hands of both threads.
THEOREM OnePlaceHolds == Spec => []OnePlace
<1>1. IInv => OnePlace
  BY DEF IInv
<1> QED
  BY <1>1, IInvHolds, PTL

\* A pool with a container for each request never gives either thread a null one.
THEOREM PoolSufficesHolds == Spec => []PoolSuffices
<1>1. IInv => PoolSuffices
  BY DEF IInv
<1> QED
  BY <1>1, IInvHolds, PTL

\* No payload of an earlier message is left in a container of the pool.
THEOREM PooledBlankHolds == Spec => []PooledBlank
<1>1. IInv => PooledBlank
  BY DEF IInv
<1> QED
  BY <1>1, IInvHolds, PTL

\* The enclave fails only over FLOW_SIZE of an empty first trace or over HEAVY_CHANGE of
\* nothing but empty traces, main only on an empty list or distribution.
THEOREM FailuresExplainedHolds == Spec => []FailuresExplained
<1>1. IInv => FailuresExplained
  BY DEF IInv
<1> QED
  BY <1>1, IInvHolds, PTL

\* Every payload that either side unpacks opens with the IV and MAC that are with it.
THEOREM PayloadsOpenHolds == Spec => []PayloadsOpen
<1>1. IInv => PayloadsOpen
  <2> SUFFICES ASSUME IInv PROVE PayloadsOpen
    OBVIOUS
  <2>1. ASSUME enclave = "dispatch", Received.payload # None PROVE Opens(Received)
    <3>1. IsRequest(Received, Taken)
      BY <2>1, ServedFacts
    <3> QED
      BY <2>1, <3>1 DEF IsRequest, IsPacked, Intact
  <2>2. ASSUME app = "print", content[appMsg].payload # None PROVE Opens(content[appMsg])
    BY <2>2 DEF IInv, Replied, IsReply
  <2> QED
    BY <2>1, <2>2 DEF PayloadsOpen
<1> QED
  BY <1>1, IInvHolds, PTL


---------------------------------------------------------------------------
(* Sequences of texts                                                       *)

\* Taking the first element of what follows.
LEMMA ConcatFirst ==
  ASSUME NEW S, NEW s \in Seq(S), NEW t \in Seq(S), t # <<>>
  PROVE  (s \o <<>>) \o t = (s \o <<t[1]>>) \o Tail(t)
<1>1. t[1] \in S /\ Tail(t) \in Seq(S) /\ <<t[1]>> \in Seq(S)
  BY HeadTailProperties, LenProperties, EmptySeq
<1>2. t = <<t[1]>> \o Tail(t)
  <2> DEFINE u == <<t[1]>> \o Tail(t)
  <2>1. /\ u \in Seq(S) /\ Len(u) = Len(<<t[1]>>) + Len(Tail(t))
        /\ \A i \in 1..(Len(<<t[1]>>) + Len(Tail(t))) :
             u[i] = IF i <= Len(<<t[1]>>) THEN <<t[1]>>[i] ELSE Tail(t)[i - Len(<<t[1]>>)]
    BY <1>1, ConcatProperties, Zenon
  <2>2. /\ Len(t) \in Nat \ {0} /\ Len(Tail(t)) = Len(t) - 1 /\ Len(<<t[1]>>) = 1
        /\ \A i \in 1..(Len(t) - 1) : Tail(t)[i] = t[i + 1]
    OBVIOUS
  <2> HIDE DEF u
  <2>3. Len(u) = Len(t)
    BY <2>1, <2>2
  <2>4. ASSUME NEW i \in 1..Len(t) PROVE t[i] = u[i]
    BY <2>1, <2>2
  <2>5. t = u
    BY <2>1, <2>3, <2>4, SeqEqual
  <2> QED
    BY <2>5 DEF u
<1>3. s \o <<>> = s
  BY ConcatEmptySeq, Zenon
<1>4. (s \o <<t[1]>>) \o Tail(t) = s \o (<<t[1]>> \o Tail(t))
  <2>1. ASSUME NEW a \in Seq(S), NEW b \in Seq(S), NEW c \in Seq(S)
        PROVE  (a \o b) \o c = a \o (b \o c)
    BY ConcatAssociative, SMTT(60)
  <2> QED
    BY <1>1, <2>1
<1> QED
  BY <1>2, <1>3, <1>4, Zenon

\* An element added to what precedes, or to all.
LEMMA ConcatAppend ==
  ASSUME NEW S, NEW s \in Seq(S), NEW t \in Seq(S), NEW x \in S
  PROVE  /\ s \o <<x>> = Append(s, x) \o <<>>
         /\ (s \o t) \o <<x>> = Append((s \o t) \o <<>>, x)
<1>1. <<x>> \in Seq(S) /\ s \o t \in Seq(S) /\ Append(s, x) \in Seq(S)
  BY ConcatProperties, AppendProperties
<1>2. Append(s, x) = s \o <<x>> /\ Append(s \o t, x) = (s \o t) \o <<x>>
  BY <1>1, AppendIsConcat, Zenon
<1>3. Append(s, x) \o <<>> = Append(s, x) /\ (s \o t) \o <<>> = s \o t
  BY <1>1, ConcatEmptySeq, Zenon
<1> QED
  BY <1>2, <1>3, Zenon

\* An element added to what follows.
LEMMA AppendInside ==
  ASSUME NEW S, NEW s \in Seq(S), NEW t \in Seq(S), NEW x \in S
  PROVE  (s \o t) \o <<x>> = (s \o Append(t, x)) \o <<>>
<1>1. <<x>> \in Seq(S) /\ Append(t, x) \in Seq(S)
  BY AppendProperties
<1>2. s \o Append(t, x) \in Seq(S)
  BY <1>1, ConcatProperties
<1>3. Append(t, x) = t \o <<x>>
  BY <1>1, AppendIsConcat, Zenon
<1>4. (s \o Append(t, x)) \o <<>> = s \o Append(t, x)
  BY <1>2, ConcatEmptySeq, Zenon
<1>5. (s \o t) \o <<x>> = s \o (t \o <<x>>)
  <2>1. ASSUME NEW a \in Seq(S), NEW b \in Seq(S), NEW c \in Seq(S)
        PROVE  (a \o b) \o c = a \o (b \o c)
    BY ConcatAssociative, SMTT(60)
  <2> QED
    BY <1>1, <2>1
<1> QED
  BY <1>3, <1>4, <1>5, Zenon

---------------------------------------------------------------------------
(* What is added to the invariant                                           *)

\* The requests that are served: all that were taken, but for the one at hand.
Served == sent - Len(inbox) - (IF enclave = "dispatch" THEN 1 ELSE 0)

Orderly ==
  /\ enclave = "stopped" => inbox = <<>> /\ sent = Len(Script)
  /\ enclave = "send" => Opened(content[out]) = Reply

\* The request that the enclave is about to serve.
LEMMA AtHand ==
  ASSUME IInv, enclave = "dispatch"
  PROVE  /\ Taken \in 1..Len(Script) /\ Served = Taken - 1
         /\ Received.type = Script[Taken]
         /\ Received.type = "STAT" => /\ Taken \in Traces /\ Opened(Received) = <<"trace", Taken>>
                                      /\ (Received.size > 0 <=> files[Taken])
         /\ Received.type = "STOP" <=> Taken = Len(Script)
<1>1. Served = Taken - 1
  BY DEF Served, Taken
<1>2. TypeOK
  BY DEF IInv
<1> QED
  BY <1>1, <1>2, ServedFacts, ScriptShape, RequestFacts

\* The order in which requests are served is kept.
LEMMA OrderlyStep ==
  ASSUME IInv, Orderly, Next
  PROVE  Orderly'
<1>1. /\ HandsMatchSteps /\ InScript /\ None \notin Containers
      /\ content \in [Containers -> Contents]
      /\ pool \in Seq(Containers) /\ inbox \in Seq(Containers) /\ outbox \in Seq(Containers)
      /\ appMsg \in Containers \cup {None} /\ in \in Containers \cup {None}
      /\ out \in Containers \cup {None} /\ sent \in 0..Len(Script)
  BY NoneAssumption DEF IInv, TypeOK, Containers
<1> USE <1>1, HeldApart, ScriptShape, RequestsAssumption
    DEF Orderly, Served, HandsMatchSteps, InScript, Taken, Reply
<1>2. ASSUME AppTake \/ AppJoin \/ AppDrain \/ AppPrint \/ AppReturn PROVE Orderly'
  BY <1>2 DEF AppTake, AppJoin, AppDrain, AppPrint, AppReturn, enclaveVars
<1>3. ASSUME AppPack \/ AppFree PROVE Orderly'
  <2>1. enclave = "send" => content'[out] = content[out]
    BY <1>3 DEF AppPack, AppFree
  <2> QED
    BY <1>3, <2>1 DEF AppPack, AppFree, enclaveVars, Opened, Opens
<1>4. ASSUME AppSend PROVE Orderly'
  BY <1>4 DEF AppSend, enclaveVars
<1>5. ASSUME EnclaveReceive PROVE Orderly'
  <2>1. Len(inbox') = Len(inbox) - 1 /\ Len(inbox) > 0
    BY <1>5 DEF EnclaveReceive
  <2> QED
    BY <1>5, <2>1 DEF EnclaveReceive, appVars
<1>6. ASSUME ServeStat \/ ServeQuery \/ ServeStop PROVE Orderly'
  <2>1. enclave = "dispatch" /\ UNCHANGED <<inbox, sent>>
        /\ enclave' \in {"free", "failed", "take", "stopped"}
    BY <1>6 DEF ServeStat, ServeQuery, ServeStop, appVars
  <2>2. enclave' = "stopped" => Taken = Len(Script)
    <3>1. enclave' = "stopped" => Received.type = "STOP"
      BY <1>6 DEF ServeStat, ServeQuery, ServeStop
    <3> QED
      BY <2>1, <3>1, AtHand
  <2> QED
    BY <2>1, <2>2
<1>7. ASSUME EnclaveTake \/ EnclaveSend \/ EnclaveFree \/ EnclaveReturn PROVE Orderly'
  BY <1>7 DEF EnclaveTake, EnclaveSend, EnclaveFree, EnclaveReturn, appVars
<1>8. ASSUME EnclavePack PROVE Orderly'
  <2>1. CASE out = None
    BY <1>8, <2>1 DEF EnclavePack, appVars
  <2>2. CASE out # None
    <3> DEFINE p == Packed(content[out], answer.query, Reply, answer.size, enclaveIV)
    <3>1. content[out] = Blank /\ answer # None /\ enclaveIV \in IVs
      BY <1>8, <2>2 DEF EnclavePack, IInv, HeldBlank, TypeOK
    <3>2. /\ Reply \in Texts
          /\ answer.query \in Types /\ answer.size \in {0, TextSize}
      BY <3>1, ReplyFacts DEF IInv
    <3>3. IsPacked(p, answer.query, Reply, answer.size)
      BY <3>1, <3>2, BlankFacts, PackedFacts
    <3>4. content'[out] = p /\ UNCHANGED <<out, answer, sent, inbox, files>> /\ enclave' = "send"
      BY <1>8, <2>2 DEF EnclavePack, appVars
    <3>5. Opened(p) = Reply
      BY <3>2, <3>3 DEF IsPacked, Intact, Opened
    <3> HIDE DEF p
    <3>6. Opened(content[out])' = Reply
      BY <3>4, <3>5 DEF Opened, Opens
    <3> QED
      BY <1>8, <3>4, <3>6 DEF EnclavePack
  <2> QED
    BY <2>1, <2>2
<1> QED
  BY <1>2, <1>3, <1>4, <1>5, <1>6, <1>7, <1>8 DEF Next, AppStep, EnclaveStep

---------------------------------------------------------------------------
(* The refinement                                                           *)

\* The parts that Replies is put together from.
Printing == IF app \in {"print", "crashed"} THEN <<Opened(content[appMsg])>> ELSE <<>>
Waiting  == TextsOf(outbox)
Coming   == IF enclave \in {"take", "pack", "send"} THEN <<Reply>> ELSE <<>>

\* In each part there are texts.
LEMMA PartsFacts ==
  ASSUME IInv
  PROVE  /\ Replies = ((printed \o Printing) \o Waiting) \o Coming
         /\ printed \in Seq(Texts) /\ Waiting \in Seq(Texts)
         /\ DOMAIN Waiting = DOMAIN outbox
         /\ \A i \in DOMAIN outbox : Waiting[i] = Opened(content[outbox[i]])
         /\ app # "crashed" => Printing \in Seq(Texts) /\ printed \o Printing \in Seq(Texts)
         /\ app = "print" => Opened(content[appMsg]) \in Texts
         /\ answer # None => Reply \in Texts
<1>1. /\ printed \in Seq(Texts) /\ outbox \in Seq(Containers) /\ content \in [Containers -> Contents]
      /\ appMsg \in Containers \cup {None} /\ HandsMatchSteps /\ TypeOK /\ Replied
  BY DEF IInv, TypeOK
<1>2. \A i \in DOMAIN outbox : Opened(content[outbox[i]]) \in Texts
  BY <1>1, OpenedText
<1>3. app = "print" => Opened(content[appMsg]) \in Texts
  BY <1>1, OpenedText DEF HandsMatchSteps
<1>4. answer # None => Reply \in Texts
  BY <1>1, ReplyFacts
<1>5. /\ Waiting \in Seq(Texts) /\ DOMAIN Waiting = DOMAIN outbox
      /\ \A i \in DOMAIN outbox : Waiting[i] = Opened(content[outbox[i]])
  <2>1. Waiting = [i \in 1..Len(outbox) |-> Opened(content[outbox[i]])] /\ Len(outbox) \in Nat
    BY <1>1 DEF Waiting, TextsOf
  <2>2. \A i \in 1..Len(outbox) : Opened(content[outbox[i]]) \in Texts
    BY <1>1, <1>2
  <2>3. Waiting \in [1..Len(outbox) -> Texts]
    BY <2>1, <2>2
  <2>4. Waiting \in Seq(Texts)
    BY <2>1, <2>3, SeqDef
  <2> QED
    BY <1>1, <2>1, <2>4
<1>6. app # "crashed" => Printing \in Seq(Texts)
  BY <1>3 DEF Printing
<1>7. app # "crashed" => printed \o Printing \in Seq(Texts)
  BY <1>1, <1>6, ConcatProperties
<1>8. Replies = ((printed \o Printing) \o Waiting) \o Coming
  BY DEF Replies, Printing, Waiting, Coming
<1> QED
  BY <1>1, <1>3, <1>4, <1>5, <1>6, <1>7, <1>8

\* Measurement speaks of the same requests and replies.
LEMMA SameScript ==
  /\ Ideal!Script = Script /\ Ideal!Traces = Traces
  /\ \A i : Ideal!RequestText(i, files) = RequestText(i, files)
  /\ \A type, asked : Ideal!ReplyText(type, asked, cur, prep) = ReplyText(type, asked, cur, prep)
<1>1. Ideal!Script = Script /\ Ideal!Traces = Traces
  BY DEF Ideal!Script, Script, Ideal!Traces, Traces, Ideal!Queries, Queries
<1>2. \A i : Ideal!RequestText(i, files) = RequestText(i, files)
  BY <1>1 DEF Ideal!RequestText, RequestText, Ideal!WithText, WithText
<1>3. \A type, asked : Ideal!ReplyText(type, asked, cur, prep) = ReplyText(type, asked, cur, prep)
  BY DEF Ideal!ReplyText, ReplyText, Ideal!EmptyMaps, EmptyMaps
<1> QED
  BY <1>1, <1>2, <1>3

\* What a step has to leave alone to be a stutter.
LEMMA Stutters ==
  ASSUME printed' = printed, Printing' = Printing, Waiting' = Waiting, Coming' = Coming,
         Served' = Served, UNCHANGED <<files, cur, prep>>,
         enclave' # "failed" <=> enclave # "failed"
  PROVE  UNCHANGED Ideal!vars
<1>1. Replies' = Replies
  BY DEF Replies, Printing, Waiting, Coming
<1>2. (enclave # "failed")' = (enclave # "failed")
  OBVIOUS
<1> QED
  BY <1>1, <1>2 DEF Ideal!vars, Served

\* What main does shows replies or is not seen.
LEMMA AppRefines ==
  ASSUME IInv, Orderly, AppStep, PoolSize >= Len(Script)
  PROVE  [Ideal!Next]_Ideal!vars
<1>1. /\ HandsMatchSteps /\ InScript /\ PoolSuffices
      /\ inbox \in Seq(Containers) /\ outbox \in Seq(Containers)
      /\ content \in [Containers -> Contents]
      /\ appMsg \in Containers \cup {None} /\ out \in Containers \cup {None} /\ sent \in 0..Len(Script)
  BY DEF IInv, TypeOK
<1>2. /\ Coming' = Coming /\ UNCHANGED <<files, cur, prep, enclave>>
  BY DEF AppStep, AppTake, AppPack, AppSend, AppJoin, AppDrain, AppPrint, AppFree, AppReturn,
         enclaveVars, Coming, Reply
<1> DEFINE Goal == [Ideal!Next]_Ideal!vars
<1>3. ASSUME AppTake \/ AppJoin \/ AppReturn PROVE Goal
  <2>1. printed' = printed /\ Printing' = Printing /\ Waiting' = Waiting /\ Served' = Served
    BY <1>3 DEF AppTake, AppJoin, AppReturn, Printing, Waiting, TextsOf, Served, Opened, Opens, enclaveVars
  <2> QED
    BY <1>2, <2>1, Stutters
<1>4. ASSUME AppPack \/ AppFree PROVE Goal
  <2>1. /\ appMsg \in Containers /\ app' \in {"send", "return"} /\ app \in {"pack", "free"}
        /\ \A c \in Containers : c # appMsg => content'[c] = content[c]
        /\ UNCHANGED <<printed, outbox, sent, inbox>>
    BY <1>1, <1>4 DEF AppPack, AppFree, PoolSuffices, HandsMatchSteps
  <2>2. \A i \in DOMAIN outbox : outbox[i] \in Containers /\ outbox[i] # appMsg
    <3>1. appMsg # None
      BY <2>1, NoneAssumption, ServiceAssumption DEF Containers
    <3>2. \A i \in DOMAIN outbox : outbox[i] # appMsg
      BY <3>1, HeldApart
    <3> QED
      BY <1>1, <3>2
  <2>3. Waiting' = Waiting
    BY <2>1, <2>2 DEF Waiting, TextsOf, Opened, Opens
  <2>4. Printing' = Printing /\ Served' = Served
    BY <1>2, <2>1 DEF Printing, Served
  <2> QED
    BY <1>2, <2>1, <2>3, <2>4, Stutters
<1>5. ASSUME AppSend PROVE Goal
  <2>1. Served' = Served
    BY <1>1, <1>5 DEF AppSend, Served, enclaveVars
  <2>2. printed' = printed /\ Printing' = Printing /\ Waiting' = Waiting
    BY <1>5 DEF AppSend, Printing, Waiting, TextsOf, Opened, Opens
  <2> QED
    BY <1>2, <2>1, <2>2, Stutters
<1>6. ASSUME AppDrain PROVE Goal
  <2>1. UNCHANGED <<printed, sent, inbox, content>> /\ app = "drain"
    BY <1>6 DEF AppDrain
  <2>2. Served' = Served
    BY <1>2, <2>1 DEF Served
  <2>3. CASE outbox = <<>>
    <3>1. Printing' = Printing /\ Waiting' = Waiting
      BY <1>6, <2>1, <2>3 DEF AppDrain, Rest, Printing, Waiting, TextsOf, Opened, Opens
    <3> QED
      BY <1>2, <2>1, <2>2, <3>1, Stutters
  <2>4. CASE outbox # <<>>
    <3>1. appMsg' = Head(outbox) /\ outbox' = Tail(outbox) /\ app' = "print"
      BY <1>6, <2>4 DEF AppDrain, Front, Rest
    <3>2. Printing = <<>> /\ Waiting # <<>> /\ Printing' = <<Waiting[1]>>
      <4>1. 1 \in DOMAIN outbox /\ Head(outbox) = outbox[1]
        BY <1>1, <2>4
      <4> QED
        BY <2>1, <3>1, <4>1, PartsFacts DEF Printing, Opened, Opens
    <3>3. Waiting' = Tail(Waiting)
      <4>1. Waiting \in Seq(Texts) /\ Len(Waiting) = Len(outbox)
        BY <1>1, PartsFacts
      <4>2. /\ DOMAIN Tail(outbox) = 1..(Len(outbox) - 1)
            /\ \A i \in 1..(Len(outbox) - 1) : Tail(outbox)[i] = outbox[i + 1]
        BY <1>1, <2>4
      <4>3. Waiting' = [i \in 1..(Len(outbox) - 1) |-> Waiting[i + 1]]
        <5>1. ASSUME NEW i \in 1..(Len(outbox) - 1)
              PROVE  Opened(content[outbox[i + 1]]) = Waiting[i + 1]
          BY <1>1, PartsFacts
        <5>2. Waiting' = [i \in DOMAIN Tail(outbox) |-> Opened(content[Tail(outbox)[i]])]
          BY <2>1, <3>1 DEF Waiting, TextsOf, Opened, Opens
        <5> QED
          BY <4>2, <5>1, <5>2
      <4>4. Tail(Waiting) = [i \in 1..(Len(outbox) - 1) |-> Waiting[i + 1]]
        <5>1. /\ Tail(Waiting) \in Seq(Texts) /\ Len(Tail(Waiting)) = Len(outbox) - 1
              /\ \A i \in 1..(Len(outbox) - 1) : Tail(Waiting)[i] = Waiting[i + 1]
          BY <3>2, <4>1, HeadTailProperties
        <5>2. Tail(Waiting) \in [1..(Len(outbox) - 1) -> Texts]
          BY <5>1, LenProperties
        <5> QED
          BY <5>1, <5>2
      <4> QED
        BY <4>3, <4>4
    <3>4. (printed \o <<>>) \o Waiting = (printed \o <<Waiting[1]>>) \o Tail(Waiting)
      BY <3>2, PartsFacts, ConcatFirst
    <3>5. Replies' = Replies
      <4>1. Replies = ((printed \o <<>>) \o Waiting) \o Coming
        BY <3>2, PartsFacts
      <4>2. Replies' = ((printed' \o Printing') \o Waiting') \o Coming'
        BY DEF Replies, Printing, Waiting, Coming
      <4> QED
        BY <1>2, <2>1, <3>2, <3>3, <3>4, <4>1, <4>2
    <3>6. (enclave # "failed")' = (enclave # "failed")
      BY <1>2
    <3> QED
      BY <1>2, <2>1, <2>2, <3>5, <3>6 DEF Ideal!vars, Served
  <2> QED
    BY <2>3, <2>4
<1>7. ASSUME AppPrint PROVE Goal
  <2>1. /\ UNCHANGED <<outbox, content, appMsg, sent, inbox>> /\ app = "print"
        /\ app' \in {"free", "crashed"}
    BY <1>7 DEF AppPrint
  <2>2. Waiting' = Waiting /\ Served' = Served
    BY <1>2, <2>1 DEF Waiting, TextsOf, Opened, Opens, Served
  <2>3. CASE app' = "crashed"
    <3>1. printed' = printed /\ Printing' = Printing
      BY <1>7, <2>1, <2>3 DEF AppPrint, Printing, Opened, Opens
    <3> QED
      BY <1>2, <2>2, <3>1, Stutters
  <2>4. CASE app' = "free"
    <3> DEFINE x == Opened(content[appMsg])
    <3>1. printed' = Append(printed, x) /\ Printing = <<x>> /\ Printing' = <<>> /\ x \in Texts
      BY <1>7, <2>1, <2>4, PartsFacts DEF AppPrint, Printing
    <3> HIDE DEF x
    <3>2. Replies' = Replies
      <4>1. Replies = ((printed \o <<x>>) \o Waiting) \o Coming
        BY <3>1, PartsFacts
      <4>2. Replies' = ((printed' \o Printing') \o Waiting') \o Coming'
        BY DEF Replies, Printing, Waiting, Coming
      <4>3. printed \o <<x>> = Append(printed, x) \o <<>>
        BY <3>1, PartsFacts, ConcatAppend
      <4> QED
        BY <1>2, <2>2, <3>1, <4>1, <4>2, <4>3
    <3>3. Len(printed') = Len(printed) + 1 /\ Len(printed) < Len(Replies)
      <4>1. printed \in Seq(Texts) /\ printed \o <<x>> \in Seq(Texts) /\ Len(printed \o <<x>>) = Len(printed) + 1
        BY <3>1, PartsFacts, ConcatProperties
      <4>2. Coming = <<>>
        BY <1>1, <2>1 DEF Coming, InScript
      <4>3. (printed \o <<x>>) \o Waiting \in Seq(Texts)
            /\ Len((printed \o <<x>>) \o Waiting) = Len(printed) + 1 + Len(Waiting) /\ Len(Waiting) \in Nat
        BY <4>1, PartsFacts, ConcatProperties
      <4>4. Replies = (printed \o <<x>>) \o Waiting
        BY <3>1, <4>2, <4>3, PartsFacts, ConcatEmptySeq
      <4> QED
        BY <3>1, <4>1, <4>3, <4>4
    <3>4. Served = Len(Script) \/ ~(enclave # "failed")
      BY <1>1, <2>1 DEF Served, Orderly, InScript
    <3>5. (enclave # "failed")' = (enclave # "failed")
      BY <1>2
    <3>6. Ideal!Show
      <4>1. sent' - Len(inbox') - (IF enclave' = "dispatch" THEN 1 ELSE 0)
              = sent - Len(inbox) - (IF enclave = "dispatch" THEN 1 ELSE 0)
        BY <2>2 DEF Served
      <4>2. sent - Len(inbox) - (IF enclave = "dispatch" THEN 1 ELSE 0) = Len(Script)
              \/ ~(enclave # "failed")
        BY <3>4 DEF Served
      <4>3. UNCHANGED <<files, cur, prep>>
        BY <1>2
      <4> QED
        BY <3>2, <3>3, <3>5, <4>1, <4>2, <4>3, SameScript, Zenon DEF Ideal!Show
    <3> QED
      BY <3>6 DEF Ideal!Next
  <2> QED
    BY <2>1, <2>3, <2>4
<1> QED
  BY <1>3, <1>4, <1>5, <1>6, <1>7 DEF AppStep

\* What the enclave does serves a request, fails over a query, or is not seen.
LEMMA EnclaveRefines ==
  ASSUME IInv, Orderly, EnclaveStep, PoolSize >= Len(Script)
  PROVE  [Ideal!Next]_Ideal!vars
<1>1. /\ HandsMatchSteps /\ InScript /\ PoolSuffices
      /\ inbox \in Seq(Containers) /\ outbox \in Seq(Containers)
      /\ content \in [Containers -> Contents]
      /\ out \in Containers \cup {None} /\ sent \in 0..Len(Script)
      /\ in \in Containers \cup {None} /\ None \notin Containers
  BY NoneAssumption, ServiceAssumption DEF IInv, TypeOK, Containers
<1>2. /\ UNCHANGED <<files, app, appMsg, sent, printed>> /\ app # "crashed"
  BY DEF EnclaveStep, EnclaveReceive, ServeStat, ServeQuery, ServeStop, EnclaveTake, EnclavePack,
         EnclaveSend, EnclaveFree, EnclaveReturn, appVars
<1> DEFINE Goal == [Ideal!Next]_Ideal!vars
<1>3. ASSUME UNCHANGED content PROVE Printing' = Printing
  BY <1>2, <1>3 DEF Printing, Opened, Opens
<1>4. ASSUME UNCHANGED <<content, outbox>> PROVE Waiting' = Waiting
  BY <1>4 DEF Waiting, TextsOf, Opened, Opens
<1>5. ASSUME EnclaveReceive PROVE Goal
  <2>1. Len(inbox') = Len(inbox) - 1 /\ enclave = "poll" /\ enclave' = "dispatch"
        /\ UNCHANGED <<content, outbox, cur, prep>>
    BY <1>1, <1>5 DEF EnclaveReceive
  <2>2. Served' = Served
    BY <1>1, <1>2, <2>1 DEF Served
  <2>3. Coming' = Coming
    BY <2>1 DEF Coming
  <2> QED
    BY <1>2, <1>3, <1>4, <2>1, <2>2, <2>3, Stutters
<1>6. ASSUME EnclaveTake \/ EnclaveReturn PROVE Goal
  <2>1. /\ UNCHANGED <<content, outbox, inbox, cur, prep, answer>>
        /\ enclave \in {"take", "return"} /\ enclave' \in {"pack", "poll"}
        /\ (enclave = "take" <=> enclave' = "pack")
    BY <1>6 DEF EnclaveTake, EnclaveReturn
  <2>2. Served' = Served /\ Coming' = Coming
    BY <1>2, <2>1 DEF Served, Coming, Reply
  <2> QED
    BY <1>2, <1>3, <1>4, <2>1, <2>2, Stutters
<1>7. ASSUME EnclavePack \/ EnclaveFree PROVE Goal
  <2>1. PICK m \in Containers :
          /\ m \in {in, out}
          /\ \A c \in Containers : c # m => content'[c] = content[c]
    <3>1. CASE EnclavePack
      <4>1. out \in Containers
        BY <1>1, <3>1 DEF EnclavePack, PoolSuffices
      <4>2. content' = [content EXCEPT ![out] =
                          Packed(content[out], answer.query, Reply, answer.size, enclaveIV)]
        BY <1>1, <3>1, <4>1 DEF EnclavePack
      <4>3. \A c \in Containers : c # out => content'[c] = content[c]
        BY <1>1, <4>2
      <4> QED
        BY <4>1, <4>3
    <3>2. CASE EnclaveFree
      <4>1. in \in Containers
        BY <1>1, <3>2 DEF EnclaveFree, HandsMatchSteps
      <4> QED
        BY <3>2, <4>1 DEF EnclaveFree
    <3> QED
      BY <1>7, <3>1, <3>2
  <2>2. /\ UNCHANGED <<outbox, inbox, cur, prep, answer>>
        /\ \/ enclave = "pack" /\ enclave' = "send"
           \/ enclave = "free" /\ enclave' = "return"
    BY <1>1, <1>7 DEF EnclavePack, EnclaveFree, PoolSuffices
  <2>3. Served' = Served /\ Coming' = Coming
    BY <1>2, <2>2 DEF Served, Coming, Reply
  <2>4. \A i \in DOMAIN outbox : outbox[i] \in Containers /\ outbox[i] # m
    <3>1. \A i \in DOMAIN outbox : outbox[i] # m
      BY <1>1, <2>1, HeldApart
    <3> QED
      BY <1>1, <3>1
  <2>5. Waiting' = Waiting
    BY <2>1, <2>2, <2>4 DEF Waiting, TextsOf, Opened, Opens
  <2>6. Printing' = Printing
    <3>1. app \notin {"print", "crashed"}
      BY <1>1, <1>2, <2>2 DEF InScript
    <3> QED
      BY <1>2, <3>1 DEF Printing
  <2> QED
    BY <1>2, <2>2, <2>3, <2>5, <2>6, Stutters
<1>8. ASSUME EnclaveSend PROVE Goal
  <2>1. /\ enclave = "send" /\ enclave' = "free" /\ outbox' = Append(outbox, out)
        /\ UNCHANGED <<content, inbox, cur, prep>>
    BY <1>8 DEF EnclaveSend
  <2>2. Served' = Served
    BY <1>2, <2>1 DEF Served
  <2>3. out \in Containers /\ Opened(content[out]) = Reply /\ Reply \in Texts
    BY <1>1, <2>1, PartsFacts DEF HandsMatchSteps, Orderly
  <2>4. Waiting' = Append(Waiting, Reply)
    <3>1. Waiting \in Seq(Texts) /\ Len(Waiting) = Len(outbox) /\ Len(outbox) \in Nat
      BY <1>1, PartsFacts
    <3>2. /\ DOMAIN Append(outbox, out) = 1..(Len(outbox) + 1)
          /\ \A i \in 1..Len(outbox) : Append(outbox, out)[i] = outbox[i]
          /\ Append(outbox, out)[Len(outbox) + 1] = out
      BY <1>1, <2>3
    <3>3. Waiting' = [i \in DOMAIN Append(outbox, out) |-> Opened(content[Append(outbox, out)[i]])]
      BY <2>1 DEF Waiting, TextsOf, Opened, Opens
    <3>4. \A i \in 1..Len(outbox) : Opened(content[outbox[i]]) = Waiting[i]
      BY <1>1, PartsFacts
    <3>5. /\ Append(Waiting, Reply) \in Seq(Texts) /\ Len(Append(Waiting, Reply)) = Len(outbox) + 1
          /\ \A i \in 1..Len(outbox) : Append(Waiting, Reply)[i] = Waiting[i]
          /\ Append(Waiting, Reply)[Len(outbox) + 1] = Reply
      BY <2>3, <3>1, AppendProperties
    <3>6. Append(Waiting, Reply) \in [1..(Len(outbox) + 1) -> Texts]
      BY <3>5, LenProperties
    <3>7. Waiting' = [i \in 1..(Len(outbox) + 1) |-> Append(Waiting, Reply)[i]]
      <4>1. ASSUME NEW i \in 1..(Len(outbox) + 1)
            PROVE  Opened(content[Append(outbox, out)[i]]) = Append(Waiting, Reply)[i]
        BY <2>3, <3>1, <3>2, <3>4, <3>5
      <4> QED
        BY <3>2, <3>3, <4>1
    <3> QED
      BY <3>6, <3>7
  <2>5. Replies' = Replies
    <3> DEFINE a == printed \o Printing
    <3>1. Coming = <<Reply>> /\ Coming' = <<>> /\ Printing' = Printing
      BY <1>3, <2>1 DEF Coming
    <3>2. Replies' = ((printed' \o Printing') \o Waiting') \o Coming'
      BY DEF Replies, Printing, Waiting, Coming
    <3>3. printed \o Printing \in Seq(Texts) /\ Waiting \in Seq(Texts)
          /\ Replies = ((printed \o Printing) \o Waiting) \o Coming
      BY <1>2, PartsFacts
    <3>4. (a \o Waiting) \o <<Reply>> = (a \o Append(Waiting, Reply)) \o <<>>
      <4>1. a \in Seq(Texts) /\ Waiting \in Seq(Texts) /\ Reply \in Texts
        BY <2>3, <3>3
      <4>2. ASSUME NEW s \in Seq(Texts), NEW t \in Seq(Texts), NEW x \in Texts
            PROVE  (s \o t) \o <<x>> = (s \o Append(t, x)) \o <<>>
        BY AppendInside
      <4> HIDE DEF a
      <4> QED
        BY <4>1, <4>2
    <3> QED
      BY <1>2, <2>4, <3>1, <3>2, <3>3, <3>4
  <2>6. (enclave # "failed")' = (enclave # "failed")
    BY <2>1
  <2> QED
    BY <1>2, <2>1, <2>2, <2>5, <2>6 DEF Ideal!vars, Served
<1>9. ASSUME ServeStat \/ ServeQuery \/ ServeStop PROVE Goal
  <2>1. /\ enclave = "dispatch" /\ enclave' # "dispatch" /\ UNCHANGED <<content, outbox, inbox>>
        /\ (enclave # "failed") = TRUE
    BY <1>9 DEF ServeStat, ServeQuery, ServeStop
  <2>2. Served \in Nat /\ Served = Taken - 1 /\ Taken \in 1..Len(Script) /\ Served' = Served + 1
    <3>1. Served' = Served + 1
      BY <1>1, <1>2, <2>1 DEF Served
    <3> QED
      BY <2>1, <3>1, AtHand, ScriptShape, RequestsAssumption
  <2>3. Printing' = Printing /\ Waiting' = Waiting /\ Coming = <<>>
    BY <1>3, <1>4, <2>1 DEF Coming
  <2>4. enclave' \notin {"take", "pack", "send"} => Replies' = Replies
    BY <1>2, <2>3 DEF Replies, Printing, Waiting, Coming
  <2>5. /\ sent' - Len(inbox') - (IF enclave' = "dispatch" THEN 1 ELSE 0)
             = sent - Len(inbox) - (IF enclave = "dispatch" THEN 1 ELSE 0) + 1
        /\ sent - Len(inbox) - (IF enclave = "dispatch" THEN 1 ELSE 0) = Taken - 1
    BY <2>2 DEF Served
  <2>6. CASE Received.type = "STAT"
    <3>1. /\ enclave' = "free" /\ (enclave # "failed")' = TRUE
          /\ IF Received.size > 0 THEN prep' = cur /\ cur' = Opened(Received)[2]
             ELSE UNCHANGED <<prep, cur>>
      BY <1>9, <2>6 DEF ServeStat, ServeQuery, ServeStop
    <3>2. /\ Taken \in Traces /\ Opened(Received) = <<"trace", Taken>>
          /\ (Received.size > 0 <=> files[Taken])
      BY <2>1, <2>6, AtHand
    <3>3. /\ Taken - 1 \in 0..(NumTraces - 1) /\ Taken - 1 + 1 = Taken
          /\ IF files[Taken - 1 + 1] THEN prep' = cur /\ cur' = Taken - 1 + 1
             ELSE UNCHANGED <<prep, cur>>
      BY <3>1, <3>2, RequestsAssumption DEF Traces
    <3>4. Ideal!Stat
      BY <1>2, <2>1, <2>4, <2>5, <3>1, <3>3 DEF Ideal!Stat
    <3> QED
      BY <3>4 DEF Ideal!Next
  <2>7. CASE Received.type = "STOP"
    <3>1. enclave' = "stopped" /\ (enclave # "failed")' = TRUE /\ UNCHANGED <<cur, prep>>
      BY <1>9, <2>7 DEF ServeStat, ServeQuery, ServeStop
    <3>2. Taken = Len(Script)
      BY <2>1, <2>7, AtHand
    <3>3. Ideal!Stop
      BY <1>2, <2>1, <2>4, <2>5, <3>1, <3>2, SameScript DEF Ideal!Stop
    <3> QED
      BY <3>3 DEF Ideal!Next
  <2>8. CASE Received.type \notin {"STAT", "STOP"}
    <3>1. /\ ServeQuery /\ Taken > NumTraces /\ Taken < Len(Script) /\ UNCHANGED <<cur, prep>>
          /\ enclave' \in {"failed", "take"} /\ Received.type = Script[Taken]
      <4>1. ServeQuery
        BY <1>9, <2>8 DEF ServeStat, ServeStop
      <4> QED
        BY <2>1, <4>1, QueryAnswered, AtHand DEF ServeQuery
    <3>2. /\ Taken - 1 \in NumTraces..(Len(Script) - 2) /\ Taken - 1 + 1 = Taken
      BY <2>2, <3>1, ScriptShape, RequestsAssumption
    <3>3. CASE enclave' = "failed"
      <4>1. (enclave # "failed")' = FALSE
        BY <3>3
      <4>2. \/ Script[Taken] = "FLOW_SIZE" /\ ~files[1]
            \/ Script[Taken] = "HEAVY_CHANGE" /\ prep = None
        BY <2>1, <3>1, <3>3, QueryAnswered, ServedFacts DEF NoOldStatistics
      <4>3. Ideal!Fail
        BY <1>2, <2>1, <2>4, <2>5, <3>1, <3>2, <3>3, <4>1, <4>2, SameScript DEF Ideal!Fail
      <4> QED
        BY <4>3 DEF Ideal!Next
    <3>4. CASE enclave' = "take"
      <4> DEFINE r == ReplyText(Script[Taken], RequestText(Taken, files), cur, prep)
      <4>1. /\ (enclave # "failed")' = TRUE
            /\ answer'.query = Script[Taken] /\ answer'.asked = RequestText(Taken, files)
            /\ answer'.cur = cur /\ answer'.prep = prep /\ answer' \in Answers
        <5>1. PICK size \in ReplySizes(Received.type) :
                answer' = [query |-> Received.type, asked |-> Asked, cur |-> cur, prep |-> prep,
                           size |-> size]
          BY <3>1, <3>4, QueryAnswered
        <5>2. Asked = RequestText(Taken, files) /\ answer' \in Answers
          BY <2>1, <2>8, <3>1, <3>4, ServedFacts, QueryAnswered
        <5> QED
          BY <3>1, <3>4, <5>1, <5>2
      <4>2. Script[Taken] = "HEAVY_CHANGE" => prep # None
        BY <3>1, <3>4, QueryAnswered DEF NoOldStatistics
      <4>3. Reply' = r
        BY <4>1 DEF Reply
      <4>4. r \in Texts
        <5>1. <<Script[Taken], RequestText(Taken, files), cur, prep>> \in ReplyTexts
          BY <2>1, <2>2, <2>8, ScriptShape, ServedFacts DEF IInv, TypeOK, ReplyTexts
        <5> QED
          BY <5>1 DEF ReplyText, Texts
      <4> HIDE DEF r
      <4>5. Replies' = Append(Replies, r)
        <5>1. Coming' = <<r>>
          BY <3>4, <4>3 DEF Coming
        <5>2. Replies' = ((printed' \o Printing') \o Waiting') \o Coming'
          BY DEF Replies, Printing, Waiting, Coming
        <5>3. printed \o Printing \in Seq(Texts) /\ Waiting \in Seq(Texts)
              /\ Replies = ((printed \o Printing) \o Waiting) \o Coming
          BY <1>2, PartsFacts
        <5>4. ((printed \o Printing) \o Waiting) \o <<r>>
                = Append(((printed \o Printing) \o Waiting) \o <<>>, r)
          BY <4>4, <5>3, ConcatAppend
        <5> QED
          BY <1>2, <2>3, <5>1, <5>2, <5>3, <5>4
      <4>6. Ideal!Query
        BY <1>2, <2>1, <2>5, <3>1, <3>2, <4>1, <4>2, <4>5, SameScript DEF Ideal!Query, r
      <4> QED
        BY <4>6 DEF Ideal!Next
    <3> QED
      BY <3>1, <3>3, <3>4
  <2> QED
    BY <2>6, <2>7, <2>8
<1> QED
  BY <1>5, <1>6, <1>7, <1>8, <1>9 DEF EnclaveStep

---------------------------------------------------------------------------
\* Before the first request nothing has been served.
LEMMA InitRefines == Init => Orderly /\ Ideal!Init
<1> SUFFICES ASSUME Init PROVE Orderly /\ Ideal!Init
  OBVIOUS
<1>1. Orderly
  BY RequestsAssumption DEF Init, Orderly, Served
<1>2. Replies = <<>>
  <2>1. Printing = <<>> /\ Coming = <<>> /\ printed = <<>> /\ Waiting = <<>>
    BY DEF Init, Printing, Coming, Waiting, TextsOf
  <2>2. Replies = ((printed \o Printing) \o Waiting) \o Coming
    BY DEF Replies, Printing, Waiting, Coming
  <2> QED
    BY <2>1, <2>2
<1>3. /\ sent - Len(inbox) - (IF enclave = "dispatch" THEN 1 ELSE 0) = 0
      /\ Len(printed) = 0 /\ cur = 0 /\ prep \in {None, 0} /\ files \in [Traces -> BOOLEAN]
  <2>1. sent = 0 /\ inbox = <<>> /\ printed = <<>> /\ enclave = "poll"
    BY DEF Init
  <2>2. cur = 0 /\ prep \in {None, 0} /\ files \in [Traces -> BOOLEAN]
    BY DEF Init
  <2>3. Len(inbox) = 0 /\ Len(printed) = 0
    BY <2>1
  <2>4. (IF enclave = "dispatch" THEN 1 ELSE 0) = 0
    BY <2>1
  <2>5. sent - Len(inbox) - (IF enclave = "dispatch" THEN 1 ELSE 0) = 0 - 0 - 0
    BY <2>1, <2>3, <2>4, Zenon
  <2> QED
    BY <2>2, <2>3, <2>5
<1>4. (enclave # "failed") = TRUE
  BY DEF Init
<1>5. Ideal!Init
  BY <1>2, <1>3, <1>4, SameScript, Zenon DEF Ideal!Init
<1> QED
  BY <1>1, <1>5

\* With a container for each request, the two threads serve the requests in the order
\* in which main sends them, answer each query about the traces sent before it, and
\* show every reply once and in order, after the last one is made.
THEOREM ImplementsMeasurementHolds ==
  ASSUME PoolSize >= Len(Script)
  PROVE  Spec => ImplementsMeasurement
<1>1. Init => IInv /\ Orderly /\ Ideal!Init
  BY InitIInv, InitRefines
<1>2. IInv /\ Orderly /\ [Next]_vars => IInv' /\ Orderly'
  <2>1. IInv /\ Orderly /\ UNCHANGED vars => Orderly'
    BY DEF vars, appVars, enclaveVars, Orderly, Served, Opened, Opens, Reply
  <2> QED
    BY <2>1, NextIInv, OrderlyStep
<1>3. IInv /\ Orderly /\ [Next]_vars => [Ideal!Next]_Ideal!vars
  <2>1. UNCHANGED vars => UNCHANGED Ideal!vars
    BY DEF vars, appVars, enclaveVars, Ideal!vars, Replies, TextsOf, Opened, Opens, Reply
  <2> QED
    BY <2>1, AppRefines, EnclaveRefines DEF Next
<1> QED
  BY <1>1, <1>2, <1>3, PTL DEF Spec, ImplementsMeasurement, Ideal!Spec
=============================================================================
