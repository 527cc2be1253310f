------------------------------ MODULE Service ------------------------------
(***************************************************************************)
(* The two threads: main of App.cpp, which sends the requests, joins the   *)
(* enclave thread and prints the replies, and ecall_run of Enclave.cpp.    *)
(* They share the global pool of message containers, the mailbox of the    *)
(* requests and the mailbox of the replies.  Queue.c makes the operations  *)
(* on these atomic (SpinQueue implements Deque); between them a thread     *)
(* works on the containers it has taken.                                   *)
(*                                                                         *)
(* A text is empty or not, and encryption keeps that.  Each side encrypts  *)
(* under its own counter IV; a payload carries the IV it was made with.    *)
(***************************************************************************)
EXTENDS Requests, FiniteSets

CONSTANTS PoolSize,   \* MAX_POOL_SIZE
          CtrMod      \* 2^(8 * GCM_IV_SIZE), the values of an IV

ASSUME ServiceAssumption ==
  /\ PoolSize \in Nat
  /\ CtrMod \in Nat \ {0}

VARIABLES pool, inbox, outbox,  \* global_pool, mbox[0], mbox[1]
          content,              \* type, payload_size, mac and payload of each container
          files,                \* files[i]: has trace file i any records
          app, appMsg, sent,    \* main: its step, container, requests sent
          appIV, enclaveIV,     \* ctx.IV of either side
          printed,              \* main: the replies printed
          enclave, in, out,     \* ecall_run: its step, in_message, out_message
          cur, prep,            \* the traces the two statistics are of
          answer                \* the reply being made: query, parameter, cur, prep, size

appVars     == <<app, appMsg, sent, printed, appIV>>
enclaveVars == <<enclave, in, out, cur, prep, answer, enclaveIV>>
vars        == <<pool, inbox, outbox, content, files, appVars, enclaveVars>>

Containers == 1..PoolSize
IVSize     == 12
TextSize   == 1   \* of a text that is not empty, whatever its length

\* A container of zero bytes, as main and free_message leave it: STAT is 0.
Blank == [type |-> "STAT", size |-> 0, mac |-> None, payload |-> None]

\* main up to pthread_create: every container is in the pool.  The oblivious
\* variant starts without old statistics, the strawman with empty ones.  The IV of
\* main is random, the enclave is given the key only.
Init ==
  /\ pool = [i \in Containers |-> i]
  /\ inbox = <<>>
  /\ outbox = <<>>
  /\ content = [c \in Containers |-> Blank]
  /\ files \in [Traces -> BOOLEAN]
  /\ app = "take" /\ appMsg = None /\ sent = 0 /\ printed = <<>>
  /\ appIV \in 0..(CtrMod - 1)
  /\ enclaveIV = 0
  /\ enclave = "poll" /\ in = None /\ out = None
  /\ cur = 0
  /\ prep \in {None, 0}
  /\ answer = None

Front(q) == IF q = <<>> THEN None ELSE Head(q)
Rest(q)  == IF q = <<>> THEN q ELSE Tail(q)

\* incr_ctr: the twelve bytes are one number, the first byte the lowest.
IncrCtr(iv) == IF iv + 1 = CtrMod THEN 0 ELSE iv + 1

\* gcm_encrypt: ciphertext and MAC, different for every text and IV.
Sealed(iv, text) == [iv |-> iv, text |-> text]

\* gcm_decrypt succeeds: the IV is the one of the ciphertext and the MAC is its MAC.
Opens(m) == m.payload.data.iv = m.payload.iv /\ m.mac = m.payload.data

\* unpack_message; after a failure, or of a null payload, the buffer holds nothing of use.
Opened(m) == IF m.payload # None /\ Opens(m) THEN m.payload.data.text ELSE None

\* Mutant: incr_ctr is called between attaching the IV and encrypting.
PackedLate(m, type, text, size, iv) ==
  LET header == [m EXCEPT !.type = type, !.size = IF size # 0 THEN IVSize + size ELSE 0]
      data   == Sealed(IncrCtr(iv), text)
  IN  IF text = None THEN header
      ELSE [header EXCEPT !.mac = data, !.payload = [iv |-> iv, data |-> data]]

\* pack_message: an empty text gives payload_size 0, a null one leaves mac and payload.
Packed(m, type, text, size, iv) ==
  LET header == [m EXCEPT !.type = type, !.size = IF size # 0 THEN IVSize + size ELSE 0]
      data   == Sealed(iv, text)
  IN  IF text = None THEN header
      ELSE [header EXCEPT !.mac = data, !.payload = [iv |-> iv, data |-> data]]

---------------------------------------------------------------------------
(* main                                                                     *)

\* pop_front(&global_pool), for the next request
AppTake ==
  /\ app = "take"
  /\ appMsg' = Front(pool)
  /\ pool' = Rest(pool)
  /\ app' = "pack"
  /\ UNCHANGED <<inbox, outbox, content, files, sent, printed, appIV, enclaveVars>>

\* The size of that text: of a null pointer it is the length of a flow key.
RequestSize(i, f) ==
  LET type == Script[i]
  IN  IF type = "STAT" THEN IF f[i] THEN TextSize ELSE 0
      ELSE IF type \in WithText THEN TextSize ELSE 0

\* pack_message_with_file or pack_message; an empty pool gave a null container.
AppPack ==
  /\ app = "pack"
  /\ IF appMsg = None
     THEN app' = "crashed" /\ UNCHANGED <<content, appIV>>
     ELSE LET text == RequestText(sent + 1, files)
          IN  /\ content' = [content EXCEPT ![appMsg] =
                              Packed(@, Script[sent + 1], text, RequestSize(sent + 1, files), appIV)]
              /\ appIV' = IF text = None THEN appIV ELSE IncrCtr(appIV)
              /\ app' = "send"
  /\ UNCHANGED <<pool, inbox, outbox, files, appMsg, sent, printed, enclaveVars>>

\* push_back(&mbox[0], ...), and on to the next request or to pthread_join
AppSend ==
  /\ app = "send"
  /\ inbox' = Append(inbox, appMsg)
  /\ appMsg' = None
  /\ sent' = sent + 1
  /\ app' = IF sent' < Len(Script) THEN "take" ELSE "join"
  /\ UNCHANGED <<pool, outbox, content, files, printed, appIV, enclaveVars>>

\* Mutant: main does not wait for the enclave thread.
AppJoinNoWait ==
  /\ app = "join"
  /\ app' = "drain"
  /\ UNCHANGED <<pool, inbox, outbox, content, files, appMsg, sent, printed, appIV, enclaveVars>>

\* pthread_join: e_thread returns when ecall_run does, or fails.
AppJoin ==
  /\ app = "join"
  /\ enclave \in {"stopped", "failed"}
  /\ app' = "drain"
  /\ UNCHANGED <<pool, inbox, outbox, content, files, appMsg, sent, printed, appIV, enclaveVars>>

\* process_result: is_empty_queue and pop_front; the program ends when all are out.
AppDrain ==
  /\ app = "drain"
  /\ appMsg' = Front(outbox)
  /\ outbox' = Rest(outbox)
  /\ app' = IF outbox = <<>> THEN "done" ELSE "print"
  /\ UNCHANGED <<pool, inbox, content, files, sent, printed, appIV, enclaveVars>>

\* unpack and print.  A buffer of payload_size - GCM_IV_SIZE < 0 bytes is
\* undefined: the program goes on or dies.
AppPrint ==
  /\ app = "print"
  /\ \/ app' = "free" /\ printed' = Append(printed, Opened(content[appMsg]))
     \/ content[appMsg].size < IVSize /\ app' = "crashed" /\ UNCHANGED printed
  /\ UNCHANGED <<pool, inbox, outbox, content, files, appMsg, sent, appIV, enclaveVars>>

\* free_message
AppFree ==
  /\ app = "free"
  /\ content' = [content EXCEPT ![appMsg] = Blank]
  /\ app' = "return"
  /\ UNCHANGED <<pool, inbox, outbox, files, appMsg, sent, printed, appIV, enclaveVars>>

\* push_back(&global_pool, res_message)
AppReturn ==
  /\ app = "return"
  /\ pool' = Append(pool, appMsg)
  /\ appMsg' = None
  /\ app' = "drain"
  /\ UNCHANGED <<inbox, outbox, content, files, sent, printed, appIV, enclaveVars>>

---------------------------------------------------------------------------
(* ecall_run                                                                *)

\* is_empty_queue(input_queue) says no: pop_front(input_queue).
EnclaveReceive ==
  /\ enclave = "poll"
  /\ inbox # <<>>
  /\ in' = Head(inbox)
  /\ inbox' = Tail(inbox)
  /\ enclave' = "dispatch"
  /\ UNCHANGED <<pool, outbox, content, files, out, cur, prep, answer, enclaveIV, appVars>>

Received == content[in]

\* Mutant: the statistics of the last trace are not kept.
ServeStatNoShift ==
  /\ enclave = "dispatch"
  /\ Received.type = "STAT"
  /\ IF Received.size > 0
     THEN cur' = Opened(Received)[2] /\ UNCHANGED prep
     ELSE UNCHANGED <<prep, cur>>
  /\ enclave' = "free"
  /\ UNCHANGED <<pool, inbox, outbox, content, files, in, out, answer, enclaveIV, appVars>>

\* STAT: the statistics of the last trace become the old ones; a message
\* without payload_size is ignored.
ServeStat ==
  /\ enclave = "dispatch"
  /\ Received.type = "STAT"
  /\ IF Received.size > 0
     THEN prep' = cur /\ cur' = Opened(Received)[2]
     ELSE UNCHANGED <<prep, cur>>
  /\ enclave' = "free"
  /\ UNCHANGED <<pool, inbox, outbox, content, files, in, out, answer, enclaveIV, appVars>>

\* What the reply may measure: the list of heavy changes may be empty, and of empty maps
\* the list and the distribution are.
ReplySizes(type) ==
  IF type \in {"HEAVY_CHANGE", "DIST"} /\ EmptyMaps(cur, prep) THEN {0}
  ELSE IF type = "HEAVY_CHANGE" THEN {0, TextSize} ELSE {TextSize}

Asked == IF Received.type \in WithText THEN Opened(Received) ELSE None

\* A query that should have a parameter and has no payload_size.
Ignored == Received.type \in WithText /\ Received.size = 0

\* gcm_decrypt of a null payload reads at the address of its ciphertext, or returns 0
\* before it does, which nobody looks at.
NothingToUnpack == Received.type \in WithText /\ Received.payload = None

\* query_heavy_change reads through prep_bucket.
NoOldStatistics == Received.type = "HEAVY_CHANGE" /\ prep = None

\* A query: the parameter is unpacked and the answer is read from the statistics.
ServeQuery ==
  /\ enclave = "dispatch"
  /\ Received.type \notin {"STAT", "STOP"}
  /\ IF Ignored THEN enclave' = "free" /\ UNCHANGED answer
     ELSE \/ /\ NothingToUnpack \/ NoOldStatistics
             /\ enclave' = "failed"
             /\ UNCHANGED answer
          \/ /\ ~NoOldStatistics
             /\ \E size \in ReplySizes(Received.type) :
                  answer' = [query |-> Received.type, asked |-> Asked, cur |-> cur,
                             prep |-> prep, size |-> size]
             /\ enclave' = "take"
  /\ UNCHANGED <<pool, inbox, outbox, content, files, in, out, cur, prep, enclaveIV, appVars>>

\* Mutant: STOP is an unknown type.
ServeStopIgnored ==
  /\ enclave = "dispatch"
  /\ Received.type = "STOP"
  /\ enclave' = "free"
  /\ UNCHANGED <<pool, inbox, outbox, content, files, in, out, cur, prep, answer, enclaveIV, appVars>>

\* STOP: return at once, with the container.
ServeStop ==
  /\ enclave = "dispatch"
  /\ Received.type = "STOP"
  /\ enclave' = "stopped"
  /\ UNCHANGED <<pool, inbox, outbox, content, files, in, out, cur, prep, answer, enclaveIV, appVars>>

\* Mutant: the container of the reply stays in the pool.
EnclaveTakeShared ==
  /\ enclave = "take"
  /\ out' = Front(pool)
  /\ enclave' = "pack"
  /\ UNCHANGED <<pool, inbox, outbox, content, files, in, cur, prep, answer, enclaveIV, appVars>>

\* pop_front(message_pool)
EnclaveTake ==
  /\ enclave = "take"
  /\ out' = Front(pool)
  /\ pool' = Rest(pool)
  /\ enclave' = "pack"
  /\ UNCHANGED <<inbox, outbox, content, files, in, cur, prep, answer, enclaveIV, appVars>>

Reply == ReplyText(answer.query, answer.asked, answer.cur, answer.prep)

EnclavePack ==
  /\ enclave = "pack"
  /\ IF out = None
     THEN enclave' = "failed" /\ UNCHANGED <<content, enclaveIV>>
     ELSE /\ content' = [content EXCEPT ![out] =
                          Packed(@, answer.query, Reply, answer.size, enclaveIV)]
          /\ enclaveIV' = IF Reply = None THEN enclaveIV ELSE IncrCtr(enclaveIV)
          /\ enclave' = "send"
  /\ UNCHANGED <<pool, inbox, outbox, files, in, out, cur, prep, answer, appVars>>

\* push_back(output_queue, out_message)
EnclaveSend ==
  /\ enclave = "send"
  /\ outbox' = Append(outbox, out)
  /\ out' = None
  /\ answer' = None
  /\ enclave' = "free"
  /\ UNCHANGED <<pool, inbox, content, files, in, cur, prep, enclaveIV, appVars>>

\* Mutant: the payload is freed, the header stays.
EnclaveFreePayload ==
  /\ enclave = "free"
  /\ content' = [content EXCEPT ![in].payload = None]
  /\ enclave' = "return"
  /\ UNCHANGED <<pool, inbox, outbox, files, in, out, cur, prep, answer, enclaveIV, appVars>>

\* ocall_free_message
EnclaveFree ==
  /\ enclave = "free"
  /\ content' = [content EXCEPT ![in] = Blank]
  /\ enclave' = "return"
  /\ UNCHANGED <<pool, inbox, outbox, files, in, out, cur, prep, answer, enclaveIV, appVars>>

\* Mutant: the container of the request is not returned.
EnclaveKeep ==
  /\ enclave = "return"
  /\ in' = None
  /\ enclave' = "poll"
  /\ UNCHANGED <<pool, inbox, outbox, content, files, out, cur, prep, answer, enclaveIV, appVars>>

\* push_back(message_pool, in_message)
EnclaveReturn ==
  /\ enclave = "return"
  /\ pool' = Append(pool, in)
  /\ in' = None
  /\ enclave' = "poll"
  /\ UNCHANGED <<inbox, outbox, content, files, out, cur, prep, answer, enclaveIV, appVars>>

---------------------------------------------------------------------------
AppStep ==
  \/ AppTake \/ AppPack \/ AppSend \/ AppJoin
  \/ AppDrain \/ AppPrint \/ AppFree \/ AppReturn

EnclaveStep ==
  /\ app # "crashed"
  /\ \/ EnclaveReceive \/ ServeStat \/ ServeQuery \/ ServeStop
     \/ EnclaveTake \/ EnclavePack \/ EnclaveSend \/ EnclaveFree \/ EnclaveReturn

Next == AppStep \/ EnclaveStep

\* The operating system runs both threads; neither waits for the other except
\* in pthread_join and in the polling loop.
Spec == Init /\ [][Next]_vars /\ WF_vars(AppStep) /\ WF_vars(EnclaveStep)

---------------------------------------------------------------------------
RequestTexts == {<<"flow">>, <<"parameter">>} \cup {<<"trace", i>> : i \in Traces}
Questions    == {None, <<"flow">>, <<"parameter">>}
ReplyTexts   == Types \X Questions \X (0..NumTraces) \X ({None} \cup 0..NumTraces)
Texts        == {None} \cup RequestTexts \cup ReplyTexts

IVs         == 0..(CtrMod - 1)
SealedTexts == [iv : IVs, text : Texts]
Payloads    == [iv : IVs, data : SealedTexts]
Contents    == [type : Types, size : {0, IVSize + TextSize},
                mac : {None} \cup SealedTexts, payload : {None} \cup Payloads]
Answers     == [query : Types, asked : Questions, cur : 0..NumTraces,
                prep : {None} \cup 0..NumTraces, size : {0, TextSize}]

\* A null pointer is none of the things it stands in for.
ASSUME NoneAssumption ==
  /\ None \notin Nat
  /\ None \notin RequestTexts /\ None \notin ReplyTexts
  /\ None \notin Payloads /\ None \notin Answers

\* Queues hold pool containers, and every program counter is at a step of its
\* loop (App.cpp, Enclave.cpp).
TypeOK ==
  /\ pool \in Seq(Containers) /\ inbox \in Seq(Containers) /\ outbox \in Seq(Containers)
  /\ content \in [Containers -> Contents]
  /\ files \in [Traces -> BOOLEAN]
  /\ app \in {"take", "pack", "send", "join", "drain", "print", "free", "return", "done", "crashed"}
  /\ appMsg \in Containers \cup {None}
  /\ sent \in 0..Len(Script)
  /\ appIV \in IVs /\ enclaveIV \in IVs
  /\ printed \in Seq(Texts)
  /\ enclave \in {"poll", "dispatch", "take", "pack", "send", "free", "return", "stopped", "failed"}
  /\ in \in Containers \cup {None} /\ out \in Containers \cup {None}
  /\ cur \in 0..NumTraces
  /\ prep \in {None} \cup 0..NumTraces
  /\ answer \in Answers \cup {None}

InQueue(c, q) == \E i \in DOMAIN q : q[i] = c
NoRepeat(q)   == \A i, j \in DOMAIN q : q[i] = q[j] => i = j

Places == {"pool", "inbox", "outbox", "appMsg", "in", "out"}

At(c, p) ==
  \/ p = "pool"   /\ InQueue(c, pool)
  \/ p = "inbox"  /\ InQueue(c, inbox)
  \/ p = "outbox" /\ InQueue(c, outbox)
  \/ p = "appMsg" /\ c = appMsg
  \/ p = "in"     /\ c = in
  \/ p = "out"    /\ c = out

\* A container is in one place at a time: in one of the three queues, once, or
\* in the hands of one thread.  None is ever lost, the one of STOP included, or
\* written by two threads.
OnePlace ==
  /\ NoRepeat(pool) /\ NoRepeat(inbox) /\ NoRepeat(outbox)
  /\ \A c \in Containers : \E p \in Places : \A q \in Places : At(c, q) <=> q = p

\* The unchecked pop_front of the pool never returns NULL to either thread when
\* there are as many containers as requests: replies reuse those of requests
\* already served.
PoolSuffices ==
  PoolSize >= Len(Script) =>
    /\ app = "pack" => appMsg # None
    /\ enclave = "pack" => out # None

\* Whatever thread returned it, a container in the pool is blank: pack_message
\* with a null text would otherwise send the payload of an earlier message.
PooledBlank == \A i \in DOMAIN pool : content[pool[i]] = Blank

\* Whoever unpacks a payload gets its text: IV and MAC in the container are those that
\* the text was encrypted with, although containers come and go between both sides and
\* pack_message leaves the old ones in place for a null text.
PayloadsOpen ==
  /\ enclave = "dispatch" /\ Received.payload # None => Opens(Received)
  /\ app = "print" /\ content[appMsg].payload # None => Opens(content[appMsg])

\* The enclave fails only over FLOW_SIZE when the first trace file is empty (the query
\* then has no payload), or over HEAVY_CHANGE when all files are, never for want of old
\* statistics when there is a record; main dies only on a list of heavy changes that is
\* empty, or on a distribution when all files are.
FailuresExplained ==
  PoolSize >= Len(Script) =>
    /\ enclave = "failed" =>
         \/ Received.type = "FLOW_SIZE" /\ ~files[1]
         \/ Received.type = "HEAVY_CHANGE" /\ \A i \in Traces : ~files[i]
    /\ app = "crashed" =>
         /\ content[appMsg].size = 0
         /\ \/ content[appMsg].type = "HEAVY_CHANGE"
            \/ content[appMsg].type = "DIST" /\ \A i \in Traces : ~files[i]

\* The program ends: every request before STOP is taken, STOP ends the enclave
\* thread, and main prints what there is.
Terminates == <>(app \in {"done", "crashed"})

\* Message.h:30 calls header.payload_size the "payload size", and process_result
\* takes the length of the IV off it: a reply with a payload tells its size.
ReplyTellsItsSize == app = "print" => content[appMsg].size >= IVSize

---------------------------------------------------------------------------
(* The refinement of Measurement                                            *)

TextsOf(q) == [i \in DOMAIN q |-> Opened(content[q[i]])]

Replies ==
  printed \o (IF app \in {"print", "crashed"} THEN <<Opened(content[appMsg])>> ELSE <<>>)
    \o TextsOf(outbox)
    \o (IF enclave \in {"take", "pack", "send"} THEN <<Reply>> ELSE <<>>)

Ideal == INSTANCE Measurement WITH
  served  <- sent - Len(inbox) - (IF enclave = "dispatch" THEN 1 ELSE 0),
  replies <- Replies,
  shown   <- Len(printed),
  up      <- enclave # "failed"

\* With enough containers, requests are served in the order main sends them,
\* every query sees exactly the traces sent before it, and main prints each
\* reply once, in order, after the enclave thread is done.
ImplementsMeasurement == Ideal!Spec
=============================================================================
