----------------------------- MODULE SpinQueue -----------------------------
(***************************************************************************)
(* Common/Queue.c over Common/Spinlock.h, one action per access to shared  *)
(* memory: the intrusive doubly linked list of message containers, its two *)
(* end pointers, and the test-and-set lock that guards them.               *)
(*                                                                         *)
(* The list runs from top (front) to bottom (back) along the containers'   *)
(* prev fields, and back along next.  A thread calls an operation, spins   *)
(* for the lock, does the stores of the operation one by one, and unlocks. *)
(* Two reads happen outside the lock: is_empty_queue reads top, and        *)
(* pop_back tests bottom before it locks.                                  *)
(***************************************************************************)
EXTENDS Naturals

CONSTANTS Threads,
          Messages,  \* the containers
          NULL,      \* the null pointer
          Ops        \* Ops[t]: the operations thread t calls on this queue

OpNames == {"push_back", "push_front", "pop_front", "pop_back", "poll"}
Queued  == "queue"
Steps   == {"idle", "peek", "spin", "test", "link", "swing", "other",
            "unlock", "reset", "crashed"}

ASSUME SpinQueueAssumption ==
  /\ NULL \notin Messages
  /\ Queued \notin Threads
  /\ Ops \in [Threads -> SUBSET OpNames]

VARIABLES lock,         \* q->lock: 0 free, 1 BUSY
          top, bottom,  \* q->top, q->bottom
          next, prev,   \* header.next and header.prev of every container
          op, at,       \* per thread: the operation it is in, and the step it is at
          msg,          \* per thread: new_msg of a push, msg of a pop
          polled,       \* per thread: is_empty_queue said no and no pop has followed
          own,          \* where each container is: Queued, or the thread holding it
          got           \* per thread: what its last pop returned

vars == <<lock, top, bottom, next, prev, op, at, msg, polled, own, got>>

Pointer == Messages \cup {NULL}

\* queue_init, with every container (memset to 0) in the hands of some thread.
Init ==
  /\ lock = 0
  /\ top = NULL
  /\ bottom = NULL
  /\ next = [m \in Messages |-> NULL]
  /\ prev = [m \in Messages |-> NULL]
  /\ op = [t \in Threads |-> "poll"]
  /\ at = [t \in Threads |-> "idle"]
  /\ msg = [t \in Threads |-> NULL]
  /\ polled = [t \in Threads |-> FALSE]
  /\ own \in [Messages -> Threads]
  /\ got = [t \in Threads |-> NULL]

Goto(t, step) == at' = [at EXCEPT ![t] = step]
In(t, o, step) == op[t] = o /\ at[t] = step

---------------------------------------------------------------------------
(* Calls: what a thread does before it reaches the lock.                    *)

\* push_back and push_front clear the links of the container they were given.
CallPush(t, o, m) ==
  /\ at[t] = "idle"
  /\ ~polled[t]
  /\ o \in {"push_back", "push_front"} \cap Ops[t]
  /\ own[m] = t
  /\ prev' = [prev EXCEPT ![m] = NULL]
  /\ next' = [next EXCEPT ![m] = NULL]
  /\ op' = [op EXCEPT ![t] = o]
  /\ msg' = [msg EXCEPT ![t] = m]
  /\ Goto(t, "spin")
  /\ UNCHANGED <<lock, top, bottom, polled, own, got>>

CallPopFront(t) ==
  /\ at[t] = "idle"
  /\ "pop_front" \in Ops[t] \/ polled[t]
  /\ op' = [op EXCEPT ![t] = "pop_front"]
  /\ msg' = [msg EXCEPT ![t] = NULL]
  /\ Goto(t, "spin")
  /\ UNCHANGED <<lock, top, bottom, next, prev, polled, own, got>>

CallPopBack(t) ==
  /\ at[t] = "idle"
  /\ ~polled[t]
  /\ "pop_back" \in Ops[t]
  /\ op' = [op EXCEPT ![t] = "pop_back"]
  /\ msg' = [msg EXCEPT ![t] = NULL]
  /\ Goto(t, "peek")
  /\ UNCHANGED <<lock, top, bottom, next, prev, polled, own, got>>

\* Mutant: the emptiness test inverted.
PollInverted(t) ==
  /\ at[t] = "idle"
  /\ "poll" \in Ops[t]
  /\ top = NULL
  /\ ~polled[t]
  /\ polled' = [polled EXCEPT ![t] = TRUE]
  /\ UNCHANGED <<lock, top, bottom, next, prev, op, at, msg, own, got>>

\* `if (!is_empty_queue(q)) pop_front(q)`: the unlocked read that says no.
\* A read that says yes changes nothing, and the caller polls again.
Poll(t) ==
  /\ at[t] = "idle"
  /\ "poll" \in Ops[t]
  /\ top # NULL
  /\ ~polled[t]
  /\ polled' = [polled EXCEPT ![t] = TRUE]
  /\ UNCHANGED <<lock, top, bottom, next, prev, op, at, msg, own, got>>

\* Mutant: pop_back without its test of bottom.
PopBackNoPeek(t) ==
  /\ In(t, "pop_back", "peek")
  /\ Goto(t, "spin")
  /\ UNCHANGED <<lock, top, bottom, next, prev, op, msg, polled, own, got>>

\* pop_back's test of bottom, before it takes the lock.
PopBackPeek(t) ==
  /\ In(t, "pop_back", "peek")
  /\ IF bottom = NULL
     THEN Goto(t, "idle") /\ got' = [got EXCEPT ![t] = NULL]
     ELSE Goto(t, "spin") /\ UNCHANGED got
  /\ UNCHANGED <<lock, top, bottom, next, prev, op, msg, polled, own>>

---------------------------------------------------------------------------
(* The lock.                                                                *)

\* Mutant: the result of xchg is not looked at.
SpinLockBlind(t) ==
  /\ at[t] = "spin"
  /\ lock' = 1
  /\ Goto(t, "test")
  /\ UNCHANGED <<top, bottom, next, prev, op, msg, polled, own, got>>

\* The xchg that finds the lock free; one that finds it BUSY changes nothing.
SpinLock(t) ==
  /\ at[t] = "spin"
  /\ lock = 0
  /\ lock' = 1
  /\ Goto(t, "test")
  /\ UNCHANGED <<top, bottom, next, prev, op, msg, polled, own, got>>

\* spin_unlock.  A push has put its container in the queue; a pop that got one
\* still has to clear its links; a pop that got none returns NULL.
SpinUnlock(t) ==
  /\ at[t] = "unlock"
  /\ lock' = 0
  /\ IF op[t] \in {"push_back", "push_front"}
     THEN own' = [own EXCEPT ![msg[t]] = Queued]
     ELSE UNCHANGED own
  /\ IF op[t] \in {"pop_front", "pop_back"} /\ msg[t] # NULL
     THEN Goto(t, "reset") /\ UNCHANGED polled
     ELSE Goto(t, "idle") /\ polled' = [polled EXCEPT ![t] = FALSE]
  /\ UNCHANGED <<top, bottom, next, prev, op, msg, got>>

---------------------------------------------------------------------------
(* push_back                                                                *)

PushBackTest(t) ==
  /\ In(t, "push_back", "test")
  /\ IF bottom = NULL
     THEN /\ bottom' = msg[t]
          /\ Goto(t, "other")
          /\ UNCHANGED prev
     ELSE /\ prev' = [prev EXCEPT ![bottom] = msg[t]]
          /\ Goto(t, "link")
          /\ UNCHANGED bottom
  /\ UNCHANGED <<lock, top, next, op, msg, polled, own, got>>

\* Mutant: the first container of a queue is not made its top.
PushBackNoTop(t) ==
  /\ In(t, "push_back", "other")
  /\ Goto(t, "unlock")
  /\ UNCHANGED <<lock, top, bottom, next, prev, op, msg, polled, own, got>>

PushBackOther(t) ==
  /\ In(t, "push_back", "other")
  /\ top' = msg[t]
  /\ Goto(t, "unlock")
  /\ UNCHANGED <<lock, bottom, next, prev, op, msg, polled, own, got>>

\* Mutant: the way back to the old bottom is not stored.
PushBackNoNext(t) ==
  /\ In(t, "push_back", "link")
  /\ Goto(t, "swing")
  /\ UNCHANGED <<lock, top, bottom, next, prev, op, msg, polled, own, got>>

PushBackLink(t) ==
  /\ In(t, "push_back", "link")
  /\ next' = [next EXCEPT ![msg[t]] = bottom]
  /\ Goto(t, "swing")
  /\ UNCHANGED <<lock, top, bottom, prev, op, msg, polled, own, got>>

PushBackSwing(t) ==
  /\ In(t, "push_back", "swing")
  /\ bottom' = msg[t]
  /\ Goto(t, "unlock")
  /\ UNCHANGED <<lock, top, next, prev, op, msg, polled, own, got>>

---------------------------------------------------------------------------
(* push_front                                                               *)

PushFrontTest(t) ==
  /\ In(t, "push_front", "test")
  /\ IF top = NULL
     THEN /\ top' = msg[t]
          /\ Goto(t, "other")
          /\ UNCHANGED next
     ELSE /\ next' = [next EXCEPT ![top] = msg[t]]
          /\ Goto(t, "link")
          /\ UNCHANGED top
  /\ UNCHANGED <<lock, bottom, prev, op, msg, polled, own, got>>

PushFrontOther(t) ==
  /\ In(t, "push_front", "other")
  /\ bottom' = msg[t]
  /\ Goto(t, "unlock")
  /\ UNCHANGED <<lock, top, next, prev, op, msg, polled, own, got>>

PushFrontLink(t) ==
  /\ In(t, "push_front", "link")
  /\ prev' = [prev EXCEPT ![msg[t]] = top]
  /\ Goto(t, "swing")
  /\ UNCHANGED <<lock, top, bottom, next, op, msg, polled, own, got>>

\* Mutant: top takes the wrong link of the new container.
PushFrontWrongLink(t) ==
  /\ In(t, "push_front", "swing")
  /\ top' = next[msg[t]]
  /\ Goto(t, "unlock")
  /\ UNCHANGED <<lock, bottom, next, prev, op, msg, polled, own, got>>

PushFrontSwing(t) ==
  /\ In(t, "push_front", "swing")
  /\ top' = msg[t]
  /\ Goto(t, "unlock")
  /\ UNCHANGED <<lock, bottom, next, prev, op, msg, polled, own, got>>

---------------------------------------------------------------------------
(* pop_front                                                                *)

\* Mutant: the return of NULL forgets to unlock.
PopFrontNoUnlock(t) ==
  /\ In(t, "pop_front", "test")
  /\ IF top = NULL
     THEN /\ got' = [got EXCEPT ![t] = NULL]
          /\ Goto(t, "idle")
          /\ UNCHANGED <<next, msg>>
     ELSE /\ msg' = [msg EXCEPT ![t] = top]
          /\ next' = IF prev[top] # NULL THEN [next EXCEPT ![prev[top]] = NULL] ELSE next
          /\ Goto(t, "swing")
          /\ UNCHANGED got
  /\ UNCHANGED <<lock, top, bottom, prev, op, polled, own>>

\* msg = q->top, and the container behind it becomes the one with no next.
PopFrontTest(t) ==
  /\ In(t, "pop_front", "test")
  /\ IF top = NULL
     THEN /\ got' = [got EXCEPT ![t] = NULL]
          /\ Goto(t, "unlock")
          /\ UNCHANGED <<next, msg>>
     ELSE /\ msg' = [msg EXCEPT ![t] = top]
          /\ next' = IF prev[top] # NULL THEN [next EXCEPT ![prev[top]] = NULL] ELSE next
          /\ Goto(t, "swing")
          /\ UNCHANGED got
  /\ UNCHANGED <<lock, top, bottom, prev, op, polled, own>>

PopFrontSwing(t) ==
  /\ In(t, "pop_front", "swing")
  /\ top' = prev[msg[t]]
  /\ own' = [own EXCEPT ![msg[t]] = t]
  /\ got' = [got EXCEPT ![t] = msg[t]]
  /\ Goto(t, "other")
  /\ UNCHANGED <<lock, bottom, next, prev, op, msg, polled>>

\* Mutant: the pop of the last container leaves bottom pointing to it.
PopFrontKeepsBottom(t) ==
  /\ In(t, "pop_front", "other")
  /\ Goto(t, "unlock")
  /\ UNCHANGED <<lock, top, bottom, next, prev, op, msg, polled, own, got>>

PopFrontOther(t) ==
  /\ In(t, "pop_front", "other")
  /\ bottom' = IF top = NULL THEN NULL ELSE bottom
  /\ Goto(t, "unlock")
  /\ UNCHANGED <<lock, top, next, prev, op, msg, polled, own, got>>

---------------------------------------------------------------------------
(* pop_back                                                                 *)

\* bottom is read again under the lock but not tested again: when it has
\* become NULL meanwhile, msg->header is a null-pointer access.
PopBackTest(t) ==
  /\ In(t, "pop_back", "test")
  /\ msg' = [msg EXCEPT ![t] = bottom]
  /\ IF bottom = NULL
     THEN Goto(t, "crashed") /\ UNCHANGED <<prev, own, got>>
     ELSE /\ prev' = IF next[bottom] # NULL THEN [prev EXCEPT ![next[bottom]] = NULL] ELSE prev
          /\ own' = [own EXCEPT ![bottom] = t]
          /\ got' = [got EXCEPT ![t] = bottom]
          /\ Goto(t, "swing")
  /\ UNCHANGED <<lock, top, bottom, next, op, polled>>

PopBackSwing(t) ==
  /\ In(t, "pop_back", "swing")
  /\ bottom' = next[msg[t]]
  /\ Goto(t, "other")
  /\ UNCHANGED <<lock, top, next, prev, op, msg, polled, own, got>>

PopBackOther(t) ==
  /\ In(t, "pop_back", "other")
  /\ top' = IF bottom = NULL THEN NULL ELSE top
  /\ Goto(t, "unlock")
  /\ UNCHANGED <<lock, bottom, next, prev, op, msg, polled, own, got>>

\* Both pops clear the links of the container after they have unlocked.
PopReset(t) ==
  /\ at[t] = "reset"
  /\ prev' = [prev EXCEPT ![msg[t]] = NULL]
  /\ next' = [next EXCEPT ![msg[t]] = NULL]
  /\ polled' = [polled EXCEPT ![t] = FALSE]
  /\ Goto(t, "idle")
  /\ UNCHANGED <<lock, top, bottom, op, msg, own, got>>

---------------------------------------------------------------------------
\* A container goes to another thread through another queue (main pops it from
\* the pool and sends it; the enclave thread receives it and returns it here).
HandOver(t, u, m) ==
  /\ at[t] = "idle"
  /\ own[m] = t
  /\ own' = [own EXCEPT ![m] = u]
  /\ UNCHANGED <<lock, top, bottom, next, prev, op, at, msg, polled, got>>

Call(t) ==
  \/ \E o \in OpNames, m \in Messages : CallPush(t, o, m)
  \/ CallPopFront(t) \/ CallPopBack(t) \/ Poll(t)

\* The rest of an operation once it is called.
Step(t) ==
  \/ PopBackPeek(t) \/ SpinLock(t) \/ SpinUnlock(t) \/ PopReset(t)
  \/ PushBackTest(t) \/ PushBackOther(t) \/ PushBackLink(t) \/ PushBackSwing(t)
  \/ PushFrontTest(t) \/ PushFrontOther(t) \/ PushFrontLink(t) \/ PushFrontSwing(t)
  \/ PopFrontTest(t) \/ PopFrontSwing(t) \/ PopFrontOther(t)
  \/ PopBackTest(t) \/ PopBackSwing(t) \/ PopBackOther(t)

Next ==
  \E t \in Threads :
    \/ Call(t) \/ Step(t)
    \/ \E u \in Threads, m \in Messages : HandOver(t, u, m)

Spec == Init /\ [][Next]_vars

\* A thread inside an operation is not suspended for ever.
FairSpec == Spec /\ \A t \in Threads : WF_vars(Step(t))

---------------------------------------------------------------------------
\* Every pointer points to a container or is null, every thread is at a step
\* of an operation of Queue.c.
TypeOK ==
  /\ lock \in {0, 1}
  /\ top \in Pointer /\ bottom \in Pointer
  /\ next \in [Messages -> Pointer] /\ prev \in [Messages -> Pointer]
  /\ op \in [Threads -> OpNames]
  /\ at \in [Threads -> Steps]
  /\ msg \in [Threads -> Pointer]
  /\ polled \in [Threads -> BOOLEAN]
  /\ own \in [Messages -> Threads \cup {Queued}]
  /\ got \in [Threads -> Pointer]

Critical(t) == at[t] \in {"test", "link", "swing", "other", "unlock", "crashed"}

\* The list of Queue.c is never changed by two threads at once: at most one
\* thread is between spin_lock and spin_unlock, and the lock byte is BUSY
\* exactly while one is.
MutualExclusion ==
  /\ \A t, u \in Threads : Critical(t) /\ Critical(u) => t = u
  /\ lock = 1 <=> \E t \in Threads : Critical(t)

Pops(t) == {"pop_front", "pop_back", "poll"} \cap Ops[t] # {}
OnlyConsumer(t) == \A u \in Threads \ {t} : ~Pops(u)

\* A thread that is the queue's only consumer and saw it non-empty without the
\* lock (ecall_run on mbox[0], process_result on mbox[1]) gets a container from
\* the pop_front that follows, never NULL, which both would dereference.
PolledPopGetsMessage ==
  \A t \in Threads :
    OnlyConsumer(t) => ~(polled[t] /\ In(t, "pop_front", "unlock") /\ msg[t] = NULL)

\* pop_back reads through a null pointer only when another consumer emptied
\* the queue between its unlocked test of bottom and its lock.
CrashNeedsSecondConsumer ==
  \A t \in Threads :
    at[t] = "crashed" =>
      /\ op[t] = "pop_back"
      /\ \E u \in Threads \ {t} : Pops(u)

\* What each thread is doing agrees with what it may call, and it has a container
\* wherever Queue.c reads or writes the links of one.
CallsAgree ==
  \A t \in Threads :
    /\ polled[t] => Pops(t)
    /\ at[t] # "idle" =>
         /\ op[t] \in {"pop_front", "pop_back"} => Pops(t)
         /\ op[t] \in {"push_back", "push_front"} => msg[t] # NULL
         /\ polled[t] => op[t] = "pop_front"
    /\ at[t] \in {"link", "swing", "other", "reset"} => msg[t] # NULL
    /\ at[t] = "crashed" => op[t] = "pop_back"

\* What the only consumer read without the lock is still so when it acts on it:
\* the other threads never empty the queue.
UnlockedReadsHold ==
  \A t \in Threads :
    OnlyConsumer(t) =>
      /\ polled[t] /\ at[t] \in {"idle", "spin", "test"} => top # NULL
      /\ polled[t] /\ at[t] \in {"swing", "other", "unlock", "reset"} => msg[t] # NULL
      /\ op[t] = "pop_back" /\ at[t] \in {"spin", "test"} => bottom # NULL
      /\ at[t] # "crashed"

\* The inductive invariant.
IInv == TypeOK /\ MutualExclusion /\ CallsAgree /\ UnlockedReadsHold

\* Whatever path an operation takes, pop_front's return of NULL included, the
\* lock it took is given back.
LockReleased == lock = 1 ~> lock = 0
=============================================================================
