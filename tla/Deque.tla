------------------------------- MODULE Deque -------------------------------
(***************************************************************************)
(* What Common/Queue.h promises: a double-ended queue of message           *)
(* containers shared by several threads.  Every operation takes effect at  *)
(* one instant; a container is either in the queue or with one thread.     *)
(***************************************************************************)
EXTENDS Naturals, Sequences

CONSTANTS Threads, Messages, NULL

VARIABLES q,    \* the containers in the queue, front first
          own,  \* where each container is: Queued, or the thread that holds it
          got   \* what the last pop of each thread returned

vars == <<q, own, got>>

Queued == "queue"

Init ==
  /\ q = <<>>
  /\ own \in [Messages -> Threads]
  /\ got = [t \in Threads |-> NULL]

PushBack(t, m) ==
  /\ own[m] = t
  /\ q' = Append(q, m)
  /\ own' = [own EXCEPT ![m] = Queued]
  /\ UNCHANGED got

PushFront(t, m) ==
  /\ own[m] = t
  /\ q' = <<m>> \o q
  /\ own' = [own EXCEPT ![m] = Queued]
  /\ UNCHANGED got

PopFront(t) ==
  /\ q # <<>>
  /\ got' = [got EXCEPT ![t] = q[1]]
  /\ own' = [own EXCEPT ![q[1]] = t]
  /\ q' = Tail(q)

PopBack(t) ==
  /\ q # <<>>
  /\ got' = [got EXCEPT ![t] = q[Len(q)]]
  /\ own' = [own EXCEPT ![q[Len(q)]] = t]
  /\ q' = SubSeq(q, 1, Len(q) - 1)

\* Only an empty queue makes a pop return NULL.
PopEmpty(t) ==
  /\ q = <<>>
  /\ got' = [got EXCEPT ![t] = NULL]
  /\ UNCHANGED <<q, own>>

\* The thread that holds a container gives it to another, through another queue.
HandOver(t, u, m) ==
  /\ own[m] = t
  /\ own' = [own EXCEPT ![m] = u]
  /\ UNCHANGED <<q, got>>

Next ==
  \E t \in Threads :
    \/ \E m \in Messages : PushBack(t, m) \/ PushFront(t, m)
    \/ PopFront(t) \/ PopBack(t) \/ PopEmpty(t)
    \/ \E u \in Threads, m \in Messages : HandOver(t, u, m)

Spec == Init /\ [][Next]_vars
=============================================================================
