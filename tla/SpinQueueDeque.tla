--------------------------- MODULE SpinQueueDeque ---------------------------
(***************************************************************************)
(* The list of SpinQueue read as a sequence, what holds of its links, and  *)
(* the refinement of Deque.                                                *)
(***************************************************************************)
EXTENDS SpinQueue, SequencesExt

ASSUME DequeAssumption == IsFiniteSet(Messages)

\* A container enters the queue when its push unlocks; it leaves when pop_front moves
\* top, or when pop_back has read bottom.
InQueue == {m \in Messages : own[m] = Queued}

\* s is the list in the direction of prev.
FollowsPrev(s) ==
  \A i \in 1..Len(s) : IF i < Len(s) THEN prev[s[i]] = s[i + 1] ELSE prev[s[i]] \notin InQueue

QueueSeq == CHOOSE s \in SetToSeqs(InQueue) : FollowsPrev(s)

Abstract == INSTANCE Deque WITH q <- QueueSeq

\* Queue.c is a linearizable deque: push_back, push_front, pop_front and
\* pop_back take effect one at a time, in FIFO order from back to front, no
\* container is lost or handed out twice, and only an empty queue yields NULL.
ImplementsDeque == Abstract!Spec

---------------------------------------------------------------------------
\* The containers of s are linked in both directions, from before to after.
Links(s, before, after) ==
  \A i \in 1..Len(s) :
    /\ prev[s[i]] = IF i = Len(s) THEN after ELSE s[i + 1]
    /\ next[s[i]] = IF i = 1 THEN before ELSE s[i - 1]

FrontOf(s, otherwise) == IF s = <<>> THEN otherwise ELSE s[1]
BackOf(s, otherwise)  == IF s = <<>> THEN otherwise ELSE s[Len(s)]

Whole(s) == Links(s, NULL, NULL) /\ top = FrontOf(s, NULL) /\ bottom = BackOf(s, NULL)

\* When the lock is free the two directions of the list agree: next undoes
\* prev, the ends are where top and bottom say, and the containers on the list
\* are exactly those no thread holds.  pop_back relies on next, pop_front on
\* prev; a store lost in one direction shows only when the other end is used.
WellLinked == lock = 0 => \E s \in SetToSeqs(InQueue) : Whole(s)

\* A consumer that reads top = NULL without the lock is right: no container was
\* in the queue at that instant.  (The converse may fail for a moment.)
EmptyReadIsTrue == top = NULL => InQueue = {}

---------------------------------------------------------------------------
(* The parts of the inductive invariant: what the stores made so far by the *)
(* thread that has the lock have left of the list s.                        *)

PushingBack(t, s) ==
  LET m == msg[t]
  IN  /\ at[t] = "other" => s = <<>>
      /\ at[t] \in {"link", "swing"} => s # <<>>
      /\ Links(s, NULL, m)
      /\ prev[m] = NULL
      /\ next[m] = IF at[t] = "link" THEN NULL ELSE BackOf(s, NULL)
      /\ top = FrontOf(s, IF at[t] = "other" THEN NULL ELSE m)
      /\ bottom = IF at[t] \in {"link", "swing"} THEN BackOf(s, NULL) ELSE m

PushingFront(t, s) ==
  LET m == msg[t]
  IN  /\ at[t] = "other" => s = <<>>
      /\ at[t] \in {"link", "swing"} => s # <<>>
      /\ Links(s, m, NULL)
      /\ next[m] = NULL
      /\ prev[m] = IF at[t] = "link" THEN NULL ELSE FrontOf(s, NULL)
      /\ bottom = BackOf(s, IF at[t] = "other" THEN NULL ELSE m)
      /\ top = IF at[t] \in {"link", "swing"} THEN FrontOf(s, NULL) ELSE m

PoppingFront(t, s) ==
  \/ /\ at[t] = "swing"
     /\ s # <<>> /\ msg[t] = s[1]
     /\ top = FrontOf(s, NULL) /\ bottom = BackOf(s, NULL)
     /\ \A i \in 1..Len(s) :
          /\ prev[s[i]] = IF i = Len(s) THEN NULL ELSE s[i + 1]
          /\ next[s[i]] = IF i <= 2 THEN NULL ELSE s[i - 1]
  \/ /\ at[t] = "other"
     /\ Links(s, NULL, NULL) /\ top = FrontOf(s, NULL) /\ bottom = BackOf(s, msg[t])
  \/ at[t] = "unlock" /\ Whole(s)

PoppingBack(t, s) ==
  \/ /\ at[t] = "swing"
     /\ Links(s, NULL, NULL) /\ top = FrontOf(s, msg[t]) /\ bottom = msg[t]
     /\ next[msg[t]] = BackOf(s, NULL)
  \/ /\ at[t] = "other"
     /\ Links(s, NULL, NULL) /\ top = FrontOf(s, msg[t]) /\ bottom = BackOf(s, NULL)
  \/ at[t] \in {"unlock", "crashed"} /\ Whole(s)

Changing(t) == at[t] \in {"link", "swing", "other", "unlock", "crashed"}

\* The list is whole but for what a thread that has the lock is at.
ListShape(s) ==
  /\ (\A t \in Threads : ~Changing(t)) => Whole(s)
  /\ \A t \in Threads :
       Changing(t) =>
         /\ op[t] = "push_back" => PushingBack(t, s)
         /\ op[t] = "push_front" => PushingFront(t, s)
         /\ op[t] = "pop_front" => PoppingFront(t, s)
         /\ op[t] = "pop_back" => PoppingBack(t, s)

\* A thread holds the container that it is about to push, its links cleared, and the one
\* that it took.
Holding ==
  \A t \in Threads :
    /\ at[t] # "idle" => op[t] # "poll"
    /\ op[t] \in {"push_back", "push_front"} /\ at[t] # "idle" =>
         /\ own[msg[t]] = t
         /\ at[t] \in {"spin", "test"} => prev[msg[t]] = NULL /\ next[msg[t]] = NULL
    /\ op[t] = "pop_front" /\ at[t] \in {"spin", "test"} => msg[t] = NULL
    /\ op[t] = "pop_front" /\ at[t] \in {"other", "unlock", "reset"} /\ msg[t] # NULL =>
         own[msg[t]] = t
    /\ op[t] = "pop_back" /\ at[t] \in {"swing", "other", "unlock", "reset"} /\ msg[t] # NULL =>
         own[msg[t]] = t

ListInv == IInv /\ Holding /\ \E s \in SetToSeqs(InQueue) : ListShape(s)
=============================================================================
