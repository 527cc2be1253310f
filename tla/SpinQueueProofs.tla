-------------------------- MODULE SpinQueueProofs --------------------------
(***************************************************************************)
(* Proofs about SpinQueue and SpinQueueDeque, for any threads, any finite  *)
(* set of containers and any use of the operations: the lock excludes, the *)
(* unlocked reads of Queue.c are harmless for the only consumer, the list  *)
(* is whole whenever the lock is free, and Queue.c implements Deque.       *)
(*                                                                         *)
(* The unlocked reads need UnlockedReadsHold: what the consumer saw stays  *)
(* true until it has the lock, because every store the other threads make  *)
(* to top or bottom is of a container they push.                           *)
(*                                                                         *)
(* The list needs ListInv: a sequence of the containers in the queue that  *)
(* prev, next, top and bottom agree with, but for the stores not made yet  *)
(* by the one thread that has the lock.  Each ...Shape lemma takes the     *)
(* steps of one operation over ListShape; ShapeFrame says that the steps   *)
(* outside the lock write to no container of the queue.  The sequence is   *)
(* the only one that follows prev (OrderUnique), so it is QueueSeq, and    *)
(* Moves names the operation of Deque that each step is.                   *)
(***************************************************************************)
EXTENDS SpinQueueDeque, SumProofs, SequenceTheorems

\* The empty queue with its lock free satisfies the invariant.
LEMMA InitIInv == Init => IInv
BY SpinQueueAssumption
   DEF Init, IInv, TypeOK, MutualExclusion, CallsAgree, UnlockedReadsHold, Critical, Steps,
       OpNames, Pointer

\* A step of one thread keeps the types.
LEMMA TypeStep ==
  ASSUME TypeOK, CallsAgree, NEW t \in Threads, Call(t) \/ Step(t)
  PROVE  TypeOK'
<1> USE SpinQueueAssumption DEF TypeOK, CallsAgree, Goto, In, Pointer, OpNames, Steps
<1> QED
  <2>1. ASSUME NEW o \in OpNames, NEW m \in Messages, CallPush(t, o, m) PROVE TypeOK'
    BY <2>1 DEF CallPush
  <2>2. CASE CallPopFront(t)
    BY <2>2 DEF CallPopFront
  <2>3. CASE CallPopBack(t)
    BY <2>3 DEF CallPopBack
  <2>4. CASE Poll(t)
    BY <2>4 DEF Poll
  <2>5. CASE PopBackPeek(t)
    BY <2>5 DEF PopBackPeek
  <2>6. CASE SpinLock(t)
    BY <2>6 DEF SpinLock
  <2>7. CASE SpinUnlock(t)
    BY <2>7 DEF SpinUnlock
  <2>8. CASE PopReset(t)
    BY <2>8 DEF PopReset
  <2>9. CASE PushBackTest(t)
    BY <2>9 DEF PushBackTest
  <2>10. CASE PushBackOther(t)
    BY <2>10 DEF PushBackOther
  <2>11. CASE PushBackLink(t)
    BY <2>11 DEF PushBackLink
  <2>12. CASE PushBackSwing(t)
    BY <2>12 DEF PushBackSwing
  <2>13. CASE PushFrontTest(t)
    BY <2>13 DEF PushFrontTest
  <2>14. CASE PushFrontOther(t)
    BY <2>14 DEF PushFrontOther
  <2>15. CASE PushFrontLink(t)
    BY <2>15 DEF PushFrontLink
  <2>16. CASE PushFrontSwing(t)
    BY <2>16 DEF PushFrontSwing
  <2>17. CASE PopFrontTest(t)
    BY <2>17 DEF PopFrontTest
  <2>18. CASE PopFrontSwing(t)
    BY <2>18 DEF PopFrontSwing
  <2>19. CASE PopFrontOther(t)
    BY <2>19 DEF PopFrontOther
  <2>20. CASE PopBackTest(t)
    BY <2>20 DEF PopBackTest
  <2>21. CASE PopBackSwing(t)
    BY <2>21 DEF PopBackSwing
  <2>22. CASE PopBackOther(t)
    BY <2>22 DEF PopBackOther
  <2> QED
    BY <2>1, <2>2, <2>3, <2>4, <2>5, <2>6, <2>7, <2>8, <2>9, <2>10, <2>11, <2>12, <2>13,
       <2>14, <2>15, <2>16, <2>17, <2>18, <2>19, <2>20, <2>21, <2>22 DEF Call, Step

\* Which threads are between spin_lock and spin_unlock changes only with the
\* lock byte.
LEMMA ExclusionStep ==
  ASSUME TypeOK, MutualExclusion, NEW t \in Threads, Call(t) \/ Step(t)
  PROVE  MutualExclusion'
<1> DEFINE Moves(before, after) ==
      /\ at[t] \in before
      /\ \E s \in after : at' = [at EXCEPT ![t] = s]
    Inside  == {"test", "link", "swing", "other", "unlock", "crashed"}
    Outside == {"idle", "peek", "spin", "reset"}
<1>1. \/ Moves(Outside, Outside) /\ lock' = lock
      \/ Moves(Inside, Inside) /\ lock' = lock
      \/ Moves(Outside, Inside) /\ lock = 0 /\ lock' = 1
      \/ Moves(Inside, Outside) /\ lock' = 0
      \/ at' = at /\ lock' = lock
  <2> USE DEF TypeOK, Goto, In, Steps
  <2>1. ASSUME NEW o \in OpNames, NEW m \in Messages, CallPush(t, o, m) PROVE
     Moves(Outside, Outside) /\ lock' = lock
    BY <2>1 DEF CallPush
  <2>2. CASE CallPopFront(t)
    BY <2>2 DEF CallPopFront
  <2>3. CASE CallPopBack(t)
    BY <2>3 DEF CallPopBack
  <2>4. CASE Poll(t)
    BY <2>4 DEF Poll
  <2>5. CASE PopBackPeek(t)
    BY <2>5 DEF PopBackPeek
  <2>6. CASE SpinLock(t)
    BY <2>6 DEF SpinLock
  <2>7. CASE SpinUnlock(t)
    BY <2>7 DEF SpinUnlock
  <2>8. CASE PopReset(t)
    BY <2>8 DEF PopReset
  <2>9. CASE PushBackTest(t)
    BY <2>9 DEF PushBackTest
  <2>10. CASE PushBackOther(t)
    BY <2>10 DEF PushBackOther
  <2>11. CASE PushBackLink(t)
    BY <2>11 DEF PushBackLink
  <2>12. CASE PushBackSwing(t)
    BY <2>12 DEF PushBackSwing
  <2>13. CASE PushFrontTest(t)
    BY <2>13 DEF PushFrontTest
  <2>14. CASE PushFrontOther(t)
    BY <2>14 DEF PushFrontOther
  <2>15. CASE PushFrontLink(t)
    BY <2>15 DEF PushFrontLink
  <2>16. CASE PushFrontSwing(t)
    BY <2>16 DEF PushFrontSwing
  <2>17. CASE PopFrontTest(t)
    BY <2>17 DEF PopFrontTest
  <2>18. CASE PopFrontSwing(t)
    BY <2>18 DEF PopFrontSwing
  <2>19. CASE PopFrontOther(t)
    BY <2>19 DEF PopFrontOther
  <2>20. CASE PopBackTest(t)
    BY <2>20 DEF PopBackTest
  <2>21. CASE PopBackSwing(t)
    BY <2>21 DEF PopBackSwing
  <2>22. CASE PopBackOther(t)
    BY <2>22 DEF PopBackOther
  <2> QED
    BY <2>1, <2>2, <2>3, <2>4, <2>5, <2>6, <2>7, <2>8, <2>9, <2>10, <2>11, <2>12, <2>13,
       <2>14, <2>15, <2>16, <2>17, <2>18, <2>19, <2>20, <2>21, <2>22 DEF Call, Step
<1> QED
  BY <1>1 DEF TypeOK, MutualExclusion, Critical, Steps

\* A thread's local variables keep agreeing with the call it is in.
LEMMA CallsStep ==
  ASSUME TypeOK, CallsAgree, NEW t \in Threads, Call(t) \/ Step(t)
  PROVE  CallsAgree'
<1> USE SpinQueueAssumption DEF TypeOK, CallsAgree, Goto, In, Pointer, OpNames, Pops
<1> QED
  <2>1. ASSUME NEW o \in OpNames, NEW m \in Messages, CallPush(t, o, m) PROVE CallsAgree'
    BY <2>1 DEF CallPush
  <2>2. CASE CallPopFront(t)
    BY <2>2 DEF CallPopFront
  <2>3. CASE CallPopBack(t)
    BY <2>3 DEF CallPopBack
  <2>4. CASE Poll(t)
    BY <2>4 DEF Poll
  <2>5. CASE PopBackPeek(t)
    BY <2>5 DEF PopBackPeek
  <2>6. CASE SpinLock(t)
    BY <2>6 DEF SpinLock
  <2>7. CASE SpinUnlock(t)
    BY <2>7 DEF SpinUnlock
  <2>8. CASE PopReset(t)
    BY <2>8 DEF PopReset
  <2>9. CASE PushBackTest(t)
    BY <2>9 DEF PushBackTest
  <2>10. CASE PushBackOther(t)
    BY <2>10 DEF PushBackOther
  <2>11. CASE PushBackLink(t)
    BY <2>11 DEF PushBackLink
  <2>12. CASE PushBackSwing(t)
    BY <2>12 DEF PushBackSwing
  <2>13. CASE PushFrontTest(t)
    BY <2>13 DEF PushFrontTest
  <2>14. CASE PushFrontOther(t)
    BY <2>14 DEF PushFrontOther
  <2>15. CASE PushFrontLink(t)
    BY <2>15 DEF PushFrontLink
  <2>16. CASE PushFrontSwing(t)
    BY <2>16 DEF PushFrontSwing
  <2>17. CASE PopFrontTest(t)
    BY <2>17 DEF PopFrontTest
  <2>18. CASE PopFrontSwing(t)
    BY <2>18 DEF PopFrontSwing
  <2>19. CASE PopFrontOther(t)
    BY <2>19 DEF PopFrontOther
  <2>20. CASE PopBackTest(t)
    BY <2>20 DEF PopBackTest
  <2>21. CASE PopBackSwing(t)
    BY <2>21 DEF PopBackSwing
  <2>22. CASE PopBackOther(t)
    BY <2>22 DEF PopBackOther
  <2> QED
    BY <2>1, <2>2, <2>3, <2>4, <2>5, <2>6, <2>7, <2>8, <2>9, <2>10, <2>11, <2>12, <2>13,
       <2>14, <2>15, <2>16, <2>17, <2>18, <2>19, <2>20, <2>21, <2>22 DEF Call, Step

\* What a consumer read without the lock stays true until it uses it.
LEMMA ReadsStep ==
  ASSUME TypeOK, CallsAgree, UnlockedReadsHold, NEW t \in Threads, Call(t) \/ Step(t)
  PROVE  UnlockedReadsHold'
<1> USE SpinQueueAssumption
    DEF TypeOK, CallsAgree, UnlockedReadsHold, OnlyConsumer, Goto, In, Pointer, OpNames
<1> QED
  <2>1. ASSUME NEW o \in OpNames, NEW m \in Messages, CallPush(t, o, m) PROVE
     UnlockedReadsHold'
    BY <2>1 DEF CallPush
  <2>2. CASE CallPopFront(t)
    BY <2>2 DEF CallPopFront
  <2>3. CASE CallPopBack(t)
    BY <2>3 DEF CallPopBack
  <2>4. CASE Poll(t)
    BY <2>4 DEF Poll
  <2>5. CASE PopBackPeek(t)
    BY <2>5 DEF PopBackPeek
  <2>6. CASE SpinLock(t)
    BY <2>6 DEF SpinLock
  <2>7. CASE SpinUnlock(t)
    BY <2>7 DEF SpinUnlock
  <2>8. CASE PopReset(t)
    BY <2>8 DEF PopReset
  <2>9. CASE PushBackTest(t)
    BY <2>9 DEF PushBackTest
  <2>10. CASE PushBackOther(t)
    BY <2>10 DEF PushBackOther
  <2>11. CASE PushBackLink(t)
    BY <2>11 DEF PushBackLink
  <2>12. CASE PushBackSwing(t)
    BY <2>12 DEF PushBackSwing
  <2>13. CASE PushFrontTest(t)
    BY <2>13 DEF PushFrontTest
  <2>14. CASE PushFrontOther(t)
    BY <2>14 DEF PushFrontOther
  <2>15. CASE PushFrontLink(t)
    BY <2>15 DEF PushFrontLink
  <2>16. CASE PushFrontSwing(t)
    BY <2>16 DEF PushFrontSwing
  <2>17. CASE PopFrontTest(t)
    BY <2>17 DEF PopFrontTest
  <2>18. CASE PopFrontSwing(t)
    BY <2>18 DEF PopFrontSwing
  <2>19. CASE PopFrontOther(t)
    BY <2>19 DEF PopFrontOther
  <2>20. CASE PopBackTest(t)
    BY <2>20 DEF PopBackTest
  <2>21. CASE PopBackSwing(t)
    BY <2>21 DEF PopBackSwing
  <2>22. CASE PopBackOther(t)
    BY <2>22 DEF PopBackOther
  <2> QED
    BY <2>1, <2>2, <2>3, <2>4, <2>5, <2>6, <2>7, <2>8, <2>9, <2>10, <2>11, <2>12, <2>13,
       <2>14, <2>15, <2>16, <2>17, <2>18, <2>19, <2>20, <2>21, <2>22 DEF Call, Step

\* Every reachable state satisfies the inductive invariant.
THEOREM IInvHolds == Spec => []IInv
<1>1. IInv /\ [Next]_vars => IInv'
  <2> SUFFICES ASSUME IInv, [Next]_vars PROVE IInv'
    OBVIOUS
  <2>1. ASSUME NEW t \in Threads, Call(t) \/ Step(t) PROVE IInv'
    BY <2>1, TypeStep, ExclusionStep, CallsStep, ReadsStep DEF IInv
  <2>2. ASSUME NEW t \in Threads, NEW u \in Threads, NEW m \in Messages, HandOver(t, u, m)
        PROVE  IInv'
    BY <2>2
    DEF HandOver, IInv, TypeOK, MutualExclusion, CallsAgree, UnlockedReadsHold, Critical
  <2>3. CASE UNCHANGED vars
    BY <2>3 DEF vars, IInv, TypeOK, MutualExclusion, CallsAgree, UnlockedReadsHold, Critical
  <2> QED
    BY <2>1, <2>2, <2>3 DEF Next
<1> QED
  BY InitIInv, <1>1, PTL DEF Spec

\* At most one thread is between spin_lock and spin_unlock of a queue.
THEOREM MutualExclusionHolds == Spec => []MutualExclusion
<1>1. IInv => MutualExclusion
  BY DEF IInv
<1> QED
  BY <1>1, IInvHolds, PTL

\* The only consumer of a queue gets a container from the pop_front that follows
\* an is_empty_queue that said no.
THEOREM PolledPopGetsMessageHolds == Spec => []PolledPopGetsMessage
<1>1. IInv => PolledPopGetsMessage
  BY DEF IInv, UnlockedReadsHold, PolledPopGetsMessage, In
<1> QED
  BY <1>1, IInvHolds, PTL

\* pop_back's unlocked test fails it only when there is a second consumer.
THEOREM CrashNeedsSecondConsumerHolds == Spec => []CrashNeedsSecondConsumer
<1>1. IInv => CrashNeedsSecondConsumer
  BY DEF IInv, CallsAgree, UnlockedReadsHold, OnlyConsumer, CrashNeedsSecondConsumer
<1> QED
  BY <1>1, IInvHolds, PTL

---------------------------------------------------------------------------
(* The queue as a sequence                                                  *)

\* s goes through the elements of S once.
Orders(s, S) ==
  /\ s \in Seq(S)
  /\ \A x \in S : \E i \in 1..Len(s) : s[i] = x
  /\ \A i, j \in 1..Len(s) : s[i] = s[j] => i = j

LEMMA SetToSeqsOrders ==
  ASSUME NEW S, IsFiniteSet(S), NEW s
  PROVE  s \in SetToSeqs(S) <=> Orders(s, S)
<1>1. \A n \in Nat : IsFiniteSet(1..n) /\ Cardinality(1..n) = n
  <2> TAKE n \in Nat
  <2>1. Cardinality(1..n) = (IF 1 > n THEN 0 ELSE (n - 1) + 1) /\ IsFiniteSet(1..n)
    BY FS_Interval
  <2> QED
    BY <2>1
<1>2. Cardinality(S) \in Nat
  BY FS_CardinalityType
<1>3. ASSUME s \in SetToSeqs(S) PROVE Orders(s, S)
  <2>1. PICK n \in Nat : n = Cardinality(S)
    BY <1>2
  <2>2. s \in [1..n -> S] /\ \A i, j \in 1..n : s[i] = s[j] => i = j
    BY <1>3, <2>1 DEF SetToSeqs
  <2>3. s \in Injection(1..n, S)
    BY <2>2 DEF Injection, IsInjective
  <2>4. s \in Surjection(1..n, S)
    BY <1>1, <2>1, <2>3, FS_Injection
  <2>5. s \in Seq(S) /\ Len(s) = n
    BY <2>2
  <2> QED
    BY <2>2, <2>4, <2>5 DEF Orders, Surjection
<1>4. ASSUME Orders(s, S) PROVE s \in SetToSeqs(S)
  <2>1. PICK n \in Nat : n = Len(s) /\ s \in [1..n -> S]
    BY <1>4 DEF Orders
  <2>2. s \in Bijection(1..n, S)
    BY <1>4, <2>1 DEF Orders, Bijection, Injection, Surjection, IsInjective
  <2>3. Cardinality(S) = n
    BY <1>1, <2>1, <2>2, FS_Bijection DEF ExistsBijection
  <2> QED
    BY <1>4, <2>1, <2>3 DEF SetToSeqs, Orders
<1> QED
  BY <1>3, <1>4

\* There is one way to follow prev.
LEMMA OrderUnique ==
  ASSUME NEW s, NEW z, Orders(s, InQueue), Orders(z, InQueue), FollowsPrev(s), FollowsPrev(z)
  PROVE  s = z
<1>1. PICK n \in Nat, m \in Nat : n = Len(s) /\ m = Len(z)
  BY DEF Orders
<1>2. /\ s \in [1..n -> InQueue] /\ z \in [1..m -> InQueue]
      /\ \A x \in InQueue : \E i \in 1..n : s[i] = x
      /\ \A x \in InQueue : \E i \in 1..m : z[i] = x
      /\ \A i, j \in 1..n : s[i] = s[j] => i = j
      /\ \A i, j \in 1..m : z[i] = z[j] => i = j
  BY <1>1 DEF Orders
<1>3. /\ \A i \in 1..n : IF i < n THEN prev[s[i]] = s[i + 1] ELSE prev[s[i]] \notin InQueue
      /\ \A i \in 1..m : IF i < m THEN prev[z[i]] = z[i + 1] ELSE prev[z[i]] \notin InQueue
  BY <1>1 DEF FollowsPrev
<1>4. CASE n = 0 \/ m = 0
  <2>1. n = 0 /\ m = 0
    BY <1>2, <1>4
  <2>2. s \in Seq(InQueue) /\ z \in Seq(InQueue) /\ Len(s) = 0 /\ Len(z) = 0
    BY <1>1, <2>1 DEF Orders
  <2> QED
    BY <2>2
<1>5. CASE n # 0 /\ m # 0
  <2> DEFINE A == {k \in Nat : k < n => (k < m /\ s[n - k] = z[m - k])}
  <2>1. 0 \in A
    <3>1. s[n] \in InQueue /\ prev[s[n]] \notin InQueue
      BY <1>2, <1>3, <1>5
    <3>2. PICK j \in 1..m : z[j] = s[n]
      BY <1>2, <3>1
    <3>3. j = m
      <4>1. CASE j < m
        <5>1. prev[z[j]] = z[j + 1] /\ j + 1 \in 1..m
          BY <1>3, <4>1
        <5>2. prev[z[j]] \in InQueue
          BY <1>2, <5>1
        <5> QED
          BY <3>1, <3>2, <5>2
      <4> QED
        BY <4>1
    <3> QED
      BY <1>5, <3>2, <3>3
  <2>2. ASSUME NEW k \in 0..(n - 1), k \in A PROVE k + 1 \in A
    <3> SUFFICES ASSUME k + 1 < n PROVE k + 1 < m /\ s[n - (k + 1)] = z[m - (k + 1)]
      OBVIOUS
    <3>1. k < m /\ s[n - k] = z[m - k]
      BY <2>2
    <3>2. PICK i \in 1..n : i = n - (k + 1) /\ i < n /\ i + 1 = n - k
      OBVIOUS
    <3>3. prev[s[i]] = s[i + 1] /\ s[i] \in InQueue /\ s[i + 1] \in InQueue
      BY <1>2, <1>3, <3>2
    <3>4. PICK j \in 1..m : z[j] = s[i]
      BY <1>2, <3>3
    <3>5. j < m /\ z[j + 1] = z[m - k]
      BY <1>3, <3>1, <3>2, <3>3, <3>4
    <3>6. j + 1 = m - k
      <4>1. j + 1 \in 1..m /\ m - k \in 1..m
        BY <3>1, <3>5
      <4> QED
        BY <1>2, <3>5, <4>1
    <3>7. j = m - (k + 1) /\ k + 1 < m
      BY <3>6
    <3> QED
      BY <3>2, <3>4, <3>7
  <2>3. 0..n \subseteq A
    <3> HIDE DEF A
    <3> QED
      BY <2>1, <2>2, UpTo
  <2>4. n <= m
    <3>1. n - 1 \in A
      BY <1>5, <2>3
    <3> QED
      BY <1>5, <3>1
  <2>5. n = m
    <3>1. s[n - (n - 1)] = z[m - (n - 1)]
      BY <1>5, <2>3
    <3>2. CASE n < m
      <4>1. PICK j \in 1..m : j = m - n /\ j < m /\ j + 1 = m - (n - 1)
        BY <1>5, <3>2
      <4>2. z[j] \in InQueue
        BY <1>2
      <4>3. PICK i \in 1..n : s[i] = z[j]
        BY <1>2, <4>2
      <4>4. prev[z[j]] = z[j + 1] /\ z[j + 1] = s[1] /\ s[1] \in InQueue
        BY <1>2, <1>3, <1>5, <3>1, <4>1
      <4>5. i < n /\ s[i + 1] = s[1]
        BY <1>3, <4>3, <4>4
      <4>6. i + 1 = 1
        <5>1. i + 1 \in 1..n /\ 1 \in 1..n
          BY <4>5
        <5> QED
          BY <1>2, <4>5, <5>1
      <4> QED
        BY <4>6
    <3> QED
      BY <2>4, <3>2
  <2>6. ASSUME NEW i \in 1..n PROVE s[i] = z[i]
    <3>1. n - i \in A /\ n - i < n /\ n - (n - i) = i
      BY <2>3
    <3> QED
      BY <2>5, <3>1
  <2>7. s \in Seq(InQueue) /\ z \in Seq(InQueue) /\ Len(s) = Len(z)
    BY <1>1, <2>5 DEF Orders
  <2> QED
    BY <1>1, <2>6, <2>7
<1> QED
  BY <1>4, <1>5

---------------------------------------------------------------------------
(* The shape of the list                                                    *)

\* What ListShape says of thread t if no other is between spin_lock and spin_unlock.
ShapeAt(t, s) ==
  /\ ~Changing(t) => Whole(s)
  /\ Changing(t) =>
       /\ op[t] = "push_back" => PushingBack(t, s)
       /\ op[t] = "push_front" => PushingFront(t, s)
       /\ op[t] = "pop_front" => PoppingFront(t, s)
       /\ op[t] = "pop_back" => PoppingBack(t, s)

LEMMA ShapeNow ==
  ASSUME MutualExclusion, NEW t \in Threads, Critical(t), NEW s, ListShape(s)
  PROVE  ShapeAt(t, s) /\ \A u \in Threads \ {t} : ~Critical(u)
<1>1. \A u \in Threads \ {t} : ~Critical(u)
  BY DEF MutualExclusion
<1>2. \A u \in Threads \ {t} : ~Changing(u)
  BY <1>1 DEF Critical, Changing
<1> QED
  BY <1>1, <1>2 DEF ListShape, ShapeAt

LEMMA ShapeNext ==
  ASSUME NEW t \in Threads, NEW s, \A u \in Threads \ {t} : ~Critical(u),
         \A u \in Threads \ {t} : at'[u] = at[u],
         ShapeAt(t, s)'
  PROVE  ListShape(s)'
<1>1. \A u \in Threads \ {t} : ~Changing(u)'
  BY DEF Critical, Changing
<1> QED
  BY <1>1 DEF ListShape, ShapeAt

\* Steps outside the lock, and the one that takes it: the list keeps its shape.
LEMMA ShapeFrame ==
  ASSUME TypeOK, CallsAgree, Holding, NEW s, Orders(s, InQueue), ListShape(s),
         NEW t \in Threads,
         top' = top, bottom' = bottom, ~Changing(t), ~Changing(t)',
         \A u \in Threads \ {t} : at'[u] = at[u] /\ op'[u] = op[u] /\ msg'[u] = msg[u],
         \A m \in Messages : own[m] # t => prev'[m] = prev[m] /\ next'[m] = next[m]
  PROVE  ListShape(s)'
<1>1. \A u \in Threads : Changing(u)' <=> Changing(u)
  BY DEF Changing
<1>2. \A i \in 1..Len(s) : prev'[s[i]] = prev[s[i]] /\ next'[s[i]] = next[s[i]]
  <2> TAKE i \in 1..Len(s)
  <2>1. s[i] \in InQueue
    BY DEF Orders
  <2>2. own[s[i]] # t /\ s[i] \in Messages
    BY <2>1, SpinQueueAssumption DEF InQueue
  <2> QED
    BY <2>2
<1>3. ASSUME NEW a, NEW b PROVE Links(s, a, b)' <=> Links(s, a, b)
  <2>1. ASSUME Links(s, a, b) PROVE Links(s, a, b)'
    BY <1>2, <2>1 DEF Links
  <2>2. ASSUME Links(s, a, b)' PROVE Links(s, a, b)
    BY <1>2, <2>2 DEF Links
  <2> QED
    BY <2>1, <2>2
<1>4. Whole(s)' <=> Whole(s)
  BY <1>3 DEF Whole
<1>5. ASSUME NEW u \in Threads, Changing(u)
      PROVE  /\ op[u] = "push_back" => PushingBack(u, s)'
             /\ op[u] = "push_front" => PushingFront(u, s)'
             /\ op[u] = "pop_front" => PoppingFront(u, s)'
             /\ op[u] = "pop_back" => PoppingBack(u, s)'
  <2>1. u # t /\ at'[u] = at[u] /\ op'[u] = op[u] /\ msg'[u] = msg[u] /\ at[u] # "idle"
    BY <1>5 DEF Changing
  <2>2. CASE op[u] = "push_back"
    <3>1. own[msg[u]] = u /\ PushingBack(u, s)
      BY <1>5, <2>1, <2>2 DEF Holding, ListShape
    <3>2. prev'[msg[u]] = prev[msg[u]] /\ next'[msg[u]] = next[msg[u]]
      BY <2>1, <2>2, <3>1 DEF TypeOK, CallsAgree, Pointer
    <3> QED
      BY <1>3, <2>1, <2>2, <3>1, <3>2 DEF PushingBack
  <2>3. CASE op[u] = "push_front"
    <3>1. own[msg[u]] = u /\ PushingFront(u, s)
      BY <1>5, <2>1, <2>3 DEF Holding, ListShape
    <3>2. prev'[msg[u]] = prev[msg[u]] /\ next'[msg[u]] = next[msg[u]]
      BY <2>1, <2>3, <3>1 DEF TypeOK, CallsAgree, Pointer
    <3> QED
      BY <1>3, <2>1, <2>3, <3>1, <3>2 DEF PushingFront
  <2>4. CASE op[u] = "pop_front"
    <3>1. PoppingFront(u, s)
      BY <1>5, <2>4 DEF ListShape
    <3> QED
      BY <1>2, <1>3, <1>4, <2>1, <2>4, <3>1 DEF PoppingFront
  <2>5. CASE op[u] = "pop_back"
    <3>1. PoppingBack(u, s)
      BY <1>5, <2>5 DEF ListShape
    <3>2. at[u] = "swing" => next'[msg[u]] = next[msg[u]]
      BY <2>1, <2>5 DEF Holding, TypeOK, CallsAgree, Pointer
    <3> QED
      BY <1>2, <1>3, <1>4, <2>1, <2>5, <3>1, <3>2 DEF PoppingBack
  <2> QED
    BY <2>2, <2>3, <2>4, <2>5
<1>6. \A u \in Threads : Changing(u) => op'[u] = op[u]
  BY DEF Changing
<1> QED
  BY <1>1, <1>4, <1>5, <1>6 DEF ListShape

---------------------------------------------------------------------------
(* Elements entering and leaving a sequence                                 *)

LEMMA OrdersFacts ==
  ASSUME NEW S, NEW s, Orders(s, S)
  PROVE  /\ Len(s) \in Nat /\ s \in [1..Len(s) -> S]
         /\ s = <<>> <=> Len(s) = 0
         /\ \A i \in 1..Len(s) : s[i] \in S
         /\ \A x \in S : \E i \in 1..Len(s) : s[i] = x
         /\ \A i, j \in 1..Len(s) : s[i] = s[j] => i = j
BY DEF Orders

LEMMA OrdersAppend ==
  ASSUME NEW S, NEW s, Orders(s, S), NEW m, m \notin S
  PROVE  /\ Orders(Append(s, m), S \cup {m})
         /\ Len(Append(s, m)) = Len(s) + 1
         /\ Append(s, m)[Len(s) + 1] = m
         /\ \A i \in 1..Len(s) : Append(s, m)[i] = s[i]
<1> DEFINE z == Append(s, m)
<1>1. s \in Seq(S \cup {m})
  BY DEF Orders
<1>2. z \in Seq(S \cup {m}) /\ Len(z) = Len(s) + 1
  BY <1>1
<1>3. z[Len(s) + 1] = m /\ \A i \in 1..Len(s) : z[i] = s[i]
  BY <1>1
<1>4. Orders(z, S \cup {m})
  <2>1. PICK n \in Nat : n = Len(s)
    BY <1>2, OrdersFacts
  <2>2. Len(z) = n + 1 /\ z[n + 1] = m /\ \A i \in 1..n : z[i] = s[i]
    BY <1>2, <1>3, <2>1
  <2> HIDE DEF z
  <2>3. \A i \in 1..(n + 1) : i = n + 1 \/ i \in 1..n
    OBVIOUS
  <2>4. \A x \in S \cup {m} : \E i \in 1..(n + 1) : z[i] = x
    <3> TAKE x \in S \cup {m}
    <3>1. CASE x = m
      <4>1. n + 1 \in 1..(n + 1)
        OBVIOUS
      <4> QED
        BY <2>2, <3>1, <4>1
    <3>2. CASE x \in S
      <4>1. PICK i \in 1..n : s[i] = x
        BY <2>1, <3>2, OrdersFacts
      <4>2. i \in 1..(n + 1)
        OBVIOUS
      <4> QED
        BY <2>2, <4>1, <4>2
    <3> QED
      BY <3>1, <3>2
  <2>5. \A i, j \in 1..(n + 1) : z[i] = z[j] => i = j
    <3>1. \A i \in 1..n : s[i] \in S
      BY <2>1, OrdersFacts
    <3>2. \A i, j \in 1..n : s[i] = s[j] => i = j
      BY <2>1, OrdersFacts
    <3> QED
      BY <2>2, <2>3, <3>1, <3>2
  <2> QED
    BY <1>2, <2>2, <2>4, <2>5 DEF Orders
<1> QED
  BY <1>2, <1>3, <1>4

LEMMA OrdersPrepend ==
  ASSUME NEW S, NEW s, Orders(s, S), NEW m, m \notin S
  PROVE  /\ Orders(<<m>> \o s, S \cup {m})
         /\ Len(<<m>> \o s) = Len(s) + 1
         /\ (<<m>> \o s)[1] = m
         /\ \A i \in 1..Len(s) : (<<m>> \o s)[i + 1] = s[i]
         /\ \A i \in 2..(Len(s) + 1) : (<<m>> \o s)[i] = s[i - 1]
<1> DEFINE z == <<m>> \o s
<1>1. s \in Seq(S \cup {m}) /\ <<m>> \in Seq(S \cup {m}) /\ Len(<<m>>) = 1 /\ <<m>>[1] = m
  BY DEF Orders
<1>2. z \in Seq(S \cup {m}) /\ Len(z) = Len(s) + 1 /\ Len(s) \in Nat
  BY <1>1
<1>3. z[1] = m /\ \A i \in 2..(Len(s) + 1) : z[i] = s[i - 1]
  BY <1>1, <1>2
<1>4. \A i \in 1..Len(s) : z[i + 1] = s[i]
  <2> HIDE DEF z
  <2> QED
    BY <1>2, <1>3
<1>5. Orders(z, S \cup {m})
  <2>1. PICK n \in Nat : n = Len(s)
    BY <1>2
  <2>2. Len(z) = n + 1 /\ z[1] = m /\ \A i \in 1..n : z[i + 1] = s[i]
    BY <1>2, <1>3, <1>4, <2>1
  <2> HIDE DEF z
  <2>3. \A i \in 1..(n + 1) : i = 1 \/ (i - 1 \in 1..n /\ z[i] = s[i - 1])
    <3> TAKE i \in 1..(n + 1)
    <3>1. CASE i # 1
      <4>1. i - 1 \in 1..n /\ (i - 1) + 1 = i
        BY <3>1
      <4> QED
        BY <2>2, <4>1
    <3> QED
      BY <3>1
  <2>4. \A x \in S \cup {m} : \E i \in 1..(n + 1) : z[i] = x
    <3> TAKE x \in S \cup {m}
    <3>1. CASE x = m
      <4>1. 1 \in 1..(n + 1)
        OBVIOUS
      <4> QED
        BY <2>2, <3>1, <4>1
    <3>2. CASE x \in S
      <4>1. PICK i \in 1..n : s[i] = x
        BY <2>1, <3>2, OrdersFacts
      <4>2. i + 1 \in 1..(n + 1)
        OBVIOUS
      <4> QED
        BY <2>2, <4>1, <4>2
    <3> QED
      BY <3>1, <3>2
  <2>5. \A i, j \in 1..(n + 1) : z[i] = z[j] => i = j
    <3>1. \A i \in 1..n : s[i] \in S
      BY <2>1, OrdersFacts
    <3>2. \A i, j \in 1..n : s[i] = s[j] => i = j
      BY <2>1, OrdersFacts
    <3> TAKE i, j \in 1..(n + 1)
    <3> HAVE z[i] = z[j]
    <3>3. i = 1 <=> j = 1
      BY <2>2, <2>3, <3>1
    <3>4. CASE i # 1 /\ j # 1
      <4>1. i - 1 = j - 1
        BY <2>3, <3>2, <3>4
      <4> QED
        BY <4>1
    <3> QED
      BY <3>3, <3>4
  <2> QED
    BY <1>2, <2>2, <2>4, <2>5 DEF Orders
<1> QED
  BY <1>2, <1>3, <1>4, <1>5

LEMMA OrdersTail ==
  ASSUME NEW S, NEW s, Orders(s, S), s # <<>>
  PROVE  /\ Orders(Tail(s), S \ {s[1]})
         /\ Len(Tail(s)) = Len(s) - 1
         /\ \A i \in 1..(Len(s) - 1) : Tail(s)[i] = s[i + 1]
<1> DEFINE z == Tail(s)
<1>1. s \in Seq(S) /\ Len(s) \in Nat \ {0}
  BY OrdersFacts DEF Orders
<1>2. z \in Seq(S) /\ Len(z) = Len(s) - 1
  BY <1>1
<1>3. \A i \in 1..(Len(s) - 1) : z[i] = s[i + 1]
  BY <1>1
<1>4. Orders(z, S \ {s[1]})
  <2> HIDE DEF z
  <2>0. PICK n \in Nat : n = Len(s) - 1 /\ Len(s) = n + 1
    BY <1>1
  <2>a. \A i, j \in 1..(n + 1) : s[i] \in S /\ (s[i] = s[j] => i = j)
    BY <2>0, OrdersFacts
  <2>b. \A i \in 1..n : i + 1 \in 1..(n + 1) /\ z[i] = s[i + 1]
    BY <1>3, <2>0
  <2>1. \A i \in 1..Len(z) : z[i] \in S \ {s[1]}
    <3> TAKE i \in 1..Len(z)
    <3>1. i \in 1..n /\ i + 1 # 1 /\ 1 \in 1..(n + 1)
      BY <1>2, <2>0
    <3> QED
      BY <2>a, <2>b, <3>1
  <2>2. z \in Seq(S \ {s[1]})
    BY <1>2, <2>1
  <2>3. \A x \in S \ {s[1]} : \E i \in 1..Len(z) : z[i] = x
    <3> TAKE x \in S \ {s[1]}
    <3>1. PICK i \in 1..Len(s) : s[i] = x /\ i # 1
      BY OrdersFacts
    <3>2. i - 1 \in 1..(Len(s) - 1) /\ (i - 1) + 1 = i
      BY <1>1, <3>1
    <3> QED
      BY <1>2, <1>3, <3>1, <3>2
  <2>4. \A i, j \in 1..Len(z) : z[i] = z[j] => i = j
    <3> TAKE i, j \in 1..Len(z)
    <3> HAVE z[i] = z[j]
    <3>1. i \in 1..n /\ j \in 1..n
      BY <1>2, <2>0
    <3>2. i + 1 = j + 1
      BY <2>a, <2>b, <3>1
    <3> QED
      BY <3>2
  <2> QED
    BY <2>2, <2>3, <2>4 DEF Orders
<1> QED
  BY <1>2, <1>3, <1>4

LEMMA OrdersButLast ==
  ASSUME NEW S, NEW s, Orders(s, S), s # <<>>
  PROVE  /\ Orders(SubSeq(s, 1, Len(s) - 1), S \ {s[Len(s)]})
         /\ Len(SubSeq(s, 1, Len(s) - 1)) = Len(s) - 1
         /\ \A i \in 1..(Len(s) - 1) : SubSeq(s, 1, Len(s) - 1)[i] = s[i]
<1> DEFINE z == SubSeq(s, 1, Len(s) - 1)
<1>1. s \in Seq(S) /\ Len(s) \in Nat \ {0}
  BY OrdersFacts DEF Orders
<1>2. z \in Seq(S) /\ Len(z) = Len(s) - 1
  <2>1. 1 \in 1..(Len(s) + 1) /\ Len(s) - 1 \in 0..Len(s)
    BY <1>1
  <2>2. z \in Seq(S)
    BY <1>1, <2>1
  <2>3. PICK k \in Nat : k = Len(s) - 1
    BY <1>1
  <2>4. Len(SubSeq(s, 1, k)) = IF 1 <= k THEN (k - 1) + 1 ELSE 0
    <3>1. 1 \in Int /\ k \in Int /\ \A i \in 1..k : s[i] \in S
      BY <1>1, <2>3
    <3> QED
      BY <3>1, SubSeqProperties
  <2>5. Len(SubSeq(s, 1, k)) = k
    BY <2>4
  <2> QED
    BY <2>2, <2>3, <2>5
<1>3. \A i \in 1..(Len(s) - 1) : z[i] = s[i]
  BY <1>1
<1>4. Orders(z, S \ {s[Len(s)]})
  <2> HIDE DEF z
  <2>0. PICK n \in Nat : n = Len(s) - 1 /\ Len(s) = n + 1
    BY <1>1
  <2>a. \A i, j \in 1..(n + 1) : s[i] \in S /\ (s[i] = s[j] => i = j)
    BY <2>0, OrdersFacts
  <2>b. \A i \in 1..n : i \in 1..(n + 1) /\ z[i] = s[i]
    BY <1>3, <2>0
  <2>1. \A i \in 1..Len(z) : z[i] \in S \ {s[Len(s)]}
    <3> TAKE i \in 1..Len(z)
    <3>1. i \in 1..n /\ i # n + 1 /\ n + 1 \in 1..(n + 1)
      BY <1>2, <2>0
    <3> QED
      BY <2>0, <2>a, <2>b, <3>1
  <2>2. z \in Seq(S \ {s[Len(s)]})
    BY <1>2, <2>1
  <2>3. \A x \in S \ {s[Len(s)]} : \E i \in 1..Len(z) : z[i] = x
    <3> TAKE x \in S \ {s[Len(s)]}
    <3>1. PICK i \in 1..Len(s) : s[i] = x /\ i # Len(s)
      BY OrdersFacts
    <3>2. i \in 1..n
      BY <2>0, <3>1
    <3> QED
      BY <1>2, <2>0, <2>b, <3>1, <3>2
  <2>4. \A i, j \in 1..Len(z) : z[i] = z[j] => i = j
    BY <1>2, <2>0, <2>a, <2>b
  <2> QED
    BY <2>2, <2>3, <2>4 DEF Orders
<1> QED
  BY <1>2, <1>3, <1>4

---------------------------------------------------------------------------
(* The stores of the thread that has the lock                               *)

Before(s) == IInv /\ Holding /\ Orders(s, InQueue) /\ ListShape(s)

LEMMA QueuedFacts ==
  ASSUME TypeOK, NEW s, Orders(s, InQueue)
  PROVE  /\ Len(s) \in Nat /\ (s = <<>> <=> Len(s) = 0)
         /\ \A i \in 1..Len(s) : s[i] \in Messages /\ own[s[i]] = Queued /\ s[i] # NULL
         /\ \A i, j \in 1..Len(s) : s[i] = s[j] => i = j
         /\ \A m : own[m] \in Threads => \A i \in 1..Len(s) : s[i] # m
         /\ \A m \in Messages : own[m] = Queued => \E i \in 1..Len(s) : s[i] = m
BY OrdersFacts, SpinQueueAssumption DEF InQueue

LEMMA PushBackShape ==
  ASSUME NEW s, Before(s), NEW t \in Threads,
         PushBackTest(t) \/ PushBackOther(t) \/ PushBackLink(t) \/ PushBackSwing(t)
  PROVE  ListShape(s)' /\ own' = own
<1>0. PICK m : m = msg[t]
  OBVIOUS
<1>1. op[t] = "push_back" /\ at[t] \in {"test", "other", "link", "swing"} /\ Critical(t)
  BY DEF PushBackTest, PushBackOther, PushBackLink, PushBackSwing, In, Critical
<1>2. TypeOK /\ CallsAgree /\ MutualExclusion /\ Holding /\ Orders(s, InQueue) /\ ListShape(s)
  BY DEF Before, IInv
<1>3. ShapeAt(t, s) /\ \A u \in Threads \ {t} : ~Critical(u)
  BY <1>1, <1>2, ShapeNow
<1>4. /\ Len(s) \in Nat /\ (s = <<>> <=> Len(s) = 0)
      /\ \A i \in 1..Len(s) : s[i] \in Messages /\ s[i] # NULL
      /\ \A i, j \in 1..Len(s) : s[i] = s[j] => i = j
  BY <1>2, QueuedFacts
<1>5. m \in Messages /\ m # NULL /\ \A i \in 1..Len(s) : s[i] # m
  <2>1. own[m] = t /\ m # NULL
    BY <1>0, <1>1, <1>2 DEF Holding, CallsAgree
  <2>2. \A i \in 1..Len(s) : s[i] # m
    BY <1>2, <2>1, QueuedFacts
  <2> QED
    BY <1>0, <1>2, <2>1, <2>2 DEF TypeOK, Pointer
<1>6. op' = op /\ msg' = msg /\ own' = own /\ \A u \in Threads \ {t} : at'[u] = at[u]
  BY <1>2 DEF PushBackTest, PushBackOther, PushBackLink, PushBackSwing, Goto, TypeOK
<1>7. prev \in [Messages -> Pointer] /\ next \in [Messages -> Pointer] /\ at \in [Threads -> Steps]
  BY <1>2 DEF TypeOK
<1>8. ASSUME at'[t] \in {"other", "link", "swing", "unlock"}, PushingBack(t, s)'
      PROVE  ListShape(s)' /\ own' = own
  <2>1. ShapeAt(t, s)'
    BY <1>1, <1>6, <1>8 DEF ShapeAt, Changing
  <2> QED
    BY <1>3, <1>6, <2>1, ShapeNext
<1>9. CASE PushBackTest(t)
  <2>1. at[t] = "test" /\ Whole(s) /\ prev[m] = NULL /\ next[m] = NULL
    BY <1>0, <1>1, <1>2, <1>3, <1>9 DEF PushBackTest, In, ShapeAt, Changing, Holding
  <2>2. CASE bottom = NULL
    <3>1. s = <<>> /\ top = NULL
      BY <1>4, <2>1, <2>2 DEF Whole, BackOf, FrontOf
    <3>2. at'[t] = "other" /\ bottom' = m /\ top' = top /\ next' = next /\ prev' = prev
      BY <1>0, <1>7, <1>9, <2>2 DEF PushBackTest, Goto
    <3>3. Links(s, NULL, m)'
      BY <1>4, <3>1 DEF Links
    <3>4. PushingBack(t, s)'
      BY <1>0, <1>6, <2>1, <3>1, <3>2, <3>3 DEF PushingBack, FrontOf, BackOf
    <3> QED
      BY <1>8, <3>2, <3>4
  <2>3. CASE bottom # NULL
    <3>1. s # <<>> /\ bottom = s[Len(s)] /\ top = s[1]
      BY <2>1, <2>3 DEF Whole, BackOf, FrontOf
    <3>2. /\ at'[t] = "link" /\ bottom' = bottom /\ top' = top /\ next' = next
          /\ prev' = [prev EXCEPT ![bottom] = m]
      BY <1>0, <1>7, <1>9, <2>3 DEF PushBackTest, Goto
    <3>3. prev'[m] = NULL
      BY <1>4, <1>5, <1>7, <2>1, <3>1, <3>2
    <3>4. Links(s, NULL, m)'
      <4> SUFFICES ASSUME NEW i \in 1..Len(s)
                   PROVE  /\ prev'[s[i]] = IF i = Len(s) THEN m ELSE s[i + 1]
                          /\ next'[s[i]] = IF i = 1 THEN NULL ELSE s[i - 1]
        BY DEF Links
      <4>1. /\ prev[s[i]] = IF i = Len(s) THEN NULL ELSE s[i + 1]
            /\ next[s[i]] = IF i = 1 THEN NULL ELSE s[i - 1]
        BY <2>1 DEF Whole, Links
      <4>2. Len(s) \in 1..Len(s)
        BY <1>4
      <4>3. prev'[s[i]] = IF i = Len(s) THEN m ELSE prev[s[i]]
        BY <1>4, <1>7, <3>1, <3>2, <4>2
      <4> QED
        BY <3>2, <4>1, <4>3
    <3>5. PushingBack(t, s)'
      BY <1>0, <1>6, <2>1, <3>1, <3>2, <3>3, <3>4 DEF PushingBack, FrontOf, BackOf
    <3> QED
      BY <1>8, <3>2, <3>5
  <2> QED
    BY <2>2, <2>3
<1>10. CASE PushBackOther(t)
  <2>1. at[t] = "other" /\ PushingBack(t, s)
    BY <1>1, <1>3, <1>10 DEF PushBackOther, In, ShapeAt, Changing
  <2>2. at'[t] = "unlock" /\ top' = m /\ bottom' = bottom /\ next' = next /\ prev' = prev
    BY <1>0, <1>7, <1>10 DEF PushBackOther, Goto
  <2>3. Links(s, NULL, m)'
    BY <1>0, <2>1, <2>2 DEF PushingBack, Links
  <2>4. PushingBack(t, s)'
    BY <1>0, <1>6, <2>1, <2>2, <2>3 DEF PushingBack, FrontOf, BackOf
  <2> QED
    BY <1>8, <2>2, <2>4
<1>11. CASE PushBackLink(t)
  <2>1. at[t] = "link" /\ PushingBack(t, s)
    BY <1>1, <1>3, <1>11 DEF PushBackLink, In, ShapeAt, Changing
  <2>2. /\ at'[t] = "swing" /\ top' = top /\ bottom' = bottom /\ prev' = prev
        /\ next' = [next EXCEPT ![m] = bottom]
    BY <1>0, <1>7, <1>11 DEF PushBackLink, Goto
  <2>3. next'[m] = bottom /\ \A i \in 1..Len(s) : next'[s[i]] = next[s[i]]
    BY <1>4, <1>5, <1>7, <2>2
  <2>4. Links(s, NULL, m)'
    BY <1>0, <2>1, <2>2, <2>3 DEF PushingBack, Links
  <2>5. PushingBack(t, s)'
    BY <1>0, <1>6, <2>1, <2>2, <2>3, <2>4 DEF PushingBack, FrontOf, BackOf
  <2> QED
    BY <1>8, <2>2, <2>5
<1>12. CASE PushBackSwing(t)
  <2>1. at[t] = "swing" /\ PushingBack(t, s)
    BY <1>1, <1>3, <1>12 DEF PushBackSwing, In, ShapeAt, Changing
  <2>2. at'[t] = "unlock" /\ top' = top /\ bottom' = m /\ prev' = prev /\ next' = next
    BY <1>0, <1>7, <1>12 DEF PushBackSwing, Goto
  <2>3. Links(s, NULL, m)'
    BY <1>0, <2>1, <2>2 DEF PushingBack, Links
  <2>4. PushingBack(t, s)'
    BY <1>0, <1>6, <2>1, <2>2, <2>3 DEF PushingBack, FrontOf, BackOf
  <2> QED
    BY <1>8, <2>2, <2>4
<1> QED
  BY <1>9, <1>10, <1>11, <1>12

LEMMA PushFrontShape ==
  ASSUME NEW s, Before(s), NEW t \in Threads,
         PushFrontTest(t) \/ PushFrontOther(t) \/ PushFrontLink(t) \/ PushFrontSwing(t)
  PROVE  ListShape(s)' /\ own' = own
<1>0. PICK m : m = msg[t]
  OBVIOUS
<1>1. op[t] = "push_front" /\ at[t] \in {"test", "other", "link", "swing"} /\ Critical(t)
  BY DEF PushFrontTest, PushFrontOther, PushFrontLink, PushFrontSwing, In, Critical
<1>2. TypeOK /\ CallsAgree /\ MutualExclusion /\ Holding /\ Orders(s, InQueue) /\ ListShape(s)
  BY DEF Before, IInv
<1>3. ShapeAt(t, s) /\ \A u \in Threads \ {t} : ~Critical(u)
  BY <1>1, <1>2, ShapeNow
<1>4. /\ Len(s) \in Nat /\ (s = <<>> <=> Len(s) = 0)
      /\ \A i \in 1..Len(s) : s[i] \in Messages /\ s[i] # NULL
      /\ \A i, j \in 1..Len(s) : s[i] = s[j] => i = j
  BY <1>2, QueuedFacts
<1>5. m \in Messages /\ m # NULL /\ \A i \in 1..Len(s) : s[i] # m
  <2>1. own[m] = t /\ m # NULL
    BY <1>0, <1>1, <1>2 DEF Holding, CallsAgree
  <2>2. \A i \in 1..Len(s) : s[i] # m
    BY <1>2, <2>1, QueuedFacts
  <2> QED
    BY <1>0, <1>2, <2>1, <2>2 DEF TypeOK, Pointer
<1>6. op' = op /\ msg' = msg /\ own' = own /\ \A u \in Threads \ {t} : at'[u] = at[u]
  BY <1>2 DEF PushFrontTest, PushFrontOther, PushFrontLink, PushFrontSwing, Goto, TypeOK
<1>7. next \in [Messages -> Pointer] /\ prev \in [Messages -> Pointer] /\ at \in [Threads -> Steps]
  BY <1>2 DEF TypeOK
<1>8. ASSUME at'[t] \in {"other", "link", "swing", "unlock"}, PushingFront(t, s)'
      PROVE  ListShape(s)' /\ own' = own
  <2>1. ShapeAt(t, s)'
    BY <1>1, <1>6, <1>8 DEF ShapeAt, Changing
  <2> QED
    BY <1>3, <1>6, <2>1, ShapeNext
<1>9. CASE PushFrontTest(t)
  <2>1. at[t] = "test" /\ Whole(s) /\ next[m] = NULL /\ prev[m] = NULL
    BY <1>0, <1>1, <1>2, <1>3, <1>9 DEF PushFrontTest, In, ShapeAt, Changing, Holding
  <2>2. CASE top = NULL
    <3>1. s = <<>> /\ bottom = NULL
      BY <1>4, <2>1, <2>2 DEF Whole, FrontOf, BackOf
    <3>2. at'[t] = "other" /\ top' = m /\ bottom' = bottom /\ prev' = prev /\ next' = next
      BY <1>0, <1>7, <1>9, <2>2 DEF PushFrontTest, Goto
    <3>3. Links(s, m, NULL)'
      BY <1>4, <3>1 DEF Links
    <3>4. PushingFront(t, s)'
      BY <1>0, <1>6, <2>1, <3>1, <3>2, <3>3 DEF PushingFront, BackOf, FrontOf
    <3> QED
      BY <1>8, <3>2, <3>4
  <2>3. CASE top # NULL
    <3>1. s # <<>> /\ top = s[1] /\ bottom = s[Len(s)]
      BY <2>1, <2>3 DEF Whole, FrontOf, BackOf
    <3>2. /\ at'[t] = "link" /\ top' = top /\ bottom' = bottom /\ prev' = prev
          /\ next' = [next EXCEPT ![top] = m]
      BY <1>0, <1>7, <1>9, <2>3 DEF PushFrontTest, Goto
    <3>3. next'[m] = NULL
      BY <1>4, <1>5, <1>7, <2>1, <3>1, <3>2
    <3>4. Links(s, m, NULL)'
      <4> SUFFICES ASSUME NEW i \in 1..Len(s)
                   PROVE  /\ prev'[s[i]] = IF i = Len(s) THEN NULL ELSE s[i + 1]
                          /\ next'[s[i]] = IF i = 1 THEN m ELSE s[i - 1]
        BY DEF Links
      <4>1. /\ prev[s[i]] = IF i = Len(s) THEN NULL ELSE s[i + 1]
            /\ next[s[i]] = IF i = 1 THEN NULL ELSE s[i - 1]
        BY <2>1 DEF Whole, Links
      <4>2. 1 \in 1..Len(s)
        BY <1>4
      <4>3. next'[s[i]] = IF i = 1 THEN m ELSE next[s[i]]
        BY <1>4, <1>7, <3>1, <3>2, <4>2
      <4> QED
        BY <3>2, <4>1, <4>3
    <3>5. PushingFront(t, s)'
      BY <1>0, <1>6, <2>1, <3>1, <3>2, <3>3, <3>4 DEF PushingFront, BackOf, FrontOf
    <3> QED
      BY <1>8, <3>2, <3>5
  <2> QED
    BY <2>2, <2>3
<1>10. CASE PushFrontOther(t)
  <2>1. at[t] = "other" /\ PushingFront(t, s)
    BY <1>1, <1>3, <1>10 DEF PushFrontOther, In, ShapeAt, Changing
  <2>2. at'[t] = "unlock" /\ bottom' = m /\ top' = top /\ prev' = prev /\ next' = next
    BY <1>0, <1>7, <1>10 DEF PushFrontOther, Goto
  <2>3. Links(s, m, NULL)'
    BY <1>0, <2>1, <2>2 DEF PushingFront, Links
  <2>4. PushingFront(t, s)'
    BY <1>0, <1>6, <2>1, <2>2, <2>3 DEF PushingFront, BackOf, FrontOf
  <2> QED
    BY <1>8, <2>2, <2>4
<1>11. CASE PushFrontLink(t)
  <2>1. at[t] = "link" /\ PushingFront(t, s)
    BY <1>1, <1>3, <1>11 DEF PushFrontLink, In, ShapeAt, Changing
  <2>2. /\ at'[t] = "swing" /\ bottom' = bottom /\ top' = top /\ next' = next
        /\ prev' = [prev EXCEPT ![m] = top]
    BY <1>0, <1>7, <1>11 DEF PushFrontLink, Goto
  <2>3. prev'[m] = top /\ \A i \in 1..Len(s) : prev'[s[i]] = prev[s[i]]
    BY <1>4, <1>5, <1>7, <2>2
  <2>4. Links(s, m, NULL)'
    BY <1>0, <2>1, <2>2, <2>3 DEF PushingFront, Links
  <2>5. PushingFront(t, s)'
    BY <1>0, <1>6, <2>1, <2>2, <2>3, <2>4 DEF PushingFront, BackOf, FrontOf
  <2> QED
    BY <1>8, <2>2, <2>5
<1>12. CASE PushFrontSwing(t)
  <2>1. at[t] = "swing" /\ PushingFront(t, s)
    BY <1>1, <1>3, <1>12 DEF PushFrontSwing, In, ShapeAt, Changing
  <2>2. at'[t] = "unlock" /\ bottom' = bottom /\ top' = m /\ next' = next /\ prev' = prev
    BY <1>0, <1>7, <1>12 DEF PushFrontSwing, Goto
  <2>3. Links(s, m, NULL)'
    BY <1>0, <2>1, <2>2 DEF PushingFront, Links
  <2>4. PushingFront(t, s)'
    BY <1>0, <1>6, <2>1, <2>2, <2>3 DEF PushingFront, BackOf, FrontOf
  <2> QED
    BY <1>8, <2>2, <2>4
<1> QED
  BY <1>9, <1>10, <1>11, <1>12

LEMMA PopFrontShape ==
  ASSUME NEW s, Before(s), NEW t \in Threads, PopFrontTest(t) \/ PopFrontOther(t)
  PROVE  ListShape(s)' /\ own' = own
<1>1. op[t] = "pop_front" /\ at[t] \in {"test", "other"} /\ Critical(t)
  BY DEF PopFrontTest, PopFrontOther, In, Critical
<1>2. TypeOK /\ CallsAgree /\ MutualExclusion /\ Holding /\ Orders(s, InQueue) /\ ListShape(s)
  BY DEF Before, IInv
<1>3. ShapeAt(t, s) /\ \A u \in Threads \ {t} : ~Critical(u)
  BY <1>1, <1>2, ShapeNow
<1>4. /\ Len(s) \in Nat /\ (s = <<>> <=> Len(s) = 0)
      /\ \A i \in 1..Len(s) : s[i] \in Messages /\ s[i] # NULL
      /\ \A i, j \in 1..Len(s) : s[i] = s[j] => i = j
  BY <1>2, QueuedFacts
<1>6. op' = op /\ own' = own /\ \A u \in Threads \ {t} : at'[u] = at[u]
  BY <1>2 DEF PopFrontTest, PopFrontOther, Goto, TypeOK
<1>7. /\ prev \in [Messages -> Pointer] /\ next \in [Messages -> Pointer]
      /\ at \in [Threads -> Steps] /\ msg \in [Threads -> Pointer]
  BY <1>2 DEF TypeOK
<1>8. ASSUME at'[t] \in {"other", "swing", "unlock"}, PoppingFront(t, s)'
      PROVE  ListShape(s)' /\ own' = own
  <2>1. ShapeAt(t, s)'
    BY <1>1, <1>6, <1>8 DEF ShapeAt, Changing
  <2> QED
    BY <1>3, <1>6, <2>1, ShapeNext
<1>9. CASE PopFrontTest(t)
  <2>1. at[t] = "test" /\ Whole(s)
    BY <1>1, <1>3, <1>9 DEF PopFrontTest, In, ShapeAt, Changing
  <2>2. CASE top = NULL
    <3>1. at'[t] = "unlock" /\ bottom' = bottom /\ top' = top /\ next' = next /\ prev' = prev
      BY <1>7, <1>9, <2>2 DEF PopFrontTest, Goto
    <3>2. PoppingFront(t, s)'
      BY <2>1, <3>1 DEF PoppingFront, Whole, Links
    <3> QED
      BY <1>8, <3>1, <3>2
  <2>3. CASE top # NULL
    <3>1. /\ s # <<>> /\ top = s[1] /\ 1 \in 1..Len(s)
          /\ prev[top] = IF 1 = Len(s) THEN NULL ELSE s[2]
      <4>1. s # <<>> /\ top = s[1] /\ Links(s, NULL, NULL)
        BY <2>1, <2>3 DEF Whole, FrontOf
      <4>2. 1 \in 1..Len(s)
        BY <1>4, <4>1
      <4>3. prev[s[1]] = IF 1 = Len(s) THEN NULL ELSE s[1 + 1]
        BY <4>1, <4>2 DEF Links
      <4> QED
        BY <4>1, <4>2, <4>3
    <3>2. /\ at'[t] = "swing" /\ bottom' = bottom /\ top' = top /\ prev' = prev /\ msg'[t] = top
          /\ next' = IF prev[top] # NULL THEN [next EXCEPT ![prev[top]] = NULL] ELSE next
      BY <1>7, <1>9, <2>3 DEF PopFrontTest, Goto
    <3>3. ASSUME NEW i \in 1..Len(s)
          PROVE  /\ prev'[s[i]] = IF i = Len(s) THEN NULL ELSE s[i + 1]
                 /\ next'[s[i]] = IF i <= 2 THEN NULL ELSE s[i - 1]
      <4>1. /\ prev[s[i]] = IF i = Len(s) THEN NULL ELSE s[i + 1]
            /\ next[s[i]] = IF i = 1 THEN NULL ELSE s[i - 1]
        BY <2>1 DEF Whole, Links
      <4>2. next'[s[i]] = IF i = 2 THEN NULL ELSE next[s[i]]
        <5>1. CASE Len(s) = 1
          BY <3>1, <3>2, <5>1
        <5>2. CASE Len(s) # 1
          <6>1. 2 \in 1..Len(s) /\ prev[top] = s[2] /\ s[2] # NULL
            <7>1. 2 \in 1..Len(s)
              <8>1. PICK n \in Nat : n = Len(s) /\ n # 0 /\ n # 1
                BY <1>4, <3>1, <5>2
              <8> QED
                BY <8>1
            <7> QED
              BY <1>4, <3>1, <5>2, <7>1
          <6> QED
            BY <1>4, <1>7, <3>2, <6>1
        <5> QED
          BY <5>1, <5>2
      <4> QED
        BY <3>2, <4>1, <4>2
    <3>4. top' = FrontOf(s, NULL) /\ bottom' = BackOf(s, NULL)
      BY <2>1, <3>2 DEF Whole
    <3>5. PoppingFront(t, s)'
      BY <3>1, <3>2, <3>3, <3>4 DEF PoppingFront, FrontOf, BackOf
    <3> QED
      BY <1>8, <3>2, <3>5
  <2> QED
    BY <2>2, <2>3
<1>10. CASE PopFrontOther(t)
  <2>1. /\ at[t] = "other" /\ Links(s, NULL, NULL) /\ top = FrontOf(s, NULL)
        /\ bottom = BackOf(s, msg[t])
    BY <1>1, <1>3, <1>10 DEF PopFrontOther, In, ShapeAt, Changing, PoppingFront
  <2>2. /\ at'[t] = "unlock" /\ top' = top /\ prev' = prev /\ next' = next
        /\ bottom' = IF top = NULL THEN NULL ELSE bottom
    BY <1>7, <1>10 DEF PopFrontOther, Goto
  <2>3. Links(s, NULL, NULL)'
    BY <2>1, <2>2 DEF Links
  <2>4. bottom' = BackOf(s, NULL) /\ top' = FrontOf(s, NULL)
    BY <1>4, <2>1, <2>2 DEF FrontOf, BackOf
  <2>5. PoppingFront(t, s)'
    BY <2>2, <2>3, <2>4 DEF PoppingFront, Whole, FrontOf, BackOf
  <2> QED
    BY <1>8, <2>2, <2>5
<1> QED
  BY <1>9, <1>10

LEMMA PopBackShape ==
  ASSUME NEW s, Before(s), NEW t \in Threads, PopBackSwing(t) \/ PopBackOther(t)
  PROVE  ListShape(s)' /\ own' = own
<1>1. op[t] = "pop_back" /\ at[t] \in {"swing", "other"} /\ Critical(t)
  BY DEF PopBackSwing, PopBackOther, In, Critical
<1>2. TypeOK /\ CallsAgree /\ MutualExclusion /\ Holding /\ Orders(s, InQueue) /\ ListShape(s)
  BY DEF Before, IInv
<1>3. ShapeAt(t, s) /\ \A u \in Threads \ {t} : ~Critical(u)
  BY <1>1, <1>2, ShapeNow
<1>4. /\ Len(s) \in Nat /\ (s = <<>> <=> Len(s) = 0)
      /\ \A i \in 1..Len(s) : s[i] \in Messages /\ s[i] # NULL
  BY <1>2, QueuedFacts
<1>6. op' = op /\ own' = own /\ msg' = msg /\ \A u \in Threads \ {t} : at'[u] = at[u]
  BY <1>2 DEF PopBackSwing, PopBackOther, Goto, TypeOK
<1>7. at \in [Threads -> Steps] /\ msg[t] # NULL
  BY <1>1, <1>2 DEF TypeOK, CallsAgree
<1>8. ASSUME at'[t] \in {"other", "unlock"}, PoppingBack(t, s)'
      PROVE  ListShape(s)' /\ own' = own
  <2>1. ShapeAt(t, s)'
    BY <1>1, <1>6, <1>8 DEF ShapeAt, Changing
  <2> QED
    BY <1>3, <1>6, <2>1, ShapeNext
<1>9. CASE PopBackSwing(t)
  <2>1. /\ at[t] = "swing" /\ Links(s, NULL, NULL) /\ top = FrontOf(s, msg[t])
        /\ next[msg[t]] = BackOf(s, NULL)
    BY <1>1, <1>3, <1>9 DEF PopBackSwing, In, ShapeAt, Changing, PoppingBack
  <2>2. /\ at'[t] = "other" /\ top' = top /\ prev' = prev /\ next' = next
        /\ bottom' = next[msg[t]]
    BY <1>7, <1>9 DEF PopBackSwing, Goto
  <2>3. Links(s, NULL, NULL)'
    BY <2>1, <2>2 DEF Links
  <2>4. PoppingBack(t, s)'
    BY <1>6, <2>1, <2>2, <2>3 DEF PoppingBack, FrontOf, BackOf
  <2> QED
    BY <1>8, <2>2, <2>4
<1>10. CASE PopBackOther(t)
  <2>1. /\ at[t] = "other" /\ Links(s, NULL, NULL) /\ top = FrontOf(s, msg[t])
        /\ bottom = BackOf(s, NULL)
    BY <1>1, <1>3, <1>10 DEF PopBackOther, In, ShapeAt, Changing, PoppingBack
  <2>2. /\ at'[t] = "unlock" /\ bottom' = bottom /\ prev' = prev /\ next' = next
        /\ top' = IF bottom = NULL THEN NULL ELSE top
    BY <1>7, <1>10 DEF PopBackOther, Goto
  <2>3. Links(s, NULL, NULL)'
    BY <2>1, <2>2 DEF Links
  <2>4. bottom' = BackOf(s, NULL) /\ top' = FrontOf(s, NULL)
    BY <1>4, <2>1, <2>2 DEF FrontOf, BackOf
  <2>5. PoppingBack(t, s)'
    BY <2>2, <2>3, <2>4 DEF PoppingBack, Whole, FrontOf, BackOf
  <2> QED
    BY <1>8, <2>2, <2>5
<1> QED
  BY <1>9, <1>10

\* A push enters the queue when it unlocks; a pop leaves the list whole.
LEMMA UnlockShape ==
  ASSUME NEW s, Before(s), NEW t \in Threads, SpinUnlock(t)
  PROVE  \/ own' = own /\ ListShape(s)'
         \/ /\ own[msg[t]] = t /\ own' = [own EXCEPT ![msg[t]] = Queued] /\ msg[t] \in Messages
            /\ InQueue' = InQueue \cup {msg[t]} /\ msg[t] \notin InQueue
            /\ \E z \in {Append(s, msg[t]), <<msg[t]>> \o s} : Orders(z, InQueue') /\ ListShape(z)'
<1>1. at[t] = "unlock" /\ Critical(t) /\ op[t] \in {"push_back", "push_front", "pop_front", "pop_back"}
  BY DEF SpinUnlock, Critical, Before, IInv, TypeOK, Holding, OpNames
<1>2. TypeOK /\ CallsAgree /\ MutualExclusion /\ Holding /\ Orders(s, InQueue) /\ ListShape(s)
  BY DEF Before, IInv
<1>3. ShapeAt(t, s) /\ \A u \in Threads \ {t} : ~Critical(u)
  BY <1>1, <1>2, ShapeNow
<1>4. /\ Len(s) \in Nat /\ (s = <<>> <=> Len(s) = 0)
      /\ \A i \in 1..Len(s) : s[i] \in Messages /\ s[i] # NULL /\ own[s[i]] = Queued
      /\ \A i, j \in 1..Len(s) : s[i] = s[j] => i = j
  BY <1>2, QueuedFacts
<1>5. /\ at'[t] \in {"idle", "reset"} /\ \A u \in Threads \ {t} : at'[u] = at[u]
      /\ prev' = prev /\ next' = next /\ top' = top /\ bottom' = bottom
  BY <1>2 DEF SpinUnlock, Goto, TypeOK
<1>6. ASSUME NEW z, Whole(z)' PROVE ListShape(z)'
  <2>1. ShapeAt(t, z)'
    BY <1>5, <1>6 DEF ShapeAt, Changing
  <2> QED
    BY <1>3, <1>5, <2>1, ShapeNext
<1>7. CASE op[t] \in {"pop_front", "pop_back"}
  <2>1. Whole(s) /\ own' = own
    BY <1>1, <1>3, <1>7 DEF ShapeAt, Changing, PoppingFront, PoppingBack, SpinUnlock
  <2>2. Whole(s)'
    BY <1>5, <2>1 DEF Whole, Links, FrontOf, BackOf
  <2> QED
    BY <1>6, <2>1, <2>2
<1>8. CASE op[t] \in {"push_back", "push_front"}
  <2>1. PICK m \in Messages : m = msg[t]
    BY <1>1, <1>2, <1>8 DEF TypeOK, CallsAgree, Pointer
  <2>2. own[m] = t /\ own' = [own EXCEPT ![m] = Queued] /\ own \in [Messages -> Threads \cup {Queued}]
    BY <1>1, <1>2, <1>8, <2>1 DEF SpinUnlock, Holding, TypeOK
  <2>3. InQueue' = InQueue \cup {m} /\ m \notin InQueue
    BY <2>2, SpinQueueAssumption DEF InQueue
  <2>4. CASE op[t] = "push_back"
    <3>1. /\ Links(s, NULL, m) /\ prev[m] = NULL /\ next[m] = BackOf(s, NULL)
          /\ top = FrontOf(s, m) /\ bottom = m
      BY <1>1, <1>3, <2>1, <2>4 DEF ShapeAt, Changing, PushingBack
    <3>2. PICK z : z = Append(s, m)
      OBVIOUS
    <3>3. PICK n \in Nat : n = Len(s)
      BY <1>4
    <3>4. /\ Orders(z, InQueue') /\ Len(z) = n + 1 /\ z[n + 1] = m
          /\ \A i \in 1..n : z[i] = s[i]
      BY <1>2, <2>3, <3>2, <3>3, OrdersAppend
    <3>5. z # <<>> /\ z[1] = FrontOf(s, m) /\ (n # 0 => z[n] = BackOf(s, NULL))
      <4>1. z # <<>>
        BY <3>3, <3>4, OrdersFacts
      <4>2. CASE n = 0
        BY <1>4, <3>3, <3>4, <4>1, <4>2 DEF FrontOf
      <4>3. CASE n # 0
        <5>1. s # <<>> /\ 1 \in 1..n /\ n \in 1..n
          BY <1>4, <3>3, <4>3
        <5> QED
          BY <3>3, <3>4, <4>1, <5>1 DEF FrontOf, BackOf
      <4> QED
        BY <4>2, <4>3
    <3>6. Links(z, NULL, NULL)'
      <4> SUFFICES ASSUME NEW i \in 1..(n + 1)
                   PROVE  /\ prev[z[i]] = IF i = n + 1 THEN NULL ELSE z[i + 1]
                          /\ next[z[i]] = IF i = 1 THEN NULL ELSE z[i - 1]
        BY <1>5, <3>4 DEF Links
      <4>1. CASE i = n + 1
        <5>1. n = 0 => BackOf(s, NULL) = NULL
          BY <1>4, <3>3 DEF BackOf
        <5>2. (n + 1) - 1 = n
          BY <3>3
        <5> QED
          BY <3>1, <3>4, <3>5, <4>1, <5>1, <5>2
      <4>2. CASE i # n + 1
        <5>1. i \in 1..n
          BY <4>2
        <5>2. /\ prev[s[i]] = IF i = n THEN m ELSE s[i + 1]
              /\ next[s[i]] = IF i = 1 THEN NULL ELSE s[i - 1]
          BY <3>1, <3>3, <5>1 DEF Links
        <5>3. prev[z[i]] = z[i + 1]
          <6>1. CASE i = n
            BY <3>4, <5>1, <5>2, <6>1
          <6>2. CASE i # n
            <7>1. i + 1 \in 1..n
              BY <5>1, <6>2
            <7> QED
              BY <3>4, <5>1, <5>2, <6>2, <7>1
          <6> QED
            BY <6>1, <6>2
        <5>4. next[z[i]] = IF i = 1 THEN NULL ELSE z[i - 1]
          <6>1. i # 1 => i - 1 \in 1..n
            BY <5>1
          <6> QED
            BY <3>4, <5>1, <5>2, <6>1
        <5> QED
          BY <4>2, <5>3, <5>4
      <4> QED
        BY <4>1, <4>2
    <3>7. Whole(z)'
      <4>1. top' = FrontOf(z, NULL) /\ bottom' = BackOf(z, NULL)
        BY <1>5, <3>1, <3>4, <3>5 DEF FrontOf, BackOf
      <4> QED
        BY <3>6, <4>1 DEF Whole, FrontOf, BackOf
    <3> QED
      BY <1>6, <2>1, <2>2, <2>3, <3>2, <3>4, <3>7
  <2>5. CASE op[t] = "push_front"
    <3>1. /\ Links(s, m, NULL) /\ next[m] = NULL /\ prev[m] = FrontOf(s, NULL)
          /\ bottom = BackOf(s, m) /\ top = m
      BY <1>1, <1>3, <2>1, <2>5 DEF ShapeAt, Changing, PushingFront
    <3>2. PICK z : z = <<m>> \o s
      OBVIOUS
    <3>3. PICK n \in Nat : n = Len(s)
      BY <1>4
    <3>4. /\ Orders(z, InQueue') /\ Len(z) = n + 1 /\ z[1] = m
          /\ \A i \in 1..n : z[i + 1] = s[i]
          /\ \A i \in 2..(n + 1) : z[i] = s[i - 1]
      BY <1>2, <2>3, <3>2, <3>3, OrdersPrepend
    <3>5. z # <<>> /\ z[n + 1] = BackOf(s, m) /\ (n # 0 => z[2] = FrontOf(s, NULL))
      <4>1. z # <<>>
        BY <3>3, <3>4, OrdersFacts
      <4>2. CASE n = 0
        BY <1>4, <3>3, <3>4, <4>1, <4>2 DEF BackOf
      <4>3. CASE n # 0
        <5>1. s # <<>> /\ 2 \in 2..(n + 1) /\ n \in 1..n
          BY <1>4, <3>3, <4>3
        <5>2. z[2] = s[1]
          <6>1. z[2] = s[2 - 1]
            BY <3>4, <5>1
          <6> QED
            BY <6>1
        <5> QED
          BY <3>3, <3>4, <4>1, <5>1, <5>2 DEF FrontOf, BackOf
      <4> QED
        BY <4>2, <4>3
    <3>6. Links(z, NULL, NULL)'
      <4> SUFFICES ASSUME NEW i \in 1..(n + 1)
                   PROVE  /\ prev[z[i]] = IF i = n + 1 THEN NULL ELSE z[i + 1]
                          /\ next[z[i]] = IF i = 1 THEN NULL ELSE z[i - 1]
        BY <1>5, <3>4 DEF Links
      <4>1. CASE i = 1
        <5>1. n = 0 => FrontOf(s, NULL) = NULL
          BY <1>4, <3>3 DEF FrontOf
        <5>2. 1 + 1 = 2 /\ (n = 0 <=> 1 = n + 1)
          BY <3>3
        <5> QED
          BY <3>1, <3>4, <3>5, <4>1, <5>1, <5>2
      <4>2. CASE i # 1
        <5>1. PICK j \in 1..n : j = i - 1 /\ i = j + 1
          <6>1. i - 1 \in 1..n /\ i = (i - 1) + 1
            BY <4>2
          <6> QED
            BY <6>1
        <5>2. /\ prev[s[j]] = IF j = n THEN NULL ELSE s[j + 1]
              /\ next[s[j]] = IF j = 1 THEN m ELSE s[j - 1]
          BY <3>1, <3>3, <5>1 DEF Links
        <5>3. z[i] = s[j]
          BY <3>4, <5>1
        <5>4. prev[z[i]] = IF i = n + 1 THEN NULL ELSE z[i + 1]
          <6>1. CASE j = n
            BY <5>1, <5>2, <5>3, <6>1
          <6>2. CASE j # n
            <7>1. j + 1 \in 1..n /\ i # n + 1 /\ (j + 1) + 1 = i + 1
              BY <5>1, <6>2
            <7>2. z[(j + 1) + 1] = s[j + 1]
              BY <3>4, <7>1
            <7> QED
              BY <5>2, <5>3, <6>2, <7>1, <7>2
          <6> QED
            BY <6>1, <6>2
        <5>5. next[z[i]] = z[i - 1]
          <6>1. CASE j = 1
            BY <3>4, <5>1, <5>2, <5>3, <6>1
          <6>2. CASE j # 1
            <7>1. j - 1 \in 1..n /\ (j - 1) + 1 = i - 1
              BY <5>1, <6>2
            <7>2. z[(j - 1) + 1] = s[j - 1]
              BY <3>4, <7>1
            <7> QED
              BY <5>2, <5>3, <6>2, <7>1, <7>2
          <6> QED
            BY <6>1, <6>2
        <5> QED
          BY <4>2, <5>4, <5>5
      <4> QED
        BY <4>1, <4>2
    <3>7. Whole(z)'
      <4>1. top' = FrontOf(z, NULL) /\ bottom' = BackOf(z, NULL)
        BY <1>5, <3>1, <3>4, <3>5 DEF FrontOf, BackOf
      <4> QED
        BY <3>6, <4>1 DEF Whole, FrontOf, BackOf
    <3> QED
      BY <1>6, <2>1, <2>2, <2>3, <3>2, <3>4, <3>7
  <2> QED
    BY <1>8, <2>4, <2>5
<1> QED
  BY <1>1, <1>7, <1>8

\* pop_front takes the first container of the queue.
LEMMA PopFrontSwingShape ==
  ASSUME NEW s, Before(s), NEW t \in Threads, PopFrontSwing(t)
  PROVE  /\ s # <<>> /\ msg[t] = s[1] /\ s[1] \in Messages
         /\ InQueue' = InQueue \ {s[1]}
         /\ Orders(Tail(s), InQueue') /\ ListShape(Tail(s))'
<1>1. op[t] = "pop_front" /\ at[t] = "swing" /\ Critical(t)
  BY DEF PopFrontSwing, In, Critical
<1>2. TypeOK /\ CallsAgree /\ MutualExclusion /\ Holding /\ Orders(s, InQueue) /\ ListShape(s)
  BY DEF Before, IInv
<1>3. ShapeAt(t, s) /\ \A u \in Threads \ {t} : ~Critical(u)
  BY <1>1, <1>2, ShapeNow
<1>4. /\ Len(s) \in Nat /\ (s = <<>> <=> Len(s) = 0)
      /\ \A i \in 1..Len(s) : s[i] \in Messages /\ s[i] # NULL /\ own[s[i]] = Queued
      /\ \A i, j \in 1..Len(s) : s[i] = s[j] => i = j
  BY <1>2, QueuedFacts
<1>5. /\ at'[t] = "other" /\ \A u \in Threads \ {t} : at'[u] = at[u]
      /\ prev' = prev /\ next' = next /\ top' = prev[msg[t]] /\ bottom' = bottom
      /\ op' = op /\ msg' = msg /\ own' = [own EXCEPT ![msg[t]] = t]
  BY <1>2 DEF PopFrontSwing, Goto, TypeOK
<1>6. /\ s # <<>> /\ msg[t] = s[1] /\ bottom = BackOf(s, NULL)
      /\ \A i \in 1..Len(s) :
           /\ prev[s[i]] = IF i = Len(s) THEN NULL ELSE s[i + 1]
           /\ next[s[i]] = IF i <= 2 THEN NULL ELSE s[i - 1]
  BY <1>1, <1>3 DEF ShapeAt, Changing, PoppingFront
<1>7. PICK n \in Nat : Len(s) = n + 1
  <2>1. Len(s) - 1 \in Nat /\ Len(s) = (Len(s) - 1) + 1
    BY <1>4, <1>6
  <2> QED
    BY <2>1
<1>8. s[1] \in Messages /\ own[s[1]] = Queued /\ own \in [Messages -> Threads \cup {Queued}]
  <2>1. 1 \in 1..Len(s)
    BY <1>7
  <2> QED
    BY <1>2, <1>4, <2>1 DEF TypeOK
<1>9. InQueue' = InQueue \ {s[1]}
  BY <1>5, <1>6, <1>8, SpinQueueAssumption DEF InQueue
<1>10. PICK z : z = Tail(s)
  OBVIOUS
<1>11. Orders(z, InQueue') /\ Len(z) = n /\ \A i \in 1..n : z[i] = s[i + 1]
  <2>1. (n + 1) - 1 = n
    BY <1>7
  <2> QED
    BY <1>2, <1>6, <1>7, <1>9, <1>10, <2>1, OrdersTail
<1>12. z = <<>> <=> n = 0
  BY <1>11, OrdersFacts
<1>13. Links(z, NULL, NULL)'
  <2> SUFFICES ASSUME NEW i \in 1..n
               PROVE  /\ prev[z[i]] = IF i = n THEN NULL ELSE z[i + 1]
                      /\ next[z[i]] = IF i = 1 THEN NULL ELSE z[i - 1]
    BY <1>5, <1>11 DEF Links
  <2>1. i + 1 \in 1..Len(s) /\ (i = n <=> i + 1 = Len(s)) /\ (i = 1 <=> i + 1 <= 2) /\ (i + 1) - 1 = i
    BY <1>7
  <2>2. /\ prev[s[i + 1]] = IF i = n THEN NULL ELSE s[(i + 1) + 1]
        /\ next[s[i + 1]] = IF i = 1 THEN NULL ELSE s[i]
    BY <1>6, <2>1
  <2>3. i # n => z[i + 1] = s[(i + 1) + 1]
    <3>1. i # n => i + 1 \in 1..n
      OBVIOUS
    <3> QED
      BY <1>11, <3>1
  <2>4. i # 1 => z[i - 1] = s[i]
    <3>1. i # 1 => i - 1 \in 1..n /\ (i - 1) + 1 = i
      OBVIOUS
    <3> QED
      BY <1>11, <3>1
  <2> QED
    BY <1>11, <2>2, <2>3, <2>4
<1>14. top' = FrontOf(z, NULL) /\ bottom' = BackOf(z, msg[t])
  <2>1. 1 \in 1..Len(s) /\ (1 = Len(s) <=> n = 0)
    BY <1>7
  <2>2. prev[s[1]] = IF n = 0 THEN NULL ELSE s[1 + 1]
    BY <1>6, <2>1
  <2>3. n # 0 => z[1] = s[1 + 1] /\ z[n] = s[n + 1]
    BY <1>11
  <2> QED
    BY <1>5, <1>6, <1>7, <1>11, <1>12, <2>2, <2>3 DEF FrontOf, BackOf
<1>15. ListShape(z)'
  <2>1. PoppingFront(t, z)'
    BY <1>5, <1>13, <1>14 DEF PoppingFront, FrontOf, BackOf
  <2>2. ShapeAt(t, z)'
    BY <1>1, <1>5, <2>1 DEF ShapeAt, Changing
  <2> QED
    BY <1>3, <1>5, <2>2, ShapeNext
<1> QED
  BY <1>6, <1>8, <1>9, <1>10, <1>11, <1>15

\* pop_back takes the last one, or reads NULL and stops.
LEMMA PopBackTestShape ==
  ASSUME NEW s, Before(s), NEW t \in Threads, PopBackTest(t)
  PROVE  \/ own' = own /\ got' = got /\ ListShape(s)'
         \/ /\ s # <<>> /\ bottom = s[Len(s)] /\ bottom \in Messages
            /\ own' = [own EXCEPT ![bottom] = t] /\ got' = [got EXCEPT ![t] = bottom]
            /\ InQueue' = InQueue \ {bottom}
            /\ Orders(SubSeq(s, 1, Len(s) - 1), InQueue') /\ ListShape(SubSeq(s, 1, Len(s) - 1))'
<1>1. op[t] = "pop_back" /\ at[t] = "test" /\ Critical(t)
  BY DEF PopBackTest, In, Critical
<1>2. TypeOK /\ CallsAgree /\ MutualExclusion /\ Holding /\ Orders(s, InQueue) /\ ListShape(s)
  BY DEF Before, IInv
<1>3. ShapeAt(t, s) /\ \A u \in Threads \ {t} : ~Critical(u)
  BY <1>1, <1>2, ShapeNow
<1>4. /\ Len(s) \in Nat /\ (s = <<>> <=> Len(s) = 0)
      /\ \A i \in 1..Len(s) : s[i] \in Messages /\ s[i] # NULL /\ own[s[i]] = Queued
      /\ \A i, j \in 1..Len(s) : s[i] = s[j] => i = j
  BY <1>2, QueuedFacts
<1>5. /\ \A u \in Threads \ {t} : at'[u] = at[u]
      /\ top' = top /\ bottom' = bottom /\ next' = next /\ op' = op /\ msg'[t] = bottom
  BY <1>2 DEF PopBackTest, Goto, TypeOK
<1>6. Whole(s)
  BY <1>1, <1>3 DEF ShapeAt, Changing
<1>7. ASSUME NEW z, at'[t] \in {"swing", "crashed"}, PoppingBack(t, z)' PROVE ListShape(z)'
  <2>1. ShapeAt(t, z)'
    BY <1>1, <1>5, <1>7 DEF ShapeAt, Changing
  <2> QED
    BY <1>3, <1>5, <2>1, ShapeNext
<1>8. CASE bottom = NULL
  <2>1. at'[t] = "crashed" /\ prev' = prev /\ own' = own /\ got' = got
    BY <1>2, <1>8 DEF PopBackTest, Goto, TypeOK
  <2>2. PoppingBack(t, s)'
    BY <1>5, <1>6, <2>1 DEF PoppingBack, Whole, Links, FrontOf, BackOf
  <2> QED
    BY <1>7, <2>1, <2>2
<1>9. CASE bottom # NULL
  <2>1. s # <<>> /\ bottom = s[Len(s)] /\ top = s[1] /\ Links(s, NULL, NULL)
    BY <1>6, <1>9 DEF Whole, FrontOf, BackOf
  <2>2. PICK n \in Nat : Len(s) = n + 1
    <3>1. Len(s) - 1 \in Nat /\ Len(s) = (Len(s) - 1) + 1
      BY <1>4, <2>1
    <3> QED
      BY <3>1
  <2>3. n + 1 \in 1..Len(s) /\ Len(s) - 1 = n /\ (1 = n + 1 <=> n = 0) /\ (n + 1) - 1 = n
    BY <2>2
  <2>4. bottom \in Messages /\ own[bottom] = Queued /\ own \in [Messages -> Threads \cup {Queued}]
    BY <1>2, <1>4, <2>1, <2>2, <2>3 DEF TypeOK
  <2>5. next[bottom] = IF n = 0 THEN NULL ELSE s[n]
    BY <2>1, <2>2, <2>3 DEF Links
  <2>6. /\ at'[t] = "swing" /\ own' = [own EXCEPT ![bottom] = t]
        /\ got' = [got EXCEPT ![t] = bottom]
        /\ prev' = IF next[bottom] # NULL THEN [prev EXCEPT ![next[bottom]] = NULL] ELSE prev
    BY <1>2, <1>9 DEF PopBackTest, Goto, TypeOK
  <2>7. InQueue' = InQueue \ {bottom}
    BY <2>4, <2>6, SpinQueueAssumption DEF InQueue
  <2>8. PICK z : z = SubSeq(s, 1, Len(s) - 1)
    OBVIOUS
  <2>9. Orders(z, InQueue') /\ Len(z) = n /\ \A i \in 1..n : z[i] = s[i]
    BY <1>2, <2>1, <2>3, <2>7, <2>8, OrdersButLast
  <2>10. z = <<>> <=> n = 0
    BY <2>9, OrdersFacts
  <2>11. Links(z, NULL, NULL)'
    <3> SUFFICES ASSUME NEW i \in 1..n
                 PROVE  /\ prev'[z[i]] = IF i = n THEN NULL ELSE z[i + 1]
                        /\ next[z[i]] = IF i = 1 THEN NULL ELSE z[i - 1]
      BY <1>5, <2>9 DEF Links
    <3>1. i \in 1..Len(s) /\ i # Len(s) /\ n \in 1..Len(s) /\ n # 0
      BY <2>2
    <3>2. prev[s[i]] = s[i + 1] /\ next[s[i]] = IF i = 1 THEN NULL ELSE s[i - 1]
      BY <2>1, <3>1 DEF Links
    <3>3. prev'[s[i]] = IF i = n THEN NULL ELSE prev[s[i]]
      <4>1. next[bottom] = s[n] /\ s[n] # NULL /\ s[n] \in Messages /\ s[i] \in Messages
        BY <1>4, <2>5, <3>1
      <4>2. prev' = [prev EXCEPT ![s[n]] = NULL] /\ prev \in [Messages -> Pointer]
        BY <1>2, <2>6, <4>1 DEF TypeOK
      <4>3. s[i] = s[n] <=> i = n
        BY <1>4, <3>1
      <4> QED
        BY <4>1, <4>2, <4>3
    <3>4. (i # n => i + 1 \in 1..n) /\ (i # 1 => i - 1 \in 1..n)
      OBVIOUS
    <3>5. (i # n => z[i + 1] = s[i + 1]) /\ (i # 1 => z[i - 1] = s[i - 1])
      BY <2>9, <3>4
    <3> QED
      BY <2>9, <3>2, <3>3, <3>5
  <2>12. n # 0 => z[1] = s[1] /\ z[n] = s[n]
    BY <2>9
  <2>13. PoppingBack(t, z)'
    <3>1. next'[bottom] = BackOf(z, NULL)
      BY <1>5, <2>5, <2>9, <2>10, <2>12 DEF BackOf
    <3>2. top' = FrontOf(z, bottom)
      BY <1>5, <2>1, <2>2, <2>3, <2>10, <2>12 DEF FrontOf
    <3> QED
      BY <1>5, <2>6, <2>11, <3>1, <3>2 DEF PoppingBack, FrontOf, BackOf
  <2>14. ListShape(z)'
    BY <1>7, <2>6, <2>13
  <2> QED
    BY <2>1, <2>4, <2>6, <2>7, <2>8, <2>9, <2>14
<1> QED
  BY <1>8, <1>9

---------------------------------------------------------------------------
(* What threads hold                                                        *)

\* The ends that a thread with the lock reads are in the queue.
EndsQueued(t) ==
  /\ at[t] = "test" =>
       /\ top # NULL => own[top] = Queued /\ (prev[top] # NULL => own[prev[top]] = Queued)
       /\ bottom # NULL => own[bottom] = Queued /\ (next[bottom] # NULL => own[next[bottom]] = Queued)
  /\ In(t, "pop_front", "swing") => own[msg[t]] = Queued

LEMMA EndsAreQueued ==
  ASSUME NEW s, Before(s), NEW t \in Threads
  PROVE  EndsQueued(t)
<1>1. TypeOK /\ MutualExclusion /\ Holding /\ Orders(s, InQueue) /\ ListShape(s)
  BY DEF Before, IInv
<1>2. /\ Len(s) \in Nat /\ (s = <<>> <=> Len(s) = 0)
      /\ \A i \in 1..Len(s) : s[i] \in Messages /\ own[s[i]] = Queued
  BY <1>1, QueuedFacts
<1>3. s # <<>> => 1 \in 1..Len(s) /\ Len(s) \in 1..Len(s)
  BY <1>2
<1>4. ASSUME at[t] = "test"
      PROVE  /\ top # NULL => own[top] = Queued /\ (prev[top] # NULL => own[prev[top]] = Queued)
             /\ bottom # NULL => own[bottom] = Queued /\ (next[bottom] # NULL => own[next[bottom]] = Queued)
  <2>1. Whole(s)
    BY <1>1, <1>4, ShapeNow DEF Critical, ShapeAt, Changing
  <2>2. ASSUME top # NULL
        PROVE own[top] = Queued /\ (prev[top] # NULL => own[prev[top]] = Queued)
    <3>1. s # <<>> /\ top = s[1] /\ Links(s, NULL, NULL)
      BY <2>1, <2>2 DEF Whole, FrontOf
    <3>2. prev[s[1]] = IF 1 = Len(s) THEN NULL ELSE s[1 + 1]
      BY <1>3, <3>1 DEF Links
    <3>3. 1 # Len(s) => 1 + 1 \in 1..Len(s)
      <4>1. PICK n \in Nat : n = Len(s) /\ n # 0
        BY <1>2, <3>1
      <4> QED
        BY <4>1
    <3> QED
      BY <1>2, <1>3, <3>1, <3>2, <3>3
  <2>3. ASSUME bottom # NULL
        PROVE own[bottom] = Queued /\ (next[bottom] # NULL => own[next[bottom]] = Queued)
    <3>1. s # <<>> /\ bottom = s[Len(s)] /\ Links(s, NULL, NULL)
      BY <2>1, <2>3 DEF Whole, BackOf
    <3>2. next[s[Len(s)]] = IF Len(s) = 1 THEN NULL ELSE s[Len(s) - 1]
      BY <1>3, <3>1 DEF Links
    <3>3. 1 # Len(s) => Len(s) - 1 \in 1..Len(s)
      <4>1. PICK n \in Nat : n = Len(s) /\ n # 0
        BY <1>2, <3>1
      <4> QED
        BY <4>1
    <3> QED
      BY <1>2, <1>3, <3>1, <3>2, <3>3
  <2> QED
    BY <2>2, <2>3
<1>5. ASSUME In(t, "pop_front", "swing") PROVE own[msg[t]] = Queued
  <2>1. s # <<>> /\ msg[t] = s[1]
    BY <1>1, <1>5, ShapeNow DEF In, Critical, ShapeAt, Changing, PoppingFront
  <2> QED
    BY <1>2, <1>3, <2>1
<1> QED
  BY <1>4, <1>5 DEF EndsQueued

LEMMA HoldingStep ==
  ASSUME TypeOK, CallsAgree, Holding, NEW t \in Threads, EndsQueued(t), Call(t) \/ Step(t)
  PROVE  Holding'
<1> USE SpinQueueAssumption DEF TypeOK, CallsAgree, Holding, Goto, In, Pointer, OpNames
<1>1. ASSUME NEW o \in OpNames, NEW m \in Messages, CallPush(t, o, m) PROVE Holding'
  BY <1>1 DEF CallPush
<1>2. CASE CallPopFront(t)
  BY <1>2 DEF CallPopFront
<1>3. CASE CallPopBack(t)
  BY <1>3 DEF CallPopBack
<1>4. CASE Poll(t)
  BY <1>4 DEF Poll
<1>5. CASE PopBackPeek(t)
  BY <1>5 DEF PopBackPeek
<1>6. CASE SpinLock(t)
  BY <1>6 DEF SpinLock
<1>7. CASE SpinUnlock(t)
  BY <1>7 DEF SpinUnlock
<1>8. CASE PopReset(t)
  BY <1>8 DEF PopReset
<1>9. CASE PushBackTest(t)
  BY <1>9 DEF PushBackTest, EndsQueued
<1>10. CASE PushBackOther(t)
  BY <1>10 DEF PushBackOther
<1>11. CASE PushBackLink(t)
  BY <1>11 DEF PushBackLink
<1>12. CASE PushBackSwing(t)
  BY <1>12 DEF PushBackSwing
<1>13. CASE PushFrontTest(t)
  BY <1>13 DEF PushFrontTest, EndsQueued
<1>14. CASE PushFrontOther(t)
  BY <1>14 DEF PushFrontOther
<1>15. CASE PushFrontLink(t)
  BY <1>15 DEF PushFrontLink
<1>16. CASE PushFrontSwing(t)
  BY <1>16 DEF PushFrontSwing
<1>17. CASE PopFrontTest(t)
  BY <1>17 DEF PopFrontTest, EndsQueued
<1>18. CASE PopFrontSwing(t)
  BY <1>18 DEF PopFrontSwing, EndsQueued
<1>19. CASE PopFrontOther(t)
  BY <1>19 DEF PopFrontOther
<1>20. CASE PopBackTest(t)
  BY <1>20 DEF PopBackTest, EndsQueued
<1>21. CASE PopBackSwing(t)
  BY <1>21 DEF PopBackSwing
<1>22. CASE PopBackOther(t)
  BY <1>22 DEF PopBackOther
<1> QED
  BY <1>1, <1>2, <1>3, <1>4, <1>5, <1>6, <1>7, <1>8, <1>9, <1>10, <1>11, <1>12, <1>13, <1>14, <1>15, <1>16, <1>17, <1>18, <1>19, <1>20, <1>21, <1>22 DEF Call, Step

---------------------------------------------------------------------------
(* The invariant of the list                                                *)

LEMMA EmptyEnds ==
  ASSUME NEW s, Before(s), top = NULL \/ bottom = NULL
  PROVE  s = <<>>
<1>1. TypeOK /\ CallsAgree /\ MutualExclusion /\ Holding /\ Orders(s, InQueue) /\ ListShape(s)
  BY DEF Before, IInv
<1>2. s # <<>> => s[1] # NULL /\ s[Len(s)] # NULL
  <2>1. /\ Len(s) \in Nat /\ (s = <<>> <=> Len(s) = 0)
        /\ \A i \in 1..Len(s) : s[i] # NULL
    BY <1>1, QueuedFacts
  <2>2. s # <<>> => 1 \in 1..Len(s) /\ Len(s) \in 1..Len(s)
    BY <2>1
  <2> QED
    BY <2>1, <2>2
<1>3. CASE \A t \in Threads : ~Changing(t)
  BY <1>1, <1>2, <1>3 DEF ListShape, Whole, FrontOf, BackOf
<1>4. CASE \E t \in Threads : Changing(t)
  <2>1. PICK t \in Threads : Changing(t)
    BY <1>4
  <2>2. op[t] \in {"push_back", "push_front", "pop_front", "pop_back"}
    BY <1>1, <2>1 DEF TypeOK, Holding, OpNames, Changing
  <2>3. CASE op[t] = "push_back"
    <3>1. PushingBack(t, s) /\ msg[t] # NULL
      BY <1>1, <2>1, <2>3 DEF ListShape, CallsAgree, Changing
    <3> QED
      BY <1>2, <3>1 DEF PushingBack, FrontOf, BackOf
  <2>4. CASE op[t] = "push_front"
    <3>1. PushingFront(t, s) /\ msg[t] # NULL
      BY <1>1, <2>1, <2>4 DEF ListShape, CallsAgree, Changing
    <3> QED
      BY <1>2, <3>1 DEF PushingFront, FrontOf, BackOf
  <2>5. CASE op[t] = "pop_front"
    <3>1. PoppingFront(t, s)
      BY <1>1, <2>1, <2>5 DEF ListShape
    <3> QED
      BY <1>2, <3>1 DEF PoppingFront, Whole, FrontOf, BackOf
  <2>6. CASE op[t] = "pop_back"
    <3>1. PoppingBack(t, s) /\ (at[t] = "swing" => msg[t] # NULL)
      BY <1>1, <2>1, <2>6 DEF ListShape, CallsAgree
    <3> QED
      BY <1>2, <3>1 DEF PoppingBack, Whole, FrontOf, BackOf
  <2> QED
    BY <2>2, <2>3, <2>4, <2>5, <2>6
<1> QED
  BY <1>3, <1>4

\* What a step may do to the sequence, and to who holds and got what: nothing, or one
\* operation of Deque.
Moves(s, z) ==
  \/ z = s /\ own' = own /\ got' = got
  \/ \E t \in Threads, m \in Messages :
       /\ own[m] = t /\ own' = [own EXCEPT ![m] = Queued] /\ got' = got
       /\ z \in {Append(s, m), <<m>> \o s}
  \/ \E t \in Threads :
       s # <<>> /\ z = Tail(s) /\ got' = [got EXCEPT ![t] = s[1]] /\ own' = [own EXCEPT ![s[1]] = t]
  \/ \E t \in Threads :
       /\ s # <<>> /\ z = SubSeq(s, 1, Len(s) - 1)
       /\ got' = [got EXCEPT ![t] = s[Len(s)]] /\ own' = [own EXCEPT ![s[Len(s)]] = t]
  \/ \E t \in Threads : s = <<>> /\ z = <<>> /\ got' = [got EXCEPT ![t] = NULL] /\ own' = own
  \/ \E t, u \in Threads, m \in Messages :
       z = s /\ own[m] = t /\ own' = [own EXCEPT ![m] = u] /\ got' = got

After(s) == \E z : Orders(z, InQueue') /\ ListShape(z)' /\ Moves(s, z)

LEMMA SameOwners == own' = own => InQueue' = InQueue
BY DEF InQueue

LEMMA OutsideStep ==
  ASSUME NEW s, Before(s), NEW t \in Threads,
         \/ Call(t) \/ PopBackPeek(t) \/ SpinLock(t) \/ PopReset(t)
  PROVE  After(s)
<1>1. TypeOK /\ CallsAgree /\ Holding /\ Orders(s, InQueue) /\ ListShape(s)
  BY DEF Before, IInv
<1>2. own' = own /\ Orders(s, InQueue')
  BY <1>1, SameOwners
     DEF Call, CallPush, CallPopFront, CallPopBack, Poll, PopBackPeek, SpinLock, PopReset
<1>3. /\ top' = top /\ bottom' = bottom /\ ~Changing(t) /\ ~Changing(t)'
      /\ \A u \in Threads \ {t} : at'[u] = at[u] /\ op'[u] = op[u] /\ msg'[u] = msg[u]
  <2> USE <1>1 DEF TypeOK, Goto, In, Changing
  <2>1. ASSUME NEW o \in OpNames, NEW m \in Messages, CallPush(t, o, m) PROVE <1>3!:
    BY <2>1 DEF CallPush
  <2>2. CASE CallPopFront(t)
    BY <2>2 DEF CallPopFront
  <2>3. CASE CallPopBack(t)
    BY <2>3 DEF CallPopBack
  <2>4. CASE Poll(t)
    BY <2>4 DEF Poll
  <2>5. CASE PopBackPeek(t)
    BY <2>5 DEF PopBackPeek
  <2>6. CASE SpinLock(t)
    BY <2>6 DEF SpinLock
  <2>7. CASE PopReset(t)
    BY <2>7 DEF PopReset
  <2> QED
    BY <2>1, <2>2, <2>3, <2>4, <2>5, <2>6, <2>7 DEF Call
<1>4. \A m \in Messages : own[m] # t => prev'[m] = prev[m] /\ next'[m] = next[m]
  <2> USE <1>1 DEF TypeOK
  <2>1. ASSUME NEW o \in OpNames, NEW m \in Messages, CallPush(t, o, m) PROVE <1>4!:
    BY <2>1 DEF CallPush
  <2>2. CASE PopReset(t)
    <3>1. at[t] = "reset" /\ msg[t] # NULL /\ op[t] \in OpNames
      BY <2>2 DEF PopReset, CallsAgree
    <3>2. own[msg[t]] = t
      BY <3>1 DEF Holding, OpNames
    <3> QED
      BY <2>2, <3>2 DEF PopReset
  <2>3. CASE CallPopFront(t) \/ CallPopBack(t) \/ Poll(t) \/ PopBackPeek(t) \/ SpinLock(t)
    BY <2>3 DEF CallPopFront, CallPopBack, Poll, PopBackPeek, SpinLock
  <2> QED
    BY <2>1, <2>2, <2>3 DEF Call
<1>5. ListShape(s)'
  BY <1>1, <1>3, <1>4, ShapeFrame
<1>6. Moves(s, s)
  <2>1. CASE got' = got
    BY <1>2, <2>1 DEF Moves
  <2>2. CASE PopBackPeek(t) /\ got' # got
    <3>1. bottom = NULL /\ got' = [got EXCEPT ![t] = NULL]
      BY <2>2 DEF PopBackPeek
    <3>2. s = <<>>
      BY <3>1, EmptyEnds
    <3> QED
      BY <1>2, <3>1, <3>2 DEF Moves
  <2> QED
    BY <2>1, <2>2 DEF Call, CallPush, CallPopFront, CallPopBack, Poll, SpinLock, PopReset
<1> QED
  BY <1>2, <1>5, <1>6 DEF After

LEMMA InsideStep ==
  ASSUME NEW s, Before(s), NEW t \in Threads,
         \/ SpinUnlock(t)
         \/ PushBackTest(t) \/ PushBackOther(t) \/ PushBackLink(t) \/ PushBackSwing(t)
         \/ PushFrontTest(t) \/ PushFrontOther(t) \/ PushFrontLink(t) \/ PushFrontSwing(t)
         \/ PopFrontTest(t) \/ PopFrontSwing(t) \/ PopFrontOther(t)
         \/ PopBackTest(t) \/ PopBackSwing(t) \/ PopBackOther(t)
  PROVE  After(s)
<1>1. Orders(s, InQueue)
  BY DEF Before
<1>2. ASSUME own' = own, got' = got, ListShape(s)' PROVE After(s)
  BY <1>1, <1>2, SameOwners DEF After, Moves
<1>3. CASE PushBackTest(t) \/ PushBackOther(t) \/ PushBackLink(t) \/ PushBackSwing(t)
  <2>1. got' = got
    BY <1>3 DEF PushBackTest, PushBackOther, PushBackLink, PushBackSwing
  <2> QED
    BY <1>2, <1>3, <2>1, PushBackShape
<1>4. CASE PushFrontTest(t) \/ PushFrontOther(t) \/ PushFrontLink(t) \/ PushFrontSwing(t)
  <2>1. got' = got
    BY <1>4 DEF PushFrontTest, PushFrontOther, PushFrontLink, PushFrontSwing
  <2> QED
    BY <1>2, <1>4, <2>1, PushFrontShape
<1>5. CASE PopFrontOther(t) \/ PopBackSwing(t) \/ PopBackOther(t)
  <2>1. got' = got
    BY <1>5 DEF PopFrontOther, PopBackSwing, PopBackOther
  <2> QED
    BY <1>2, <1>5, <2>1, PopFrontShape, PopBackShape
<1>6. CASE PopFrontTest(t)
  <2>1. ListShape(s)' /\ own' = own
    BY <1>6, PopFrontShape
  <2>2. CASE top = NULL
    <3>1. s = <<>> /\ got' = [got EXCEPT ![t] = NULL]
      BY <1>6, <2>2, EmptyEnds DEF PopFrontTest
    <3>2. Moves(s, s)
      BY <2>1, <3>1 DEF Moves
    <3> QED
      BY <1>1, <2>1, <3>2, SameOwners DEF After
  <2>3. CASE top # NULL
    BY <1>2, <1>6, <2>1, <2>3 DEF PopFrontTest
  <2> QED
    BY <2>2, <2>3
<1>7. CASE SpinUnlock(t)
  <2>1. got' = got
    BY <1>7 DEF SpinUnlock
  <2>2. CASE own' = own /\ ListShape(s)'
    BY <1>2, <2>1, <2>2
  <2>3. CASE ~(own' = own /\ ListShape(s)')
    <3>1. PICK m \in Messages : m = msg[t] /\ own[m] = t /\ own' = [own EXCEPT ![m] = Queued]
      BY <1>7, <2>3, UnlockShape
    <3>2. PICK z \in {Append(s, m), <<m>> \o s} : Orders(z, InQueue') /\ ListShape(z)'
      BY <1>7, <2>3, <3>1, UnlockShape
    <3>3. Moves(s, z)
      BY <2>1, <3>1, <3>2 DEF Moves
    <3> QED
      BY <3>2, <3>3 DEF After
  <2> QED
    BY <2>2, <2>3
<1>8. CASE PopFrontSwing(t)
  <2>1. /\ s # <<>> /\ msg[t] = s[1] /\ Orders(Tail(s), InQueue') /\ ListShape(Tail(s))'
    BY <1>8, PopFrontSwingShape
  <2>2. got' = [got EXCEPT ![t] = s[1]] /\ own' = [own EXCEPT ![s[1]] = t]
    BY <1>8, <2>1 DEF PopFrontSwing
  <2>3. Moves(s, Tail(s))
    BY <2>1, <2>2 DEF Moves
  <2> QED
    BY <2>1, <2>3 DEF After
<1>9. CASE PopBackTest(t)
  <2>1. CASE own' = own /\ got' = got /\ ListShape(s)'
    BY <1>2, <2>1
  <2>2. CASE ~(own' = own /\ got' = got /\ ListShape(s)')
    <3>1. PICK z : z = SubSeq(s, 1, Len(s) - 1)
      OBVIOUS
    <3>2. /\ s # <<>> /\ Orders(z, InQueue') /\ ListShape(z)'
          /\ got' = [got EXCEPT ![t] = s[Len(s)]] /\ own' = [own EXCEPT ![s[Len(s)]] = t]
      BY <1>9, <2>2, <3>1, PopBackTestShape
    <3>3. Moves(s, z)
      BY <3>1, <3>2 DEF Moves
    <3> QED
      BY <3>2, <3>3 DEF After
  <2> QED
    BY <2>1, <2>2
<1> QED
  BY <1>3, <1>4, <1>5, <1>6, <1>7, <1>8, <1>9

\* A thread gives a container away.
LEMMA HandOverStep ==
  ASSUME NEW s, Before(s), NEW t \in Threads, NEW u \in Threads, NEW m \in Messages,
         HandOver(t, u, m)
  PROVE  After(s) /\ Holding'
<1>1. TypeOK /\ Holding /\ Orders(s, InQueue) /\ ListShape(s) /\ CallsAgree
  BY DEF Before, IInv
<1>2. /\ own[m] = t /\ own' = [own EXCEPT ![m] = u] /\ got' = got /\ at[t] = "idle"
      /\ top' = top /\ bottom' = bottom /\ prev' = prev /\ next' = next
      /\ at' = at /\ op' = op /\ msg' = msg
  BY DEF HandOver
<1>3. InQueue' = InQueue
  BY <1>1, <1>2, SpinQueueAssumption DEF InQueue, TypeOK
<1>4. ListShape(s)'
  BY <1>1, <1>2 DEF ListShape, Changing, Whole, Links, FrontOf, BackOf, PushingBack,
     PushingFront, PoppingFront, PoppingBack
<1>5. Moves(s, s)
  BY <1>2 DEF Moves
<1>6. Holding'
  BY <1>1, <1>2 DEF Holding, TypeOK
<1> QED
  BY <1>1, <1>3, <1>4, <1>5, <1>6 DEF After

LEMMA ListStep ==
  ASSUME NEW s, Before(s), [Next]_vars
  PROVE  After(s) /\ Holding'
<1>1. ASSUME NEW t \in Threads, Call(t) \/ Step(t) PROVE After(s) /\ Holding'
  <2>1. After(s)
    BY <1>1, OutsideStep, InsideStep DEF Step
  <2>2. EndsQueued(t)
    BY EndsAreQueued
  <2> QED
    BY <1>1, <2>1, <2>2, HoldingStep DEF Before, IInv
<1>2. ASSUME NEW t \in Threads, NEW u \in Threads, NEW m \in Messages, HandOver(t, u, m)
      PROVE  After(s) /\ Holding'
  BY <1>2, HandOverStep
<1>3. CASE UNCHANGED vars
  <2>1. Holding' /\ Moves(s, s)
    BY <1>3 DEF Before, Holding, vars, Moves
  <2>2. Orders(s, InQueue')
    BY <1>3 DEF Before, vars, InQueue
  <2>3. ListShape(s)'
    BY <1>3 DEF Before, vars, ListShape, Changing, Whole, Links, FrontOf, BackOf, PushingBack,
       PushingFront, PoppingFront, PoppingBack
  <2> QED
    BY <2>1, <2>2, <2>3 DEF After
<1> QED
  BY <1>1, <1>2, <1>3 DEF Next

LEMMA InQueueFinite == IsFiniteSet(InQueue) /\ IsFiniteSet(InQueue')
<1>1. InQueue \subseteq Messages /\ InQueue' \subseteq Messages
  BY DEF InQueue
<1> QED
  BY <1>1, DequeAssumption, FS_Subset

LEMMA ListInvIs ==
  /\ ListInv <=> \E s : Before(s)
  /\ ListInv' <=> IInv' /\ Holding' /\ \E s : Orders(s, InQueue') /\ ListShape(s)'
<1>1. \A s : s \in SetToSeqs(InQueue) <=> Orders(s, InQueue)
  BY InQueueFinite, SetToSeqsOrders
<1>2. \A s : s \in SetToSeqs(InQueue') <=> Orders(s, InQueue')
  BY InQueueFinite, SetToSeqsOrders
<1> QED
  BY <1>1, <1>2 DEF ListInv, Before

\* Initially no container is in the queue.
LEMMA InitList == Init => Before(<<>>) /\ InQueue = {}
<1> SUFFICES ASSUME Init PROVE Before(<<>>) /\ InQueue = {}
  OBVIOUS
<1>1. InQueue = {} /\ IInv /\ Holding
  BY InitIInv, SpinQueueAssumption DEF Init, InQueue, Holding
<1>2. Orders(<<>>, {})
  BY DEF Orders
<1>3. ListShape(<<>>)
  BY DEF Init, ListShape, Changing, Whole, Links, FrontOf, BackOf
<1> QED
  BY <1>1, <1>2, <1>3 DEF Before

\* However the threads interleave, the stores of the thread that has the lock leave a list
\* of the containers in the queue, whole but for its own next stores.
THEOREM ListInvHolds == Spec => []ListInv
<1>1. Init => ListInv
  BY InitList, ListInvIs
<1>2. ListInv /\ IInv' /\ [Next]_vars => ListInv'
  <2> SUFFICES ASSUME ListInv, IInv', [Next]_vars PROVE ListInv'
    OBVIOUS
  <2>1. PICK s : Before(s)
    BY ListInvIs
  <2>2. After(s) /\ Holding'
    BY <2>1, ListStep
  <2> QED
    BY <2>2, ListInvIs DEF After
<1> QED
  BY <1>1, <1>2, IInvHolds, PTL DEF Spec

\* The two directions of the list agree whenever the lock is free.
THEOREM WellLinkedHolds == Spec => []WellLinked
<1>1. MutualExclusion => lock = 1 \/ \A t \in Threads : ~Critical(t)
  BY DEF MutualExclusion
<1>2. \A t : Changing(t) => Critical(t)
  BY DEF Critical, Changing
<1>3. ListInv => WellLinked
  BY <1>1, <1>2 DEF ListInv, IInv, WellLinked, ListShape
<1> QED
  BY <1>3, ListInvHolds, PTL

\* top is NULL only when no container is in the queue.
THEOREM EmptyReadIsTrueHolds == Spec => []EmptyReadIsTrue
<1>1. ListInv => EmptyReadIsTrue
  <2> SUFFICES ASSUME ListInv, top = NULL PROVE InQueue = {}
    BY DEF EmptyReadIsTrue
  <2>1. PICK s : Before(s)
    BY ListInvIs
  <2>2. s = <<>> /\ Orders(s, InQueue)
    BY <2>1, EmptyEnds DEF Before
  <2> QED
    BY <2>2, OrdersFacts
<1> QED
  BY <1>1, ListInvHolds, PTL

---------------------------------------------------------------------------
(* The refinement of Deque                                                  *)

\* The list in the direction of prev ends in a container or nowhere, not in the queue.
LEMMA ShapeFollows ==
  ASSUME NEW s, Before(s)
  PROVE  FollowsPrev(s)
<1>1. TypeOK /\ CallsAgree /\ Holding /\ Orders(s, InQueue) /\ ListShape(s)
  BY DEF Before, IInv
<1>2. NULL \notin InQueue /\ Len(s) \in Nat
  BY <1>1, SpinQueueAssumption, QueuedFacts DEF InQueue
<1>3. ASSUME NEW e, e \notin InQueue,
             \A i \in 1..Len(s) : prev[s[i]] = IF i = Len(s) THEN e ELSE s[i + 1]
      PROVE  FollowsPrev(s)
  BY <1>2, <1>3 DEF FollowsPrev
<1>4. ASSUME NEW e, NEW f, e \notin InQueue, Links(s, f, e) PROVE FollowsPrev(s)
  BY <1>3, <1>4 DEF Links
<1>5. CASE \A t \in Threads : ~Changing(t)
  BY <1>1, <1>2, <1>4, <1>5 DEF ListShape, Whole
<1>6. CASE \E t \in Threads : Changing(t)
  <2>1. PICK t \in Threads : Changing(t)
    BY <1>6
  <2>2. op[t] \in {"push_back", "push_front", "pop_front", "pop_back"} /\ at[t] # "idle"
    BY <1>1, <2>1 DEF TypeOK, Holding, OpNames, Changing
  <2>3. CASE op[t] = "push_back"
    <3>1. Links(s, NULL, msg[t]) /\ own[msg[t]] = t
      BY <1>1, <2>1, <2>2, <2>3 DEF ListShape, PushingBack, Holding
    <3>2. msg[t] \notin InQueue
      BY <3>1, SpinQueueAssumption DEF InQueue
    <3> QED
      BY <1>4, <3>1, <3>2
  <2>4. CASE op[t] = "push_front"
    BY <1>1, <1>2, <1>4, <2>1, <2>4 DEF ListShape, PushingFront
  <2>5. CASE op[t] = "pop_front"
    BY <1>1, <1>2, <1>3, <1>4, <2>1, <2>5 DEF ListShape, PoppingFront, Whole
  <2>6. CASE op[t] = "pop_back"
    BY <1>1, <1>2, <1>4, <2>1, <2>6 DEF ListShape, PoppingBack, Whole
  <2> QED
    BY <2>2, <2>3, <2>4, <2>5, <2>6
<1> QED
  BY <1>5, <1>6

\* The sequence of the invariant is the one that the refinement reads.
LEMMA QueueSeqIs ==
  ASSUME NEW s, Before(s)
  PROVE  QueueSeq = s
<1>1. \A z : z \in SetToSeqs(InQueue) <=> Orders(z, InQueue)
  BY InQueueFinite, SetToSeqsOrders
<1>2. Orders(s, InQueue) /\ FollowsPrev(s)
  BY ShapeFollows DEF Before
<1>3. \A z \in SetToSeqs(InQueue) : FollowsPrev(z) => z = s
  BY <1>1, <1>2, OrderUnique
<1> QED
  BY <1>1, <1>2, <1>3 DEF QueueSeq

LEMMA QueueSeqNow == \A s : Before(s) => QueueSeq = s
BY QueueSeqIs

LEMMA QueueSeqNext == (\A s : Before(s) => QueueSeq = s)'
BY QueueSeqNow, PTL

\* What a step does to the list is an operation of Deque, or nothing.
LEMMA MovesAreOperations ==
  ASSUME NEW s, NEW z, Moves(s, z), QueueSeq = s, QueueSeq' = z
  PROVE  [Abstract!Next]_(Abstract!vars)
<1> USE DEF Abstract!Queued, Queued
<1>1. CASE z = s /\ own' = own /\ got' = got
  BY <1>1 DEF Abstract!vars
<1>2. ASSUME NEW t \in Threads, NEW m \in Messages,
             own[m] = t, own' = [own EXCEPT ![m] = Queued], got' = got,
             z \in {Append(s, m), <<m>> \o s}
      PROVE  Abstract!Next
  <2>1. Abstract!PushBack(t, m) \/ Abstract!PushFront(t, m)
    BY <1>2 DEF Abstract!PushBack, Abstract!PushFront
  <2> QED
    BY <2>1 DEF Abstract!Next
<1>3. ASSUME NEW t \in Threads, s # <<>>, z = Tail(s),
             got' = [got EXCEPT ![t] = s[1]], own' = [own EXCEPT ![s[1]] = t]
      PROVE  Abstract!Next
  <2>1. Abstract!PopFront(t)
    BY <1>3 DEF Abstract!PopFront
  <2> QED
    BY <2>1 DEF Abstract!Next
<1>4. ASSUME NEW t \in Threads, s # <<>>, z = SubSeq(s, 1, Len(s) - 1),
             got' = [got EXCEPT ![t] = s[Len(s)]], own' = [own EXCEPT ![s[Len(s)]] = t]
      PROVE  Abstract!Next
  <2>1. Abstract!PopBack(t)
    BY <1>4 DEF Abstract!PopBack
  <2> QED
    BY <2>1 DEF Abstract!Next
<1>5. ASSUME NEW t \in Threads, s = <<>>, z = <<>>, got' = [got EXCEPT ![t] = NULL], own' = own
      PROVE  Abstract!Next
  <2>1. Abstract!PopEmpty(t)
    BY <1>5 DEF Abstract!PopEmpty
  <2> QED
    BY <2>1 DEF Abstract!Next
<1>6. ASSUME NEW t \in Threads, NEW u \in Threads, NEW m \in Messages,
             z = s, own[m] = t, own' = [own EXCEPT ![m] = u], got' = got
      PROVE  Abstract!Next
  <2>1. Abstract!HandOver(t, u, m)
    BY <1>6 DEF Abstract!HandOver
  <2> QED
    BY <2>1 DEF Abstract!Next
<1> QED
  BY <1>1, <1>2, <1>3, <1>4, <1>5, <1>6 DEF Moves

\* Every execution of Queue.c is one of Deque, with QueueSeq for its queue: a push takes
\* effect at its unlock, a pop at the store that takes the container off, and a pop that
\* returns NULL when the queue is empty.
THEOREM ImplementsDequeHolds == Spec => ImplementsDeque
<1>1. Init => Abstract!Init
  <2> SUFFICES ASSUME Init PROVE Abstract!Init
    OBVIOUS
  <2>1. QueueSeq = <<>>
    BY InitList, QueueSeqIs
  <2> QED
    BY <2>1 DEF Init, Abstract!Init
<1>2. ListInv /\ ListInv' /\ [Next]_vars => [Abstract!Next]_(Abstract!vars)
  <2> SUFFICES ASSUME ListInv, ListInv', [Next]_vars PROVE [Abstract!Next]_(Abstract!vars)
    OBVIOUS
  <2>1. PICK s : Before(s)
    BY ListInvIs
  <2>2. PICK z : Orders(z, InQueue') /\ ListShape(z)' /\ Moves(s, z)
    BY <2>1, ListStep DEF After
  <2>3. IInv' /\ Holding'
    BY ListInvIs
  <2>4. Before(z)'
    BY <2>2, <2>3 DEF Before
  <2>5. QueueSeq = s /\ QueueSeq' = z
    BY <2>1, <2>4, QueueSeqNow, QueueSeqNext
  <2> QED
    BY <2>2, <2>5, MovesAreOperations
<1> QED
  BY <1>1, <1>2, ListInvHolds, PTL DEF Spec, ImplementsDeque, Abstract!Spec
=============================================================================
