---------------------------- MODULE MCSpinQueue ----------------------------
(* Instances of SpinQueue for TLC: who calls what on the queue.             *)
EXTENDS SpinQueueDeque, TLC

CONSTANTS app, enclave

\* The whole of Queue.h, with one thread that consumes: the program's
\* use of each mailbox, and more.
OneConsumerOps ==
  (app :> {"push_back", "push_front"}) @@
  (enclave :> {"push_back", "push_front", "pop_front", "pop_back", "poll"})

\* The whole of Queue.h, from two threads.
AllOps == [t \in {app, enclave} |-> OpNames]

Containers == Permutations(Messages)
=============================================================================
