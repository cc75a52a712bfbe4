------------------------------- MODULE Mutex -------------------------------
(***************************************************************************)
(* What a lock of threads/synch.c promises its users, without its          *)
(* semaphore, its waiters or the scheduler: an owner, and no way for a     *)
(* lock to pass from one thread to another but through being free.         *)
(***************************************************************************)
CONSTANTS Thread, Lock, NULL

VARIABLE owner

Init == owner = [l \in Lock |-> NULL]

Acquire(t, l) ==
  /\ owner[l] = NULL
  /\ owner' = [owner EXCEPT ![l] = t]

Release(t, l) ==
  /\ owner[l] = t
  /\ owner' = [owner EXCEPT ![l] = NULL]

Next == \E t \in Thread, l \in Lock : Acquire(t, l) \/ Release(t, l)

Spec == Init /\ [][Next]_owner
=============================================================================
