------------------------------ MODULE Monitor -------------------------------
(***************************************************************************)
(* Condition variables (threads/synch.c) under their intended use, the     *)
(* bounded buffer of doc/reference.texi: put() and get() with the          *)
(* conditions not_full and not_empty.  The lock and the semaphore of each  *)
(* waiter are those of Threads, here reduced to who holds the lock and to  *)
(* the semaphore's value; any thread that can go on may go on.             *)
(***************************************************************************)
EXTENDS Integers, Sequences, SequencesExt, FiniteSets

CONSTANTS Producer, Consumer,
          BUF_SIZE,
          Calls,        \* bound: calls of put() or get() each thread makes
          NONE

VARIABLES holder,       \* of the monitor lock
          waiters,      \* per condition: the list of its waiters
          value,        \* per thread: the value of its waiter's semaphore
          pc,           \* per thread: where it is
          buf,          \* how many characters the buffer holds
          done          \* per thread: the calls it has finished

vars == <<holder, waiters, value, pc, buf, done>>

Thread == Producer \union Consumer
Condition == {"not_full", "not_empty"}
Awaited(t) == IF t \in Producer THEN "not_full" ELSE "not_empty"
Other(t) == IF t \in Producer THEN "not_empty" ELSE "not_full"
MustWait(t) == IF t \in Producer THEN buf = BUF_SIZE ELSE buf = 0

Goto(t, where) == pc' = [pc EXCEPT ![t] = where]

Call(t) ==
  /\ pc[t] = "out" /\ done[t] < Calls
  /\ Goto(t, "lock")
  /\ UNCHANGED <<holder, waiters, value, buf, done>>

(* lock_acquire(), at the start of a call and at the end of cond_wait().   *)
lock_acquire(t) ==
  /\ pc[t] = "lock" /\ holder = NONE
  /\ holder' = t
  /\ Goto(t, "test")
  /\ UNCHANGED <<waiters, value, buf, done>>

(* cond_wait(): the waiter's semaphore is initialized and put on the list  *)
(* while the lock is held; then the lock is released; then sema_down().    *)
cond_wait(t) ==
  /\ pc[t] = "test" /\ holder = t /\ MustWait(t)
  /\ value' = [value EXCEPT ![t] = 0]
  /\ waiters' = [waiters EXCEPT ![Awaited(t)] = Append(@, t)]
  /\ Goto(t, "release")
  /\ UNCHANGED <<holder, buf, done>>

WaitRelease(t) ==
  /\ pc[t] = "release"
  /\ holder' = NONE
  /\ Goto(t, "down")
  /\ UNCHANGED <<waiters, value, buf, done>>

WaitDown(t) ==
  /\ pc[t] = "down" /\ value[t] > 0
  /\ value' = [value EXCEPT ![t] = @ - 1]
  /\ Goto(t, "lock")
  /\ UNCHANGED <<holder, waiters, buf, done>>

(* put() and get() past their loop: the buffer changes, cond_signal() ups  *)
(* the semaphore of the first waiter of the other condition.               *)
SignalKeepsWaiter(t) ==
  /\ pc[t] = "test" /\ holder = t /\ ~MustWait(t)
  /\ buf' = buf + IF t \in Producer THEN 1 ELSE -1
  /\ LET w == waiters[Other(t)]
     IN value' = IF w = <<>> THEN value ELSE [value EXCEPT ![w[1]] = @ + 1]
  /\ Goto(t, "leave")
  /\ UNCHANGED <<holder, waiters, done>>
cond_signal(t) ==
  /\ pc[t] = "test" /\ holder = t /\ ~MustWait(t)
  /\ buf' = buf + IF t \in Producer THEN 1 ELSE -1
  /\ LET w == waiters[Other(t)]
     IN IF w = <<>> THEN UNCHANGED <<waiters, value>>
        ELSE /\ waiters' = [waiters EXCEPT ![Other(t)] = Tail(w)]
             /\ value' = [value EXCEPT ![w[1]] = @ + 1]
  /\ Goto(t, "leave")
  /\ UNCHANGED <<holder, done>>

(* cond_broadcast(), which the client may call in place of cond_signal():  *)
(* every waiter of the condition is signalled.                             *)
cond_broadcast(t) ==
  /\ pc[t] = "test" /\ holder = t /\ ~MustWait(t)
  /\ buf' = buf + IF t \in Producer THEN 1 ELSE -1
  /\ LET w == waiters[Other(t)]
     IN /\ waiters' = [waiters EXCEPT ![Other(t)] = <<>>]
        /\ value' = [u \in Thread |-> IF u \in ToSet(w) THEN value[u] + 1 ELSE value[u]]
  /\ Goto(t, "leave")
  /\ UNCHANGED <<holder, done>>

Leave(t) ==
  /\ pc[t] = "leave"
  /\ holder' = NONE
  /\ done' = [done EXCEPT ![t] = @ + 1]
  /\ Goto(t, "out")
  /\ UNCHANGED <<waiters, value, buf>>

Init ==
  /\ holder = NONE
  /\ waiters = [c \in Condition |-> <<>>]
  /\ value = [t \in Thread |-> 0]
  /\ pc = [t \in Thread |-> "out"]
  /\ buf = 0
  /\ done = [t \in Thread |-> 0]

Step(t) ==
  Call(t) \/ lock_acquire(t) \/ cond_wait(t) \/ WaitRelease(t) \/ WaitDown(t)
    \/ cond_signal(t) \/ cond_broadcast(t) \/ Leave(t)

Next ==
  \/ \E t \in Thread : Call(t)
  \/ \E t \in Thread : lock_acquire(t)
  \/ \E t \in Thread : cond_wait(t)
  \/ \E t \in Thread : WaitRelease(t)
  \/ \E t \in Thread : WaitDown(t)
  \/ \E t \in Thread : cond_signal(t)
  \/ \E t \in Thread : cond_broadcast(t)
  \/ \E t \in Thread : Leave(t)

(* The scheduler gives a thread that can go on a turn.                     *)
Fairness == \A t \in Thread : WF_vars(Step(t))

Spec == Init /\ [][Next]_vars /\ Fairness

-----------------------------------------------------------------------------
(* A waiter is on the list of its condition exactly from cond_wait() until *)
(* it is signalled, and a signal raises its semaphore once: none is lost   *)
(* when it comes between lock_release() and sema_down() of synch.c:306-307 *)
(* and none is left over for the next wait.                                *)
SignalsKept ==
  \A t \in Thread :
    LET listed == t \in ToSet(waiters[Awaited(t)])
    IN /\ listed => pc[t] \in {"release", "down"} /\ value[t] = 0
       /\ pc[t] \in {"release", "down"} => listed \/ value[t] = 1
       /\ pc[t] \notin {"release", "down"} => value[t] = 0

(* Every call of put() and get() returns when as many are made of each:    *)
(* nobody is left waiting for a condition that holds.                      *)
CallsReturn == <>(\A t \in Thread : done[t] = Calls)
=============================================================================
