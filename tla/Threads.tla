------------------------------ MODULE Threads ------------------------------
(***************************************************************************)
(* Kernel threads, the priority scheduler, semaphores and locks:           *)
(* threads/thread.c, threads/synch.c and the external interrupts of        *)
(* threads/interrupt.c, on one CPU.                                        *)
(*                                                                         *)
(* A step is a stretch of code that runs with interrupts off, or one that  *)
(* touches only the running thread's own data; the timer may interrupt     *)
(* between any two steps.  `cur' is the thread on the CPU and the only one *)
(* that takes steps; what the threads do outside the kernel calls modelled *)
(* here is an arbitrary sequence of calls that keep to their contracts (a  *)
(* lock is released by its holder, and never acquired twice).              *)
(***************************************************************************)
EXTENDS PriorityList, FiniteSets, TLC

CONSTANTS
  Thread,      \* thread pages, the idle thread's and the initial one's included
  Idle,        \* idle_thread
  Main,        \* initial_thread
  Lock,        \* struct lock
  Sema,        \* struct semaphore not inside a lock
  IrqSema,     \* the semaphores that a device's interrupt handler ups
  Priority,    \* the priorities that threads use, within PRI_MIN .. PRI_MAX
  TIME_SLICE,  \* timer ticks before a thread is preempted
  MaxValue,    \* bound on a semaphore's value
  USERPROG,    \* built with user programs: sema_up does not yield
  MLFQS,       \* thread_mlfqs or thread_prior_aging
  NULL         \* no thread, no object

ASSUME ConstantsAssumption ==
  /\ Idle \in Thread /\ Main \in Thread /\ Idle # Main
  /\ Lock \cap Sema = {} /\ IrqSema \subseteq Sema
  /\ Priority \subseteq 0 .. 63 /\ Priority # {}
  /\ TIME_SLICE \in Nat \ {0} /\ MaxValue \in Nat
  /\ USERPROG \in BOOLEAN /\ MLFQS \in BOOLEAN /\ (MLFQS => ~USERPROG)
  /\ NULL \notin Thread \cup Lock \cup Sema

VARIABLES
  cur,              \* the running thread
  status,           \* t->status, and "FREE" for a page that holds no thread
  priority,         \* t->priority
  ready_list,       \* threads ready to run
  blocked_list,     \* threads in timer_sleep; its order is not modelled
  thread_ticks,     \* ticks since the last switch
  value,            \* sema->value, of a lock its semaphore's
  waiters,          \* sema->waiters
  holder,           \* lock->holder
  pc,               \* where a thread is in the kernel call it is making
  obj,              \* the semaphore, lock or new thread the call is about
  irq,              \* where the external interrupt handler is
  yield_on_return   \* intr_yield_on_return was called

schedVars == <<cur, status, ready_list, thread_ticks>>
syncVars == <<value, waiters, holder>>
intrVars == <<irq, yield_on_return>>
vars == <<cur, status, priority, ready_list, blocked_list, thread_ticks,
          value, waiters, holder, pc, obj, irq, yield_on_return>>

Object == Sema \cup Lock

(* "start": made by thread_create and not yet unblocked; "run": outside    *)
(* these calls; "create": in thread_create, obj is the new thread; "down": *)
(* in sema_down's loop; "set_holder": lock_acquire after its sema_down;    *)
(* "release": lock_release before its sema_up; "yield": about to call      *)
(* thread_yield; "asleep": in thread_block_with_time.                      *)
Label == {"start", "run", "create", "down", "set_holder", "release",
          "yield", "asleep"}

Status == {"FREE", "RUNNING", "READY", "BLOCKED", "DYING"}

TypeOK ==
  /\ cur \in Thread
  /\ status \in [Thread -> Status]
  /\ priority \in [Thread -> Priority]
  /\ ready_list \in Seq(Thread)
  /\ blocked_list \in SUBSET Thread
  /\ thread_ticks \in 0 .. TIME_SLICE
  /\ value \in [Object -> Nat]
  /\ waiters \in [Object -> Seq(Thread)]
  /\ holder \in [Lock -> Thread \cup {NULL}]
  /\ pc \in [Thread -> Label]
  /\ obj \in [Thread -> Object \cup Thread \cup {NULL}]
  /\ irq \in {"none", "block_check", "return", "panic"}
  /\ yield_on_return \in BOOLEAN

-----------------------------------------------------------------------------
(* The scheduler.  `rl' and `st' are the ready list and the statuses as    *)
(* the caller of schedule() left them.                                     *)

next_thread_to_run(rl) == IF rl = <<>> THEN Idle ELSE Head(rl)

(* schedule() and thread_schedule_tail(): a dying thread's page is freed   *)
(* by the thread that runs next, unless it is the initial thread's.        *)
schedule(rl, st) ==
  LET next == next_thread_to_run(rl)
      swept == IF st[cur] = "DYING" /\ cur # Main
               THEN [st EXCEPT ![cur] = "FREE"] ELSE st
  IN  /\ cur' = next
      /\ ready_list' = IF rl = <<>> THEN rl ELSE Tail(rl)
      /\ status' = [swept EXCEPT ![next] = "RUNNING"]
      /\ thread_ticks' = 0

thread_block == schedule(ready_list, [status EXCEPT ![cur] = "BLOCKED"])

(* thread_yield without its `if (cur != idle_thread)'. *)
thread_yield_idle ==
  schedule(list_insert_ordered(ready_list, cur, priority),
           [status EXCEPT ![cur] = "READY"])

thread_yield ==
  schedule(IF cur = Idle THEN ready_list
           ELSE list_insert_ordered(ready_list, cur, priority),
           [status EXCEPT ![cur] = "READY"])

thread_unblock(t) ==
  /\ ready_list' = list_insert_ordered(ready_list, t, priority)
  /\ status' = [status EXCEPT ![t] = "READY"]
  /\ UNCHANGED <<cur, thread_ticks>>

(* The running thread is at label l, and no interrupt is being handled. *)
At(l) == irq = "none" /\ cur # Idle /\ pc[cur] = l

Goto(l, o) ==
  /\ pc' = [pc EXCEPT ![cur] = l]
  /\ obj' = [obj EXCEPT ![cur] = o]

-----------------------------------------------------------------------------
(* thread.c: creation, exit, priorities, yielding, sleeping, idling.       *)

(* thread_create up to allocate_tid: a page from the pool becomes a        *)
(* blocked thread that is on no list yet.  With no page it returns         *)
(* TID_ERROR and changes nothing.                                          *)
ThreadCreate(t, p) ==
  /\ At("run")
  /\ status[t] = "FREE"
  /\ status' = [status EXCEPT ![t] = "BLOCKED"]
  /\ priority' = [priority EXCEPT ![t] = p]
  /\ pc' = [pc EXCEPT ![cur] = "create", ![t] = "start"]
  /\ obj' = [obj EXCEPT ![cur] = t, ![t] = NULL]
  /\ UNCHANGED <<cur, ready_list, thread_ticks, blocked_list, syncVars, intrVars>>

(* The running thread's next label: "yield" when its priority is less than *)
(* it should be.  calculate_priority may come between the comparison and   *)
(* what it compares.                                                       *)
YieldIf(lower) == {l \in {"run", "yield"} : MLFQS \/ (l = "yield") = lower}

(* thread_create from thread_unblock on; it yields to a thread of higher   *)
(* priority than its own.                                                  *)
CreateUnblock ==
  LET t == obj[cur]
  IN  /\ At("create")
      /\ thread_unblock(t)
      /\ \E l \in YieldIf(priority[cur] < priority[t]) :
           pc' = [pc EXCEPT ![cur] = l, ![t] = "run"]
      /\ obj' = [obj EXCEPT ![cur] = NULL]
      /\ UNCHANGED <<priority, blocked_list, syncVars, intrVars>>

(* A thread that exits while it holds a lock keeps it for ever; none does. *)
ThreadExit ==
  /\ At("run")
  /\ \A l \in Lock : holder[l] # cur
  /\ schedule(ready_list, [status EXCEPT ![cur] = "DYING"])
  /\ UNCHANGED <<priority, blocked_list, pc, obj, syncVars, intrVars>>

(* thread_set_priority, and thread_set_nice, which computes p. *)
ThreadSetPriority(p) ==
  /\ At("run")
  /\ priority' = [priority EXCEPT ![cur] = p]
  /\ \E l \in YieldIf(p < priority[cur]) : Goto(l, NULL)
  /\ UNCHANGED <<schedVars, blocked_list, syncVars, intrVars>>

ThreadYield ==
  /\ At("run") \/ At("yield")
  /\ thread_yield
  /\ Goto("run", NULL)
  /\ UNCHANGED <<priority, blocked_list, syncVars, intrVars>>

ThreadBlockWithTime ==
  /\ At("run")
  /\ blocked_list' = blocked_list \cup {cur}
  /\ thread_block
  /\ Goto("asleep", NULL)
  /\ UNCHANGED <<priority, syncVars, intrVars>>

SleepReturn ==
  /\ At("asleep")
  /\ Goto("run", NULL)
  /\ UNCHANGED <<schedVars, priority, blocked_list, syncVars, intrVars>>

(* One round of idle()'s loop.  The HLT between two rounds is left out:    *)
(* idle may go round at any time.                                          *)
IdleBlock ==
  /\ irq = "none" /\ cur = Idle
  /\ thread_block
  /\ UNCHANGED <<priority, blocked_list, pc, obj, syncVars, intrVars>>

-----------------------------------------------------------------------------
(* synch.c: semaphores and locks. *)

SemaDown(s) ==
  /\ At("run")
  /\ Goto("down", s)
  /\ UNCHANGED <<schedVars, priority, blocked_list, syncVars, intrVars>>

LockAcquire(l) ==
  /\ At("run")
  /\ holder[l] # cur
  /\ Goto("down", l)
  /\ UNCHANGED <<schedVars, priority, blocked_list, syncVars, intrVars>>

(* Waiting at the end of the list, as sema_down does without priorities. *)
DownWaitBack ==
  LET o == obj[cur]
  IN  /\ At("down")
      /\ value[o] = 0
      /\ waiters' = [waiters EXCEPT ![o] = Append(@, cur)]
      /\ thread_block
      /\ UNCHANGED <<priority, blocked_list, value, holder, pc, obj, intrVars>>

(* A turn of sema_down's loop that finds value 0.  The thread runs its     *)
(* next turn when it is unblocked: it has no claim on the value that       *)
(* woke it.                                                                *)
DownWait ==
  LET o == obj[cur]
  IN  /\ At("down")
      /\ value[o] = 0
      /\ waiters' = [waiters EXCEPT ![o] = list_insert_ordered(@, cur, priority)]
      /\ thread_block
      /\ UNCHANGED <<priority, blocked_list, value, holder, pc, obj, intrVars>>

DownTake ==
  LET o == obj[cur]
  IN  /\ At("down")
      /\ value[o] > 0
      /\ value' = [value EXCEPT ![o] = @ - 1]
      /\ Goto(IF o \in Lock THEN "set_holder" ELSE "run",
              IF o \in Lock THEN o ELSE NULL)
      /\ UNCHANGED <<schedVars, priority, blocked_list, waiters, holder, intrVars>>

(* sema_try_down and lock_try_acquire; a failure changes nothing. *)
TryDown(o) ==
  /\ At("run")
  /\ o \in Lock => holder[o] # cur
  /\ value[o] > 0
  /\ value' = [value EXCEPT ![o] = @ - 1]
  /\ Goto(IF o \in Lock THEN "set_holder" ELSE "run",
          IF o \in Lock THEN o ELSE NULL)
  /\ UNCHANGED <<schedVars, priority, blocked_list, waiters, holder, intrVars>>

SetHolder ==
  /\ At("set_holder")
  /\ holder' = [holder EXCEPT ![obj[cur]] = cur]
  /\ Goto("run", NULL)
  /\ UNCHANGED <<schedVars, priority, blocked_list, value, waiters, intrVars>>

(* sema_up that takes a waiter off the list and forgets to unblock it. *)
sema_up_pop(o) ==
  /\ waiters' = [waiters EXCEPT ![o] = IF @ = <<>> THEN @ ELSE Tail(@)]
  /\ value' = [value EXCEPT ![o] = @ + 1]
  /\ UNCHANGED schedVars

(* sema_up that wakes nobody when it raises the value. *)
sema_up_quiet(o) ==
  /\ value' = [value EXCEPT ![o] = @ + 1]
  /\ UNCHANGED <<waiters, schedVars>>

(* sema_up with interrupts off: value is raised whether or not a waiter    *)
(* was unblocked.                                                          *)
sema_up(o) ==
  /\ IF waiters[o] = <<>>
     THEN UNCHANGED <<waiters, schedVars>>
     ELSE /\ waiters' = [waiters EXCEPT ![o] = Tail(@)]
          /\ thread_unblock(Head(waiters[o]))
  /\ value' = [value EXCEPT ![o] = @ + 1]

(* Where a thread is after sema_up: the kernel without user programs       *)
(* yields.                                                                 *)
AfterUp == IF USERPROG THEN "run" ELSE "yield"

SemaUp(s) ==
  /\ At("run")
  /\ value[s] < MaxValue
  /\ sema_up(s)
  /\ Goto(AfterUp, NULL)
  /\ UNCHANGED <<priority, blocked_list, holder, intrVars>>

(* lock_release without its assertion that the caller holds the lock. *)
LockReleaseAny(l) ==
  /\ At("run")
  /\ holder' = [holder EXCEPT ![l] = NULL]
  /\ Goto("release", l)
  /\ UNCHANGED <<schedVars, priority, blocked_list, value, waiters, intrVars>>

LockRelease(l) ==
  /\ At("run")
  /\ holder[l] = cur
  /\ holder' = [holder EXCEPT ![l] = NULL]
  /\ Goto("release", l)
  /\ UNCHANGED <<schedVars, priority, blocked_list, value, waiters, intrVars>>

ReleaseUp ==
  /\ At("release")
  /\ sema_up(obj[cur])
  /\ Goto(AfterUp, NULL)
  /\ UNCHANGED <<priority, blocked_list, holder, intrVars>>

-----------------------------------------------------------------------------
(* External interrupts.  Interrupts are off from TimerInterrupt to         *)
(* IntrReturn, so no thread takes a step in between.                       *)

(* intr_handler, timer_interrupt and thread_tick up to block_check. *)
TimerInterrupt ==
  /\ irq = "none"
  /\ irq' = "block_check"
  /\ thread_ticks' = thread_ticks + 1
  /\ yield_on_return' = (thread_ticks + 1 >= TIME_SLICE)
  /\ UNCHANGED <<cur, status, priority, ready_list, blocked_list, pc, obj, syncVars>>

(* A turn of block_check's loop that finds a thread whose time has come:   *)
(* any of them, as the deadlines are module Alarm's matter and the list is *)
(* kept in no meaningful order (its comparison reads block_elem as if it   *)
(* were elem).                                                             *)
BlockCheck(t) ==
  /\ irq = "block_check"
  /\ t \in blocked_list
  /\ thread_unblock(t)
  /\ blocked_list' = blocked_list \ {t}
  /\ UNCHANGED <<priority, pc, obj, syncVars, intrVars>>

(* The rest of thread_tick when it leaves the priorities alone. *)
BlockCheckDone ==
  /\ irq = "block_check"
  /\ irq' = "return"
  /\ UNCHANGED <<schedVars, priority, blocked_list, pc, obj, syncVars, yield_on_return>>

(* The rest of thread_tick on a tick that calls calculate_priority: every  *)
(* thread of all_list gets a new priority (an arbitrary one: the           *)
(* arithmetic is not modelled here) and the ready list is sorted again,    *)
(* but no semaphore's list is.                                             *)
CalculatePriority(pri) ==
  /\ MLFQS
  /\ irq = "block_check"
  /\ irq' = "return"
  /\ priority' = [t \in Thread |-> IF status[t] \in {"FREE", "DYING"}
                                   THEN priority[t] ELSE pri[t]]
  /\ ready_list' \in list_sort(ready_list, priority')
  /\ yield_on_return' = (yield_on_return \/ priority[cur] > priority'[cur])
  /\ UNCHANGED <<cur, status, thread_ticks, blocked_list, pc, obj, syncVars>>

(* The end of intr_handler. *)
IntrReturn ==
  /\ irq = "return"
  /\ irq' = "none"
  /\ IF yield_on_return THEN thread_yield ELSE UNCHANGED schedVars
  /\ yield_on_return' = FALSE
  /\ UNCHANGED <<priority, blocked_list, pc, obj, syncVars>>

(* A device's interrupt whose handler ups a semaphore, as the disk's does. *)
(* In a kernel without user programs sema_up goes on to thread_yield,      *)
(* which asserts that it is not in an interrupt handler.                   *)
DeviceInterrupt(s) ==
  /\ irq = "none"
  /\ value[s] < MaxValue
  /\ sema_up(s)
  /\ irq' = IF USERPROG THEN "none" ELSE "panic"
  /\ yield_on_return' = FALSE
  /\ UNCHANGED <<priority, blocked_list, holder, pc, obj>>

-----------------------------------------------------------------------------
(* The system as thread_start leaves it: the initial thread runs, the idle *)
(* thread has blocked, every other page is free.                           *)
Init ==
  /\ cur = Main
  /\ status = [t \in Thread |-> IF t = Main THEN "RUNNING"
                                ELSE IF t = Idle THEN "BLOCKED" ELSE "FREE"]
  /\ priority \in {[t \in Thread |-> p] : p \in Priority}
  /\ ready_list = <<>>
  /\ blocked_list = {}
  /\ thread_ticks = 0
  /\ value = [o \in Object |-> IF o \in Lock THEN 1 ELSE 0]
  /\ waiters = [o \in Object |-> <<>>]
  /\ holder = [l \in Lock |-> NULL]
  /\ pc = [t \in Thread |-> "run"]
  /\ obj = [t \in Thread |-> NULL]
  /\ irq = "none"
  /\ yield_on_return = FALSE

(* What the running thread does next inside a kernel call. *)
KernelStep ==
  \/ CreateUnblock
  \/ At("yield") /\ ThreadYield
  \/ SleepReturn
  \/ DownWait
  \/ DownTake
  \/ SetHolder
  \/ ReleaseUp
  \/ IdleBlock

(* The calls it may make. *)
Call ==
  \/ \E t \in Thread, p \in Priority : ThreadCreate(t, p)
  \/ ThreadExit
  \/ \E p \in Priority : ThreadSetPriority(p)
  \/ At("run") /\ ThreadYield
  \/ ThreadBlockWithTime
  \/ \E s \in Sema : SemaDown(s) \/ SemaUp(s)
  \/ \E l \in Lock : LockAcquire(l) \/ LockRelease(l)
  \/ \E o \in Object : TryDown(o)

Handler ==
  \/ \E t \in Thread : BlockCheck(t)
  \/ BlockCheckDone
  \/ \E pri \in [Thread -> Priority] : CalculatePriority(pri)
  \/ IntrReturn

Next ==
  \/ KernelStep
  \/ Call
  \/ TimerInterrupt
  \/ Handler
  \/ \E s \in IrqSema : DeviceInterrupt(s)

Spec == Init /\ [][Next]_vars

(* The threads that thread_create makes are interchangeable. *)
Symmetry == Permutations(Thread \ {Main, Idle})

-----------------------------------------------------------------------------
(* Properties. *)

(* struct thread has one `elem' for the run queue and for every            *)
(* semaphore's list (threads/thread.h): a thread is never on two of them,  *)
(* nor twice on one; it is on the run queue exactly when it is ready (idle *)
(* never is on it), only blocked threads wait, and only `cur' runs.        *)
ListsExclusive ==
  /\ NoDuplicates(ready_list)
  /\ Idle \notin Range(ready_list)
  /\ \A t \in Thread \ {Idle} : t \in Range(ready_list) <=> status[t] = "READY"
  /\ \A t \in Thread : status[t] = "RUNNING" <=> t = cur
  /\ \A t \in blocked_list : status[t] = "BLOCKED"
  /\ \A o \in Object :
       /\ NoDuplicates(waiters[o])
       /\ \A t \in Range(waiters[o]) : status[t] = "BLOCKED" /\ t \notin blocked_list
       /\ \A p \in Object \ {o} : Range(waiters[o]) \cap Range(waiters[p]) = {}

(* A blocked thread can always be found again by whoever has to wake it:   *)
(* in sema_down it is on that semaphore's list, in timer_sleep it is on    *)
(* blocked_list, and before its first run exactly one thread is in         *)
(* thread_create with it.                                                  *)
NoThreadLost ==
  \A t \in Thread \ {Idle} : status[t] = "BLOCKED" =>
    \/ pc[t] = "down" /\ t \in Range(waiters[obj[t]])
    \/ pc[t] = "asleep" /\ t \in blocked_list
    \/ pc[t] = "start" /\ \E u \in Thread :
         /\ status[u] \in {"RUNNING", "READY"} /\ pc[u] = "create" /\ obj[u] = t
         /\ \A w \in Thread : pc[w] = "create" /\ obj[w] = t => w = u

(* t is past the sema_down of lock_acquire(l) and not yet at the sema_up   *)
(* of lock_release(l).                                                     *)
Owns(t, l) ==
  \/ holder[l] = t
  \/ pc[t] \in {"set_holder", "release"} /\ obj[t] = l

(* At most one thread is between lock_acquire and lock_release, also in    *)
(* the windows in which lock->holder is NULL although the lock is taken;   *)
(* and the lock's semaphore is 0 exactly then, so no lock is lost.         *)
MutualExclusion ==
  \A l \in Lock :
    /\ \A t, u \in Thread : Owns(t, l) /\ Owns(u, l) => t = u
    /\ value[l] \in {0, 1}
    /\ value[l] = 0 <=> \E t \in Thread : Owns(t, l)

(* Threads that sema_up has woken and that have yet to look at the value   *)
(* again.                                                                  *)
Woken(o) == {t \in Thread : status[t] \in {"READY", "RUNNING"}
                              /\ pc[t] = "down" /\ obj[t] = o}

(* sema_up hands nothing over: another thread may take the value before    *)
(* the woken one runs.  Still no wake-up is lost: while threads wait, the  *)
(* value never exceeds the number of threads on their way to take it.      *)
NoLostWakeup ==
  \A o \in Object : waiters[o] # <<>> => value[o] <= Cardinality(Woken(o))

(* The run queue is in order of priority, so that schedule() picks a       *)
(* thread of the highest priority.                                         *)
ReadyOrdered == Ordered(ready_list, priority)

(* So are the lists of waiting threads: "the highest priority waiting      *)
(* thread should be awakened first" (doc/threads.texi).                    *)
WaitersOrdered == \A o \in Object : Ordered(waiters[o], priority)

(* Both, as far as the code keeps them so: calculate_priority sorts the    *)
(* run queue and leaves the lists of waiting threads as they are.          *)
QueuesOrdered == ReadyOrdered /\ (~MLFQS => WaitersOrdered)

(* A lock is the mutex its users think it is: lock_acquire takes effect at *)
(* its sema_down, lock_release at its sema_up, and no other step of any    *)
(* thread or interrupt handler changes who owns a lock.                    *)
owner == [l \in Lock |-> IF \E t \in Thread : Owns(t, l)
                         THEN CHOOSE t \in Thread : Owns(t, l) ELSE NULL]
M == INSTANCE Mutex
ImplementsMutex == M!Spec

-----------------------------------------------------------------------------
(* Liveness.  The timer keeps interrupting and its handler runs to its     *)
(* end, as interrupts are off; a thread that gets the CPU again and again  *)
(* gets on with the kernel call it is in, as a time slice is milliseconds  *)
(* long.  Nothing is assumed of what threads call.                         *)
Fairness ==
  /\ WF_vars(TimerInterrupt)
  /\ WF_vars(Handler)
  /\ \A t \in Thread : SF_vars(cur = t /\ KernelStep)

FairSpec == Spec /\ Fairness

Live(t) == status[t] \notin {"FREE", "DYING"}

(* The scheduler is round-robin among the threads of the highest priority: *)
(* a ready thread gets the CPU, whatever threads of its own or of lower    *)
(* priority do, unless one of higher priority comes up.                    *)
RoundRobin ==
  \A t \in Thread \ {Idle} :
    LET Highest == \A u \in Thread \ {Idle} : Live(u) => priority[u] <= priority[t]
    IN  (status[t] = "READY" /\ Highest) ~> (status[t] = "RUNNING" \/ ~Highest)

(* A lock that is free while threads wait for it is taken by one of them   *)
(* or by another, and does not stay free.                                  *)
FreeLockTaken ==
  \A l \in Lock : (value[l] = 1 /\ waiters[l] # <<>>) ~> value[l] = 0

-----------------------------------------------------------------------------
(* The inductive invariant behind the safety properties above.  Between    *)
(* them its parts say where a thread in each state and at each label can   *)
(* be found.                                                               *)

SchedInv ==
  /\ NoDuplicates(ready_list)
  /\ Idle \notin Range(ready_list)
  /\ \A t \in Thread \ {Idle} : t \in Range(ready_list) <=> status[t] = "READY"
  /\ \A t \in Thread : status[t] = "RUNNING" <=> t = cur
  /\ Live(Idle)

TickInv ==
  /\ irq = "none" => thread_ticks < TIME_SLICE
  /\ irq \in {"block_check", "return"} /\ thread_ticks >= TIME_SLICE => yield_on_return

(* Every blocked thread is waited for, ... *)
BlockedInv ==
  \A t \in Thread \ {Idle} : status[t] = "BLOCKED" =>
    \/ pc[t] = "down" /\ t \in Range(waiters[obj[t]])
    \/ pc[t] = "asleep" /\ t \in blocked_list
    \/ pc[t] = "start" /\ \E u \in Thread : pc[u] = "create" /\ obj[u] = t

(* ... and every list and every creator knows only blocked threads. *)
WaitersInv ==
  \A o \in Object :
    /\ NoDuplicates(waiters[o])
    /\ \A t \in Range(waiters[o]) :
         t # Idle /\ status[t] = "BLOCKED" /\ pc[t] = "down" /\ obj[t] = o

SleepersInv ==
  \A t \in blocked_list : t # Idle /\ status[t] = "BLOCKED" /\ pc[t] = "asleep"

CreatorsInv ==
  \A u \in Thread : pc[u] = "create" =>
    /\ obj[u] \in Thread \ {Idle}
    /\ status[obj[u]] = "BLOCKED" /\ pc[obj[u]] = "start"
    /\ \A w \in Thread : pc[w] = "create" /\ obj[w] = obj[u] => w = u

WaitInv == WaitersInv /\ SleepersInv /\ CreatorsInv

LabelInv ==
  /\ pc[Idle] = "run"
  /\ \A t \in Thread :
       /\ pc[t] = "down" => obj[t] \in Object
       /\ pc[t] \in {"set_holder", "release"} => obj[t] \in Lock /\ holder[obj[t]] = NULL
       /\ pc[t] = "start" => status[t] = "BLOCKED"
       /\ ~Live(t) => pc[t] = "run"
  /\ \A l \in Lock : holder[l] \in Thread => holder[l] # Idle /\ Live(holder[l])

IInv ==
  TypeOK /\ SchedInv /\ TickInv /\ BlockedInv /\ WaitInv /\ LabelInv /\ MutualExclusion
=============================================================================
