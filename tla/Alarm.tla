------------------------------- MODULE Alarm --------------------------------
(***************************************************************************)
(* The alarm clock: timer_sleep() of devices/timer.c, the list of sleeping *)
(* threads of threads/thread.c and the timer interrupt that wakes them.    *)
(* timer_sleep() reads the clock with interrupts on; the interrupt can     *)
(* come between that and the blocking with interrupts off.                 *)
(***************************************************************************)
EXTENDS Integers, FiniteSets

CONSTANTS Thread,
          Durations,    \* bound: the arguments of timer_sleep()
          MaxTicks,     \* bound: the timer interrupts
          NONE

VARIABLES ticks,        \* since the system booted
          state,        \* per thread: "running", "calling" or "blocked"
          start,        \* per thread: the clock when it called
          asked,        \* per thread: the argument of the call
          wakeup,       \* per thread: the tick to be woken at
          since,        \* per thread: the clock when it last blocked
          slept         \* per thread: the ticks of its last call, or NONE

vars == <<ticks, state, start, asked, wakeup, since, slept>>

(* timer_sleep(): the clock is read, and a negative argument returns.      *)
timer_sleep(t) ==
  /\ state[t] = "running" /\ ticks < MaxTicks
  /\ \E d \in Durations :
       /\ asked' = [asked EXCEPT ![t] = d]
       /\ start' = [start EXCEPT ![t] = ticks]
       /\ IF d < 0 THEN /\ slept' = [slept EXCEPT ![t] = 0]
                        /\ UNCHANGED state
          ELSE /\ state' = [state EXCEPT ![t] = "calling"]
               /\ slept' = [slept EXCEPT ![t] = NONE]
  /\ UNCHANGED <<ticks, wakeup, since>>

(* thread_block_with_time(): with interrupts off the thread is put on the  *)
(* list with its wake-up tick.                                             *)
thread_block_with_time(t) ==
  /\ state[t] = "calling"
  /\ wakeup' = [wakeup EXCEPT ![t] = start[t] + asked[t]]
  /\ since' = [since EXCEPT ![t] = ticks]
  /\ state' = [state EXCEPT ![t] = "blocked"]
  /\ UNCHANGED <<ticks, start, asked, slept>>

(* block_check(): every sleeper whose tick has come is unblocked.          *)
block_check(now) == {t \in Thread : state[t] = "blocked" /\ wakeup[t] <= now}

(* timer_interrupt(): the tick is counted, then thread_tick() runs         *)
(* block_check().                                                          *)
timer_interrupt ==
  /\ ticks < MaxTicks
  /\ ticks' = ticks + 1
  /\ LET woken == block_check(ticks + 1)
     IN /\ state' = [t \in Thread |-> IF t \in woken THEN "running" ELSE state[t]]
        /\ slept' = [t \in Thread |-> IF t \in woken THEN ticks + 1 - start[t] ELSE slept[t]]
  /\ UNCHANGED <<start, asked, wakeup, since>>

Init ==
  /\ ticks = 0
  /\ state = [t \in Thread |-> "running"]
  /\ start = [t \in Thread |-> 0]
  /\ asked = [t \in Thread |-> 0]
  /\ wakeup = [t \in Thread |-> 0]
  /\ since = [t \in Thread |-> 0]
  /\ slept = [t \in Thread |-> NONE]

Next ==
  \/ \E t \in Thread : timer_sleep(t)
  \/ \E t \in Thread : thread_block_with_time(t)
  \/ timer_interrupt

-----------------------------------------------------------------------------
(* A sleeper wakes at the first tick that is neither before its time nor   *)
(* before it was on the list: never early, and late only when interrupts   *)
(* kept timer_sleep() from blocking in time (timer.c:90-107); one whose    *)
(* tick has passed when it blocks is not forgotten.                        *)
AlarmOnTime ==
  \A t \in Thread :
    /\ state[t] = "blocked" => ticks < wakeup[t] \/ ticks = since[t]
    /\ slept[t] # NONE /\ asked[t] >= 0 =>
         start[t] + slept[t] = IF wakeup[t] > since[t] THEN wakeup[t] ELSE since[t] + 1
=============================================================================
