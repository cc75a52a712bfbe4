------------------------------ MODULE Console -------------------------------
(***************************************************************************)
(* Kernel output, panic and shutdown: the console lock with its depth      *)
(* counter (lib/kernel/console.c), debug_panic() (lib/kernel/debug.c) and  *)
(* the ways the machine stops (devices/shutdown.c).                        *)
(*                                                                         *)
(* calls[t] is the stack of thread t's calls, its top the last element:    *)
(* "acquire" and "put" are a print before and after acquire_console();     *)
(* "panic" is debug_panic() before it prints, "halt" debug_panic() after;  *)
(* "off" is shutdown_power_off() before its statistics, "cut" after;       *)
(* "reboot" is shutdown_reboot() before its message, "reset" after; "spin" *)
(* is the endless loop at the end of debug_panic().                        *)
(***************************************************************************)
EXTENDS Integers, Sequences, SequencesExt, FiniteSets

CONSTANTS Thread,
          MaxCalls,     \* bound: calls on one thread's stack
          NONE

VARIABLES use_console_lock,     \* is the lock used at all?
          holder,               \* the thread that holds console_lock, or NONE
          console_lock_depth,
          calls,
          panicked,             \* the thread in debug_panic(), or NONE
          level,                \* debug_panic()'s recursion counter
          how,                  \* what shutdown() is to do
          machine               \* "up", "off" or "reset"

vars == <<use_console_lock, holder, console_lock_depth, calls, panicked, level,
          how, machine>>

MaxLevel == 3           \* bound: debug_panic() does the same from 3 on

TopCall(t) == IF calls[t] = <<>> THEN "idle" ELSE Last(calls[t])
Push(t, c) == [calls EXCEPT ![t] = Append(@, c)]
Pop(t) == [calls EXCEPT ![t] = Front(@)]
Become(t, c) == [calls EXCEPT ![t] = Append(Front(@), c)]

(* Once interrupts are off for good, only the thread that panicked runs.   *)
Runs(t) == machine = "up" /\ panicked \in {NONE, t}

(***************************************************************************)
(* Printing                                                                *)
(***************************************************************************)
(* vprintf, puts, putbuf or putchar is called.  A print may begin inside a *)
(* print of the same thread: a timer interrupt in serial_putc() can reach  *)
(* another printf(), as the comment on console_lock_depth shows.  After a  *)
(* panic there are no more interrupts.                                     *)
vprintf(t) ==
  /\ Runs(t) /\ panicked = NONE
  /\ TopCall(t) \in {"idle", "put"}
  /\ Len(calls[t]) < MaxCalls
  /\ calls' = Push(t, "acquire")
  /\ UNCHANGED <<use_console_lock, holder, console_lock_depth, panicked, level, how, machine>>

AcquireNoDepth(t) ==
  /\ Runs(t)
  /\ TopCall(t) = "acquire"
  /\ use_console_lock => holder \in {NONE, t}
  /\ holder' = IF use_console_lock THEN t ELSE holder
  /\ UNCHANGED console_lock_depth
  /\ calls' = Become(t, "put")
  /\ UNCHANGED <<use_console_lock, panicked, level, how, machine>>
acquire_console(t) ==
  /\ Runs(t)
  /\ TopCall(t) = "acquire"
  /\ IF use_console_lock
     THEN \/ /\ holder = t
             /\ console_lock_depth' = console_lock_depth + 1
             /\ UNCHANGED holder
          \/ /\ holder = NONE
             /\ holder' = t
             /\ UNCHANGED console_lock_depth
     ELSE UNCHANGED <<holder, console_lock_depth>>
  /\ calls' = Become(t, "put")
  /\ UNCHANGED <<use_console_lock, panicked, level, how, machine>>

release_console(t) ==
  /\ Runs(t)
  /\ TopCall(t) = "put"
  /\ IF use_console_lock
     THEN IF console_lock_depth > 0
          THEN console_lock_depth' = console_lock_depth - 1 /\ UNCHANGED holder
          ELSE holder' = NONE /\ UNCHANGED console_lock_depth
     ELSE UNCHANGED <<holder, console_lock_depth>>
  /\ calls' = Pop(t)
  /\ UNCHANGED <<use_console_lock, panicked, level, how, machine>>

(* putchar_have_lock()'s assertion.                                        *)
console_locked_by_current_thread(t) == ~use_console_lock \/ holder = t

(***************************************************************************)
(* Panic and shutdown                                                      *)
(***************************************************************************)
(* debug_panic(), from any code of a thread but a wait for the lock, and   *)
(* from its own prints again.                                              *)
PanicKeepsLock(t) ==
  /\ Runs(t)
  /\ level < MaxLevel
  /\ TopCall(t) \in {"idle", "put"} \/ (TopCall(t) = "acquire" /\ ~use_console_lock)
  /\ panicked' = t
  /\ level' = level + 1
  /\ calls' = Push(t, IF level' <= 2 THEN "panic" ELSE "halt")
  /\ UNCHANGED <<use_console_lock, holder, console_lock_depth, how, machine>>
debug_panic(t) ==
  /\ Runs(t)
  /\ level < MaxLevel
  /\ TopCall(t) \in {"idle", "put"} \/ (TopCall(t) = "acquire" /\ ~use_console_lock)
  /\ panicked' = t
  /\ use_console_lock' = FALSE
  /\ level' = level + 1
  /\ calls' = Push(t, IF level' <= 2 THEN "panic" ELSE "halt")
  /\ UNCHANGED <<holder, console_lock_depth, how, machine>>

(* A call that prints and then goes on as `next': the message of a panic,  *)
(* the statistics of a power-off, the message of a reboot.                 *)
Prints(t, call, next) ==
  /\ Runs(t)
  /\ TopCall(t) = call
  /\ calls' = [calls EXCEPT ![t] = Front(@) \o <<next, "acquire">>]
  /\ UNCHANGED <<use_console_lock, holder, console_lock_depth, panicked, level, how, machine>>

PanicMessage(t) == Prints(t, "panic", "halt")
print_stats(t) == Prints(t, "off", "cut")
RebootMessage(t) == Prints(t, "reboot", "reset")

(* shutdown_configure(), from the command line, before other threads run.  *)
shutdown_configure(type) ==
  /\ \A t \in Thread : calls[t] = <<>>
  /\ machine = "up" /\ panicked = NONE /\ how = "none"
  /\ how' = type
  /\ UNCHANGED <<use_console_lock, holder, console_lock_depth, calls, panicked, level, machine>>

(* shutdown(), at the end of a panic or of the command line's actions.     *)
ShutdownCall == CASE how = "power_off" -> "off" [] how = "reboot" -> "reboot"
                  [] OTHER -> "spin"

shutdown(t) ==
  /\ Runs(t)
  /\ TopCall(t) = "halt"
  /\ calls' = Become(t, ShutdownCall)
  /\ UNCHANGED <<use_console_lock, holder, console_lock_depth, panicked, level, how, machine>>

(* The halt system call, from a thread that prints nothing.                *)
halt(t) ==
  /\ Runs(t)
  /\ calls[t] = <<>>
  /\ calls' = Push(t, "off")
  /\ UNCHANGED <<use_console_lock, holder, console_lock_depth, panicked, level, how, machine>>

(* The last step of shutdown_power_off() and shutdown_reboot().            *)
Stop(t) ==
  /\ Runs(t)
  /\ TopCall(t) \in {"cut", "reset"}
  /\ machine' = IF TopCall(t) = "cut" THEN "off" ELSE "reset"
  /\ UNCHANGED <<use_console_lock, holder, console_lock_depth, calls, panicked, level, how>>

(* Ctrl+Alt+Del: keyboard_interrupt() reboots; in an interrupt the console *)
(* lock is not taken.  Interrupts are off after a panic.                   *)
KeyboardReboot ==
  /\ machine = "up" /\ panicked = NONE
  /\ machine' = "reset"
  /\ UNCHANGED <<use_console_lock, holder, console_lock_depth, calls, panicked, level, how>>

Init ==
  /\ use_console_lock = TRUE
  /\ holder = NONE
  /\ console_lock_depth = 0
  /\ calls = [t \in Thread |-> <<>>]
  /\ panicked = NONE
  /\ level = 0
  /\ how = "none"
  /\ machine = "up"

Step(t) ==
  \/ acquire_console(t) \/ release_console(t) \/ PanicMessage(t) \/ print_stats(t)
  \/ RebootMessage(t) \/ shutdown(t) \/ Stop(t)

Next ==
  \/ \E t \in Thread : vprintf(t)
  \/ \E t \in Thread : acquire_console(t)
  \/ \E t \in Thread : release_console(t)
  \/ \E t \in Thread : debug_panic(t)
  \/ \E t \in Thread : PanicMessage(t)
  \/ \E t \in Thread : print_stats(t)
  \/ \E t \in Thread : RebootMessage(t)
  \/ \E type \in {"power_off", "reboot"} : shutdown_configure(type)
  \/ \E t \in Thread : shutdown(t)
  \/ \E t \in Thread : halt(t)
  \/ \E t \in Thread : Stop(t)
  \/ KeyboardReboot

(* A thread that can go on does: the scheduler gives each a turn, and      *)
(* nothing else runs once a thread has panicked.                           *)
Fairness == \A t \in Thread : WF_vars(Step(t))

Spec == Init /\ [][Next]_vars /\ Fairness

(***************************************************************************)
(* Properties                                                              *)
(***************************************************************************)
Printing(t) == {i \in DOMAIN calls[t] : calls[t][i] = "put"}

(* Two threads' output never mixes while the lock is used, the assertion   *)
(* of putchar_have_lock() holds for whoever prints, and the depth counter  *)
(* is the number of prints nested in the holder's first one, so that the   *)
(* lock is let go exactly at the end of the outermost print.               *)
OutputUnmixed ==
  /\ \A t \in Thread : Runs(t) /\ Printing(t) # {} => console_locked_by_current_thread(t)
  /\ use_console_lock =>
       IF holder = NONE
       THEN console_lock_depth = 0 /\ \A t \in Thread : Printing(t) = {}
       ELSE /\ \A t \in Thread \ {holder} : Printing(t) = {}
            /\ Cardinality(Printing(holder)) = console_lock_depth + 1

(* A panic always gets to its end, although the console lock may be held   *)
(* by a thread that will never run again or by the panicking thread        *)
(* itself: the machine stops, or spins when shutdown() has nothing to do.  *)
PanicEnds ==
  (level > 0) ~> (machine # "up" \/ \E t \in Thread : TopCall(t) = "spin")
=============================================================================
