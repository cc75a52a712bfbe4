---------------------------- MODULE MCServices -----------------------------
(***************************************************************************)
(* The small stateful services of the kernel, model-checked side by side:  *)
(* a behaviour runs one of them, picked in the initial state as `unit',    *)
(* and leaves the variables of the others alone.                           *)
(***************************************************************************)
EXTENDS Integers, Sequences, FiniteSets

CONSTANTS Worker, NONE

VARIABLES
  unit,
  used, arena, free_list, lock, pool_lock, held, pc,
  pd, pt, active, tlb, free, given,
  cur, level, in_external_intr, yield_on_return, frames, resume, pending, in_service, cr2,
  regs, stack, running, depth, seen, handed,
  use_console_lock, holder, console_lock_depth, calls, panicked, console_level, how, machine,
  monitor_holder, waiters, value, monitor_pc, buf, done,
  ticks, state, start, asked, wakeup, since, slept,
  dev, fs, ext, app, op, appended, boots, archive_state,
  tool, at, i, pipes, fds, stdin, stdout, line, closed, received, child, notice, sent, began, status, timer

H == INSTANCE Heap WITH Thread <- Worker, PageCnt <- 3, PGSIZE <- 8, ARENA <- 4, MinBlock <- 2,
       Request <- {1, 6}, MaxHeld <- 2, NONE <- NONE
P == INSTANCE PageDir WITH Proc <- {"p", "q"}, UserDirs <- 1, Entries <- 1, Pool <- 1 .. 3,
       Frame <- {"f", "g"}, NULL <- NONE
I == INSTANCE Interrupts WITH Thread <- Worker, Irq <- {32, 39}, Addr <- {1, 2}, MaxDepth <- 2
F == INSTANCE Frames WITH Kernel <- {"k1"}, User <- {"u1"}, Vector <- {14, 32}, MaxDepth <- 2
C == INSTANCE Console WITH Thread <- Worker, MaxCalls <- 3, NONE <- NONE, level <-
       console_level
M == INSTANCE Monitor WITH Producer <- {"p1", "p2"}, Consumer <- {"c1", "c2"}, BUF_SIZE <- 1,
       Calls <- 2, NONE <- NONE, holder <- monitor_holder, pc <- monitor_pc
A == INSTANCE Alarm WITH Thread <- Worker, Durations <- {-1, 0, 2}, MaxTicks <- 4, NONE <- NONE
R == INSTANCE Archive WITH File <- {"f", "g"}, Sectors <- 5, MaxLength <- 2, MaxBoots <- 1,
       NONE <- NONE, state <- archive_state
L == INSTANCE Relay WITH BUFSIZ <- 2, Output <- 3, Input <- <<"x", "y">>

heapVars == <<used, arena, free_list, lock, pool_lock, held, pc>>
pagedirVars == <<pd, pt, active, tlb, free, given>>
interruptsVars == <<cur, level, in_external_intr, yield_on_return, frames, resume, pending, in_service, cr2>>
framesVars == <<regs, stack, running, depth, seen, handed>>
consoleVars == <<use_console_lock, holder, console_lock_depth, calls, panicked, console_level, how, machine>>
monitorVars == <<monitor_holder, waiters, value, monitor_pc, buf, done>>
alarmVars == <<ticks, state, start, asked, wakeup, since, slept>>
archiveVars == <<dev, fs, ext, app, op, appended, boots, archive_state>>
relayVars == <<tool, at, i, pipes, fds, stdin, stdout, line, closed, received, child, notice, sent, began, status, timer>>
vars == <<unit, heapVars, pagedirVars, interruptsVars, framesVars, consoleVars, monitorVars, alarmVars, archiveVars,
          relayVars>>

Init ==
  /\ unit \in {"heap", "pagedir", "interrupts", "frames", "console", "monitor", "alarm", "archive",
              "relay"}
  /\ H!Init
  /\ P!Init
  /\ I!Init
  /\ F!Init
  /\ C!Init
  /\ M!Init
  /\ A!Init
  /\ R!Init
  /\ L!Init
  /\ unit # "relay" => tool = "pty"
  /\ unit # "interrupts" => cr2 = 1 /\ cur = CHOOSE t \in Worker : TRUE
  /\ unit # "archive" => R!Parse(dev, 0) = <<>> /\ \A f \in DOMAIN fs : fs[f] = NONE

(* The unit named u takes a step; the others stand still. *)
Only(u) ==
  /\ unit = u
  /\ UNCHANGED unit
  /\ IF u = "heap" THEN TRUE ELSE UNCHANGED heapVars
  /\ IF u = "pagedir" THEN TRUE ELSE UNCHANGED pagedirVars
  /\ IF u = "interrupts" THEN TRUE ELSE UNCHANGED interruptsVars
  /\ IF u = "frames" THEN TRUE ELSE UNCHANGED framesVars
  /\ IF u = "console" THEN TRUE ELSE UNCHANGED consoleVars
  /\ IF u = "monitor" THEN TRUE ELSE UNCHANGED monitorVars
  /\ IF u = "alarm" THEN TRUE ELSE UNCHANGED alarmVars
  /\ IF u = "archive" THEN TRUE ELSE UNCHANGED archiveVars
  /\ IF u = "relay" THEN TRUE ELSE UNCHANGED relayVars

Next ==
  \/ Only("heap") /\ H!Next
  \/ Only("pagedir") /\ P!Next
  \/ Only("interrupts") /\ I!Next
  \/ Only("frames") /\ F!Next
  \/ Only("console") /\ C!Next
  \/ Only("monitor") /\ M!Next
  \/ Only("alarm") /\ A!Next
  \/ Only("archive") /\ R!Next
  \/ Only("relay") /\ L!Next

(* The threads of the console and of the monitor and the relay get their   *)
(* turns.                                                                  *)
Fairness ==
  /\ \A t \in Worker : WF_vars(Only("console") /\ C!Step(t))
  /\ \A t \in M!Thread : WF_vars(Only("monitor") /\ M!Step(t))
  /\ WF_vars(Only("relay") /\ L!Step)

Spec == Init /\ [][Next]_vars /\ Fairness

-----------------------------------------------------------------------------
(* The properties of the units, which their modules explain in full. *)

(* malloc.c and palloc.c, with several threads in malloc, realloc and free *)
(* and bits of the used map cleared without its lock: no byte is given out *)
(* twice and no page is lost.                                              *)
HeapSound == unit = "heap" => H!BlocksDisjoint /\ H!NoPageLost
(* pagedir.c: whatever the processor still holds in its lookaside buffer   *)
(* agrees with the tables, and no table or frame is lost or shared.        *)
TranslationsSound == unit = "pagedir" => P!TlbCoherent /\ P!PagesAccounted
(* interrupt.c and the assembly in intr-stubs.S and switch.S: external     *)
(* handlers never nest and are acknowledged though threads are switched    *)
(* under them, a fault's handler sees its own address, and a thread gets   *)
(* every register back through interrupts, faults and switches.            *)
EntriesSound ==
  /\ unit = "interrupts" => I!OneExternal /\ I!OwnFault
  /\ unit = "frames" => F!RegistersKept /\ F!FramesTruthful
(* console.c: the output of two calls is never mixed while the console's   *)
(* lock is in use, also when printf is called inside printf.  squish-pty.c *)
(* and squish-unix.c pass on every byte once and in order.                 *)
OutputFaithful ==
  /\ unit = "console" => C!OutputUnmixed
  /\ unit = "relay" => L!RelayFaithful /\ L!NothingLeft
(* synch.c and timer.c: a signal wakes a thread that waits for it, and a   *)
(* sleeper wakes neither before its time nor after the tick it is due on.  *)
WaitersWoken ==
  /\ unit = "monitor" => M!SignalsKept
  /\ unit = "alarm" => A!AlarmOnTime
(* debug.c, shutdown.c and synch.c: a panic ends with the machine stopped  *)
(* wherever it strikes, every call on a monitor returns, and squish-pty.c  *)
(* and squish-unix.c end with their child.                                 *)
CallsEnd == C!PanicEnds /\ (unit = "monitor" => M!CallsReturn) /\ L!RelayEnds
(* fsutil.c: the scratch device holds a readable archive of the files that *)
(* were appended, and extracting gives their contents, also after a crash. *)
ArchiveFaithful == []R!ArchiveReadable /\ R!ExtractFaithful
=============================================================================
