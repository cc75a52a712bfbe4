------------------------------- MODULE Frames -------------------------------
(***************************************************************************)
(* The stack frames by which Pintos saves and restores the processor's     *)
(* registers: interrupt entry and exit (threads/intr-stubs.S), the thread  *)
(* switch (threads/switch.S), the frames thread_create() fakes for a new   *)
(* thread (threads/thread.c) and the interrupt frame start_process() fakes *)
(* for a new process (userprog/process.c).                                 *)
(*                                                                         *)
(* A stack is a sequence of words, its top the first.  A register holds a  *)
(* token that says whose value it is: <<r, t, d>> is what thread t keeps   *)
(* in register r d interrupts deep.  The code only moves these words, so   *)
(* one run with distinct tokens stands for every register content.         *)
(***************************************************************************)
EXTENDS Integers, Sequences, SequencesExt, FiniteSets

CONSTANTS Kernel,       \* the kernel threads
          User,         \* the threads that become user processes
          Vector,       \* the interrupt vectors that occur
          MaxDepth      \* bound: interrupts nested on one stack

VARIABLES regs,         \* the processor's registers
          stack,        \* per thread: its kernel stack
          running,      \* the thread the processor runs
          depth,        \* per thread: interrupts it is in
          seen,         \* per thread: not yet run, at its entry, or going
          handed        \* what the last call was handed: a frame, or arguments

vars == <<regs, stack, running, depth, seen, handed>>

Thread == Kernel \union User

Callee == {"edi", "esi", "ebp", "ebx"}
General == Callee \union {"edx", "ecx", "eax"}
Segment == {"gs", "fs", "es", "ds"}
Hardware == {"eip", "cs", "eflags", "esp", "ss"}
Register == General \union Segment \union Hardware

Zero == <<"zero">>
Own(t, d) == [r \in Register |-> <<r, t, d>>]
Left == <<"left">>

(* Is thread t in user mode?  The processor then changes to the kernel     *)
(* stack and saves esp and ss as well.                                     *)
InUser(t) == t \in User /\ depth[t] = 0 /\ seen[t] = "going"

(***************************************************************************)
(* Interrupt entry                                                         *)
(***************************************************************************)
(* The vectors for which the processor itself pushes an error code.        *)
CpuErrorCode == {8, 10, 11, 12, 13, 14, 17}

(* The vectors whose stub has type REAL.                                   *)
RealStub == {8, 10, 11, 13, 14, 17, 24, 26, 27, 29, 30}

Words(r, names) == [i \in DOMAIN names |-> r[names[i]]]

(* What the processor pushes, top first.                                   *)
CpuPush(v) == (IF v \in CpuErrorCode THEN << <<"error", v>> >> ELSE <<>>)
              \o Words(regs, <<"eip", "cs", "eflags">>)
              \o (IF InUser(running) THEN Words(regs, <<"esp", "ss">>) ELSE <<>>)

(* intrNN_stub: `zero' pushes ebp and 0; `REAL' duplicates the error code  *)
(* and overwrites the original by ebp; both then push the vector number.   *)
intr_stub(v, s) ==
  IF v \in RealStub
  THEN << <<"vec", v>>, s[1], regs["ebp"]>> \o SubSeq(s, 2, Len(s))
  ELSE << <<"vec", v>>, Zero, regs["ebp"]>> \o s

Pushal == <<"edi", "esi", "ebp", "esp", "ebx", "edx", "ecx", "eax">>
EntryShort(s) == Words(regs, Pushal) \o Words(regs, <<"gs", "fs", "es">>) \o s
intr_entry(s) ==
  Words(regs, Pushal) \o Words(regs, <<"gs", "fs", "es", "ds">>) \o s

(* struct intr_frame, as the handler reads it off the top of the stack.    *)
FrameMembers == <<"edi", "esi", "ebp", "esp_dummy", "ebx", "edx", "ecx", "eax",
                  "gs", "fs", "es", "ds", "vec_no", "error_code",
                  "frame_pointer", "eip", "cs", "eflags", "esp", "ss">>
MemberAt(s, m) == LET i == CHOOSE j \in DOMAIN FrameMembers : FrameMembers[j] = m
                  IN IF i <= Len(s) THEN s[i] ELSE Zero

intr_frame(s) == [m \in ToSet(FrameMembers) |-> MemberAt(s, m)]

(* An interrupt: the processor's push, the stub, intr_entry, and the call  *)
(* of intr_handler with the address of the frame.  The handler's code then *)
(* uses the registers.                                                     *)
Interrupt(v) ==
  LET t == running
      entered == intr_entry(intr_stub(v, CpuPush(v) \o stack[t]))
  IN /\ depth[t] < MaxDepth
     /\ seen[t] = "going"
     /\ stack' = [stack EXCEPT ![t] = entered]
     /\ depth' = [depth EXCEPT ![t] = @ + 1]
     /\ handed' = [kind |-> "frame", frame |-> intr_frame(entered), vec |-> v,
                   user |-> InUser(t), of |-> regs]
     /\ regs' = Own(t, depth[t] + 1)
     /\ UNCHANGED <<running, seen>>

(***************************************************************************)
(* Interrupt exit                                                          *)
(***************************************************************************)
(* Pops the words of s into the registers `names', except the stack        *)
(* pointer, which popal skips.                                             *)
Popped(r, s, names) ==
  [x \in Register |->
     IF x \in ToSet(names) \ {"esp"}
     THEN s[CHOOSE i \in DOMAIN names : names[i] = x] ELSE r[x]]

Pop(s, n) == SubSeq(s, n + 1, Len(s))

(* intr_exit: restores the registers, drops vec_no, error_code and         *)
(* frame_pointer; iret pops eip, cs, eflags and, on a return to user mode, *)
(* esp and ss.  `user' is what iret finds in the popped cs.                *)
intr_exit(s, user) ==
  LET pushed == Popped(regs, s, Pushal \o <<"gs", "fs", "es", "ds">>)
      rest == Pop(s, 12 + 3)
      back == [pushed EXCEPT !["eip"] = rest[1], !["cs"] = rest[2], !["eflags"] = rest[3]]
  IN [regs |-> IF user THEN [back EXCEPT !["esp"] = rest[4], !["ss"] = rest[5]] ELSE back,
      stack |-> Pop(rest, IF user THEN 5 ELSE 3)]

InterruptReturn ==
  LET t == running
      out == intr_exit(stack[t], t \in User /\ depth[t] = 1)
  IN /\ depth[t] > 0
     /\ seen[t] = "going"
     /\ depth' = [depth EXCEPT ![t] = @ - 1]
     /\ stack' = [stack EXCEPT ![t] = out.stack]
     (* In the kernel the stack pointer is where the pops left it; in user *)
     (* mode it is the word that was popped.                               *)
     /\ regs' = IF t \in User /\ depth[t] = 1 THEN out.regs
                ELSE [out.regs EXCEPT !["esp"] = <<"esp", t, depth[t] - 1>>,
                                      !["ss"] = <<"ss", t, depth[t] - 1>>]
     /\ handed' = [kind |-> "none"]
     /\ UNCHANGED <<running, seen>>

(***************************************************************************)
(* The thread switch                                                       *)
(***************************************************************************)
(* schedule() calls switch_threads (cur, next): the arguments and the      *)
(* return address go on cur's stack, the callee-saved registers above      *)
(* them; the stack pointer moves to next's stack, whose registers are      *)
(* popped, and the return address found there is jumped to.                *)
SwitchOrder == <<"edi", "esi", "ebp", "ebx">>

SwitchSave(cur, next) ==
  Words(regs, SwitchOrder) \o << <<"code", "schedule">>, <<"thread", cur>>,
                                 <<"thread", next>> >> \o stack[cur]

(* Where the switch returns to.  In schedule() the caller drops the two    *)
(* arguments; in switch_entry() they are dropped, thread_schedule_tail is  *)
(* called with eax, and kernel_thread is returned to with its frame on the *)
(* stack.                                                                  *)
AfterSwitch(next, cur, s) ==
  LET ret == s[5]
      under == Pop(s, 7)
  IN IF ret = <<"code", "schedule">>
     THEN [stack |-> under, handed |-> [kind |-> "none"]]
     ELSE [stack |-> Pop(under, 1),
           handed |-> [kind |-> "entry", thread |-> next, prev |-> cur,
                       at |-> under[1], args |-> SubSeq(under, 3, 4)]]

switch_threads(next) ==
  LET cur == running
      after == AfterSwitch(next, cur, stack[next])
  IN /\ next # cur
     /\ IF cur \in User THEN depth[cur] > 0 \/ seen[cur] = "entry" ELSE TRUE
     /\ running' = next
     /\ stack' = [stack EXCEPT ![cur] = SwitchSave(cur, next), ![next] = after.stack]
     /\ handed' = after.handed
     /\ seen' = [seen EXCEPT ![next] = IF @ = "new" THEN "entry" ELSE @]
     (* What is not callee-saved is left over from the other thread.       *)
     /\ regs' = [Popped([r \in Register |-> Left], stack[next], SwitchOrder)
                   EXCEPT !["esp"] = <<"esp", next, depth[next]>>,
                          !["ss"] = <<"ss", next, depth[next]>>]
     /\ UNCHANGED depth

(* Kernel code goes on and loads its own values into the registers the     *)
(* switch does not preserve; a kernel thread at its entry starts going.    *)
Compute ==
  LET t == running
  IN /\ t \in Kernel \/ depth[t] > 0
     /\ regs # Own(t, depth[t])
     /\ seen' = [seen EXCEPT ![t] = "going"]
     /\ regs' = [r \in Register |->
                   IF r \in Callee /\ seen[t] = "going" THEN regs[r]
                   ELSE Own(t, depth[t])[r]]
     /\ handed' = [kind |-> "none"]
     /\ UNCHANGED <<stack, running, depth>>

(***************************************************************************)
(* New threads and new processes                                           *)
(***************************************************************************)
(* thread_create: the frames for kernel_thread(), switch_entry() and       *)
(* switch_threads(), built by alloc_frame().  palloc zeroed the page.      *)
NewStack(t) ==
  <<Zero, Zero, Zero, Zero, <<"code", "switch_entry">>, Zero, Zero>>
  \o << <<"code", "kernel_thread">> >>
  \o <<Zero, <<"function", t>>, <<"aux", t>> >>

(* start_process: an intr_frame of zeroes with the user segments, the      *)
(* flags, and the eip and esp load() found; esp is pointed at it and       *)
(* intr_exit entered.                                                      *)
ProcessFrame(t) ==
  [i \in DOMAIN FrameMembers |->
     LET m == FrameMembers[i]
     IN CASE m \in Segment \union {"ss"} -> <<"SEL_UDSEG">>
          [] m = "cs" -> <<"SEL_UCSEG">>
          [] m = "eflags" -> <<"FLAG_IF", "FLAG_MBS">>
          [] m = "eip" -> <<"start", t>>
          [] m = "esp" -> <<"user_stack", t>>
          [] OTHER -> Zero]

start_process ==
  LET t == running
      out == intr_exit(ProcessFrame(t), TRUE)
  IN /\ t \in User
     /\ seen[t] = "entry"
     (* The thread leaves its stack for good: tss_update() has the next    *)
     (* interrupt begin at the end of the thread's page again.             *)
     /\ stack' = [stack EXCEPT ![t] = <<>>]
     /\ handed' = [kind |-> "start", regs |-> out.regs]
     /\ seen' = [seen EXCEPT ![t] = "started"]
     /\ regs' = out.regs
     /\ UNCHANGED <<running, depth>>

(* The program runs and keeps its own values in the registers.             *)
UserComputes ==
  /\ seen[running] = "started"
  /\ seen' = [seen EXCEPT ![running] = "going"]
  /\ regs' = Own(running, 0)
  /\ handed' = [kind |-> "none"]
  /\ UNCHANGED <<stack, running, depth>>

First == CHOOSE t \in Kernel : TRUE

Init ==
  /\ running = First
  /\ regs = Own(First, 0)
  /\ stack = [t \in Thread |-> IF t = First THEN <<>> ELSE NewStack(t)]
  /\ depth = [t \in Thread |-> 0]
  /\ seen = [t \in Thread |-> IF t = First THEN "going" ELSE "new"]
  /\ handed = [kind |-> "none"]

Next ==
  \/ \E v \in Vector : Interrupt(v)
  \/ InterruptReturn
  \/ \E t \in Thread : switch_threads(t)
  \/ Compute
  \/ start_process
  \/ UserComputes

Spec == Init /\ [][Next]_vars

(***************************************************************************)
(* Properties                                                              *)
(***************************************************************************)
(* A thread finds its own values in its registers whatever interrupts and  *)
(* switches came between: the callee-saved ones in the kernel, where a     *)
(* switch may have been called, and every register, stack pointer and      *)
(* flags included, in a user program (intr-stubs.S, switch.S).             *)
RegistersKept ==
  /\ seen[running] = "going" =>
       \A r \in Callee : regs[r] = <<r, running, depth[running]>>
  /\ InUser(running) => regs = Own(running, 0)

(* What the frames hand over is right: an interrupt handler reads in       *)
(* struct intr_frame the registers of the interrupted code, its vector,    *)
(* and an error code that is the processor's or 0; a thread that runs for  *)
(* the first time calls kernel_thread with its function and argument; a    *)
(* process starts at its entry point and on its own stack with the user    *)
(* segments and interrupts on.                                             *)
FramesTruthful ==
  CASE handed.kind = "frame" ->
         LET f == handed.frame
         IN /\ f["vec_no"] = <<"vec", handed.vec>>
            /\ f["error_code"] = IF handed.vec \in CpuErrorCode
                                 THEN <<"error", handed.vec>> ELSE Zero
            /\ f["frame_pointer"] = handed.of["ebp"]
            /\ \A r \in General \union Segment \union {"eip", "cs", "eflags"} :
                 f[r] = handed.of[r]
            /\ handed.user => f["esp"] = handed.of["esp"] /\ f["ss"] = handed.of["ss"]
    [] handed.kind = "entry" ->
         /\ handed.at = <<"code", "kernel_thread">>
         /\ handed.args = << <<"function", handed.thread>>, <<"aux", handed.thread>> >>
    [] handed.kind = "start" ->
         /\ handed.regs["eip"] = <<"start", running>>
         /\ handed.regs["esp"] = <<"user_stack", running>>
         /\ handed.regs["cs"] = <<"SEL_UCSEG">>
         /\ \A r \in Segment \union {"ss"} : handed.regs[r] = <<"SEL_UDSEG">>
         /\ handed.regs["eflags"] = <<"FLAG_IF", "FLAG_MBS">>
    [] OTHER -> TRUE
=============================================================================
